------------------------------- MODULE MCSocket -------------------------------
(* Instances of Socket for TLC.                                               *)
EXTENDS Socket, TLC

NoMisuse == {}

\* Sockets, internal sockets and coroutines are interchangeable (for safety only).
Symmetry == Permutations(Sockets) \cup Permutations(Internals)
            \cup Permutations(Coroutines)
=============================================================================
