------------------------------ MODULE MCBuffer -------------------------------
(* Instances of Buffer for TLC.                                               *)
EXTENDS Buffer, TLC

CONSTANTS x

\* One literal of two bytes.
MCContent == [l \in Literals |-> <<x, x>>]

\* Careful programs, and programs that share strings while they are read into.
Sharers == {{}, {"share while reading"}}

\* Programs with one misuse.
SharedReaders == {{"read into shared"}}
Serializers == {{"serialize counted"}}

\* Buffers, variables, coroutines and strings are interchangeable.
Symmetry == Permutations(Buffers) \cup Permutations(Variables)
            \cup Permutations(Coroutines) \cup Permutations(Strings)
=============================================================================
