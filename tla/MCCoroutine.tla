----------------------------- MODULE MCCoroutine -----------------------------
(* Instances of Coroutine for TLC: the main coroutine and a few structures    *)
(* that can become coroutines or the scheduler, be freed and be used again.   *)
EXTENDS Coroutine, TLC

\* All structures but the one of the main coroutine are interchangeable.
Symmetry == Permutations(Coroutines \ {Main})
=============================================================================
