---------------------------- MODULE MCPhpCoroutine ----------------------------
(* Instances of PhpCoroutine for TLC: a main coroutine and a few others.      *)
EXTENDS PhpCoroutine, TLC

\* All coroutines but the main one are interchangeable (for safety only).
Symmetry == Permutations(Coroutines \ {Main})
=============================================================================
