----------------------------- MODULE MCScheduler -----------------------------
(* Instances of Scheduler for TLC: a main coroutine and a few others.         *)
EXTENDS Scheduler, TLC

CONSTANT Few  \* the coroutines that the disorderly program creates

\* Only the main coroutine calls wait_all; coroutines that wait may be resumed
\* by hand.
Interrupting == [created |-> Coroutines, waiters |-> {Main}, interrupts |-> TRUE,
                 crossResume |-> FALSE, handlers |-> FALSE]

\* Everybody calls wait_all; coroutines below may be resumed, and there is a
\* deadlock handler.
Disorderly == [created |-> Few, waiters |-> Coroutines, interrupts |-> FALSE,
               crossResume |-> TRUE, handlers |-> TRUE]

\* Everybody calls wait_all, and nothing else is out of the ordinary.
EverybodyWaits == [created |-> Few, waiters |-> Coroutines, interrupts |-> FALSE,
                   crossResume |-> FALSE, handlers |-> FALSE]

OrderlyAndNot == {Interrupting, Disorderly}
AllWaiting == {EverybodyWaits}

\* All coroutines but the main one are interchangeable (for safety only).
Symmetry == Permutations(Coroutines \ {Main})
=============================================================================
