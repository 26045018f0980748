------------------------------ MODULE CallStack ------------------------------
(***************************************************************************)
(* What the coroutine switching core promises to its callers: control      *)
(* behaves like a call stack whose frames can be pulled out and pushed     *)
(* again.  Resuming a coroutine puts it on top, wherever it was; leaving   *)
(* (a yield, or the end of its function) uncovers the coroutine below it;  *)
(* and when nothing lies below, control falls back to the scheduler.       *)
(* Coroutine.tla implements this with the intrusive previous/next links of *)
(* cat_coroutine.c.                                                        *)
(***************************************************************************)
EXTENDS Naturals, Sequences, SequencesExt, Queues

CONSTANTS Coroutines, Main, NoCo,
          SchedulerExposed  \* whether callers may enter the scheduler by hand

VARIABLES stack,      \* the coroutines that control can return to, top last
          parked,     \* live coroutines that are not on the stack
          scheduler   \* the coroutine that control falls back to, or NoCo

vars == <<stack, parked, scheduler>>

OnStack == ToSet(stack)
Top == Last(stack)

Init ==
    /\ stack = <<Main>>
    /\ parked = {}
    /\ scheduler = NoCo

\* A coroutine comes into being off the stack, or disappears from there.
Spawn(c) ==
    /\ c \notin OnStack \cup parked
    /\ parked' = parked \cup {c}
    /\ UNCHANGED <<stack, scheduler>>

Discard(c) ==
    /\ c \in parked \ {scheduler}
    /\ parked' = parked \ {c}
    /\ UNCHANGED <<stack, scheduler>>

\* The coroutine on top gives control to c, which ends up on top.
Enter(c) ==
    /\ c \in (OnStack \cup parked) \ {Top}
    /\ c = scheduler => SchedulerExposed
    /\ stack' = Append(Without(stack, c), c)
    /\ parked' = parked \ {c}
    /\ UNCHANGED scheduler

\* The coroutine on top gives control back to the one below it, or to the
\* scheduler.  It stays parked, or it is gone for good.
Back(rest) ==
    /\ Top # scheduler
    /\ IF Len(stack) > 1
         THEN stack' = Front(stack) /\ parked' = rest
         ELSE /\ scheduler \in parked
              /\ stack' = <<scheduler>>
              /\ parked' = rest \ {scheduler}
    /\ UNCHANGED scheduler

Leave == Back(parked \cup {Top})
End   == Top # Main /\ Back(parked)

\* A scheduler appears, parked.  It only goes when the main coroutine has
\* control, or has given it to the scheduler for that purpose.
Install(c) ==
    /\ scheduler = NoCo
    /\ c \notin OnStack \cup parked
    /\ scheduler' = c
    /\ parked' = parked \cup {c}
    /\ UNCHANGED stack

Uninstall ==
    /\ scheduler # NoCo
    /\ stack' = Without(stack, scheduler)
    /\ stack' # <<>> /\ Last(stack') = Main
    /\ parked' = parked \ {scheduler}
    /\ scheduler' = NoCo

Next ==
    \/ \E c \in Coroutines : Spawn(c) \/ Discard(c) \/ Enter(c) \/ Install(c)
    \/ Leave \/ End \/ Uninstall

Spec == Init /\ [][Next]_vars
=============================================================================
