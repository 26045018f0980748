----------------------------- MODULE FifoChannel -----------------------------
(***************************************************************************)
(* What a channel promises to the coroutines that use it: a bounded first  *)
(* in first out buffer, or a rendezvous when its capacity is zero.  Every  *)
(* call of push and pop ends once; one that reports success has moved one  *)
(* item, one that reports failure has moved none.  A new push finds no     *)
(* room in a closed channel.  Who waits, in which queue and who wakes whom *)
(* is the business of Channel.tla, which implements this.                  *)
(***************************************************************************)
EXTENDS Naturals, Sequences

CONSTANTS Coroutines, Values, Capacities, NoItem

VARIABLES capacity, \* how many items it can hold, from its creation on
          buffer,   \* the items accepted and not yet delivered
          open,     \* whether close has been called
          pending,  \* the call each coroutine is in: "none", "push", "pop", ...
          item,     \* the item being pushed, or the item last popped
          outcome   \* how the last call ended: "none", "ok", "failed"

vars == <<capacity, buffer, open, pending, item, outcome>>

Init ==
    /\ capacity \in Capacities
    /\ buffer = <<>>
    /\ open = TRUE
    /\ pending = [c \in Coroutines |-> "none"]
    /\ item = [c \in Coroutines |-> NoItem]
    /\ outcome = [c \in Coroutines |-> "none"]

Begin(c, op, v) ==
    /\ pending[c] = "none"
    /\ pending' = [pending EXCEPT ![c] = op]
    /\ item' = [item EXCEPT ![c] = v]
    /\ outcome' = [outcome EXCEPT ![c] = "none"]

End(c, result, v) ==
    /\ pending' = [pending EXCEPT ![c] = "none"]
    /\ item' = [item EXCEPT ![c] = v]
    /\ outcome' = [outcome EXCEPT ![c] = result]

BeginPush(c, v) == open /\ Begin(c, "push", v) /\ UNCHANGED <<buffer, open>>

BeginPop(c) == Begin(c, "pop", NoItem) /\ UNCHANGED <<buffer, open>>

\* A pushed item is accepted when there is room.  The call has been waiting, or
\* it begins and ends at once, for which the channel must be open.
Accept(c, v) ==
    /\ \/ pending[c] = "push" /\ item[c] = v
       \/ pending[c] = "none" /\ open
    /\ Len(buffer) < capacity
    /\ buffer' = Append(buffer, v)
    /\ End(c, "ok", NoItem)
    /\ UNCHANGED open

\* The oldest item is delivered.
Deliver(c) ==
    /\ pending[c] \in {"none", "pop"}
    /\ buffer # <<>>
    /\ buffer' = Tail(buffer)
    /\ End(c, "ok", Head(buffer))
    /\ UNCHANGED open

\* Without a buffer, a push and a pop end together.
Rendezvous(p, c) ==
    /\ capacity = 0
    /\ open
    /\ pending[p] = "push"
    /\ pending[c] = "pop"
    /\ pending' = [pending EXCEPT ![p] = "none", ![c] = "none"]
    /\ item' = [item EXCEPT ![p] = NoItem, ![c] = item[p]]
    /\ outcome' = [outcome EXCEPT ![p] = "ok", ![c] = "ok"]
    /\ UNCHANGED <<buffer, open>>

\* A call fails: the channel is closed, it was cancelled, or it timed out.
Fail(c) == End(c, "failed", NoItem) /\ UNCHANGED <<buffer, open>>

\* Closing takes effect at once, though the call lasts until all are woken.
Close(c) ==
    /\ open
    /\ open' = FALSE
    /\ \/ Begin(c, "close", NoItem)
       \/ pending[c] = "none" /\ End(c, "ok", NoItem)
    /\ UNCHANGED buffer

EndClose(c) ==
    /\ pending[c] = "close"
    /\ End(c, "ok", NoItem)
    /\ UNCHANGED <<buffer, open>>

\* Nobody uses the channel any more and what it still holds is destroyed.
Cleanup ==
    /\ \A c \in Coroutines : pending[c] = "none"
    /\ open' = FALSE
    /\ buffer' = <<>>
    /\ UNCHANGED <<pending, item, outcome>>

Operation ==
    \/ \E c \in Coroutines, v \in Values : BeginPush(c, v) \/ Accept(c, v)
    \/ \E c \in Coroutines :
          BeginPop(c) \/ Deliver(c) \/ Fail(c) \/ Close(c) \/ EndClose(c)
    \/ \E p, c \in Coroutines : Rendezvous(p, c)
    \/ Cleanup

Next == Operation /\ UNCHANGED capacity

Spec == Init /\ [][Next]_vars
=============================================================================
