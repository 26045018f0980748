-------------------------------- MODULE Queues --------------------------------
(***************************************************************************)
(* The queues of libcat (cat_queue.h), as sequences, and the stack of the  *)
(* coroutines that control can return to.  Both hold anybody at most once. *)
(* Behind them, the parts of a sequence that a receiver goes through.      *)
(***************************************************************************)
EXTENDS Naturals, Sequences, FiniteSets, SequencesExt

\* A wrong Without that leaves the node in its queue, kept to show that
\* WaitersAreQueued of Channel.tla can fail.
WithoutNothing(queue, x) == queue

\* cat_queue_remove() of the node of x, wherever it is.
Without(queue, x) ==
    IF x \in ToSet(queue)
      THEN RemoveAt(queue, CHOOSE i \in DOMAIN queue : queue[i] = x)
      ELSE queue

\* What is in S stays in its queue and in its order: cat_queue_remove() of
\* everybody else.
Keeping(queue, S) ==
    LET kept == {i \in DOMAIN queue : queue[i] \in S}
        At(k) == CHOOSE i \in kept : Cardinality({j \in kept : j < i}) = k - 1
    IN  [k \in 1..Cardinality(kept) |-> queue[At(k)]]

\* What is left of q after the first n.
After(q, n) == SubSeq(q, n + 1, Len(q))

\* The positions after a up to b.
Positions(a, b) == [i \in 1..(b - a) |-> a + i]
=============================================================================
