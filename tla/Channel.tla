------------------------------- MODULE Channel -------------------------------
(***************************************************************************)
(* One channel of libcat (cat_channel.c), buffered or unbuffered, and the  *)
(* coroutines that push to it, pop from it and close it.                   *)
(*                                                                         *)
(* A call that cannot go on queues its coroutine and gives up control in   *)
(* cat_time_wait().  Waking is a switch: the waker resumes the waiter,     *)
(* which runs at once, leaves the queue and does what is left of its call  *)
(* before any other code runs.  So while "resumed" names a coroutine, only *)
(* that coroutine can act.  Otherwise any coroutine that is not waiting    *)
(* here may have control: which one is decided by resumes, yields, timers  *)
(* and I/O that the channel knows nothing about.                           *)
(***************************************************************************)
EXTENDS Naturals, Sequences, FiniteSets, SequencesExt, Queues

CONSTANTS Coroutines,  \* the coroutines that use the channel
          Values,      \* the items they push
          Capacities,  \* the capacities a channel may be created with
          NoCo,        \* no coroutine
          NoItem       \* no item

ASSUME ChannelAssumption ==
    /\ Capacities \subseteq Nat
    /\ NoCo \notin Coroutines
    /\ NoItem \notin Values

VARIABLES
    capacity,   \* channel->capacity, which never changes; 0 is unbuffered
    closed,     \* CAT_CHANNEL_FLAG_CLOSED
    length,     \* channel->length
    storage,    \* channel->u.buffered.storage
    producers,  \* channel->producers
    consumers,  \* channel->consumers
    able,       \* channel->u.unbuffered.able: who may, "push" or "pop"
    partner,    \* whose data channel->u.unbuffered.data points to, or NoCo
    resumed,    \* the waiter that was just resumed and has not run yet, or NoCo
    fired,      \* whether its timer did it (cat_time_wait() returns false)
    pending,    \* the call each coroutine is in
    item,       \* the item it pushes, or the one it popped last
    outcome     \* how its last call ended

unbuffered == <<able, partner>>
buffered == <<length, storage>>
calls == <<pending, item, outcome>>
vars == <<capacity, closed, length, storage, producers, consumers, able, partner,
          resumed, fired, pending, item, outcome>>

-----------------------------------------------------------------------------
\* cat_channel_create()
Init ==
    /\ capacity \in Capacities
    /\ closed = FALSE
    /\ length = 0
    /\ storage = <<>>
    /\ producers = <<>>
    /\ consumers = <<>>
    /\ able = "none"
    /\ partner = NoCo
    /\ resumed = NoCo
    /\ fired = FALSE
    /\ pending = [c \in Coroutines |-> "none"]
    /\ item = [c \in Coroutines |-> NoItem]
    /\ outcome = [c \in Coroutines |-> "none"]

IsFull == length = capacity
IsEmpty == length = 0
IsUnbuffered == capacity = 0

\* Free to call the channel.
Free(c) == resumed = NoCo /\ pending[c] = "none"

Begin(c, op, v) ==
    /\ pending' = [pending EXCEPT ![c] = op]
    /\ item' = [item EXCEPT ![c] = v]
    /\ outcome' = [outcome EXCEPT ![c] = "none"]

End(c, result, v) ==
    /\ pending' = [pending EXCEPT ![c] = "none"]
    /\ item' = [item EXCEPT ![c] = v]
    /\ outcome' = [outcome EXCEPT ![c] = result]

\* A wrong NotifyFront that resumes nobody, kept to show that NobodyWaitsInVain
\* can fail.
NotifyNobody(queue) ==
    /\ resumed' = NoCo
    /\ fired' = FALSE

\* cat_coroutine_schedule() of the first waiter, if there is one.
NotifyFront(queue) ==
    /\ resumed' = IF queue = <<>> THEN NoCo ELSE Head(queue)
    /\ fired' = FALSE

-----------------------------------------------------------------------------
\* cat_channel_push()

\* CAT_CHANNEL_CHECK_STATE: the channel is closed.
PushRejected(c) ==
    /\ Free(c)
    /\ closed
    /\ End(c, "failed", NoItem)
    /\ UNCHANGED <<closed, buffered, producers, consumers, unbuffered, resumed, fired>>

\* cat_channel_wait_on() as far as the loss of control.
PushWaits(c, v) ==
    /\ Free(c)
    /\ ~closed
    /\ IF IsUnbuffered THEN consumers = <<>> ELSE IsFull
    /\ producers' = Append(producers, c)
    /\ Begin(c, "push", v)
    /\ UNCHANGED <<closed, buffered, consumers, unbuffered, resumed, fired>>

\* A wrong PushStores that checks the room before the state, kept to show that
\* AcceptAfterCloseOnlyFromWaiters can fail.
PushStoresUnchecked(c, v) ==
    /\ Free(c)
    /\ ~IsUnbuffered /\ ~IsFull
    /\ storage' = Append(storage, v)
    /\ length' = length + 1
    /\ NotifyFront(consumers)
    /\ End(c, "ok", NoItem)
    /\ UNCHANGED <<closed, producers, consumers, unbuffered>>

\* cat_channel_buffered_push() with room: store, then notify one consumer.
PushStores(c, v) ==
    /\ Free(c)
    /\ ~closed
    /\ ~IsUnbuffered /\ ~IsFull
    /\ storage' = Append(storage, v)
    /\ length' = length + 1
    /\ NotifyFront(consumers)
    /\ End(c, "ok", NoItem)
    /\ UNCHANGED <<closed, producers, consumers, unbuffered>>

\* cat_channel_unbuffered_push() with a consumer: offer the data to it.
PushOffers(c, v) ==
    /\ Free(c)
    /\ ~closed
    /\ IsUnbuffered /\ consumers # <<>>
    /\ able' = "pop"
    /\ partner' = c
    /\ NotifyFront(consumers)
    /\ Begin(c, "push", v)
    /\ UNCHANGED <<closed, buffered, producers, consumers>>

-----------------------------------------------------------------------------
\* cat_channel_pop()

\* CAT_CHANNEL_CHECK_STATE_FOR_READING: closed, and nothing left to read.
PopRejected(c) ==
    /\ Free(c)
    /\ closed /\ IsEmpty
    /\ End(c, "failed", NoItem)
    /\ UNCHANGED <<closed, buffered, producers, consumers, unbuffered, resumed, fired>>

PopWaits(c) ==
    /\ Free(c)
    /\ ~closed
    /\ IF IsUnbuffered THEN producers = <<>> ELSE IsEmpty
    /\ consumers' = Append(consumers, c)
    /\ Begin(c, "pop", NoItem)
    /\ UNCHANGED <<closed, buffered, producers, unbuffered, resumed, fired>>

\* cat_channel_buffered_pop() with data: take it, then notify one producer.
PopTakes(c) ==
    /\ Free(c)
    /\ ~IsUnbuffered /\ ~IsEmpty
    /\ storage' = Tail(storage)
    /\ length' = length - 1
    /\ NotifyFront(producers)
    /\ End(c, "ok", Head(storage))
    /\ UNCHANGED <<closed, producers, consumers, unbuffered>>

\* A wrong PopAsks that offers instead of asking, kept to show that
\* RendezvousIsPaired can fail.
PopOffers(c) ==
    /\ Free(c)
    /\ ~closed
    /\ IsUnbuffered /\ producers # <<>>
    /\ able' = "pop"
    /\ partner' = c
    /\ NotifyFront(producers)
    /\ Begin(c, "pop", NoItem)
    /\ UNCHANGED <<closed, buffered, producers, consumers>>

\* cat_channel_unbuffered_pop() with a producer: ask it for the data.
PopAsks(c) ==
    /\ Free(c)
    /\ ~closed
    /\ IsUnbuffered /\ producers # <<>>
    /\ able' = "push"
    /\ partner' = c
    /\ NotifyFront(producers)
    /\ Begin(c, "pop", NoItem)
    /\ UNCHANGED <<closed, buffered, producers, consumers>>

-----------------------------------------------------------------------------
\* A waiter is resumed by something else than the channel: another coroutine
\* (which cancels the call) or the timer of its timeout.
Waiters == ToSet(producers) \cup ToSet(consumers)

Cancel(c) ==
    /\ resumed = NoCo
    /\ c \in Waiters
    /\ resumed' = c
    /\ fired' = FALSE
    /\ UNCHANGED <<closed, buffered, producers, consumers, unbuffered, calls>>

Timeout(c) ==
    /\ resumed = NoCo
    /\ c \in Waiters
    /\ resumed' = c
    /\ fired' = TRUE
    /\ UNCHANGED <<closed, buffered, producers, consumers, unbuffered, calls>>

\* The rest of cat_channel_wait_on() and of the call in a producer that was
\* resumed: it leaves the queue, then either its timer fired, or it can push,
\* or it was cancelled.  A wait whose yield is refused at once (switching is
\* denied) is a wait followed by a timeout.
ProducerRuns(c) ==
    /\ resumed = c
    /\ pending[c] = "push"
    /\ producers' = Without(producers, c)
    /\ resumed' = NoCo
    /\ fired' = FALSE
    /\ \/ /\ fired \/ (IF IsUnbuffered THEN able # "push" ELSE IsFull)
          /\ End(c, "failed", NoItem)
          /\ UNCHANGED <<buffered, unbuffered>>
       \/ /\ ~fired
          /\ ~IsUnbuffered /\ ~IsFull
          /\ storage' = Append(storage, item[c])
          /\ length' = length + 1
          /\ End(c, "ok", NoItem)
          /\ UNCHANGED unbuffered
       \/ /\ ~fired
          /\ IsUnbuffered /\ able = "push"
          /\ able' = "none"
          /\ partner' = NoCo
          /\ pending' = [pending EXCEPT ![c] = "none", ![partner] = "none"]
          /\ item' = [item EXCEPT ![c] = NoItem, ![partner] = item[c]]
          /\ outcome' = [outcome EXCEPT ![c] = "ok", ![partner] = "ok"]
          /\ UNCHANGED buffered
    /\ UNCHANGED <<closed, consumers>>

\* A wrong ConsumerRuns that reports success to a consumer that was cancelled,
\* kept to show that ImplementsFifoChannel can fail.
ConsumerRunsTrusting(c) ==
    /\ resumed = c
    /\ pending[c] = "pop"
    /\ consumers' = Without(consumers, c)
    /\ resumed' = NoCo
    /\ fired' = FALSE
    /\ End(c, IF fired THEN "failed" ELSE "ok", NoItem)
    /\ able' = "none"
    /\ partner' = NoCo
    /\ UNCHANGED <<closed, buffered, producers>>

\* The same for a consumer.
ConsumerRuns(c) ==
    /\ resumed = c
    /\ pending[c] = "pop"
    /\ consumers' = Without(consumers, c)
    /\ resumed' = NoCo
    /\ fired' = FALSE
    /\ \/ /\ fired \/ (IF IsUnbuffered THEN able # "pop" ELSE IsEmpty)
          /\ End(c, "failed", NoItem)
          /\ UNCHANGED <<buffered, unbuffered>>
       \/ /\ ~fired
          /\ ~IsUnbuffered /\ ~IsEmpty
          /\ storage' = Tail(storage)
          /\ length' = length - 1
          /\ End(c, "ok", Head(storage))
          /\ UNCHANGED unbuffered
       \/ /\ ~fired
          /\ IsUnbuffered /\ able = "pop"
          /\ able' = "none"
          /\ partner' = NoCo
          /\ pending' = [pending EXCEPT ![c] = "none", ![partner] = "none"]
          /\ item' = [item EXCEPT ![c] = item[partner], ![partner] = NoItem]
          /\ outcome' = [outcome EXCEPT ![c] = "ok", ![partner] = "ok"]
          /\ UNCHANGED buffered
    /\ UNCHANGED <<closed, producers>>

-----------------------------------------------------------------------------
\* cat_channel_close(): mark the channel, then resume the first producer as
\* long as there is one, then the first consumer.  Each resume hands control to
\* the waiter and to whatever it does next before the loop goes on.
CloseRejected(c) ==
    /\ Free(c)
    /\ closed
    /\ End(c, "failed", NoItem)
    /\ UNCHANGED <<closed, buffered, producers, consumers, unbuffered, resumed, fired>>

\* A wrong ClosingQueue that forgets the consumers, kept to show that
\* NobodyWaitsAfterClose and CloseEndsAllWaits can fail.
ClosingProducersOnly == producers

ClosingQueue == IF producers # <<>> THEN producers ELSE consumers

Close(c) ==
    /\ Free(c)
    /\ ~closed
    /\ closed' = TRUE
    /\ NotifyFront(ClosingQueue)
    /\ IF ClosingQueue # <<>> THEN Begin(c, "close", NoItem) ELSE End(c, "ok", NoItem)
    /\ UNCHANGED <<buffered, producers, consumers, unbuffered>>

CloseGoesOn(c) ==
    /\ resumed = NoCo
    /\ pending[c] = "close"
    /\ NotifyFront(ClosingQueue)
    /\ IF ClosingQueue # <<>> THEN UNCHANGED calls ELSE End(c, "ok", NoItem)
    /\ UNCHANGED <<closed, buffered, producers, consumers, unbuffered>>

\* cat_channel_cleanup(), when the last reference is gone: nobody is in a call.
Cleanup ==
    /\ \A c \in Coroutines : Free(c)
    /\ closed' = TRUE
    /\ storage' = <<>>
    /\ length' = length - Len(storage)
    /\ UNCHANGED <<producers, consumers, unbuffered, resumed, fired, calls>>

Operation ==
    \/ \E c \in Coroutines, v \in Values :
          PushWaits(c, v) \/ PushStores(c, v) \/ PushOffers(c, v)
    \/ \E c \in Coroutines :
          \/ PushRejected(c) \/ PopRejected(c) \/ CloseRejected(c)
          \/ PopWaits(c) \/ PopTakes(c) \/ PopAsks(c)
          \/ Cancel(c) \/ Timeout(c)
          \/ ProducerRuns(c) \/ ConsumerRuns(c)
          \/ Close(c) \/ CloseGoesOn(c)
    \/ Cleanup

Next == Operation /\ UNCHANGED capacity

Spec == Init /\ [][Next]_vars

\* Fairness: a coroutine that was resumed has the processor and runs, and the
\* closing coroutine, which lies below those it woke, gets control back because
\* they yield or end sooner or later.
Fairness ==
    /\ \A c \in Coroutines :
          WF_vars((ProducerRuns(c) \/ ConsumerRuns(c)) /\ UNCHANGED capacity)
    /\ \A c \in Coroutines : SF_vars(CloseGoesOn(c) /\ UNCHANGED capacity)

FairSpec == Spec /\ Fairness

-----------------------------------------------------------------------------
Calls == {"none", "push", "pop", "close"}

\* The variables have their types, and whoever is in a push has an item.
TypeOK ==
    /\ capacity \in Capacities
    /\ closed \in BOOLEAN
    /\ length \in Nat
    /\ storage \in Seq(Values)
    /\ producers \in Seq(Coroutines)
    /\ consumers \in Seq(Coroutines)
    /\ able \in {"none", "push", "pop"}
    /\ partner \in Coroutines \cup {NoCo}
    /\ resumed \in Coroutines \cup {NoCo}
    /\ fired \in BOOLEAN
    /\ pending \in [Coroutines -> Calls]
    /\ item \in [Coroutines -> Values \cup {NoItem}]
    /\ outcome \in [Coroutines -> {"none", "ok", "failed"}]
    /\ \A c \in Coroutines : pending[c] = "push" => item[c] \in Values

\* The counter and the list of buckets agree, and neither exceeds the capacity,
\* also when a woken producer stores its item long after it found the channel
\* full.
LengthIsExact == length = Len(storage) /\ length <= capacity

\* A coroutine is in a waiter queue, once, exactly as long as it waits: a node
\* left behind would be resumed in the middle of something else, and a node that
\* is missing would never be resumed.
WaitersAreQueued ==
    /\ IsInjective(producers) /\ IsInjective(consumers)
    /\ \A c \in Coroutines :
          /\ c \in ToSet(producers) <=> pending[c] = "push" /\ c # partner
          /\ c \in ToSet(consumers) <=> pending[c] = "pop" /\ c # partner

\* No missed wakeup: whenever control is outside of the channel, nobody waits
\* who could go on.  And, as the assertions after a wait and in the notify
\* functions say, at no time do both sides wait.
NobodyWaitsInVain ==
    /\ producers = <<>> \/ consumers = <<>>
    /\ resumed = NoCo => /\ producers # <<>> => length = capacity
                         /\ consumers # <<>> => length = 0

\* A rendezvous is between the coroutine that offers or asks, which is in its
\* call but not queued, and the waiter of the other side that it has resumed.
RendezvousIsPaired ==
    /\ able = "none" <=> partner = NoCo
    /\ able # "none" => /\ capacity = 0 /\ ~closed /\ ~fired
                        /\ resumed # NoCo
                        /\ pending[resumed] = able
                        /\ pending[partner] = IF able = "push" THEN "pop" ELSE "push"

\* Once a close has returned, nobody waits any more, and never will again.
NobodyWaitsAfterClose ==
    closed /\ (\A c \in Coroutines : pending[c] # "close")
        => producers = <<>> /\ consumers = <<>>

\* Refinement: whoever waits and is woken in whatever order, items leave in the
\* order they were accepted, none is lost or delivered twice, and a call reports
\* success exactly if it moved its item.
Fifo == INSTANCE FifoChannel WITH buffer <- storage, open <- ~closed

ImplementsFifoChannel == Fifo!Spec

\* A push that begins after close is never accepted; only a producer that
\* already waited can still store its item, when a coroutine woken by the close
\* makes room before the close gets to that producer.
AcceptAfterCloseOnlyFromWaiters ==
    [][closed /\ length' > length =>
          /\ \E c \in ToSet(producers) : storage' = Append(storage, item[c])
          /\ \E d \in Coroutines : pending[d] = "close"]_vars

\* Closing a channel ends every wait.
CloseEndsAllWaits == closed ~> (producers = <<>> /\ consumers = <<>>)
=============================================================================
