---------------------------- MODULE ChannelProofs ----------------------------
(***************************************************************************)
(* For any capacity, any set of items and any set of coroutines, the       *)
(* invariants of Channel.tla hold in every reachable state, and a channel  *)
(* implements the abstract one of FifoChannel.tla.                         *)
(*                                                                         *)
(* What makes the invariants inductive is what holds between the moment a  *)
(* waiter is resumed and the moment it runs (WokenCanGoOn): the queue of   *)
(* its side may then have more waiters although there is room for one      *)
(* more, because the one that was resumed is about to take it.             *)
(***************************************************************************)
EXTENDS Channel, QueueProofs, SequenceTheorems, TLAPS

-----------------------------------------------------------------------------
(* The inductive invariant *)

\* Whoever was resumed is still in its queue; if its queue has waiters although
\* the channel is not full (or empty), that is because it can go on.
WokenCanGoOn ==
    resumed # NoCo =>
        /\ resumed \in Waiters
        /\ producers # <<>> => \/ length = capacity
                               \/ /\ length + 1 = capacity
                                  /\ resumed \in ToSet(producers) /\ ~fired
        /\ consumers # <<>> => \/ length = 0
                               \/ /\ length = 1
                                  /\ resumed \in ToSet(consumers) /\ ~fired

IInv == /\ TypeOK /\ LengthIsExact
        /\ WaitersAreQueued /\ RendezvousIsPaired
        /\ NobodyWaitsInVain /\ WokenCanGoOn
        /\ NobodyWaitsAfterClose

LEMMA InvInit == Init => IInv
<1> SUFFICES ASSUME Init PROVE IInv
  OBVIOUS
<1> USE ChannelAssumption DEF Init
<1>1. TypeOK
  BY EmptySeq DEF TypeOK, Calls
<1>2. LengthIsExact
  BY DEF LengthIsExact
<1>3. WaitersAreQueued
  BY DEF WaitersAreQueued, IsInjective, ToSet
<1>4. RendezvousIsPaired /\ NobodyWaitsInVain /\ WokenCanGoOn /\ NobodyWaitsAfterClose
  BY DEF RendezvousIsPaired, NobodyWaitsInVain, WokenCanGoOn, NobodyWaitsAfterClose
<1> QED
  BY <1>1, <1>2, <1>3, <1>4 DEF IInv

\* A call on a closed channel changes nothing but its own outcome.
LEMMA RejectedInv ==
    ASSUME IInv, NEW c \in Coroutines,
           PushRejected(c) \/ PopRejected(c) \/ CloseRejected(c), UNCHANGED capacity
    PROVE  IInv'
<1> USE ChannelAssumption DEF PushRejected, PopRejected, CloseRejected, Free, End,
        unbuffered, buffered
<1>1. TypeOK'
  BY DEF IInv, TypeOK, Calls
<1>2. LengthIsExact'
  BY DEF IInv, LengthIsExact
<1>3. WaitersAreQueued'
  BY DEF IInv, TypeOK, WaitersAreQueued
<1>4. RendezvousIsPaired'
  BY DEF IInv, RendezvousIsPaired
<1>5. NobodyWaitsInVain' /\ WokenCanGoOn'
  BY DEF IInv, NobodyWaitsInVain, WokenCanGoOn, Waiters
<1>6. NobodyWaitsAfterClose'
  BY DEF IInv, TypeOK, NobodyWaitsAfterClose
<1> QED
  BY <1>1, <1>2, <1>3, <1>4, <1>5, <1>6 DEF IInv

\* A push that waits: the channel is full, or has no consumer to offer to.
LEMMA PushWaitsInv ==
    ASSUME IInv, NEW c \in Coroutines, NEW v \in Values, PushWaits(c, v), UNCHANGED capacity
    PROVE  IInv'
<1> USE ChannelAssumption DEF PushWaits, Free, Begin, unbuffered, buffered
<1>0. /\ c \notin ToSet(producers) /\ c \notin ToSet(consumers)
      /\ producers \in Seq(Coroutines) /\ IsInjective(producers)
      /\ able = "none" /\ partner = NoCo
  BY DEF IInv, TypeOK, WaitersAreQueued, RendezvousIsPaired
<1>1. /\ producers' \in Seq(Coroutines) /\ producers' # <<>>
      /\ IsInjective(producers') /\ ToSet(producers') = ToSet(producers) \cup {c}
  BY <1>0, AppendWaiter
<1>2. consumers = <<>> /\ length = capacity
  BY DEF IInv, TypeOK, LengthIsExact, NobodyWaitsInVain, IsFull, IsUnbuffered
<1>3. TypeOK'
  BY <1>1 DEF IInv, TypeOK, Calls
<1>4. LengthIsExact'
  BY DEF IInv, LengthIsExact
<1>5. WaitersAreQueued'
  BY <1>0, <1>1 DEF IInv, TypeOK, WaitersAreQueued
<1>6. RendezvousIsPaired' /\ WokenCanGoOn' /\ NobodyWaitsAfterClose'
  BY <1>0 DEF IInv, RendezvousIsPaired, WokenCanGoOn, NobodyWaitsAfterClose
<1>7. NobodyWaitsInVain'
  BY <1>2 DEF IInv, NobodyWaitsInVain
<1> QED
  BY <1>3, <1>4, <1>5, <1>6, <1>7 DEF IInv

\* A pop that waits: there is nothing to take, and no producer to ask.
LEMMA PopWaitsInv ==
    ASSUME IInv, NEW c \in Coroutines, PopWaits(c), UNCHANGED capacity
    PROVE  IInv'
<1> USE ChannelAssumption DEF PopWaits, Free, Begin, unbuffered, buffered
<1>0. /\ c \notin ToSet(producers) /\ c \notin ToSet(consumers)
      /\ consumers \in Seq(Coroutines) /\ IsInjective(consumers)
      /\ able = "none" /\ partner = NoCo
  BY DEF IInv, TypeOK, WaitersAreQueued, RendezvousIsPaired
<1>1. /\ consumers' \in Seq(Coroutines) /\ consumers' # <<>>
      /\ IsInjective(consumers') /\ ToSet(consumers') = ToSet(consumers) \cup {c}
  BY <1>0, AppendWaiter
<1>2. length = 0 /\ producers = <<>>
  <2>1. length = 0
    BY DEF IInv, TypeOK, LengthIsExact, IsEmpty, IsUnbuffered
  <2>2. capacity # 0 => producers = <<>>
    BY <2>1 DEF IInv, NobodyWaitsInVain
  <2> QED
    BY <2>1, <2>2 DEF IsUnbuffered
<1>3. TypeOK'
  BY <1>1 DEF IInv, TypeOK, Calls
<1>4. LengthIsExact'
  BY DEF IInv, LengthIsExact
<1>5. WaitersAreQueued'
  BY <1>0, <1>1 DEF IInv, TypeOK, WaitersAreQueued
<1>6. RendezvousIsPaired' /\ WokenCanGoOn' /\ NobodyWaitsAfterClose'
  BY <1>0 DEF IInv, RendezvousIsPaired, WokenCanGoOn, NobodyWaitsAfterClose
<1>7. NobodyWaitsInVain'
  BY <1>2 DEF IInv, NobodyWaitsInVain
<1> QED
  BY <1>3, <1>4, <1>5, <1>6, <1>7 DEF IInv

\* A push that finds room stores its item and wakes the first consumer, which
\* then finds exactly that item.
LEMMA PushStoresInv ==
    ASSUME IInv, NEW c \in Coroutines, NEW v \in Values, PushStores(c, v), UNCHANGED capacity
    PROVE  IInv'
<1> USE ChannelAssumption
    DEF PushStores, Free, End, NotifyFront, IsFull, IsUnbuffered, unbuffered
<1>0. /\ consumers \in Seq(Coroutines)
      /\ consumers # <<>> => /\ Head(consumers) \in ToSet(consumers)
                             /\ Head(consumers) \in Coroutines
      /\ able = "none" /\ partner = NoCo
  BY HeadIsInQueue DEF IInv, TypeOK, RendezvousIsPaired
<1>1. producers = <<>>
  BY DEF IInv, NobodyWaitsInVain
<1>2. storage' \in Seq(Values) /\ Len(storage') = Len(storage) + 1
  BY DEF IInv, TypeOK
<1>3. TypeOK'
  <2>1. resumed' \in Coroutines \cup {NoCo} /\ fired' \in BOOLEAN
    BY <1>0
  <2>2. /\ pending' \in [Coroutines -> Calls]
        /\ item' \in [Coroutines -> Values \cup {NoItem}]
        /\ outcome' \in [Coroutines -> {"none", "ok", "failed"}]
    BY DEF IInv, TypeOK, Calls
  <2>3. length' \in Nat
    BY DEF IInv, TypeOK
  <2> QED
    BY <1>2, <2>1, <2>2, <2>3 DEF IInv, TypeOK
<1>4. LengthIsExact'
  BY <1>2 DEF IInv, TypeOK, LengthIsExact
<1>5. WaitersAreQueued'
  BY DEF IInv, TypeOK, WaitersAreQueued
<1>6. RendezvousIsPaired' /\ NobodyWaitsAfterClose'
  BY <1>0 DEF IInv, TypeOK, RendezvousIsPaired, NobodyWaitsAfterClose
<1>7. NobodyWaitsInVain' /\ WokenCanGoOn'
  BY <1>0, <1>1 DEF IInv, NobodyWaitsInVain, WokenCanGoOn, Waiters
<1> QED
  BY <1>3, <1>4, <1>5, <1>6, <1>7 DEF IInv

\* A pop that finds an item takes it and wakes the first producer, which then
\* finds room.
LEMMA PopTakesInv ==
    ASSUME IInv, NEW c \in Coroutines, PopTakes(c), UNCHANGED capacity
    PROVE  IInv'
<1> USE ChannelAssumption
    DEF PopTakes, Free, End, NotifyFront, IsEmpty, IsUnbuffered, unbuffered
<1>0. /\ producers \in Seq(Coroutines)
      /\ producers # <<>> => /\ Head(producers) \in ToSet(producers)
                             /\ Head(producers) \in Coroutines
      /\ able = "none" /\ partner = NoCo
  BY HeadIsInQueue DEF IInv, TypeOK, RendezvousIsPaired
<1>1. consumers = <<>>
  BY DEF IInv, NobodyWaitsInVain
<1>2. /\ storage # <<>> /\ length = Len(storage) /\ length \in Nat \ {0}
      /\ storage' \in Seq(Values) /\ Len(storage') = Len(storage) - 1
      /\ Head(storage) \in Values
  BY DEF IInv, TypeOK, LengthIsExact
<1>3. TypeOK'
  <2>1. resumed' \in Coroutines \cup {NoCo} /\ fired' \in BOOLEAN
    BY <1>0
  <2>2. /\ pending' \in [Coroutines -> Calls]
        /\ item' \in [Coroutines -> Values \cup {NoItem}]
        /\ outcome' \in [Coroutines -> {"none", "ok", "failed"}]
    BY <1>2 DEF IInv, TypeOK, Calls
  <2>3. length' \in Nat
    BY <1>2 DEF IInv, TypeOK
  <2> QED
    BY <1>2, <2>1, <2>2, <2>3 DEF IInv, TypeOK
<1>4. LengthIsExact'
  BY <1>2 DEF IInv, TypeOK, LengthIsExact
<1>5. WaitersAreQueued'
  BY DEF IInv, TypeOK, WaitersAreQueued
<1>6. RendezvousIsPaired' /\ NobodyWaitsAfterClose'
  BY <1>0 DEF IInv, TypeOK, RendezvousIsPaired, NobodyWaitsAfterClose
<1>7. NobodyWaitsInVain' /\ WokenCanGoOn'
  BY <1>0, <1>1, <1>2 DEF IInv, NobodyWaitsInVain, WokenCanGoOn, Waiters
<1> QED
  BY <1>3, <1>4, <1>5, <1>6, <1>7 DEF IInv

\* An unbuffered push that finds a consumer pairs up with it.
LEMMA PushOffersInv ==
    ASSUME IInv, NEW c \in Coroutines, NEW v \in Values, PushOffers(c, v), UNCHANGED capacity
    PROVE  IInv'
<1> USE ChannelAssumption
    DEF PushOffers, Free, Begin, NotifyFront, IsUnbuffered, buffered
<1>0. /\ Head(consumers) \in ToSet(consumers) /\ Head(consumers) \in Coroutines
      /\ pending[Head(consumers)] = "pop" /\ Head(consumers) # c
      /\ resumed' = Head(consumers) /\ producers = <<>>
      /\ partner = NoCo
  BY HeadIsInQueue DEF IInv, TypeOK, WaitersAreQueued, NobodyWaitsInVain, RendezvousIsPaired
<1>1. c \notin ToSet(consumers) /\ c \notin ToSet(producers)
  BY DEF IInv, TypeOK, WaitersAreQueued
<1>2. TypeOK'
  BY <1>0 DEF IInv, TypeOK, Calls
<1>3. LengthIsExact'
  BY DEF IInv, LengthIsExact
<1>4. WaitersAreQueued'
  BY <1>0, <1>1 DEF IInv, TypeOK, WaitersAreQueued
<1>5. RendezvousIsPaired'
  BY <1>0 DEF IInv, TypeOK, RendezvousIsPaired
<1>6. NobodyWaitsInVain' /\ WokenCanGoOn' /\ NobodyWaitsAfterClose'
  BY <1>0 DEF IInv, TypeOK, LengthIsExact, NobodyWaitsInVain, WokenCanGoOn, Waiters,
              NobodyWaitsAfterClose
<1> QED
  BY <1>2, <1>3, <1>4, <1>5, <1>6 DEF IInv

\* An unbuffered pop that finds a producer pairs up with it.
LEMMA PopAsksInv ==
    ASSUME IInv, NEW c \in Coroutines, PopAsks(c), UNCHANGED capacity
    PROVE  IInv'
<1> USE ChannelAssumption
    DEF PopAsks, Free, Begin, NotifyFront, IsUnbuffered, buffered
<1>0. /\ Head(producers) \in ToSet(producers) /\ Head(producers) \in Coroutines
      /\ pending[Head(producers)] = "push" /\ Head(producers) # c
      /\ resumed' = Head(producers) /\ consumers = <<>>
      /\ partner = NoCo
  BY HeadIsInQueue DEF IInv, TypeOK, WaitersAreQueued, NobodyWaitsInVain, RendezvousIsPaired
<1>1. c \notin ToSet(consumers) /\ c \notin ToSet(producers)
  BY DEF IInv, TypeOK, WaitersAreQueued
<1>2. TypeOK'
  BY <1>0 DEF IInv, TypeOK, Calls
<1>3. LengthIsExact'
  BY DEF IInv, LengthIsExact
<1>4. WaitersAreQueued'
  BY <1>0, <1>1 DEF IInv, TypeOK, WaitersAreQueued
<1>5. RendezvousIsPaired'
  BY <1>0 DEF IInv, TypeOK, RendezvousIsPaired
<1>6. NobodyWaitsInVain' /\ WokenCanGoOn' /\ NobodyWaitsAfterClose'
  BY <1>0 DEF IInv, TypeOK, LengthIsExact, NobodyWaitsInVain, WokenCanGoOn, Waiters,
              NobodyWaitsAfterClose
<1> QED
  BY <1>2, <1>3, <1>4, <1>5, <1>6 DEF IInv

\* A waiter is resumed from outside, while the channel is in a state in which
\* nobody can go on.
LEMMA WokenInv ==
    ASSUME IInv, NEW c \in Coroutines, Cancel(c) \/ Timeout(c), UNCHANGED capacity
    PROVE  IInv'
<1> USE ChannelAssumption DEF Cancel, Timeout, unbuffered, buffered, calls
<1>1. TypeOK'
  BY DEF IInv, TypeOK
<1>2. LengthIsExact' /\ WaitersAreQueued' /\ NobodyWaitsAfterClose'
  BY DEF IInv, LengthIsExact, WaitersAreQueued, NobodyWaitsAfterClose
<1>3. RendezvousIsPaired'
  BY DEF IInv, RendezvousIsPaired
<1>4. NobodyWaitsInVain' /\ WokenCanGoOn'
  BY DEF IInv, NobodyWaitsInVain, WokenCanGoOn, Waiters
<1> QED
  BY <1>1, <1>2, <1>3, <1>4 DEF IInv

\* A producer that was resumed leaves its queue and ends its call.
LEMMA ProducerRunsInv ==
    ASSUME IInv, NEW c \in Coroutines, ProducerRuns(c), UNCHANGED capacity
    PROVE  IInv'
<1> USE ChannelAssumption DEF ProducerRuns
<1>0. /\ resumed = c /\ resumed' = NoCo /\ ~fired'
      /\ pending[c] = "push" /\ c \in ToSet(producers) /\ c # partner
      /\ producers \in Seq(Coroutines) /\ IsInjective(producers)
      /\ producers # <<>> /\ consumers = <<>> /\ consumers' = consumers
  BY EmptyQueue DEF IInv, TypeOK, WokenCanGoOn, Waiters, WaitersAreQueued, NobodyWaitsInVain
<1>1. /\ producers' \in Seq(Coroutines) /\ IsInjective(producers')
      /\ ToSet(producers') = ToSet(producers) \ {c}
  BY <1>0, WithoutProperties
<1>2. CASE /\ fired \/ (IF IsUnbuffered THEN able # "push" ELSE IsFull)
           /\ End(c, "failed", NoItem) /\ UNCHANGED <<buffered, unbuffered>>
  <2> USE <1>2 DEF End, buffered, unbuffered
  <2>0. partner = NoCo /\ able = "none"
    BY DEF IInv, TypeOK, RendezvousIsPaired, IsUnbuffered
  <2>1. TypeOK' /\ LengthIsExact'
    BY <1>0, <1>1 DEF IInv, TypeOK, LengthIsExact, Calls
  <2>2. WaitersAreQueued' /\ RendezvousIsPaired' /\ NobodyWaitsAfterClose'
    BY <1>0, <1>1, <2>0, EmptyQueue DEF IInv, TypeOK, WaitersAreQueued,
        RendezvousIsPaired, NobodyWaitsAfterClose
  <2>3. length = capacity
    BY <1>0 DEF IInv, TypeOK, LengthIsExact, WokenCanGoOn, IsUnbuffered, IsFull
  <2>4. NobodyWaitsInVain' /\ WokenCanGoOn'
    BY <1>0, <2>3 DEF NobodyWaitsInVain, WokenCanGoOn
  <2> QED
    BY <2>1, <2>2, <2>4 DEF IInv
<1>3. CASE /\ ~fired /\ ~IsUnbuffered /\ ~IsFull
           /\ storage' = Append(storage, item[c]) /\ length' = length + 1
           /\ End(c, "ok", NoItem) /\ UNCHANGED unbuffered
  <2> USE <1>3 DEF End, unbuffered
  <2>0. partner = NoCo /\ able = "none"
    BY DEF IInv, TypeOK, RendezvousIsPaired, IsUnbuffered
  <2>1. item[c] \in Values
    BY DEF IInv, TypeOK
  <2>2. storage' \in Seq(Values) /\ Len(storage') = Len(storage) + 1
    BY <2>1 DEF IInv, TypeOK
  <2>3. length + 1 \in Nat /\ length + 1 <= capacity
    BY DEF IInv, TypeOK, LengthIsExact, IsFull
  <2>4. TypeOK' /\ LengthIsExact'
    <3>1. /\ pending' \in [Coroutines -> Calls]
          /\ item' \in [Coroutines -> Values \cup {NoItem}]
          /\ outcome' \in [Coroutines -> {"none", "ok", "failed"}]
          /\ \A d \in Coroutines : pending'[d] = "push" => item'[d] \in Values
      BY DEF IInv, TypeOK, Calls
    <3> QED
      BY <1>0, <1>1, <2>2, <2>3, <3>1 DEF IInv, TypeOK, LengthIsExact
  <2>5. WaitersAreQueued' /\ RendezvousIsPaired' /\ NobodyWaitsAfterClose'
    BY <1>0, <1>1, <2>0, EmptyQueue DEF IInv, TypeOK, WaitersAreQueued,
        RendezvousIsPaired, NobodyWaitsAfterClose
  <2>6. length' = capacity
    BY <1>0 DEF IInv, TypeOK, WokenCanGoOn, IsFull
  <2>7. NobodyWaitsInVain' /\ WokenCanGoOn'
    BY <1>0, <2>6 DEF NobodyWaitsInVain, WokenCanGoOn
  <2> QED
    BY <2>4, <2>5, <2>7 DEF IInv
<1>4. CASE /\ ~fired /\ IsUnbuffered /\ able = "push" /\ able' = "none" /\ partner' = NoCo
           /\ pending' = [pending EXCEPT ![c] = "none", ![partner] = "none"]
           /\ item' = [item EXCEPT ![c] = NoItem, ![partner] = item[c]]
           /\ outcome' = [outcome EXCEPT ![c] = "ok", ![partner] = "ok"]
           /\ UNCHANGED buffered
  <2> USE <1>4 DEF buffered, IsUnbuffered
  <2>0. /\ partner \in Coroutines /\ ~closed
        /\ pending[partner] = "pop"
    BY <1>0 DEF IInv, TypeOK, RendezvousIsPaired
  <2>1. item[c] \in Values /\ ~closed'
    BY <1>0, <2>0 DEF IInv, TypeOK
  <2>2. TypeOK' /\ LengthIsExact'
    <3>1. /\ pending' \in [Coroutines -> Calls]
          /\ item' \in [Coroutines -> Values \cup {NoItem}]
          /\ outcome' \in [Coroutines -> {"none", "ok", "failed"}]
          /\ \A d \in Coroutines : pending'[d] = "push" => item'[d] \in Values
      BY <2>0, <2>1 DEF IInv, TypeOK, Calls
    <3> QED
      BY <1>0, <1>1, <3>1 DEF IInv, TypeOK, LengthIsExact
  <2>3. WaitersAreQueued'
    BY <1>0, <1>1, <2>0, <2>1 DEF IInv, TypeOK, WaitersAreQueued
  <2>4. RendezvousIsPaired' /\ NobodyWaitsAfterClose'
    BY <2>1 DEF RendezvousIsPaired, NobodyWaitsAfterClose
  <2>5. NobodyWaitsInVain' /\ WokenCanGoOn'
    BY <1>0 DEF IInv, TypeOK, LengthIsExact, NobodyWaitsInVain, WokenCanGoOn
  <2> QED
    BY <2>2, <2>3, <2>4, <2>5 DEF IInv
<1> QED
  BY <1>2, <1>3, <1>4

\* A consumer that was resumed leaves its queue and ends its call.
LEMMA ConsumerRunsInv ==
    ASSUME IInv, NEW c \in Coroutines, ConsumerRuns(c), UNCHANGED capacity
    PROVE  IInv'
<1> USE ChannelAssumption DEF ConsumerRuns
<1>0. /\ resumed = c /\ resumed' = NoCo /\ ~fired'
      /\ pending[c] = "pop" /\ c \in ToSet(consumers) /\ c # partner
      /\ consumers \in Seq(Coroutines) /\ IsInjective(consumers)
      /\ consumers # <<>> /\ producers = <<>> /\ producers' = producers
  BY EmptyQueue DEF IInv, TypeOK, WokenCanGoOn, Waiters, WaitersAreQueued, NobodyWaitsInVain
<1>1. /\ consumers' \in Seq(Coroutines) /\ IsInjective(consumers')
      /\ ToSet(consumers') = ToSet(consumers) \ {c}
  BY <1>0, WithoutProperties
<1>2. CASE /\ fired \/ (IF IsUnbuffered THEN able # "pop" ELSE IsEmpty)
           /\ End(c, "failed", NoItem) /\ UNCHANGED <<buffered, unbuffered>>
  <2> USE <1>2 DEF End, buffered, unbuffered
  <2>0. partner = NoCo /\ able = "none"
    BY DEF IInv, TypeOK, RendezvousIsPaired, IsUnbuffered
  <2>1. TypeOK' /\ LengthIsExact'
    BY <1>0, <1>1 DEF IInv, TypeOK, LengthIsExact, Calls
  <2>2. WaitersAreQueued' /\ RendezvousIsPaired' /\ NobodyWaitsAfterClose'
    BY <1>0, <1>1, <2>0, EmptyQueue DEF IInv, TypeOK, WaitersAreQueued,
        RendezvousIsPaired, NobodyWaitsAfterClose
  <2>3. length = 0
    BY <1>0 DEF IInv, TypeOK, LengthIsExact, WokenCanGoOn, IsUnbuffered, IsEmpty
  <2>4. NobodyWaitsInVain' /\ WokenCanGoOn'
    BY <1>0, <2>3 DEF NobodyWaitsInVain, WokenCanGoOn
  <2> QED
    BY <2>1, <2>2, <2>4 DEF IInv
<1>3. CASE /\ ~fired /\ ~IsUnbuffered /\ ~IsEmpty
           /\ storage' = Tail(storage) /\ length' = length - 1
           /\ End(c, "ok", Head(storage)) /\ UNCHANGED unbuffered
  <2> USE <1>3 DEF End, unbuffered
  <2>0. partner = NoCo /\ able = "none"
    BY DEF IInv, TypeOK, RendezvousIsPaired, IsUnbuffered
  <2>1. storage # <<>> /\ length = Len(storage) /\ length \in Nat \ {0}
    BY DEF IInv, TypeOK, LengthIsExact, IsEmpty
  <2>2. /\ Head(storage) \in Values
        /\ storage' \in Seq(Values) /\ Len(storage') = Len(storage) - 1
    BY <2>1 DEF IInv, TypeOK
  <2>3. length - 1 \in Nat /\ length - 1 <= capacity
    <3>1. capacity \in Nat
      BY DEF IInv, TypeOK
    <3>2. length <= capacity
      BY DEF IInv, LengthIsExact
    <3> QED
      BY <2>1, <3>1, <3>2
  <2>4. TypeOK' /\ LengthIsExact'
    <3>1. /\ pending' \in [Coroutines -> Calls]
          /\ item' \in [Coroutines -> Values \cup {NoItem}]
          /\ outcome' \in [Coroutines -> {"none", "ok", "failed"}]
          /\ \A d \in Coroutines : pending'[d] = "push" => item'[d] \in Values
      BY <2>2 DEF IInv, TypeOK, Calls
    <3> QED
      BY <1>0, <1>1, <2>1, <2>2, <2>3, <3>1 DEF IInv, TypeOK, LengthIsExact
  <2>5. WaitersAreQueued' /\ RendezvousIsPaired' /\ NobodyWaitsAfterClose'
    BY <1>0, <1>1, <2>0, EmptyQueue DEF IInv, TypeOK, WaitersAreQueued,
        RendezvousIsPaired, NobodyWaitsAfterClose
  <2>6. length' = 0
    BY <1>0, <2>1 DEF IInv, TypeOK, WokenCanGoOn, IsEmpty
  <2>7. NobodyWaitsInVain' /\ WokenCanGoOn'
    BY <1>0, <2>6 DEF NobodyWaitsInVain, WokenCanGoOn
  <2> QED
    BY <2>4, <2>5, <2>7 DEF IInv
<1>4. CASE /\ ~fired /\ IsUnbuffered /\ able = "pop" /\ able' = "none" /\ partner' = NoCo
           /\ pending' = [pending EXCEPT ![c] = "none", ![partner] = "none"]
           /\ item' = [item EXCEPT ![c] = item[partner], ![partner] = NoItem]
           /\ outcome' = [outcome EXCEPT ![c] = "ok", ![partner] = "ok"]
           /\ UNCHANGED buffered
  <2> USE <1>4 DEF buffered, IsUnbuffered
  <2>0. /\ partner \in Coroutines /\ ~closed
        /\ pending[partner] = "push"
    BY <1>0 DEF IInv, TypeOK, RendezvousIsPaired
  <2>1. item[partner] \in Values /\ ~closed'
    BY <1>0, <2>0 DEF IInv, TypeOK
  <2>2. TypeOK' /\ LengthIsExact'
    <3>1. /\ pending' \in [Coroutines -> Calls]
          /\ item' \in [Coroutines -> Values \cup {NoItem}]
          /\ outcome' \in [Coroutines -> {"none", "ok", "failed"}]
          /\ \A d \in Coroutines : pending'[d] = "push" => item'[d] \in Values
      BY <2>0, <2>1 DEF IInv, TypeOK, Calls
    <3> QED
      BY <1>0, <1>1, <3>1 DEF IInv, TypeOK, LengthIsExact
  <2>3. WaitersAreQueued'
    BY <1>0, <1>1, <2>0, <2>1 DEF IInv, TypeOK, WaitersAreQueued
  <2>4. RendezvousIsPaired' /\ NobodyWaitsAfterClose'
    BY <2>1 DEF RendezvousIsPaired, NobodyWaitsAfterClose
  <2>5. NobodyWaitsInVain' /\ WokenCanGoOn'
    BY <1>0 DEF IInv, TypeOK, LengthIsExact, NobodyWaitsInVain, WokenCanGoOn
  <2> QED
    BY <2>2, <2>3, <2>4, <2>5 DEF IInv
<1> QED
  BY <1>2, <1>3, <1>4

\* Closing: the first waiter is resumed, or there is none and the call ends.
LEMMA CloseInv ==
    ASSUME IInv, NEW c \in Coroutines, Close(c) \/ CloseGoesOn(c), UNCHANGED capacity
    PROVE  IInv'
<1> USE ChannelAssumption
    DEF Close, CloseGoesOn, Free, NotifyFront, unbuffered, buffered, calls
<1>0. /\ ClosingQueue = <<>> => producers = <<>> /\ consumers = <<>>
      /\ ClosingQueue # <<>> => /\ Head(ClosingQueue) \in Waiters
                                /\ Head(ClosingQueue) \in Coroutines
      /\ resumed = NoCo /\ able = "none" /\ partner = NoCo
      /\ ~fired' /\ able' = "none" /\ partner' = NoCo
      /\ resumed' = IF ClosingQueue = <<>> THEN NoCo ELSE Head(ClosingQueue)
  <2>1. CASE producers # <<>>
    BY <2>1, HeadIsInQueue DEF IInv, TypeOK, RendezvousIsPaired, Waiters, ClosingQueue
  <2>2. CASE producers = <<>>
    BY <2>2, HeadIsInQueue DEF IInv, TypeOK, RendezvousIsPaired, Waiters, ClosingQueue
  <2> QED
    BY <2>1, <2>2
<1> HIDE DEF NotifyFront
<1>1. \/ ClosingQueue # <<>> /\ UNCHANGED calls /\ pending[c] = "close"
      \/ ClosingQueue # <<>> /\ Begin(c, "close", NoItem) /\ pending[c] = "none"
      \/ /\ ClosingQueue = <<>> /\ End(c, "ok", NoItem)
         /\ pending[c] \in {"none", "close"}
  OBVIOUS
<1>2. TypeOK'
  <2>1. /\ pending' \in [Coroutines -> Calls]
        /\ item' \in [Coroutines -> Values \cup {NoItem}]
        /\ outcome' \in [Coroutines -> {"none", "ok", "failed"}]
        /\ \A d \in Coroutines : pending'[d] = "push" => item'[d] \in Values
    BY <1>1 DEF IInv, TypeOK, Begin, End, Calls
  <2>2. closed' \in BOOLEAN /\ fired' \in BOOLEAN /\ resumed' \in Coroutines \cup {NoCo}
    BY <1>0 DEF IInv, TypeOK, NotifyFront
  <2> QED
    BY <2>1, <2>2 DEF IInv, TypeOK
<1>3. LengthIsExact'
  BY DEF IInv, LengthIsExact
<1>4. WaitersAreQueued'
  BY <1>0, <1>1 DEF IInv, TypeOK, WaitersAreQueued, Begin, End
<1>5. RendezvousIsPaired'
  BY <1>0 DEF RendezvousIsPaired
<1>6. NobodyWaitsInVain' /\ WokenCanGoOn'
  BY <1>0 DEF IInv, NobodyWaitsInVain, WokenCanGoOn, Waiters
<1>7. NobodyWaitsAfterClose'
  BY <1>0, <1>1 DEF IInv, TypeOK, NobodyWaitsAfterClose, Begin
<1> QED
  BY <1>2, <1>3, <1>4, <1>5, <1>6, <1>7 DEF IInv

LEMMA CleanupInv ==
    ASSUME IInv, Cleanup, UNCHANGED capacity
    PROVE  IInv'
<1> USE ChannelAssumption DEF Cleanup, Free, unbuffered, calls
<1>0. length' = 0 /\ storage' = <<>> /\ storage' \in Seq(Values)
  BY EmptySeq DEF IInv, TypeOK, LengthIsExact
<1>1. producers = <<>> /\ consumers = <<>>
  <2>1. ToSet(producers) = {} /\ ToSet(consumers) = {}
    <3>1. \A d \in Coroutines : d \notin ToSet(producers) /\ d \notin ToSet(consumers)
      BY DEF IInv, WaitersAreQueued
    <3> QED
      BY <3>1 DEF IInv, TypeOK, ToSet
  <2> QED
    BY <2>1, EmptyQueue DEF IInv, TypeOK
<1>2. TypeOK' /\ LengthIsExact'
  BY <1>0 DEF IInv, TypeOK, LengthIsExact
<1>3. WaitersAreQueued' /\ RendezvousIsPaired'
  BY DEF IInv, TypeOK, WaitersAreQueued, RendezvousIsPaired
<1>4. NobodyWaitsInVain' /\ NobodyWaitsAfterClose' /\ WokenCanGoOn'
  BY <1>1 DEF IInv, NobodyWaitsInVain, NobodyWaitsAfterClose, WokenCanGoOn, Waiters
<1> QED
  BY <1>2, <1>3, <1>4 DEF IInv

LEMMA InvStep == IInv /\ [Next]_vars => IInv'
<1> SUFFICES ASSUME IInv, [Next]_vars PROVE IInv'
  OBVIOUS
<1>1. CASE UNCHANGED vars
  BY <1>1 DEF vars, IInv, TypeOK, LengthIsExact, WaitersAreQueued, RendezvousIsPaired,
              NobodyWaitsInVain, WokenCanGoOn, Waiters, NobodyWaitsAfterClose
<1>2. CASE Next
  BY <1>2, RejectedInv, PushWaitsInv, PopWaitsInv, PushStoresInv, PopTakesInv,
     PushOffersInv, PopAsksInv, WokenInv, ProducerRunsInv, ConsumerRunsInv,
     CloseInv, CleanupInv, Zenon DEF Next, Operation
<1> QED
  BY <1>1, <1>2

-----------------------------------------------------------------------------
(* The theorems *)

THEOREM ChannelInvariant == Spec => []IInv
<1> QED
  BY InvInit, InvStep, PTL DEF Spec

\* The variables keep their types.
THEOREM TypeCorrect == Spec => []TypeOK
<1> QED
  BY ChannelInvariant, PTL DEF IInv

\* channel->length is the number of stored items and never exceeds the capacity.
THEOREM LengthStaysExact == Spec => []LengthIsExact
<1> QED
  BY ChannelInvariant, PTL DEF IInv

\* A coroutine is in a waiter queue, once, exactly as long as it waits.
THEOREM QueuesHoldTheWaiters == Spec => []WaitersAreQueued
<1> QED
  BY ChannelInvariant, PTL DEF IInv

\* No coroutine waits although it could go on.
THEOREM NoMissedWakeup == Spec => []NobodyWaitsInVain
<1> QED
  BY ChannelInvariant, PTL DEF IInv

\* A rendezvous pairs a push with a pop.
THEOREM RendezvousPairs == Spec => []RendezvousIsPaired
<1> QED
  BY ChannelInvariant, PTL DEF IInv

\* After a close has returned nobody waits.
THEOREM CloseLeavesNobody == Spec => []NobodyWaitsAfterClose
<1> QED
  BY ChannelInvariant, PTL DEF IInv

\* A closed channel accepts an item only from a producer that waited before, and
\* only while the close is still waking waiters.
THEOREM ClosedAcceptsOnlyWaiters == Spec => AcceptAfterCloseOnlyFromWaiters
<1>1. ASSUME IInv, [Next]_vars, closed, length' > length
      PROVE  /\ \E c \in ToSet(producers) : storage' = Append(storage, item[c])
             /\ \E d \in Coroutines : pending[d] = "close"
  <2>1. PICK c \in Coroutines :
            \/ ProducerRuns(c) /\ storage' = Append(storage, item[c])
            \/ \E v \in Values : PushStores(c, v)
    <3> USE DEF buffered
    <3>1. length \in Nat /\ length = Len(storage) /\ storage \in Seq(Values)
      BY <1>1 DEF IInv, TypeOK, LengthIsExact
    <3>2. length' # length /\ length' # length - 1 /\ length' # 0
      BY <1>1, <3>1
    <3>3. \A c \in Coroutines, v \in Values : ~PushWaits(c, v) /\ ~PushOffers(c, v)
      BY <3>2 DEF PushWaits, PushOffers
    <3>4. \A c \in Coroutines :
              /\ ~PushRejected(c) /\ ~PopRejected(c) /\ ~CloseRejected(c)
              /\ ~PopWaits(c) /\ ~PopAsks(c) /\ ~PopTakes(c)
              /\ ~Cancel(c) /\ ~Timeout(c) /\ ~Close(c) /\ ~CloseGoesOn(c)
      BY <3>2 DEF PushRejected, PopRejected, CloseRejected, PopWaits, PopAsks, PopTakes,
                  Cancel, Timeout, Close, CloseGoesOn
    <3>5. ~Cleanup
      BY <3>1, <3>2 DEF Cleanup
    <3>6. \A c \in Coroutines :
              /\ ~ConsumerRuns(c)
              /\ ProducerRuns(c) => storage' = Append(storage, item[c])
      BY <3>2 DEF ConsumerRuns, ProducerRuns
    <3>7. Next
      BY <1>1, <3>2 DEF vars
    <3> QED
      BY <3>3, <3>4, <3>5, <3>6, <3>7, Zenon DEF Next, Operation
  <2>2. ProducerRuns(c) /\ storage' = Append(storage, item[c])
    BY <1>1, <2>1 DEF PushStores
  <2>3. c \in ToSet(producers)
    BY <1>1, <2>2, ChannelAssumption
       DEF IInv, TypeOK, WokenCanGoOn, Waiters, WaitersAreQueued, ProducerRuns
  <2>4. producers # <<>>
    BY <1>1, <2>3, EmptyQueue DEF IInv, TypeOK
  <2>5. \E d \in Coroutines : pending[d] = "close"
    BY <1>1, <2>4 DEF IInv, NobodyWaitsAfterClose
  <2> QED
    BY <2>2, <2>3, <2>5
<1>2. IInv /\ [Next]_vars =>
        [closed /\ length' > length =>
            /\ \E c \in ToSet(producers) : storage' = Append(storage, item[c])
            /\ \E d \in Coroutines : pending[d] = "close"]_vars
  BY <1>1
<1> QED
  BY <1>2, ChannelInvariant, PTL DEF Spec, AcceptAfterCloseOnlyFromWaiters

-----------------------------------------------------------------------------
(* A channel implements the abstract channel. *)

LEMMA FifoInit == Init => Fifo!Init
<1> QED
  BY DEF Init, Fifo!Init

\* Each step is a step of the abstract channel, or changes nothing in it.
LEMMA FifoStep == IInv /\ [Next]_vars => [Fifo!Next]_Fifo!vars
<1> SUFFICES ASSUME IInv, [Next]_vars PROVE Fifo!Next \/ UNCHANGED Fifo!vars
  OBVIOUS
<1>0. UNCHANGED capacity
  BY DEF vars, Next
<1> USE <1>0, ChannelAssumption DEF Free, unbuffered, buffered, calls, Fifo!vars
<1>1. CASE UNCHANGED vars
  BY <1>1 DEF vars
<1>2. ASSUME NEW c \in Coroutines, NEW v \in Values, PushWaits(c, v) \/ PushOffers(c, v)
      PROVE  Fifo!BeginPush(c, v)
  BY <1>2 DEF PushWaits, PushOffers, Begin, Fifo!BeginPush, Fifo!Begin
<1>3. ASSUME NEW c \in Coroutines, NEW v \in Values, PushStores(c, v)
      PROVE  Fifo!Accept(c, v)
  BY <1>3, ChannelAssumption
     DEF IInv, TypeOK, LengthIsExact, PushStores, IsFull, End, Fifo!Accept, Fifo!End
<1>4. ASSUME NEW c \in Coroutines, PushRejected(c) \/ PopRejected(c) \/ CloseRejected(c)
      PROVE  Fifo!Fail(c)
  BY <1>4 DEF PushRejected, PopRejected, CloseRejected, End, Fifo!Fail, Fifo!End
<1>5. ASSUME NEW c \in Coroutines, PopWaits(c) \/ PopAsks(c)
      PROVE  Fifo!BeginPop(c)
  BY <1>5 DEF PopWaits, PopAsks, Begin, Fifo!BeginPop, Fifo!Begin
<1>6. ASSUME NEW c \in Coroutines, PopTakes(c)
      PROVE  Fifo!Deliver(c)
  BY <1>6 DEF IInv, TypeOK, LengthIsExact, PopTakes, IsEmpty, End, Fifo!Deliver, Fifo!End
<1>7. ASSUME NEW c \in Coroutines, Cancel(c) \/ Timeout(c)
      PROVE  UNCHANGED Fifo!vars
  BY <1>7 DEF Cancel, Timeout
<1>8. ASSUME NEW c \in Coroutines, ProducerRuns(c)
      PROVE  Fifo!Operation
  <2>1. CASE End(c, "failed", NoItem) /\ UNCHANGED <<buffered, unbuffered>>
    BY <1>8, <2>1 DEF ProducerRuns, End, Fifo!Operation, Fifo!Fail, Fifo!End
  <2>2. CASE /\ ~IsUnbuffered /\ ~IsFull
             /\ storage' = Append(storage, item[c]) /\ End(c, "ok", NoItem)
    <3>1. Fifo!Accept(c, item[c]) /\ item[c] \in Values
      BY <1>8, <2>2, ChannelAssumption
         DEF IInv, TypeOK, LengthIsExact, ProducerRuns, IsFull, End, Fifo!Accept, Fifo!End
    <3> QED
      BY <3>1 DEF Fifo!Operation
  <2>3. CASE /\ IsUnbuffered /\ able = "push" /\ UNCHANGED buffered
             /\ pending' = [pending EXCEPT ![c] = "none", ![partner] = "none"]
             /\ item' = [item EXCEPT ![c] = NoItem, ![partner] = item[c]]
             /\ outcome' = [outcome EXCEPT ![c] = "ok", ![partner] = "ok"]
    <3>1. partner \in Coroutines /\ pending[c] = "push" /\ resumed = c /\ ~closed
      BY <1>8, <2>3 DEF IInv, TypeOK, RendezvousIsPaired, ProducerRuns
    <3>2. pending[partner] = "pop"
      BY <2>3, <3>1 DEF IInv, RendezvousIsPaired
    <3>3. Fifo!Rendezvous(c, partner)
      BY <1>8, <2>3, <3>1, <3>2 DEF ProducerRuns, IsUnbuffered, Fifo!Rendezvous
    <3> QED
      BY <3>1, <3>3 DEF Fifo!Operation
  <2> QED
    BY <1>8, <2>1, <2>2, <2>3 DEF ProducerRuns
<1>9. ASSUME NEW c \in Coroutines, ConsumerRuns(c)
      PROVE  Fifo!Operation
  <2>1. CASE End(c, "failed", NoItem) /\ UNCHANGED <<buffered, unbuffered>>
    BY <1>9, <2>1 DEF ConsumerRuns, End, Fifo!Operation, Fifo!Fail, Fifo!End
  <2>2. CASE /\ ~IsUnbuffered /\ ~IsEmpty
             /\ storage' = Tail(storage) /\ End(c, "ok", Head(storage))
    <3>1. Fifo!Deliver(c)
      BY <1>9, <2>2
         DEF IInv, TypeOK, LengthIsExact, ConsumerRuns, IsEmpty, End, Fifo!Deliver, Fifo!End
    <3> QED
      BY <3>1 DEF Fifo!Operation
  <2>3. CASE /\ IsUnbuffered /\ able = "pop" /\ UNCHANGED buffered
             /\ pending' = [pending EXCEPT ![c] = "none", ![partner] = "none"]
             /\ item' = [item EXCEPT ![c] = item[partner], ![partner] = NoItem]
             /\ outcome' = [outcome EXCEPT ![c] = "ok", ![partner] = "ok"]
    <3>1. /\ partner \in Coroutines /\ pending[c] = "pop" /\ resumed = c /\ ~closed
          /\ pending \in [Coroutines -> Calls]
          /\ item \in [Coroutines -> Values \cup {NoItem}]
          /\ outcome \in [Coroutines -> {"none", "ok", "failed"}]
      BY <1>9, <2>3 DEF IInv, TypeOK, RendezvousIsPaired, ConsumerRuns
    <3>2. pending[partner] = "push"
      BY <2>3, <3>1 DEF IInv, RendezvousIsPaired
    <3>3. c # partner
      BY <3>1, <3>2
    <3>4. Fifo!Rendezvous(partner, c)
      BY <1>9, <2>3, <3>1, <3>2, <3>3 DEF ConsumerRuns, IsUnbuffered, Fifo!Rendezvous
    <3> QED
      BY <3>1, <3>4 DEF Fifo!Operation
  <2> QED
    BY <1>9, <2>1, <2>2, <2>3 DEF ConsumerRuns
<1>10. ASSUME NEW c \in Coroutines, Close(c)
       PROVE  Fifo!Close(c)
  BY <1>10 DEF Close, Begin, End, Fifo!Close, Fifo!Begin, Fifo!End
<1>11. ASSUME NEW c \in Coroutines, CloseGoesOn(c)
       PROVE  Fifo!EndClose(c) \/ UNCHANGED Fifo!vars
  BY <1>11 DEF CloseGoesOn, End, Fifo!EndClose, Fifo!End
<1>12. Cleanup => Fifo!Cleanup
  BY DEF Cleanup, Fifo!Cleanup
<1>13. CASE Next
  BY <1>2, <1>3, <1>4, <1>5, <1>6, <1>7, <1>8, <1>9, <1>10, <1>11, <1>12, <1>13
     DEF Next, Operation, Fifo!Next, Fifo!Operation
<1> QED
  BY <1>1, <1>13

\* Refinement: a channel is a bounded first in first out buffer, or a rendezvous.
THEOREM ChannelRefinesFifo == Spec => ImplementsFifoChannel
<1> QED
  BY FifoInit, FifoStep, ChannelInvariant, PTL DEF Spec, ImplementsFifoChannel, Fifo!Spec
=============================================================================
