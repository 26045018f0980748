-------------------------- MODULE ChannelSelectProofs --------------------------
(***************************************************************************)
(* Proofs about ChannelSelect.tla for any coroutines, channels, capacities *)
(* and selections that fulfil SelectionAssumption: the invariants that the *)
(* run checks.  They rest on two facts about an instant at which no waiter *)
(* was just resumed: whoever waits to push waits before a full channel or  *)
(* one that is closed, whoever waits to pop before an empty one, and both  *)
(* do not happen on one channel.  While a woken coroutine has not run yet, *)
(* its own channel is one item off, which is the item it goes on with.     *)
(***************************************************************************)
EXTENDS ChannelSelect, QueueProofs, TLAPS

\* What the lists of requests must not do.  A select on both directions of an
\* unbuffered channel could meet itself, and the break of the second loop of
\* cat_channel_select() leaves dummies behind unless the channel that gets closed
\* comes last.
SelectionAssumption ==
    \A rs \in Selections : \A i, j \in DOMAIN rs :
        /\ rs[i].channel = rs[j].channel => rs[i].opcode = rs[j].opcode
        /\ rs[i].channel \in Closable => j <= i

Nodes == [coroutine : Coroutines, index : Nat]

TypeOK ==
    /\ closed \in [Channels -> BOOLEAN]
    /\ length \in [Channels -> Nat]
    /\ able \in [Channels -> Opcodes \cup {"none"}]
    /\ waiters \in [Channels -> [Opcodes -> Seq(Nodes)]]
    /\ resumed \in Coroutines \cup {NoCo}
    /\ fired \in BOOLEAN
    /\ pending \in [Coroutines -> {"none", "wait", "select", "close"}]
    /\ requests \in [Coroutines -> Seq(Requests)]
    /\ named \in [Coroutines -> Nat]

\* Each call has its requests, and only who waits is resumed.
CallsAreFormed ==
    /\ \A c \in Coroutines :
          /\ pending[c] = "none" => requests[c] = <<>>
          /\ pending[c] \in {"wait", "close"} => Len(requests[c]) = 1
          /\ pending[c] = "close" => closed[requests[c][1].channel]
          /\ pending[c] = "select" => requests[c] \in Selections
          /\ pending[c] # "select" => named[c] = 0
          /\ named[c] # 0 => named[c] \in DOMAIN requests[c] /\ resumed = c
    /\ resumed # NoCo => pending[resumed] \in {"wait", "select"}
    /\ \A ch \in Channels : closed[ch] => ch \in Closable

\* An offer is open for the one that runs next, unless it was its timer.
OffersAreTaken ==
    \A ch \in Channels :
        able[ch] # "none" => ~fired /\ ~closed[ch] /\ IsUnbuffered(ch)

\* The request that c goes on with, if it was woken for one.
Target(c) == requests[c][IF pending[c] = "wait" THEN 1 ELSE named[c]]

\* Who waits on a channel cannot do what it waits for.
Settled(ch) ==
    /\ Waiting(ch, "push") => IsFull(ch) \/ closed[ch]
    /\ Waiting(ch, "pop") => IsEmpty(ch)

\* A woken coroutine takes its channel back to where nobody can go on.
Expected(ch) ==
    /\ resumed # NoCo
    /\ ~fired
    /\ pending[resumed] = "select" => named[resumed] # 0
    /\ Target(resumed).channel = ch
    /\ IF Target(resumed).opcode = "push" THEN length[ch] + 1 = Capacity[ch]
                                          ELSE length[ch] = 1 /\ ~closed[ch]

WaitsAreSettled == \A ch \in Channels : Settled(ch) \/ Expected(ch)

OneSideWaits == \A ch \in Channels : ~(Waiting(ch, "push") /\ Waiting(ch, "pop"))

\* Once the close of a channel has returned, nobody waits on it any more.
ClosedIsLeft ==
    \A ch \in Channels : closed[ch] /\ ~IsClosing(ch) =>
        ~Waiting(ch, "push") /\ ~Waiting(ch, "pop")

IInv ==
    /\ TypeOK
    /\ CallsAreFormed
    /\ NodesAreAlive
    /\ WokenSelectCanGoOn
    /\ NoHalfRendezvous
    /\ OffersAreTaken
    /\ WaitsAreSettled
    /\ OneSideWaits
    /\ ClosedIsLeft

-----------------------------------------------------------------------------
(* What the invariant says of a waiter *)

\* The invariant holds before the first call.
LEMMA InvInit == Init => IInv
<1> SUFFICES ASSUME Init PROVE IInv
  OBVIOUS
<1> USE SelectAssumption DEF Init
<1>1. TypeOK
  BY EmptySeq DEF TypeOK, Opcodes
<1>2. CallsAreFormed /\ OffersAreTaken
  BY DEF CallsAreFormed, OffersAreTaken
<1>3. NodesAreAlive
  BY DEF NodesAreAlive, ToSet
<1>4. WokenSelectCanGoOn /\ NoHalfRendezvous
  BY DEF WokenSelectCanGoOn, NoHalfRendezvous
<1>5. WaitsAreSettled /\ OneSideWaits /\ ClosedIsLeft
  BY DEF WaitsAreSettled, Settled, OneSideWaits, ClosedIsLeft, Waiting, Opcodes
<1> QED
  BY <1>1, <1>2, <1>3, <1>4, <1>5 DEF IInv

\* Each queue is a sequence of nodes, empty just when it has none.
LEMMA QueueType ==
    ASSUME TypeOK, NEW ch \in Channels, NEW op \in Opcodes
    PROVE  /\ waiters[ch][op] \in Seq(Nodes)
           /\ Waiting(ch, op) <=> ToSet(waiters[ch][op]) # {}
           /\ Waiting(ch, op) => Head(waiters[ch][op]) \in ToSet(waiters[ch][op])
           /\ ToSet(waiters[ch][op]) \subseteq Nodes
<1>1. waiters[ch][op] \in Seq(Nodes)
  BY DEF TypeOK
<1>2. ToSet(waiters[ch][op]) \subseteq Nodes
  BY <1>1 DEF ToSet
<1> QED
  BY <1>1, <1>2, EmptyQueue, HeadIsInQueue DEF Waiting

\* The node of a request of a waiting call, and back.
LEMMA NodeHasRequest ==
    ASSUME IInv, NEW ch \in Channels, NEW op \in Opcodes, NEW n \in ToSet(waiters[ch][op])
    PROVE  /\ n \in Nodes
           /\ n.coroutine \in Coroutines
           /\ \/ /\ pending[n.coroutine] = "wait"
                 /\ n = Node(n.coroutine, 0)
                 /\ requests[n.coroutine][1] = [channel |-> ch, opcode |-> op]
              \/ /\ pending[n.coroutine] = "select"
                 /\ n = Node(n.coroutine, n.index)
                 /\ n.index \in DOMAIN requests[n.coroutine]
                 /\ requests[n.coroutine][n.index] = [channel |-> ch, opcode |-> op]
<1>1. n \in Nodes
  BY QueueType DEF IInv
<1>2. PICK i \in DOMAIN requests[n.coroutine] :
          /\ pending[n.coroutine] \in {"wait", "select"}
          /\ n = NodeOf(n.coroutine, i)
          /\ requests[n.coroutine][i] = [channel |-> ch, opcode |-> op]
  BY DEF IInv, NodesAreAlive
<1>3. n.coroutine \in Coroutines
  BY <1>1 DEF Nodes
<1>4. CASE pending[n.coroutine] = "wait"
  <2>1. requests[n.coroutine] \in Seq(Requests) /\ Len(requests[n.coroutine]) = 1
    BY <1>3, <1>4 DEF IInv, TypeOK, CallsAreFormed
  <2>2. i = 1
    BY <1>2, <2>1
  <2> QED
    BY <1>1, <1>2, <1>3, <1>4, <2>2 DEF NodeOf
<1>5. CASE pending[n.coroutine] = "select"
  <2>1. n = Node(n.coroutine, i)
    BY <1>2, <1>5 DEF NodeOf
  <2>2. n.index = i
    BY <2>1 DEF Node
  <2> QED
    BY <1>1, <1>2, <1>3, <1>5, <2>1, <2>2
<1> QED
  BY <1>2, <1>4, <1>5

\* A request of a waiting call is in its queue.
LEMMA RequestWaits ==
    ASSUME IInv, NEW c \in Coroutines, pending[c] \in {"wait", "select"},
           NEW i \in DOMAIN requests[c]
    PROVE  /\ requests[c][i] \in Requests
           /\ requests[c][i].channel \in Channels
           /\ requests[c][i].opcode \in Opcodes
           /\ Waiting(requests[c][i].channel, requests[c][i].opcode)
<1> DEFINE r == requests[c][i]
<1>1. requests[c] \in Seq(Requests)
  BY DEF IInv, TypeOK
<1>2. r \in Requests
  BY <1>1
<1>3. r.channel \in Channels /\ r.opcode \in Opcodes
  BY <1>2 DEF Requests
<1>4. NodeOf(c, i) \in ToSet(waiters[r.channel][r.opcode])
  BY DEF IInv, NodesAreAlive
<1> QED
  BY <1>2, <1>3, <1>4, QueueType DEF IInv

\* Nothing is left to be taken up while nobody was just resumed.
LEMMA Quiet ==
    ASSUME IInv, resumed = NoCo
    PROVE  /\ \A c \in Coroutines : named[c] = 0
           /\ \A ch \in Channels : able[ch] = "none" /\ Settled(ch)
<1>1. \A c \in Coroutines : named[c] = 0
  BY SelectAssumption DEF IInv, CallsAreFormed
<1>2. \A ch \in Channels : able[ch] = "none"
  BY DEF IInv, NoHalfRendezvous
<1>3. \A ch \in Channels : Settled(ch)
  BY DEF IInv, WaitsAreSettled, Expected
<1> QED
  BY <1>1, <1>2, <1>3

\* A channel without a buffer has no items.
LEMMA Bounded ==
    ASSUME IInv, NEW ch \in Channels
    PROVE  /\ length[ch] \in Nat /\ Capacity[ch] \in Nat
           /\ length[ch] <= Capacity[ch]
           /\ IsUnbuffered(ch) => IsEmpty(ch) /\ IsFull(ch)
<1>1. length[ch] \in Nat /\ Capacity[ch] \in Nat /\ length[ch] <= Capacity[ch]
  BY SelectAssumption DEF IInv, TypeOK, WokenSelectCanGoOn
<1> QED
  BY <1>1 DEF IsUnbuffered, IsEmpty, IsFull

\* What is required of a select that was woken for a request.
CanGoOn(c) ==
    LET r == requests[c][named[c]]
    IN  /\ resumed = c
        /\ \/ closed[r.channel]
           \/ IsUnbuffered(r.channel) /\ able[r.channel] = r.opcode
           \/ ~IsUnbuffered(r.channel) /\ IsPossible(r)

\* WokenSelectCanGoOn in these terms.
LEMMA WokenCanGoOn ==
    /\ WokenSelectCanGoOn <=>
          /\ \A ch \in Channels : length[ch] <= Capacity[ch]
          /\ \A c \in Coroutines :
                pending[c] = "select" /\ named[c] # 0 => CanGoOn(c)
    /\ WokenSelectCanGoOn' <=>
          /\ \A ch \in Channels : length'[ch] <= Capacity[ch]
          /\ \A c \in Coroutines :
                pending'[c] = "select" /\ named'[c] # 0 => CanGoOn(c)'
BY DEF WokenSelectCanGoOn, CanGoOn

-----------------------------------------------------------------------------
(* Calls that go on at once *)

\* Who wakes the first waiter of the other side finds it waiting for just that.
LEMMA WakeNames ==
    ASSUME IInv, resumed = NoCo, NEW ch \in Channels, NEW op \in Opcodes,
           Wake(waiters[ch][op])
    PROVE  /\ fired' = FALSE
           /\ ~Waiting(ch, op) => resumed' = NoCo /\ named' = named
           /\ Waiting(ch, op) =>
                 /\ resumed' \in Coroutines /\ resumed' # NoCo
                 /\ pending[resumed'] \in {"wait", "select"}
                 /\ named' = [named EXCEPT ![resumed'] = named'[resumed']]
                 /\ pending[resumed'] = "wait" =>
                       /\ named'[resumed'] = 0
                       /\ 1 \in DOMAIN requests[resumed']
                       /\ requests[resumed'][1] = [channel |-> ch, opcode |-> op]
                 /\ pending[resumed'] = "select" =>
                       /\ named'[resumed'] # 0
                       /\ named'[resumed'] \in DOMAIN requests[resumed']
                       /\ requests[resumed'][named'[resumed']] = [channel |-> ch, opcode |-> op]
<1> DEFINE h == Head(waiters[ch][op])
           w == h.coroutine
<1>1. fired' = FALSE
  BY DEF Wake
<1>2. ASSUME ~Waiting(ch, op) PROVE resumed' = NoCo /\ named' = named
  BY <1>2 DEF Wake, Waiting
<1>3. ASSUME Waiting(ch, op)
      PROVE  /\ h \in ToSet(waiters[ch][op])
             /\ resumed' = w
             /\ named' = [named EXCEPT ![w] = h.index]
  BY <1>3, QueueType DEF Wake, Waiting, IInv
<1>4. ASSUME Waiting(ch, op)
      PROVE  /\ w \in Coroutines /\ w # NoCo
             /\ named'[w] = h.index
             /\ \/ /\ pending[w] = "wait" /\ h.index = 0
                   /\ requests[w][1] = [channel |-> ch, opcode |-> op]
                \/ /\ pending[w] = "select"
                   /\ h.index \in DOMAIN requests[w]
                   /\ requests[w][h.index] = [channel |-> ch, opcode |-> op]
  <2> HIDE DEF h
  <2>1. h \in ToSet(waiters[ch][op]) /\ named' = [named EXCEPT ![w] = h.index]
    BY <1>3, <1>4
  <2>2. w \in Coroutines /\ w # NoCo /\ named \in [Coroutines -> Nat]
    <3>1. w \in Coroutines
      BY <2>1, NodeHasRequest, Zenon
    <3> QED
      BY <3>1, SelectAssumption DEF IInv, TypeOK
  <2>3. named'[w] = h.index
    BY <2>1, <2>2
  <2>4. h = Node(w, 0) => h.index = 0
    BY DEF Node
  <2> QED
    BY <2>1, <2>2, <2>3, <2>4, NodeHasRequest
<1>5. ASSUME Waiting(ch, op)
      PROVE  requests[w] \in Seq(Requests) /\ (pending[w] = "wait" => Len(requests[w]) = 1)
  BY <1>4, <1>5 DEF IInv, TypeOK, CallsAreFormed
<1> HIDE DEF h
<1>6. \A i \in DOMAIN requests[w] : Waiting(ch, op) => i # 0
  BY <1>5
<1>7. Waiting(ch, op) /\ pending[w] = "wait" => 1 \in DOMAIN requests[w]
  BY <1>5
<1> QED
  BY <1>1, <1>2, <1>3, <1>4, <1>6, <1>7

\* A push or pop that need not wait: one item more or less, or an offer, for the
\* waiter it wakes.
LEMMA PerformInv ==
    ASSUME IInv, resumed = NoCo, NEW r \in Requests, ~IsRefused(r), IsPossible(r),
           Perform(r), UNCHANGED <<pending, requests>>
    PROVE  IInv'
<1> DEFINE ch == r.channel
           op == r.opcode
           ot == Other(r.opcode)
<1>1. ch \in Channels /\ op \in Opcodes /\ ot \in Opcodes /\ ot # op
      /\ (op = "push" => ot = "pop") /\ (op = "pop" => ot = "push")
      /\ r = [channel |-> ch, opcode |-> op]
  BY DEF Requests, Opcodes, Other
<1>2. /\ \A c \in Coroutines : named[c] = 0
      /\ \A x \in Channels : able[x] = "none" /\ Settled(x)
  BY Quiet
<1>3. /\ fired' = FALSE
      /\ ~Waiting(ch, ot) => resumed' = NoCo /\ named' = named
      /\ Waiting(ch, ot) =>
            /\ resumed' \in Coroutines /\ resumed' # NoCo
            /\ pending[resumed'] \in {"wait", "select"}
            /\ named' = [named EXCEPT ![resumed'] = named'[resumed']]
            /\ pending[resumed'] = "wait" =>
                  /\ named'[resumed'] = 0
                  /\ 1 \in DOMAIN requests[resumed']
                  /\ requests[resumed'][1] = [channel |-> ch, opcode |-> ot]
            /\ pending[resumed'] = "select" =>
                  /\ named'[resumed'] # 0
                  /\ named'[resumed'] \in DOMAIN requests[resumed']
                  /\ requests[resumed'][named'[resumed']] = [channel |-> ch, opcode |-> ot]
  <2>1. Wake(waiters[ch][ot])
    BY DEF Perform
  <2> HIDE DEF ch, op, ot
  <2> QED
    BY <1>1, <2>1, WakeNames
<1>4. UNCHANGED <<closed, waiters, pending, requests>>
  BY DEF Perform
<1>5. \A x \in Channels :
         /\ length[x] \in Nat /\ Capacity[x] \in Nat /\ length[x] <= Capacity[x]
         /\ IsUnbuffered(x) => IsEmpty(x) /\ IsFull(x)
  BY Bounded
<1>6. \/ /\ IsUnbuffered(ch) /\ Waiting(ch, ot)
         /\ able' = [able EXCEPT ![ch] = ot] /\ length' = length
         /\ ~closed[ch]
      \/ /\ ~IsUnbuffered(ch) /\ able' = able /\ op = "push" /\ ~closed[ch]
         /\ length[ch] < Capacity[ch] /\ length' = [length EXCEPT ![ch] = length[ch] + 1]
      \/ /\ ~IsUnbuffered(ch) /\ able' = able /\ op = "pop"
         /\ length[ch] > 0 /\ length' = [length EXCEPT ![ch] = length[ch] - 1]
  <2>1. CASE IsUnbuffered(ch)
    BY <1>1, <1>5, <2>1 DEF Perform, IsPossible, IsRefused
  <2>2. CASE ~IsUnbuffered(ch) /\ op = "push"
    <3>1. length[ch] # Capacity[ch] /\ ~closed[ch]
      BY <2>2 DEF IsPossible, IsFull, IsRefused
    <3> QED
      BY <1>1, <1>5, <2>2, <3>1 DEF Perform, Move, IInv, TypeOK
  <2>3. CASE ~IsUnbuffered(ch) /\ op = "pop"
    <3>1. length[ch] # 0
      BY <2>3 DEF IsPossible, IsEmpty
    <3> QED
      BY <1>1, <1>5, <2>3, <3>1 DEF Perform, Move, IInv, TypeOK
  <2> QED
    BY <1>1, <2>1, <2>2, <2>3 DEF Opcodes
<1>7. \A x \in Channels, o \in Opcodes : Waiting(x, o)' <=> Waiting(x, o)
  BY <1>4 DEF Waiting
<1> HIDE DEF ch, op, ot
<1>8. length' \in [Channels -> Nat] /\ able' \in [Channels -> Opcodes \cup {"none"}]
      /\ \A x \in Channels : length'[x] <= Capacity[x]
  <2>1. length \in [Channels -> Nat] /\ able \in [Channels -> Opcodes \cup {"none"}]
    BY DEF IInv, TypeOK
  <2>2. able' \in [Channels -> Opcodes \cup {"none"}]
    BY <1>1, <1>6, <2>1
  <2>3. length' \in [Channels -> Nat]
    BY <1>1, <1>6, <2>1
  <2>4. ASSUME NEW x \in Channels PROVE length'[x] <= Capacity[x]
    BY <1>1, <1>5, <1>6, <2>1
  <2> QED
    BY <2>2, <2>3, <2>4
<1>9. TypeOK'
  <2>1. named' \in [Coroutines -> Nat]
    <3>1. \A c \in Coroutines : \A i \in DOMAIN requests[c] : i \in Nat
      BY DEF IInv, TypeOK
    <3> QED
      BY <1>3, <3>1 DEF IInv, TypeOK
  <2> QED
    BY <1>3, <1>4, <1>8, <2>1 DEF IInv, TypeOK
<1>10. \A c \in Coroutines : named'[c] # 0 => c = resumed' /\ pending[c] = "select"
  BY <1>2, <1>3 DEF IInv, TypeOK
<1>11. CallsAreFormed'
  BY <1>3, <1>4, <1>10 DEF IInv, CallsAreFormed
<1>12. NodesAreAlive'
  BY <1>4 DEF IInv, NodesAreAlive, NodeOf
<1>13. WokenSelectCanGoOn'
  <2> SUFFICES ASSUME NEW c \in Coroutines, pending'[c] = "select", named'[c] # 0
               PROVE  CanGoOn(c)'
    BY <1>8, WokenCanGoOn
  <2>1. c = resumed'
    BY <1>10
  <2>2. Waiting(ch, ot)
    BY <1>2, <1>3
  <2>3. requests'[c][named'[c]] = [channel |-> ch, opcode |-> ot]
    BY <1>3, <1>4, <2>1, <2>2
  <2>4. \/ IsUnbuffered(ch) /\ able'[ch] = ot
        \/ ~IsUnbuffered(ch) /\ (ot = "push" => length'[ch] # Capacity[ch])
                             /\ (ot = "pop" => length'[ch] # 0)
    BY <1>1, <1>5, <1>6 DEF IInv, TypeOK
  <2> QED
    BY <1>1, <2>1, <2>3, <2>4 DEF CanGoOn, IsUnbuffered, IsPossible, IsFull, IsEmpty, Opcodes
<1>14. NoHalfRendezvous'
  <2> SUFFICES ASSUME NEW x \in Channels, able'[x] # "none"
               PROVE  /\ resumed' # NoCo
                      /\ \E i \in DOMAIN requests'[resumed'] :
                            /\ requests'[resumed'][i] = [channel |-> x, opcode |-> able'[x]]
                            /\ pending'[resumed'] = "wait" \/ named'[resumed'] = i
    BY DEF NoHalfRendezvous
  <2>1. x = ch /\ able'[x] = ot /\ Waiting(ch, ot)
    BY <1>1, <1>2, <1>6 DEF IInv, TypeOK
  <2> QED
    BY <1>3, <1>4, <2>1
<1>15. OffersAreTaken'
  <2>1. \A x \in Channels : IsUnbuffered(x)' <=> IsUnbuffered(x)
    BY DEF IsUnbuffered
  <2> QED
    BY <2>1, <1>1, <1>2, <1>3, <1>4, <1>6 DEF OffersAreTaken, IInv, TypeOK
<1>16. WaitsAreSettled'
  <2> SUFFICES ASSUME NEW x \in Channels PROVE Settled(x)' \/ Expected(x)'
    BY DEF WaitsAreSettled
  <2>1. CASE length'[x] = length[x]
    <3>1. Settled(x)
      BY <1>2
    <3> QED
      BY <1>4, <1>7, <2>1, <3>1 DEF Settled, IsFull, IsEmpty, Opcodes
  <2>2. CASE length'[x] # length[x]
    <3>1. x = ch /\ ~IsUnbuffered(ch)
      BY <1>1, <1>6, <2>2 DEF IInv, TypeOK
    <3>2. Settled(ch)
      BY <1>1, <1>2
    <3>3. Waiting(ch, ot) => Target(resumed)' = [channel |-> ch, opcode |-> ot]
      BY <1>3, <1>4 DEF Target
    <3>4. ~(Waiting(ch, "push") /\ Waiting(ch, "pop"))
      BY <1>1 DEF IInv, OneSideWaits
    <3>5. CASE op = "push"
      <4>1. ~closed[ch] /\ length[ch] < Capacity[ch] /\ length'[ch] = length[ch] + 1
        BY <1>1, <1>6, <3>1, <3>5 DEF IInv, TypeOK
      <4>2. ~Waiting(ch, "push")
        BY <1>1, <1>5, <3>2, <4>1 DEF Settled, IsFull
      <4>3. CASE Waiting(ch, "pop")
        <5>1. length'[ch] = 1
          BY <3>2, <4>1, <4>3 DEF Settled, IsEmpty
        <5> QED
          BY <1>1, <1>3, <1>4, <3>1, <3>3, <3>5, <4>1, <4>3, <5>1 DEF Expected
      <4>4. CASE ~Waiting(ch, "pop")
        BY <1>1, <1>7, <3>1, <4>2, <4>4 DEF Settled, Opcodes
      <4> QED
        BY <4>3, <4>4
    <3>6. CASE op = "pop"
      <4>1. length[ch] > 0 /\ length'[ch] = length[ch] - 1
        BY <1>1, <1>6, <3>1, <3>6 DEF IInv, TypeOK
      <4>2. ~Waiting(ch, "pop")
        BY <1>1, <1>5, <3>2, <4>1 DEF Settled, IsEmpty
      <4>3. CASE Waiting(ch, "push") /\ ~closed[ch]
        <5>1. length'[ch] + 1 = Capacity[ch]
          BY <1>1, <1>5, <3>2, <4>1, <4>3 DEF Settled, IsFull
        <5> QED
          BY <1>1, <1>3, <1>4, <3>1, <3>3, <3>6, <4>3, <5>1 DEF Expected
      <4>4. CASE ~Waiting(ch, "push") \/ closed[ch]
        BY <1>1, <1>4, <1>7, <3>1, <4>2, <4>4 DEF Settled, Opcodes
      <4> QED
        BY <4>3, <4>4
    <3> QED
      BY <1>1, <3>5, <3>6 DEF Opcodes
  <2> QED
    BY <2>1, <2>2
<1>17. OneSideWaits' /\ ClosedIsLeft'
  BY <1>4, <1>7 DEF IInv, OneSideWaits, ClosedIsLeft, IsClosing, Opcodes
<1> QED
  BY <1>9, <1>11, <1>12, <1>13, <1>14, <1>15, <1>16, <1>17 DEF IInv

-----------------------------------------------------------------------------
(* Calls that wait *)

\* The index of the node for the i-th request.
Index(call, i) == IF call = "wait" THEN 0 ELSE i

\* n is the node of one of the requests rs, for the queue op of ch.
IsNodeFor(n, c, call, rs, ch, op) ==
    \E i \in DOMAIN rs : /\ rs[i] = [channel |-> ch, opcode |-> op]
                         /\ n = Node(c, Index(call, i))

\* The nodes of the requests rs join their queues.
Joins(c, call, rs) ==
    /\ waiters' \in [Channels -> [Opcodes -> Seq(Nodes)]]
    /\ \A ch \in Channels, op \in Opcodes : \A n :
          n \in ToSet(waiters'[ch][op]) <=>
             n \in ToSet(waiters[ch][op]) \/ IsNodeFor(n, c, call, rs, ch, op)

\* Nothing of it can be done now.
Barred(r) ==
    /\ ~closed[r.channel]
    /\ r.opcode = "push" => IsFull(r.channel) /\ ~Waiting(r.channel, "pop")
    /\ r.opcode = "pop" => IsEmpty(r.channel) /\ ~Waiting(r.channel, "push")

AllBarred(rs) == \A i \in DOMAIN rs : Barred(rs[i])

OneWay(rs) ==
    \A i, j \in DOMAIN rs : rs[i].channel = rs[j].channel => rs[i].opcode = rs[j].opcode

\* A call that waits for what cannot be done now joins the queues of its requests.
LEMMA WaitInv ==
    ASSUME IInv, NEW c \in Coroutines, Free(c),
           NEW call \in {"wait", "select"}, NEW rs \in Seq(Requests),
           call = "wait" => Len(rs) = 1,
           call = "select" => rs \in Selections,
           Begin(c, call, rs),
           UNCHANGED <<closed, length, able, resumed, fired, named>>,
           Joins(c, call, rs), AllBarred(rs), OneWay(rs)
    PROVE  IInv'
<1> DEFINE Wants(ch, op) == \E i \in DOMAIN rs : rs[i] = [channel |-> ch, opcode |-> op]
<1>1. resumed = NoCo /\ pending[c] = "none"
  BY DEF Free
<1>2. /\ \A d \in Coroutines : named[d] = 0
      /\ \A ch \in Channels : able[ch] = "none" /\ Settled(ch)
  BY <1>1, Quiet
<1>3. /\ pending' = [pending EXCEPT ![c] = call]
      /\ requests' = [requests EXCEPT ![c] = rs]
  BY DEF Begin
<1>4. TypeOK'
  BY <1>3 DEF IInv, TypeOK, Joins
<1>5. /\ pending'[c] = call /\ requests'[c] = rs
      /\ \A d \in Coroutines \ {c} : pending'[d] = pending[d] /\ requests'[d] = requests[d]
  BY <1>3 DEF IInv, TypeOK
<1>6. ASSUME NEW ch \in Channels, NEW op \in Opcodes, NEW n
      PROVE  n \in ToSet(waiters'[ch][op]) <=>
                n \in ToSet(waiters[ch][op]) \/ IsNodeFor(n, c, call, rs, ch, op)
  BY DEF Joins
<1>7. ASSUME NEW ch \in Channels, NEW op \in Opcodes
      PROVE  Waiting(ch, op)' <=> Waiting(ch, op) \/ Wants(ch, op)
  <2>1. waiters'[ch][op] \in Seq(Nodes) /\ waiters[ch][op] \in Seq(Nodes)
    BY DEF IInv, TypeOK, Joins
  <2>2. /\ Waiting(ch, op)' <=> ToSet(waiters'[ch][op]) # {}
        /\ Waiting(ch, op) <=> ToSet(waiters[ch][op]) # {}
    BY <2>1, EmptyQueue DEF Waiting
  <2>3. Wants(ch, op) <=> \E n : IsNodeFor(n, c, call, rs, ch, op)
    BY DEF IsNodeFor
  <2> HIDE DEF Wants
  <2> QED
    BY <1>6, <2>2, <2>3
<1>8. CallsAreFormed'
  <2>1. \A d \in Coroutines \ {c} : pending'[d] = pending[d] /\ requests'[d] = requests[d]
    BY <1>5
  <2> QED
    BY <1>1, <1>2, <1>5, SelectAssumption DEF IInv, CallsAreFormed
<1>9. NodesAreAlive'
  <2>1. ASSUME NEW ch \in Channels, NEW op \in Opcodes, NEW n \in ToSet(waiters'[ch][op])
        PROVE  \E i \in DOMAIN requests'[n.coroutine] :
                  /\ pending'[n.coroutine] \in {"wait", "select"}
                  /\ n = NodeOf(n.coroutine, i)'
                  /\ requests'[n.coroutine][i] = [channel |-> ch, opcode |-> op]
    <3>1. CASE n \in ToSet(waiters[ch][op])
      <4>1. n.coroutine \in Coroutines \ {c}
        <5>1. n.coroutine \in Coroutines /\ pending[n.coroutine] \in {"wait", "select"}
          <6>1. n.coroutine \in Coroutines
            BY <3>1, NodeHasRequest, Zenon
          <6>2. pending[n.coroutine] \in {"wait", "select"}
            BY <3>1 DEF IInv, NodesAreAlive
          <6> QED
            BY <6>1, <6>2
        <5> QED
          BY <1>1, <5>1
      <4> QED
        <5>1. PICK i \in DOMAIN requests[n.coroutine] :
                 /\ pending[n.coroutine] \in {"wait", "select"}
                 /\ n = NodeOf(n.coroutine, i)
                 /\ requests[n.coroutine][i] = [channel |-> ch, opcode |-> op]
          BY <3>1 DEF IInv, NodesAreAlive
        <5>2. pending'[n.coroutine] = pending[n.coroutine]
              /\ requests'[n.coroutine] = requests[n.coroutine]
          BY <1>5, <4>1
        <5> QED
          BY <5>1, <5>2 DEF NodeOf
    <3>2. CASE n \notin ToSet(waiters[ch][op])
      <4>0. IsNodeFor(n, c, call, rs, ch, op)
        BY <1>6, <3>2
      <4>1. PICK i \in DOMAIN rs : /\ rs[i] = [channel |-> ch, opcode |-> op]
                                   /\ n = Node(c, Index(call, i))
        BY <4>0 DEF IsNodeFor
      <4>2. n.coroutine = c
        BY <4>1 DEF Node
      <4> QED
        BY <1>5, <4>1, <4>2 DEF NodeOf, Index
    <3> QED
      BY <3>1, <3>2
  <2>2. ASSUME NEW d \in Coroutines, pending'[d] \in {"wait", "select"},
               NEW i \in DOMAIN requests'[d]
        PROVE  NodeOf(d, i)' \in ToSet(waiters'[requests'[d][i].channel][requests'[d][i].opcode])
    <3>1. CASE d # c
      <4>1. /\ pending[d] \in {"wait", "select"} /\ i \in DOMAIN requests[d]
            /\ requests'[d] = requests[d] /\ NodeOf(d, i)' = NodeOf(d, i)
        BY <1>5, <2>2, <3>1 DEF NodeOf
      <4>2. requests[d][i].channel \in Channels /\ requests[d][i].opcode \in Opcodes
        BY <4>1, RequestWaits
      <4>3. NodeOf(d, i) \in ToSet(waiters[requests[d][i].channel][requests[d][i].opcode])
        BY <4>1 DEF IInv, NodesAreAlive
      <4>4. NodeOf(d, i) \in ToSet(waiters'[requests[d][i].channel][requests[d][i].opcode])
        BY <1>6, <4>2, <4>3
      <4> QED
        BY <4>1, <4>4
    <3>2. CASE d = c
      <4>1. i \in DOMAIN rs /\ requests'[d][i] = rs[i]
        BY <1>5, <3>2
      <4>2. rs[i] \in Requests
        BY <4>1
      <4>3. /\ rs[i].channel \in Channels /\ rs[i].opcode \in Opcodes
            /\ rs[i] = [channel |-> rs[i].channel, opcode |-> rs[i].opcode]
        BY <4>2 DEF Requests
      <4>4. NodeOf(d, i)' = Node(c, Index(call, i))
        BY <1>5, <3>2 DEF NodeOf, Index
      <4> QED
        <5>1. Node(c, Index(call, i)) \in ToSet(waiters'[rs[i].channel][rs[i].opcode])
          BY <1>6, <4>1, <4>3 DEF IsNodeFor
        <5> QED
          BY <4>1, <4>4, <5>1
    <3> QED
      BY <3>1, <3>2
  <2> QED
    BY <2>1, <2>2 DEF NodesAreAlive
<1>10. WokenSelectCanGoOn' /\ NoHalfRendezvous' /\ OffersAreTaken'
  BY <1>2, WokenCanGoOn DEF IInv, NoHalfRendezvous, OffersAreTaken
<1>11. \A i \in DOMAIN rs : \A ch \in Channels, op \in Opcodes :
          rs[i] = [channel |-> ch, opcode |-> op] => rs[i].channel = ch /\ rs[i].opcode = op
  OBVIOUS
<1>12. WaitsAreSettled'
  <2> SUFFICES ASSUME NEW ch \in Channels PROVE Settled(ch)'
    BY DEF WaitsAreSettled
  <2>1. Wants(ch, "push") => IsFull(ch)
    BY <1>11 DEF AllBarred, Barred, Opcodes
  <2>2. Wants(ch, "pop") => IsEmpty(ch)
    BY <1>11 DEF AllBarred, Barred, Opcodes
  <2> HIDE DEF Wants
  <2> QED
    BY <1>2, <1>7, <2>1, <2>2 DEF Settled, IsFull, IsEmpty, Opcodes
<1>13. OneSideWaits'
  <2> SUFFICES ASSUME NEW ch \in Channels PROVE ~(Waiting(ch, "push")' /\ Waiting(ch, "pop")')
    BY DEF OneSideWaits
  <2>1. Wants(ch, "push") => ~Waiting(ch, "pop") /\ ~Wants(ch, "pop")
    BY <1>11 DEF AllBarred, Barred, OneWay, Opcodes
  <2>2. Wants(ch, "pop") => ~Waiting(ch, "push")
    BY <1>11 DEF AllBarred, Barred, Opcodes
  <2> HIDE DEF Wants
  <2> QED
    BY <1>7, <2>1, <2>2 DEF IInv, OneSideWaits, Opcodes
<1>14. ClosedIsLeft'
  <2> SUFFICES ASSUME NEW ch \in Channels, closed[ch], ~IsClosing(ch)'
               PROVE  ~Waiting(ch, "push")' /\ ~Waiting(ch, "pop")'
    BY DEF ClosedIsLeft
  <2>1. ~IsClosing(ch)
    BY <1>1, <1>5 DEF IsClosing
  <2>2. ~Wants(ch, "push") /\ ~Wants(ch, "pop")
    BY <1>11 DEF AllBarred, Barred, Opcodes
  <2> HIDE DEF Wants
  <2> QED
    BY <1>7, <2>1, <2>2 DEF IInv, ClosedIsLeft, Opcodes
<1> QED
  BY <1>4, <1>8, <1>9, <1>10, <1>12, <1>13, <1>14 DEF IInv

\* What is neither refused nor ready is in nobody's reach.
LEMMA NotReady ==
    ASSUME IInv, resumed = NoCo, NEW r \in Requests, ~IsRefused(r),
           ~IsReady(r) \/ ~IsPossible(r)
    PROVE  Barred(r)
<1>1. r.channel \in Channels /\ r.opcode \in Opcodes
  BY DEF Requests
<1>2. Settled(r.channel)
  BY <1>1, Quiet
<1>3. /\ length[r.channel] \in Nat /\ Capacity[r.channel] \in Nat
      /\ length[r.channel] <= Capacity[r.channel]
      /\ IsUnbuffered(r.channel) => IsEmpty(r.channel) /\ IsFull(r.channel)
  BY <1>1, Bounded
<1>4. ~closed[r.channel]
  BY <1>1, <1>3 DEF IsRefused, IsReady, IsPossible, Opcodes, IsUnbuffered, IsEmpty, IsFull
<1>5. IsEmpty(r.channel) /\ IsFull(r.channel) => IsUnbuffered(r.channel)
  BY DEF IsEmpty, IsFull, IsUnbuffered
<1> QED
  BY <1>1, <1>2, <1>3, <1>4, <1>5
  DEF Barred, IsRefused, IsReady, IsPossible, Opcodes, Settled, Other

\* cat_channel_push() and cat_channel_pop().
LEMMA CallInv ==
    ASSUME IInv, NEW c \in Coroutines, NEW r \in Requests, Call(c, r)
    PROVE  IInv'
<1>1. Free(c) /\ ~IsRefused(r) /\ resumed = NoCo
  BY DEF Call, Free
<1>2. CASE IsPossible(r) /\ Perform(r) /\ UNCHANGED <<pending, requests>>
  BY <1>1, <1>2, PerformInv
<1>3. CASE /\ ~IsPossible(r)
           /\ waiters' = [waiters EXCEPT ![r.channel][r.opcode] = Append(@, Node(c, 0))]
           /\ Begin(c, "wait", <<r>>)
           /\ UNCHANGED <<closed, length, able, resumed, fired, named>>
  <2> DEFINE rs == <<r>>
             ch == r.channel
             op == r.opcode
  <2>1. ch \in Channels /\ op \in Opcodes /\ r = [channel |-> ch, opcode |-> op]
    BY DEF Requests
  <2>2. rs \in Seq(Requests) /\ Len(rs) = 1 /\ DOMAIN rs = {1} /\ rs[1] = r
    OBVIOUS
  <2>3. waiters \in [Channels -> [Opcodes -> Seq(Nodes)]] /\ Node(c, 0) \in Nodes
    BY DEF IInv, TypeOK, Nodes, Node
  <2>4. /\ Append(waiters[ch][op], Node(c, 0)) \in Seq(Nodes)
        /\ ToSet(Append(waiters[ch][op], Node(c, 0))) =
              ToSet(waiters[ch][op]) \cup {Node(c, 0)}
    <3> DEFINE q == waiters[ch][op]
    <3>1. q \in Seq(Nodes)
      BY <2>1, <2>3
    <3> HIDE DEF q
    <3>2. \A n \in Nodes : /\ <<n>> \in Seq(Nodes) /\ ToSet(<<n>>) = {n}
                           /\ Append(q, n) = q \o <<n>>
      BY <3>1 DEF ToSet
    <3>3. ToSet(q \o <<Node(c, 0)>>) = ToSet(q) \cup ToSet(<<Node(c, 0)>>)
          /\ q \o <<Node(c, 0)>> \in Seq(Nodes)
      <4>1. <<Node(c, 0)>> \in Seq(Nodes)
        BY <2>3, <3>2
      <4> QED
        BY <3>1, <4>1, ConcatWaiters
    <3> QED
      BY <2>3, <3>2, <3>3 DEF q
  <2> HIDE DEF rs, ch, op
  <2>5. waiters' = [waiters EXCEPT ![ch][op] = Append(waiters[ch][op], Node(c, 0))]
    BY <1>3 DEF ch, op
  <2>6. waiters' \in [Channels -> [Opcodes -> Seq(Nodes)]]
    BY <2>1, <2>3, <2>4, <2>5
  <2>7. ASSUME NEW x \in Channels, NEW o \in Opcodes, NEW n
        PROVE  n \in ToSet(waiters'[x][o]) <=>
                  n \in ToSet(waiters[x][o]) \/ IsNodeFor(n, c, "wait", rs, x, o)
    <3>0. \A i : Node(c, Index("wait", i)) = Node(c, 0)
      BY DEF Index
    <3>1. CASE x = ch /\ o = op
      <4>1. ToSet(waiters'[x][o]) = ToSet(waiters[x][o]) \cup {Node(c, 0)}
        BY <2>1, <2>3, <2>4, <2>5, <3>1
      <4>2. 1 \in DOMAIN rs /\ rs[1] = [channel |-> x, opcode |-> o]
        BY <2>1, <2>2, <3>1
      <4> QED
        BY <2>2, <3>0, <4>1, <4>2 DEF IsNodeFor
    <3>2. CASE ~(x = ch /\ o = op)
      <4>1. waiters'[x][o] = waiters[x][o]
        BY <2>1, <2>3, <2>5, <3>2
      <4>2. r # [channel |-> x, opcode |-> o]
        BY <3>2 DEF ch, op
      <4> QED
        BY <2>2, <4>1, <4>2 DEF IsNodeFor
    <3> QED
      BY <3>1, <3>2
  <2>8. Joins(c, "wait", rs)
    BY <2>6, <2>7, Zenon DEF Joins
  <2>9. AllBarred(rs) /\ OneWay(rs)
    BY <1>1, <1>3, <2>2, NotReady DEF AllBarred, OneWay
  <2>10. Begin(c, "wait", rs) /\ Len(rs) = 1
    BY <1>3, <2>2 DEF rs
  <2> QED
    BY <1>1, <1>3, <2>2, <2>8, <2>9, <2>10, WaitInv
<1> QED
  BY <1>2, <1>3 DEF Call

\* A select whose first request that decides is ready.
LEMMA SelectAtOnceInv ==
    ASSUME IInv, NEW c \in Coroutines, NEW rs \in Selections, SelectAtOnce(c, rs)
    PROVE  IInv'
<1>1. PICK i \in DOMAIN rs : ~IsRefused(rs[i]) /\ IsPossible(rs[i]) /\ Perform(rs[i])
  BY DEF SelectAtOnce
<1>2. rs[i] \in Requests
  BY SelectAssumption
<1> QED
  BY <1>1, <1>2, PerformInv DEF SelectAtOnce, Free

\* The dummies of a select for one queue.
LEMMA DummiesAreNodes ==
    ASSUME NEW c \in Coroutines, NEW rs \in Seq(Requests), NEW ch, NEW op
    PROVE  /\ Dummies(c, rs, ch, op) \in Seq(Nodes)
           /\ \A n : n \in ToSet(Dummies(c, rs, ch, op)) <=>
                        IsNodeFor(n, c, "select", rs, ch, op)
<1> DEFINE all == [i \in DOMAIN rs |-> Node(c, i)]
           T == {Node(c, i) : i \in {i \in DOMAIN rs : rs[i] = [channel |-> ch, opcode |-> op]}}
<1>1. DOMAIN rs = 1..Len(rs) /\ Len(rs) \in Nat
  OBVIOUS
<1>2. \A i \in 1..Len(rs) : Node(c, i) \in Nodes
  BY <1>1 DEF Node, Nodes
<1>3. /\ all \in Seq(Nodes) /\ Len(all) = Len(rs)
      /\ \A i \in 1..Len(rs) : all[i] = Node(c, i)
  <2>1. all = [i \in 1..Len(rs) |-> Node(c, i)]
    BY <1>1
  <2> HIDE DEF all
  <2> QED
    BY <1>1, <1>2, <2>1
<1>4. Dummies(c, rs, ch, op) = Keeping(all, T)
  BY DEF Dummies
<1>5. T \subseteq ToSet(all)
  <2> HIDE DEF all
  <2> QED
    BY <1>1, <1>3 DEF ToSet
<1>6. \A n : n \in T <=> IsNodeFor(n, c, "select", rs, ch, op)
  BY DEF IsNodeFor, Index
<1> HIDE DEF all, T
<1> QED
  BY <1>3, <1>4, <1>5, <1>6, KeepingProperties

\* A select that queues its dummies.
LEMMA SelectWaitsInv ==
    ASSUME SelectionAssumption, IInv, NEW c \in Coroutines, NEW rs \in Selections,
           SelectWaits(c, rs)
    PROVE  IInv'
<1>1. rs \in Seq(Requests) /\ DOMAIN rs \subseteq Nat
  <2>1. rs \in Seq(Requests)
    BY SelectAssumption
  <2> QED
    BY <2>1
<1>2. /\ Free(c) /\ resumed = NoCo
      /\ \A i \in DOMAIN rs : ~Decides(rs, i)
      /\ waiters' = [ch \in Channels |->
                        [op \in Opcodes |-> waiters[ch][op] \o Dummies(c, rs, ch, op)]]
      /\ Begin(c, "select", rs)
      /\ named' = [named EXCEPT ![c] = 0]
      /\ UNCHANGED <<closed, length, able, resumed, fired>>
  BY DEF SelectWaits, Free
<1>3. named' = named
  BY <1>2, Quiet DEF IInv, TypeOK
<1>4. ASSUME NEW i \in DOMAIN rs PROVE ~IsRefused(rs[i]) /\ ~IsReady(rs[i])
  <2> DEFINE T == {j \in DOMAIN rs : IsRefused(rs[j]) \/ IsReady(rs[j])}
  <2>1. CASE T = {}
    BY <2>1
  <2>2. CASE T # {}
    <3>1. PICK m \in T : \A k \in T : m <= k
      <4> HIDE DEF T
      <4>1. T \subseteq Nat
        BY <1>1 DEF T
      <4> QED
        BY <2>2, <4>1, LeastNumber
    <3>2. m \in DOMAIN rs /\ m \in 1..Len(rs)
      BY <1>1
    <3>3. \A j \in 1..(m - 1) : j \in DOMAIN rs /\ j \notin T
      <4>1. \A j \in 1..(m - 1) : j \in 1..Len(rs) /\ ~(m <= j)
        BY <1>1, <3>2
      <4> QED
        BY <1>1, <3>1, <4>1
    <3>4. Decides(rs, m)
      BY <3>1, <3>3 DEF Decides
    <3> QED
      BY <1>2, <3>2, <3>4
  <2> QED
    BY <2>1, <2>2
<1>5. AllBarred(rs)
  BY <1>1, <1>2, <1>4, NotReady DEF AllBarred
<1>6. OneWay(rs)
  BY DEF SelectionAssumption, OneWay
<1>7. Joins(c, "select", rs)
  <2>1. waiters \in [Channels -> [Opcodes -> Seq(Nodes)]]
    BY DEF IInv, TypeOK
  <2>2. ASSUME NEW ch \in Channels, NEW op \in Opcodes
        PROVE  /\ waiters'[ch][op] \in Seq(Nodes)
               /\ \A n : n \in ToSet(waiters'[ch][op]) <=>
                    n \in ToSet(waiters[ch][op]) \/ IsNodeFor(n, c, "select", rs, ch, op)
    <3> DEFINE q == waiters[ch][op]
               d == Dummies(c, rs, ch, op)
    <3>1. q \in Seq(Nodes)
      BY <2>1
    <3>2. /\ d \in Seq(Nodes)
          /\ \A n : n \in ToSet(d) <=> IsNodeFor(n, c, "select", rs, ch, op)
      BY <1>1, DummiesAreNodes
    <3>3. waiters'[ch][op] = q \o d
      BY <1>2
    <3> HIDE DEF q, d
    <3>4. q \o d \in Seq(Nodes) /\ ToSet(q \o d) = ToSet(q) \cup ToSet(d)
      BY <3>1, <3>2, ConcatWaiters
    <3> QED
      BY <3>2, <3>3, <3>4 DEF q
  <2>3. waiters' \in [Channels -> [Opcodes -> Seq(Nodes)]]
    BY <1>2, <2>2
  <2> QED
    BY <2>2, <2>3 DEF Joins
<1> QED
  BY <1>1, <1>2, <1>3, <1>5, <1>6, <1>7, WaitInv

-----------------------------------------------------------------------------
(* A waiter runs again *)

\* A timer or another coroutine resumes a waiter.
LEMMA InterruptInv ==
    ASSUME IInv, NEW c \in Coroutines, Interrupt(c)
    PROVE  IInv'
<1>1. /\ resumed = NoCo /\ pending[c] \in {"wait", "select"}
      /\ resumed' = c /\ fired' \in BOOLEAN
      /\ UNCHANGED <<closed, length, able, waiters, pending, requests, named>>
  BY DEF Interrupt
<1>2. /\ \A d \in Coroutines : named[d] = 0
      /\ \A ch \in Channels : able[ch] = "none" /\ Settled(ch)
  BY <1>1, Quiet
<1>3. TypeOK' /\ CallsAreFormed'
  BY <1>1, <1>2 DEF IInv, TypeOK, CallsAreFormed
<1>4. NodesAreAlive'
  BY <1>1 DEF IInv, NodesAreAlive, NodeOf
<1>5. WokenSelectCanGoOn' /\ NoHalfRendezvous' /\ OffersAreTaken'
  BY <1>1, <1>2, WokenCanGoOn DEF IInv, NoHalfRendezvous, OffersAreTaken
<1>6. \A ch \in Channels, op \in Opcodes : Waiting(ch, op)' <=> Waiting(ch, op)
  BY <1>1 DEF Waiting
<1>7. WaitsAreSettled' /\ OneSideWaits' /\ ClosedIsLeft'
  BY <1>1, <1>2, <1>6
  DEF IInv, WaitsAreSettled, Settled, IsFull, IsEmpty, OneSideWaits, ClosedIsLeft,
      IsClosing, Opcodes
<1> QED
  BY <1>3, <1>4, <1>5, <1>7 DEF IInv

\* All nodes of c leave their queues.
Leaves(c) ==
    /\ waiters' \in [Channels -> [Opcodes -> Seq(Nodes)]]
    /\ \A ch \in Channels, op \in Opcodes : \A n :
          n \in ToSet(waiters'[ch][op]) <=>
             n \in ToSet(waiters[ch][op]) /\ n.coroutine # c

\* Afterwards nothing is offered, and nobody waits for what can be done.
Settles ==
    /\ length' \in [Channels -> Nat]
    /\ able' = [ch \in Channels |-> "none"]
    /\ \A ch \in Channels :
          /\ length'[ch] <= Capacity[ch]
          /\ Waiting(ch, "push") => length'[ch] = Capacity[ch] \/ closed[ch]
          /\ Waiting(ch, "pop") => length'[ch] = 0

\* A waiter that leaves with all its nodes, and leaves the channels settled.
LEMMA LeaveInv ==
    ASSUME IInv, NEW c \in Coroutines, resumed = c, pending[c] \in {"wait", "select"},
           resumed' = NoCo, fired' = FALSE, End(c), UNCHANGED closed,
           named' = [named EXCEPT ![c] = 0], Leaves(c), Settles
    PROVE  IInv'
<1>1. /\ pending' = [pending EXCEPT ![c] = "none"]
      /\ requests' = [requests EXCEPT ![c] = <<>>]
  BY DEF End, Begin
<1>2. /\ pending'[c] = "none" /\ requests'[c] = <<>>
      /\ \A d \in Coroutines \ {c} : pending'[d] = pending[d] /\ requests'[d] = requests[d]
  BY <1>1 DEF IInv, TypeOK
<1>3. \A d \in Coroutines : named'[d] = 0
  BY DEF IInv, TypeOK, CallsAreFormed
<1>4. TypeOK'
  <2>1. <<>> \in Seq(Requests)
    BY EmptySeq
  <2> QED
    BY <1>1, <2>1 DEF IInv, TypeOK, Leaves, Settles
<1>5. CallsAreFormed'
  <2> SUFFICES ASSUME NEW d \in Coroutines
               PROVE  /\ pending'[d] = "none" => requests'[d] = <<>>
                      /\ pending'[d] \in {"wait", "close"} => Len(requests'[d]) = 1
                      /\ pending'[d] = "close" => closed'[requests'[d][1].channel]
                      /\ pending'[d] = "select" => requests'[d] \in Selections
    BY <1>3 DEF IInv, CallsAreFormed
  <2> QED
    BY <1>2 DEF IInv, CallsAreFormed
<1>6. ASSUME NEW ch \in Channels, NEW op \in Opcodes, NEW n
      PROVE  n \in ToSet(waiters'[ch][op]) <=>
                n \in ToSet(waiters[ch][op]) /\ n.coroutine # c
  BY DEF Leaves
<1>7. NodesAreAlive'
  <2>1. ASSUME NEW ch \in Channels, NEW op \in Opcodes, NEW n \in ToSet(waiters'[ch][op])
        PROVE  \E i \in DOMAIN requests'[n.coroutine] :
                  /\ pending'[n.coroutine] \in {"wait", "select"}
                  /\ n = NodeOf(n.coroutine, i)'
                  /\ requests'[n.coroutine][i] = [channel |-> ch, opcode |-> op]
    <3>1. n \in ToSet(waiters[ch][op]) /\ n.coroutine # c
      BY <1>6
    <3>2. n.coroutine \in Coroutines
      BY <3>1, NodeHasRequest, Zenon
    <3>3. PICK i \in DOMAIN requests[n.coroutine] :
             /\ pending[n.coroutine] \in {"wait", "select"}
             /\ n = NodeOf(n.coroutine, i)
             /\ requests[n.coroutine][i] = [channel |-> ch, opcode |-> op]
      BY <3>1 DEF IInv, NodesAreAlive
    <3>4. pending'[n.coroutine] = pending[n.coroutine]
          /\ requests'[n.coroutine] = requests[n.coroutine]
      BY <1>2, <3>1, <3>2
    <3> QED
      BY <3>3, <3>4 DEF NodeOf
  <2>2. ASSUME NEW d \in Coroutines, pending'[d] \in {"wait", "select"},
               NEW i \in DOMAIN requests'[d]
        PROVE  NodeOf(d, i)' \in ToSet(waiters'[requests'[d][i].channel][requests'[d][i].opcode])
    <3>1. d # c
      BY <1>2, <2>2
    <3>2. /\ pending[d] \in {"wait", "select"} /\ i \in DOMAIN requests[d]
          /\ requests'[d] = requests[d] /\ NodeOf(d, i)' = NodeOf(d, i)
      BY <1>2, <2>2, <3>1 DEF NodeOf
    <3>3. requests[d][i].channel \in Channels /\ requests[d][i].opcode \in Opcodes
      BY <3>2, RequestWaits
    <3>4. NodeOf(d, i) \in ToSet(waiters[requests[d][i].channel][requests[d][i].opcode])
      BY <3>2 DEF IInv, NodesAreAlive
    <3>5. NodeOf(d, i).coroutine = d
      BY DEF NodeOf, Node
    <3>6. NodeOf(d, i) \in ToSet(waiters'[requests[d][i].channel][requests[d][i].opcode])
      BY <1>6, <3>1, <3>3, <3>4, <3>5
    <3> QED
      BY <3>2, <3>6
  <2> QED
    BY <2>1, <2>2 DEF NodesAreAlive
<1>8. WokenSelectCanGoOn'
  BY <1>3, WokenCanGoOn DEF Settles
<1>9. NoHalfRendezvous' /\ OffersAreTaken'
  BY DEF NoHalfRendezvous, OffersAreTaken, Settles
<1>10. ASSUME NEW ch \in Channels, NEW op \in Opcodes
       PROVE  Waiting(ch, op)' => Waiting(ch, op)
  <2>1. waiters'[ch][op] \in Seq(Nodes) /\ waiters[ch][op] \in Seq(Nodes)
    BY DEF IInv, TypeOK, Leaves
  <2>2. /\ Waiting(ch, op)' <=> ToSet(waiters'[ch][op]) # {}
        /\ Waiting(ch, op) <=> ToSet(waiters[ch][op]) # {}
    BY <2>1, EmptyQueue DEF Waiting
  <2> QED
    BY <1>6, <2>2
<1>11. WaitsAreSettled'
  BY <1>10 DEF WaitsAreSettled, Settled, IsFull, IsEmpty, Settles, Opcodes
<1>12. OneSideWaits'
  BY <1>10 DEF IInv, OneSideWaits, Opcodes
<1>13. ClosedIsLeft'
  <2> SUFFICES ASSUME NEW ch \in Channels, closed[ch], ~IsClosing(ch)'
               PROVE  ~Waiting(ch, "push")' /\ ~Waiting(ch, "pop")'
    BY DEF ClosedIsLeft
  <2>1. ~IsClosing(ch)
    BY <1>2 DEF IsClosing
  <2> QED
    BY <1>10, <2>1 DEF IInv, ClosedIsLeft, Opcodes
<1> QED
  BY <1>4, <1>5, <1>7, <1>8, <1>9, <1>11, <1>12, <1>13 DEF IInv

\* What c was woken for is a request of its call, in whose queue it still is.
LEMMA TargetWaits ==
    ASSUME IInv, NEW c \in Coroutines, pending[c] \in {"wait", "select"},
           pending[c] = "select" => named[c] # 0
    PROVE  /\ Target(c) \in Requests
           /\ Target(c).channel \in Channels
           /\ Target(c).opcode \in Opcodes
           /\ Waiting(Target(c).channel, Target(c).opcode)
<1> DEFINE i == IF pending[c] = "wait" THEN 1 ELSE named[c]
<1>1. i \in DOMAIN requests[c]
  <2>1. CASE pending[c] = "wait"
    <3>1. requests[c] \in Seq(Requests) /\ Len(requests[c]) = 1
      BY <2>1 DEF IInv, TypeOK, CallsAreFormed
    <3> QED
      BY <2>1, <3>1
  <2>2. CASE pending[c] = "select"
    BY <2>2 DEF IInv, CallsAreFormed
  <2> QED
    BY <2>1, <2>2
<1>2. Target(c) = requests[c][i]
  BY DEF Target
<1> HIDE DEF i
<1> QED
  BY <1>1, <1>2, RequestWaits

\* Only the channel of the coroutine that runs next has an offer, and it is for it.
LEMMA OfferIsTarget ==
    ASSUME IInv, NEW c \in Coroutines, resumed = c, pending[c] \in {"wait", "select"},
           NEW ch \in Channels, able[ch] # "none"
    PROVE  /\ pending[c] = "select" => named[c] # 0
           /\ Target(c).channel = ch /\ Target(c).opcode = able[ch]
           /\ ~fired /\ ~closed[ch] /\ IsUnbuffered(ch)
<1>1. PICK i \in DOMAIN requests[c] :
         /\ requests[c][i] = [channel |-> ch, opcode |-> able[ch]]
         /\ pending[c] = "wait" \/ named[c] = i
  BY DEF IInv, NoHalfRendezvous
<1>2. requests[c] \in Seq(Requests) /\ (pending[c] = "wait" => Len(requests[c]) = 1)
  BY DEF IInv, TypeOK, CallsAreFormed
<1>3. i # 0 /\ (pending[c] = "wait" => i = 1)
  BY <1>1, <1>2
<1>4. pending[c] = "select" => named[c] = i
  BY <1>1
<1>5. Target(c) = [channel |-> ch, opcode |-> able[ch]]
  BY <1>1, <1>3, <1>4 DEF Target
<1>6. ~fired /\ ~closed[ch] /\ IsUnbuffered(ch)
  BY DEF IInv, OffersAreTaken
<1> QED
  BY <1>3, <1>4, <1>5, <1>6

\* A woken coroutine that goes on with its transfer leaves nobody behind who could
\* go on as well.
LEMMA FinishSettles ==
    ASSUME IInv, NEW c \in Coroutines, resumed = c, pending[c] \in {"wait", "select"},
           pending[c] = "select" => named[c] # 0,
           CanFinish(Target(c)), Finish(Target(c))
    PROVE  Settles
<1> DEFINE ch == Target(c).channel
           op == Target(c).opcode
<1>1. ch \in Channels /\ op \in Opcodes /\ Waiting(ch, op)
  BY TargetWaits
<1>2. \A x \in Channels : able[x] # "none" => x = ch /\ IsUnbuffered(ch)
  BY OfferIsTarget
<1>3. \A x \in Channels : Settled(x) \/ (x = ch /\ Expected(ch))
  BY DEF IInv, WaitsAreSettled, Expected
<1>4. \A x \in Channels :
         /\ length[x] \in Nat /\ Capacity[x] \in Nat /\ length[x] <= Capacity[x]
         /\ IsUnbuffered(x) => IsEmpty(x) /\ IsFull(x)
  BY Bounded
<1>5. ~(Waiting(ch, "push") /\ Waiting(ch, "pop"))
  BY <1>1 DEF IInv, OneSideWaits
<1>6. /\ length \in [Channels -> Nat]
      /\ able \in [Channels -> Opcodes \cup {"none"}]
  BY DEF IInv, TypeOK
<1>7. Expected(ch) => IF op = "push" THEN length[ch] + 1 = Capacity[ch] ELSE length[ch] = 1
  BY DEF Expected
<1>8. CASE IsUnbuffered(ch)
  <2>1. able' = [able EXCEPT ![ch] = "none"] /\ length' = length
    BY <1>8 DEF Finish
  <2>2. able' = [x \in Channels |-> "none"]
    BY <1>1, <1>2, <1>6, <2>1
  <2> HIDE DEF ch, op
  <2>3. \A x \in Channels : Settled(x) \/ (IsEmpty(x) /\ IsFull(x))
    BY <1>3, <1>4, <1>8
  <2> QED
    BY <1>4, <1>6, <2>1, <2>2, <2>3 DEF Settles, Settled, IsEmpty, IsFull
<1>9. CASE ~IsUnbuffered(ch)
  <2>1. /\ able' = able
        /\ length' = [length EXCEPT ![ch] = IF op = "push" THEN @ + 1 ELSE @ - 1]
    BY <1>9 DEF Finish, Move
  <2>2. op = "push" => length[ch] # Capacity[ch]
    BY <1>9 DEF CanFinish, IsPossible, IsFull
  <2>3. op = "pop" => length[ch] # 0
    BY <1>9 DEF CanFinish, IsPossible, IsEmpty, Opcodes
  <2>4. able' = [x \in Channels |-> "none"]
    BY <1>2, <1>6, <1>9, <2>1
  <2> HIDE DEF ch, op
  <2>5. length'[ch] = (IF op = "push" THEN length[ch] + 1 ELSE length[ch] - 1)
        /\ \A x \in Channels \ {ch} : length'[x] = length[x]
    BY <1>1, <1>6, <2>1
  <2>6. /\ length'[ch] \in Nat /\ length'[ch] <= Capacity[ch]
        /\ Waiting(ch, "push") => length'[ch] = Capacity[ch] \/ closed[ch]
        /\ Waiting(ch, "pop") => length'[ch] = 0
    <3>1. CASE op = "push"
      <4>1. length'[ch] = length[ch] + 1 /\ length[ch] # Capacity[ch]
        BY <2>2, <2>5, <3>1
      <4>2. Waiting(ch, "push") /\ ~Waiting(ch, "pop")
        BY <1>1, <1>5, <3>1
      <4>3. closed[ch] \/ length[ch] + 1 = Capacity[ch]
        BY <1>1, <1>3, <1>7, <3>1, <4>1, <4>2 DEF Settled, IsFull
      <4>4. length[ch] \in Nat /\ Capacity[ch] \in Nat /\ length[ch] <= Capacity[ch]
        BY <1>1, <1>4
      <4> QED
        BY <4>1, <4>2, <4>3, <4>4
    <3>2. CASE op = "pop"
      <4>1. length'[ch] = length[ch] - 1 /\ length[ch] # 0
        BY <2>3, <2>5, <3>2
      <4>2. Waiting(ch, "pop") /\ ~Waiting(ch, "push")
        BY <1>1, <1>5, <3>2
      <4>3. length[ch] = 1
        BY <1>1, <1>3, <1>7, <3>2, <4>1, <4>2 DEF Settled, IsEmpty
      <4>4. length[ch] \in Nat /\ Capacity[ch] \in Nat /\ length[ch] <= Capacity[ch]
        BY <1>1, <1>4
      <4> QED
        BY <4>1, <4>2, <4>3, <4>4
    <3> QED
      BY <1>1, <3>1, <3>2 DEF Opcodes
  <2>7. ASSUME NEW x \in Channels, x # ch
        PROVE  /\ length'[x] \in Nat /\ length'[x] <= Capacity[x]
               /\ Waiting(x, "push") => length'[x] = Capacity[x] \/ closed[x]
               /\ Waiting(x, "pop") => length'[x] = 0
    BY <1>3, <1>4, <2>5, <2>7 DEF Settled, IsFull, IsEmpty
  <2>8. length' \in [Channels -> Nat]
    <3>1. \A x \in Channels : length'[x] \in Nat
      BY <2>6, <2>7
    <3> QED
      BY <1>6, <2>1, <3>1
  <2> QED
    BY <2>4, <2>6, <2>7, <2>8 DEF Settles
<1> QED
  BY <1>8, <1>9

\* A woken coroutine that leaves without a transfer had none to do: its timer fired,
\* or what it waits for is still out of reach, or its channel was closed.
LEMMA LeavingSettles ==
    ASSUME IInv, NEW c \in Coroutines, resumed = c, pending[c] \in {"wait", "select"},
           pending[c] = "wait" => fired \/ ~CanFinish(Target(c)),
           pending[c] = "select" => named[c] = 0 \/ closed[Target(c).channel],
           UNCHANGED <<length, able>>
    PROVE  Settles
<1>1. \A x \in Channels :
         /\ length[x] \in Nat /\ Capacity[x] \in Nat /\ length[x] <= Capacity[x]
         /\ IsUnbuffered(x) => IsEmpty(x) /\ IsFull(x)
  BY Bounded
<1>2. length \in [Channels -> Nat] /\ able \in [Channels -> Opcodes \cup {"none"}]
  BY DEF IInv, TypeOK
<1>3. ASSUME NEW x \in Channels PROVE able[x] = "none"
  <2> SUFFICES ASSUME able[x] # "none" PROVE FALSE
    OBVIOUS
  <2>1. /\ pending[c] = "select" => named[c] # 0
        /\ Target(c).channel = x /\ Target(c).opcode = able[x]
        /\ ~fired /\ ~closed[x] /\ IsUnbuffered(x)
    BY OfferIsTarget
  <2> QED
    BY <2>1 DEF CanFinish
<1>4. ASSUME NEW x \in Channels
      PROVE  /\ Waiting(x, "push") => length[x] = Capacity[x] \/ closed[x]
             /\ Waiting(x, "pop") => length[x] = 0
  <2>1. CASE Settled(x)
    BY <2>1 DEF Settled, IsFull, IsEmpty
  <2>2. CASE Expected(x)
    <3> DEFINE op == Target(c).opcode
    <3>1. /\ ~fired
          /\ pending[c] = "select" => named[c] # 0
          /\ Target(c).channel = x
          /\ op = "push" => length[x] + 1 = Capacity[x]
          /\ op # "push" => length[x] = 1 /\ ~closed[x]
      BY <2>2 DEF Expected
    <3>2. op \in Opcodes /\ Waiting(x, op)
      BY <3>1, TargetWaits
    <3>3. ~(Waiting(x, "push") /\ Waiting(x, "pop"))
      BY DEF IInv, OneSideWaits
    <3>4. ~IsUnbuffered(x) /\ (op = "push" => ~IsFull(x)) /\ (op = "pop" => ~IsEmpty(x))
      BY <1>1, <3>1 DEF IsFull, IsEmpty, IsUnbuffered
    <3>5. pending[c] = "select" /\ closed[x]
      <4>1. CanFinish(Target(c))
        BY <3>1, <3>2, <3>4 DEF CanFinish, IsPossible, Opcodes
      <4> QED
        BY <3>1, <4>1
    <3>6. op = "push"
      BY <3>1, <3>5
    <3> HIDE DEF op
    <3> QED
      BY <3>2, <3>3, <3>5, <3>6
  <2> QED
    BY <2>1, <2>2 DEF IInv, WaitsAreSettled
<1> QED
  BY <1>1, <1>2, <1>3, <1>4 DEF Settles

\* Taking the nodes S out of the queues, and nothing else.
LEMMA WithoutNodesLeave ==
    ASSUME TypeOK, NEW S, waiters' = WithoutNodes(S)
    PROVE  /\ waiters' \in [Channels -> [Opcodes -> Seq(Nodes)]]
           /\ \A ch \in Channels, op \in Opcodes : \A n :
                 n \in ToSet(waiters'[ch][op]) <=> n \in ToSet(waiters[ch][op]) /\ n \notin S
<1>1. ASSUME NEW ch \in Channels, NEW op \in Opcodes
      PROVE  /\ waiters'[ch][op] \in Seq(Nodes)
             /\ ToSet(waiters'[ch][op]) = ToSet(waiters[ch][op]) \ S
  <2> DEFINE q == waiters[ch][op]
             T == ToSet(q) \ S
  <2>1. q \in Seq(Nodes)
    BY DEF TypeOK
  <2>2. waiters'[ch][op] = Keeping(q, T)
    BY DEF WithoutNodes
  <2>3. T = ToSet(q) \cap T /\ T = ToSet(q) \ S
    OBVIOUS
  <2> HIDE DEF q, T
  <2>4. Keeping(q, T) \in Seq(Nodes) /\ ToSet(Keeping(q, T)) = ToSet(q) \cap T
    BY <2>1, KeepingProperties
  <2>5. waiters'[ch][op] \in Seq(Nodes) /\ ToSet(waiters'[ch][op]) = ToSet(q) \ S
    BY <2>2, <2>3, <2>4
  <2> QED
    BY <2>5 DEF q
<1>2. waiters' \in [Channels -> [Opcodes -> Seq(Nodes)]]
  BY <1>1 DEF WithoutNodes
<1> QED
  BY <1>1, <1>2

\* The rest of a push or pop that waited.
LEMMA WaitEndsInv ==
    ASSUME IInv, NEW c \in Coroutines, WaitEnds(c)
    PROVE  IInv'
<1>1. /\ resumed = c /\ pending[c] = "wait"
      /\ waiters' = WithoutNodes({Node(c, 0)})
      /\ resumed' = NoCo /\ fired' = FALSE
      /\ End(c) /\ UNCHANGED <<closed, named>>
  BY DEF WaitEnds
<1>2. Target(c) = requests[c][1]
  BY <1>1 DEF Target
<1>3. Settles
  <2>1. CASE ~fired /\ CanFinish(Target(c))
    BY <1>1, <1>2, <2>1, FinishSettles DEF WaitEnds
  <2>2. CASE fired \/ ~CanFinish(Target(c))
    BY <1>1, <1>2, <2>2, LeavingSettles DEF WaitEnds
  <2> QED
    BY <2>1, <2>2
<1>4. named' = [named EXCEPT ![c] = 0]
  BY <1>1 DEF IInv, TypeOK, CallsAreFormed
<1>5. Leaves(c)
  <2>1. /\ waiters' \in [Channels -> [Opcodes -> Seq(Nodes)]]
        /\ \A ch \in Channels, op \in Opcodes : \A n :
              n \in ToSet(waiters'[ch][op]) <=>
                 n \in ToSet(waiters[ch][op]) /\ n \notin {Node(c, 0)}
    BY <1>1, WithoutNodesLeave DEF IInv
  <2>2. ASSUME NEW ch \in Channels, NEW op \in Opcodes, NEW n \in ToSet(waiters[ch][op])
        PROVE  n \in {Node(c, 0)} <=> n.coroutine = c
    <3>1. pending[n.coroutine] = "wait" => n = Node(n.coroutine, 0)
      BY NodeHasRequest
    <3>2. n = Node(c, 0) => n.coroutine = c
      BY DEF Node
    <3> QED
      BY <1>1, <3>1, <3>2
  <2> QED
    BY <2>1, <2>2 DEF Leaves
<1> QED
  BY <1>1, <1>3, <1>4, <1>5, LeaveInv

\* The second loop of a select that waited.
LEMMA SelectEndsInv ==
    ASSUME SelectionAssumption, IInv, NEW c \in Coroutines, SelectEnds(c)
    PROVE  IInv'
<1>1. /\ resumed = c /\ pending[c] = "select"
      /\ waiters' = WithoutNodes({Node(c, i) : i \in Removed(c)})
      /\ resumed' = NoCo /\ fired' = FALSE
      /\ End(c) /\ UNCHANGED closed
      /\ named' = [named EXCEPT ![c] = 0]
  BY DEF SelectEnds
<1>2. Target(c) = requests[c][named[c]]
  BY <1>1 DEF Target
<1>3. Settles
  <2>1. CASE named[c] # 0 /\ ~Breaks(c)
    <3>1. CanGoOn(c) /\ ~closed[Target(c).channel]
      BY <1>1, <1>2, <2>1, WokenCanGoOn DEF IInv, Breaks
    <3>2. CanFinish(Target(c))
      BY <1>2, <3>1 DEF CanGoOn, CanFinish
    <3> QED
      BY <1>1, <1>2, <2>1, <3>2, FinishSettles DEF SelectEnds
  <2>2. CASE named[c] = 0 \/ Breaks(c)
    <3>1. named[c] = 0 \/ closed[Target(c).channel]
      BY <1>2, <2>2 DEF Breaks
    <3>2. UNCHANGED <<length, able>>
      BY <2>2 DEF SelectEnds
    <3> QED
      BY <1>1, <3>1, <3>2, LeavingSettles
  <2> QED
    BY <2>1, <2>2
<1>4. Removed(c) = DOMAIN requests[c]
  <2>1. CASE Breaks(c)
    <3> DEFINE rs == requests[c]
               m == named[c]
    <3>1. rs \in Selections /\ rs \in Seq(Requests) /\ m \in DOMAIN rs
      BY <1>1, <2>1, SelectAssumption DEF Breaks, IInv, CallsAreFormed
    <3>2. rs[m].channel \in Closable
      <4>1. closed[rs[m].channel]
        BY <2>1 DEF Breaks
      <4>2. rs[m] \in Requests
        BY <3>1
      <4>3. rs[m].channel \in Channels
        BY <4>2 DEF Requests
      <4> QED
        BY <4>1, <4>3 DEF IInv, CallsAreFormed
    <3>3. \A j \in DOMAIN rs : j <= m
      BY <3>1, <3>2 DEF SelectionAssumption
    <3> HIDE DEF rs, m
    <3>4. 1..m = DOMAIN rs
      <4>1. Len(rs) \in DOMAIN rs \/ Len(rs) = 0
        BY <3>1
      <4>2. m = Len(rs)
        BY <3>1, <3>3, <4>1
      <4> QED
        BY <3>1, <4>2
    <3> QED
      BY <2>1, <3>4 DEF Removed, rs, m
  <2>2. CASE ~Breaks(c)
    BY <2>2 DEF Removed
  <2> QED
    BY <2>1, <2>2
<1>5. Leaves(c)
  <2> DEFINE S == {Node(c, i) : i \in DOMAIN requests[c]}
  <2>1. /\ waiters' \in [Channels -> [Opcodes -> Seq(Nodes)]]
        /\ \A ch \in Channels, op \in Opcodes : \A n :
              n \in ToSet(waiters'[ch][op]) <=> n \in ToSet(waiters[ch][op]) /\ n \notin S
    <3>1. waiters' = WithoutNodes(S)
      BY <1>1, <1>4
    <3> HIDE DEF S
    <3> QED
      BY <3>1, WithoutNodesLeave DEF IInv
  <2>2. ASSUME NEW ch \in Channels, NEW op \in Opcodes, NEW n \in ToSet(waiters[ch][op])
        PROVE  n \in S <=> n.coroutine = c
    <3>1. /\ n \in Nodes
          /\ n.coroutine \in Coroutines
          /\ \/ /\ pending[n.coroutine] = "wait"
                /\ n = Node(n.coroutine, 0)
                /\ requests[n.coroutine][1] = [channel |-> ch, opcode |-> op]
             \/ /\ pending[n.coroutine] = "select"
                /\ n = Node(n.coroutine, n.index)
                /\ n.index \in DOMAIN requests[n.coroutine]
                /\ requests[n.coroutine][n.index] = [channel |-> ch, opcode |-> op]
      <4> HIDE DEF S
      <4> QED
        BY NodeHasRequest, Zenon
    <3>2. n \in S => n.coroutine = c
      BY DEF Node
    <3> QED
      BY <1>1, <3>1, <3>2
  <2> HIDE DEF S
  <2> QED
    BY <2>1, <2>2 DEF Leaves
<1> QED
  BY <1>1, <1>3, <1>5, LeaveInv

-----------------------------------------------------------------------------
(* The close of a channel *)

\* One step of the close of ch: it wakes the first waiter, or returns if there is
\* none.
LEMMA ClosingInv ==
    ASSUME IInv, NEW c \in Coroutines, NEW ch \in Closable,
           resumed = NoCo, pending[c] \in {"none", "close"},
           closed' = [closed EXCEPT ![ch] = TRUE],
           Wake(ClosingQueue(ch)),
           UNCHANGED <<length, able, waiters>>,
           NEW rs \in Seq(Requests),
           \/ Begin(c, "close", rs) /\ Len(rs) = 1 /\ rs[1].channel = ch
           \/ End(c) /\ ~Waiting(ch, "push") /\ ~Waiting(ch, "pop"),
           pending[c] = "close" => closed[ch] /\ requests[c][1].channel = ch
    PROVE  IInv'
<1> DEFINE op == IF Waiting(ch, "push") THEN "push" ELSE "pop"
<1>1. ch \in Channels /\ op \in Opcodes
  BY SelectAssumption DEF Opcodes
<1>2. /\ \A d \in Coroutines : named[d] = 0
      /\ \A x \in Channels : able[x] = "none" /\ Settled(x)
  BY Quiet
<1>3. /\ fired' = FALSE
      /\ ~Waiting(ch, op) => resumed' = NoCo /\ named' = named
      /\ Waiting(ch, op) =>
            /\ resumed' \in Coroutines /\ resumed' # NoCo
            /\ pending[resumed'] \in {"wait", "select"}
            /\ named' = [named EXCEPT ![resumed'] = named'[resumed']]
            /\ pending[resumed'] = "wait" =>
                  /\ named'[resumed'] = 0
                  /\ 1 \in DOMAIN requests[resumed']
                  /\ requests[resumed'][1] = [channel |-> ch, opcode |-> op]
            /\ pending[resumed'] = "select" =>
                  /\ named'[resumed'] # 0
                  /\ named'[resumed'] \in DOMAIN requests[resumed']
                  /\ requests[resumed'][named'[resumed']] = [channel |-> ch, opcode |-> op]
  <2>1. Wake(waiters[ch][op])
    BY DEF ClosingQueue
  <2> HIDE DEF op
  <2> QED
    BY <1>1, <2>1, WakeNames
<1> HIDE DEF op
<1>4. /\ pending'[c] \in {"none", "close"}
      /\ pending'[c] = "none" => requests'[c] = <<>>
      /\ pending'[c] = "close" => Len(requests'[c]) = 1 /\ requests'[c][1].channel = ch
      /\ pending'[c] = "none" => ~Waiting(ch, "push") /\ ~Waiting(ch, "pop")
      /\ \A d \in Coroutines \ {c} : pending'[d] = pending[d] /\ requests'[d] = requests[d]
      /\ pending' \in [Coroutines -> {"none", "wait", "select", "close"}]
      /\ requests' \in [Coroutines -> Seq(Requests)]
  <2>1. <<>> \in Seq(Requests)
    BY EmptySeq
  <2> QED
    BY <2>1 DEF Begin, End, IInv, TypeOK
<1>5. /\ closed' \in [Channels -> BOOLEAN] /\ closed'[ch]
      /\ \A x \in Channels : closed[x] => closed'[x]
      /\ \A x \in Channels : closed'[x] => closed[x] \/ x = ch
  BY <1>1 DEF IInv, TypeOK
<1>6. resumed' \in Coroutines => resumed' # c
  BY <1>3, SelectAssumption
<1>7. \A d \in Coroutines : named'[d] # 0 =>
         d = resumed' /\ d # c /\ pending'[d] = "select"
  BY <1>2, <1>3, <1>4, <1>6 DEF IInv, TypeOK
<1>8. TypeOK'
  <2>1. named' \in [Coroutines -> Nat]
    <3>1. \A d \in Coroutines : \A i \in DOMAIN requests[d] : i \in Nat
      BY DEF IInv, TypeOK
    <3>2. named \in [Coroutines -> Nat]
      BY DEF IInv, TypeOK
    <3>3. CASE Waiting(ch, op)
      <4>1. named'[resumed'] \in Nat
        BY <1>3, <3>1, <3>3
      <4> QED
        BY <1>3, <3>2, <3>3, <4>1
    <3> QED
      BY <1>3, <3>2, <3>3
  <2> QED
    BY <1>3, <1>4, <1>5, <2>1 DEF IInv, TypeOK
<1>9. CallsAreFormed'
  <2>1. ASSUME NEW d \in Coroutines
        PROVE  /\ pending'[d] = "none" => requests'[d] = <<>>
               /\ pending'[d] \in {"wait", "close"} => Len(requests'[d]) = 1
               /\ pending'[d] = "close" => closed'[requests'[d][1].channel]
               /\ pending'[d] = "select" => requests'[d] \in Selections
    <3>1. CASE d = c
      BY <1>4, <1>5, <3>1
    <3>2. CASE d # c
      <4>1. pending'[d] = pending[d] /\ requests'[d] = requests[d]
        BY <1>4, <3>2
      <4>2. pending[d] = "close" => requests[d][1].channel \in Channels
        <5> SUFFICES ASSUME pending[d] = "close" PROVE requests[d][1].channel \in Channels
          OBVIOUS
        <5>1. requests[d] \in Seq(Requests) /\ Len(requests[d]) = 1
          BY DEF IInv, TypeOK, CallsAreFormed
        <5>2. requests[d][1] \in Requests
          BY <5>1
        <5> QED
          BY <5>2 DEF Requests
      <4> QED
        BY <1>5, <4>1, <4>2 DEF IInv, CallsAreFormed
    <3> QED
      BY <3>1, <3>2
  <2>2. ASSUME NEW d \in Coroutines, named'[d] # 0
        PROVE  named'[d] \in DOMAIN requests'[d] /\ resumed' = d
    BY <1>2, <1>3, <1>4, <1>7, <2>2
  <2>3. resumed' # NoCo => pending'[resumed'] \in {"wait", "select"}
    BY <1>3, <1>4, <1>6
  <2>4. \A x \in Channels : closed'[x] => x \in Closable
    BY <1>5 DEF IInv, CallsAreFormed
  <2> QED
    BY <1>7, <2>1, <2>2, <2>3, <2>4 DEF CallsAreFormed
<1>10. NodesAreAlive'
  <2>1. ASSUME NEW x \in Channels, NEW o \in Opcodes, NEW n \in ToSet(waiters'[x][o])
        PROVE  \E i \in DOMAIN requests'[n.coroutine] :
                  /\ pending'[n.coroutine] \in {"wait", "select"}
                  /\ n = NodeOf(n.coroutine, i)'
                  /\ requests'[n.coroutine][i] = [channel |-> x, opcode |-> o]
    <3>1. n \in ToSet(waiters[x][o])
      OBVIOUS
    <3>2. n.coroutine \in Coroutines
      BY <3>1, NodeHasRequest, Zenon
    <3>3. PICK i \in DOMAIN requests[n.coroutine] :
             /\ pending[n.coroutine] \in {"wait", "select"}
             /\ n = NodeOf(n.coroutine, i)
             /\ requests[n.coroutine][i] = [channel |-> x, opcode |-> o]
      BY <3>1 DEF IInv, NodesAreAlive
    <3>4. pending'[n.coroutine] = pending[n.coroutine]
          /\ requests'[n.coroutine] = requests[n.coroutine]
      BY <1>4, <3>2, <3>3
    <3> QED
      BY <3>3, <3>4 DEF NodeOf
  <2>2. ASSUME NEW d \in Coroutines, pending'[d] \in {"wait", "select"},
               NEW i \in DOMAIN requests'[d]
        PROVE  NodeOf(d, i)' \in ToSet(waiters'[requests'[d][i].channel][requests'[d][i].opcode])
    <3>1. d # c
      BY <1>4, <2>2
    <3>2. /\ pending[d] \in {"wait", "select"} /\ i \in DOMAIN requests[d]
          /\ requests'[d] = requests[d] /\ NodeOf(d, i)' = NodeOf(d, i)
      BY <1>4, <2>2, <3>1 DEF NodeOf
    <3>3. NodeOf(d, i) \in ToSet(waiters[requests[d][i].channel][requests[d][i].opcode])
      BY <3>2 DEF IInv, NodesAreAlive
    <3> QED
      BY <3>2, <3>3
  <2> QED
    BY <2>1, <2>2 DEF NodesAreAlive
<1>11. WokenSelectCanGoOn'
  <2>1. ASSUME NEW d \in Coroutines, pending'[d] = "select", named'[d] # 0
        PROVE  CanGoOn(d)'
    <3>1. d = resumed' /\ d # c /\ Waiting(ch, op)
      BY <1>2, <1>3, <1>7, <2>1
    <3>2. requests'[d][named'[d]] = [channel |-> ch, opcode |-> op]
      BY <1>3, <1>4, <2>1, <3>1
    <3> QED
      BY <1>5, <3>1, <3>2 DEF CanGoOn
  <2>2. \A x \in Channels : length'[x] <= Capacity[x]
    BY DEF IInv, WokenSelectCanGoOn
  <2> QED
    BY <2>1, <2>2, WokenCanGoOn
<1>12. NoHalfRendezvous' /\ OffersAreTaken'
  BY <1>2 DEF NoHalfRendezvous, OffersAreTaken
<1>13. \A x \in Channels, o \in Opcodes : Waiting(x, o)' <=> Waiting(x, o)
  BY DEF Waiting
<1>14. WaitsAreSettled' /\ OneSideWaits'
  BY <1>2, <1>5, <1>13
  DEF IInv, WaitsAreSettled, Settled, IsFull, IsEmpty, OneSideWaits, Opcodes
<1>15. ClosedIsLeft'
  <2> SUFFICES ASSUME NEW x \in Channels, closed'[x], ~IsClosing(x)'
               PROVE  ~Waiting(x, "push") /\ ~Waiting(x, "pop")
    BY <1>13 DEF ClosedIsLeft, Opcodes
  <2>1. CASE x = ch
    <3>1. pending'[c] = "none"
      BY <1>4, <2>1 DEF IsClosing
    <3> QED
      BY <1>4, <2>1, <3>1
  <2>2. CASE x # ch
    <3>1. closed[x]
      BY <1>5, <2>2
    <3>2. ~IsClosing(x)
      <4>1. pending[c] = "close" => requests[c][1].channel # x
        BY <2>2
      <4> QED
        BY <1>4, <4>1 DEF IsClosing
    <3> QED
      BY <3>1, <3>2 DEF IInv, ClosedIsLeft
  <2> QED
    BY <2>1, <2>2
<1> QED
  BY <1>8, <1>9, <1>10, <1>11, <1>12, <1>14, <1>15 DEF IInv

\* The first step of a close.
LEMMA CloseInv ==
    ASSUME IInv, NEW c \in Coroutines, NEW ch \in Closable, Close(c, ch)
    PROVE  IInv'
<1> DEFINE rs == <<[channel |-> ch, opcode |-> "push"]>>
<1>1. /\ resumed = NoCo /\ pending[c] = "none"
      /\ closed' = [closed EXCEPT ![ch] = TRUE]
      /\ Begin(c, "close", rs)
      /\ Wake(ClosingQueue(ch))
      /\ UNCHANGED <<length, able, waiters>>
  BY DEF Close, Free
<1>2. rs \in Seq(Requests) /\ Len(rs) = 1 /\ rs[1].channel = ch
  <2>1. [channel |-> ch, opcode |-> "push"] \in Requests
    BY SelectAssumption DEF Requests, Opcodes
  <2> QED
    BY <2>1
<1> HIDE DEF rs
<1> QED
  BY <1>1, <1>2, ClosingInv

\* A close that runs again after the waiter it resumed.
LEMMA CloseGoesOnInv ==
    ASSUME IInv, NEW c \in Coroutines, CloseGoesOn(c)
    PROVE  IInv'
<1> DEFINE rs == requests[c]
           ch == rs[1].channel
<1>1. /\ resumed = NoCo /\ pending[c] = "close"
      /\ Wake(ClosingQueue(ch))
      /\ IF ClosingQueue(ch) = <<>> THEN End(c) ELSE UNCHANGED <<pending, requests>>
      /\ UNCHANGED <<closed, length, able, waiters>>
  BY DEF CloseGoesOn
<1>2. rs \in Seq(Requests) /\ Len(rs) = 1 /\ closed[ch]
  BY <1>1 DEF IInv, TypeOK, CallsAreFormed
<1>3. ch \in Channels /\ ch \in Closable
  <2>1. rs[1] \in Requests
    BY <1>2
  <2>2. ch \in Channels
    BY <2>1 DEF Requests
  <2> QED
    BY <1>2, <2>2 DEF IInv, CallsAreFormed
<1>4. closed' = [closed EXCEPT ![ch] = TRUE]
  BY <1>1, <1>2, <1>3 DEF IInv, TypeOK
<1>5. \/ Begin(c, "close", rs)
      \/ End(c) /\ ~Waiting(ch, "push") /\ ~Waiting(ch, "pop")
  <2>1. CASE ClosingQueue(ch) = <<>>
    BY <1>1, <2>1 DEF ClosingQueue, Waiting
  <2>2. CASE ClosingQueue(ch) # <<>>
    BY <1>1, <2>2 DEF Begin, IInv, TypeOK
  <2> QED
    BY <2>1, <2>2
<1> HIDE DEF ch
<1>6. pending[c] = "close" => closed[ch] /\ requests[c][1].channel = ch
  BY <1>2 DEF ch
<1>7. rs[1].channel = ch
  BY DEF ch
<1> HIDE DEF rs
<1> QED
  BY <1>1, <1>2, <1>3, <1>4, <1>5, <1>6, <1>7, ClosingInv

-----------------------------------------------------------------------------
(* Every step, and the theorems *)

\* Every step preserves the invariant.
LEMMA InvStep ==
    ASSUME SelectionAssumption, IInv, [Next]_vars
    PROVE  IInv'
<1>1. CASE Next
  <2>1. PICK c \in Coroutines :
           \/ \E r \in Requests : Call(c, r)
           \/ \E rs \in Selections : SelectAtOnce(c, rs) \/ SelectWaits(c, rs)
           \/ Interrupt(c) \/ WaitEnds(c) \/ SelectEnds(c)
           \/ \E ch \in Closable : Close(c, ch)
           \/ CloseGoesOn(c)
    BY <1>1 DEF Next
  <2>2. CASE \E r \in Requests : Call(c, r)
    BY <2>2, CallInv
  <2>3. CASE \E rs \in Selections : SelectAtOnce(c, rs)
    BY <2>3, SelectAtOnceInv
  <2>4. CASE \E rs \in Selections : SelectWaits(c, rs)
    BY <2>4, SelectWaitsInv
  <2>5. CASE Interrupt(c)
    BY <2>5, InterruptInv
  <2>6. CASE WaitEnds(c)
    BY <2>6, WaitEndsInv
  <2>7. CASE SelectEnds(c)
    BY <2>7, SelectEndsInv
  <2>8. CASE \E ch \in Closable : Close(c, ch)
    BY <2>8, CloseInv
  <2>9. CASE CloseGoesOn(c)
    BY <2>9, CloseGoesOnInv
  <2> QED
    BY <2>1, <2>2, <2>3, <2>4, <2>5, <2>6, <2>7, <2>8, <2>9
<1>2. CASE UNCHANGED vars
  <2> USE <1>2 DEF vars
  <2>1. TypeOK' /\ CallsAreFormed' /\ OffersAreTaken' /\ NoHalfRendezvous'
    BY DEF IInv, TypeOK, CallsAreFormed, OffersAreTaken, NoHalfRendezvous, IsUnbuffered
  <2>2. NodesAreAlive'
    BY DEF IInv, NodesAreAlive, NodeOf
  <2>3. \A ch \in Channels, op \in Opcodes : Waiting(ch, op)' <=> Waiting(ch, op)
    BY DEF Waiting
  <2>4. OneSideWaits' /\ ClosedIsLeft'
    BY <2>3 DEF IInv, OneSideWaits, ClosedIsLeft, IsClosing, Opcodes
  <2>5. WokenSelectCanGoOn'
    <3>1. \A r : IsPossible(r)' <=> IsPossible(r)
      BY DEF IsPossible, IsUnbuffered, IsFull, IsEmpty, Waiting
    <3> QED
      BY <3>1, WokenCanGoOn DEF IInv, CanGoOn, IsUnbuffered
  <2>6. WaitsAreSettled'
    BY <2>3 DEF IInv, WaitsAreSettled, Settled, Expected, Target, IsFull, IsEmpty, Opcodes
  <2> QED
    BY <2>1, <2>2, <2>4, <2>5, <2>6 DEF IInv
<1> QED
  BY <1>1, <1>2

\* Whoever waits is neither ready nor forgotten by a close.
LEMMA InvNobodyInVain == IInv => NobodyWaitsInVain
<1> SUFFICES ASSUME IInv PROVE NobodyWaitsInVain
  OBVIOUS
<1>1. ASSUME resumed = NoCo, NEW c \in Coroutines, pending[c] \in {"wait", "select"},
             NEW i \in DOMAIN requests[c]
      PROVE  ~IsReady(requests[c][i])
  <2> DEFINE r == requests[c][i]
             ch == r.channel
  <2>1. r \in Requests /\ ch \in Channels /\ r.opcode \in Opcodes /\ Waiting(ch, r.opcode)
    BY <1>1, RequestWaits
  <2>2. Settled(ch) /\ ~(Waiting(ch, "push") /\ Waiting(ch, "pop"))
    BY <1>1, <2>1, Quiet DEF IInv, OneSideWaits
  <2> HIDE DEF r
  <2> QED
    BY <2>1, <2>2 DEF IsReady, Settled, Opcodes, r
<1> QED
  BY <1>1 DEF NobodyWaitsInVain, IInv, ClosedIsLeft

\* While nobody was just woken, what is ready is possible.
LEMMA InvReadyIsPossible == IInv => ReadyIsPossible
<1> SUFFICES ASSUME IInv PROVE ReadyIsPossible
  OBVIOUS
<1>1. ASSUME resumed = NoCo, NEW r \in Requests, IsReady(r)
      PROVE  IsPossible(r)
  <2>1. r.channel \in Channels /\ r.opcode \in Opcodes
    BY DEF Requests
  <2>2. Settled(r.channel)
    BY <1>1, <2>1, Quiet
  <2>3. IsUnbuffered(r.channel) => IsEmpty(r.channel) /\ IsFull(r.channel)
    BY <2>1, Bounded
  <2>4. IsEmpty(r.channel) /\ IsFull(r.channel) => IsUnbuffered(r.channel)
    BY DEF IsEmpty, IsFull, IsUnbuffered
  <2> QED
    BY <1>1, <2>1, <2>2, <2>3, <2>4 DEF IsReady, IsPossible, Settled, Other, Opcodes
<1> QED
  BY <1>1 DEF ReadyIsPossible, IInv, OneSideWaits

\* The invariant that the other theorems rest on, with the types of the state.
THEOREM SelectInvariant ==
    ASSUME SelectionAssumption
    PROVE  Spec => []IInv
<1>1. IInv /\ [Next]_vars => IInv'
  BY InvStep
<1> QED
  BY <1>1, InvInit, PTL DEF Spec

\* cat_channel_select() leaves no dummy in a queue when it returns, whatever woke it,
\* and each request of a call that waits has a node in its queue: whoever takes a
\* node out of a queue to resume its coroutine finds one that waits for just that.
THEOREM SelectNodesAreAlive ==
    ASSUME SelectionAssumption
    PROVE  Spec => []NodesAreAlive
<1>1. IInv => NodesAreAlive
  BY DEF IInv
<1> QED
  BY <1>1, SelectInvariant, PTL

\* No push, pop or select waits for what cat_channel__is_writable() or
\* cat_channel__is_readable() call ready, and when cat_channel_close() returns it has
\* woken everybody, those that wait for several channels included.
THEOREM SelectNobodyWaitsInVain ==
    ASSUME SelectionAssumption
    PROVE  Spec => []NobodyWaitsInVain
BY InvNobodyInVain, SelectInvariant, PTL

\* The second loop of cat_channel_select() does the transfer of the dummy that was
\* taken without looking: it is possible then, or the channel is closed, and no buffer
\* exceeds its capacity.
THEOREM SelectWokenCanGoOn ==
    ASSUME SelectionAssumption
    PROVE  Spec => []WokenSelectCanGoOn
<1>1. IInv => WokenSelectCanGoOn
  BY DEF IInv
<1> QED
  BY <1>1, SelectInvariant, PTL

\* What cat_channel_push() or cat_channel_pop() offers on an unbuffered channel is
\* taken by the coroutine it resumed, be it in a plain call or in a select.
THEOREM SelectNoHalfRendezvous ==
    ASSUME SelectionAssumption
    PROVE  Spec => []NoHalfRendezvous
<1>1. IInv => NoHalfRendezvous
  BY DEF IInv
<1> QED
  BY <1>1, SelectInvariant, PTL

\* The assertions of the first loop of cat_channel_select(): what is ready can be done
\* without waiting; and producers and consumers never wait on one channel together.
THEOREM SelectReadyIsPossible ==
    ASSUME SelectionAssumption
    PROVE  Spec => []ReadyIsPossible
BY InvReadyIsPossible, SelectInvariant, PTL
=============================================================================
