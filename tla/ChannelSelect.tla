---------------------------- MODULE ChannelSelect ----------------------------
(***************************************************************************)
(* cat_channel_select() (cat_channel.c) over several channels, together    *)
(* with plain pushes, pops and closes of the same channels.                *)
(*                                                                         *)
(* A select that cannot go on puts one dummy node per request into the     *)
(* queues of waiters.  All of them stand for the same coroutine: whoever   *)
(* resumes one of them first clears its coroutine pointer, and the select, *)
(* which runs at once, removes its nodes and does what that node was for.  *)
(* The items are left out (Channel.tla follows them); a channel is its     *)
(* length and its queues.                                                  *)
(***************************************************************************)
EXTENDS Queues

CONSTANTS Coroutines,  \* the coroutines that use the channels
          Channels,    \* the channels
          Capacity,    \* the capacity of each channel
          Selections,  \* the lists of requests that are passed to select
          Closable,    \* the channels that get closed
          NoCo         \* no coroutine

Opcodes == {"push", "pop"}
Requests == [channel : Channels, opcode : Opcodes]

ASSUME SelectAssumption ==
    /\ Capacity \in [Channels -> Nat]
    /\ Selections \subseteq Seq(Requests) \ {<<>>}
    /\ Closable \subseteq Channels
    /\ NoCo \notin Coroutines

VARIABLES
    closed,    \* CAT_CHANNEL_FLAG_CLOSED of each channel
    length,    \* channel->length
    able,      \* channel->u.unbuffered.able: who may, "push" or "pop"
    waiters,   \* channel->producers ("push") and channel->consumers ("pop")
    resumed,   \* the waiter that was just resumed and has not run yet, or NoCo
    fired,     \* whether its timer did it (cat_time_wait() returns false)
    pending,   \* the call each coroutine is in
    requests,  \* the requests of that call, one for a plain push or pop
    named      \* the dummy of a select that lost its coroutine pointer, or 0

vars == <<closed, length, able, waiters, resumed, fired, pending, requests, named>>

Node(c, i) == [coroutine |-> c, index |-> i]

Other(op) == IF op = "push" THEN "pop" ELSE "push"

Init ==
    /\ closed = [ch \in Channels |-> FALSE]
    /\ length = [ch \in Channels |-> 0]
    /\ able = [ch \in Channels |-> "none"]
    /\ waiters = [ch \in Channels |-> [op \in Opcodes |-> <<>>]]
    /\ resumed = NoCo
    /\ fired = FALSE
    /\ pending = [c \in Coroutines |-> "none"]
    /\ requests = [c \in Coroutines |-> <<>>]
    /\ named = [c \in Coroutines |-> 0]

Free(c) == resumed = NoCo /\ pending[c] = "none"

Begin(c, call, rs) ==
    /\ pending' = [pending EXCEPT ![c] = call]
    /\ requests' = [requests EXCEPT ![c] = rs]

End(c) == Begin(c, "none", <<>>)

-----------------------------------------------------------------------------
IsUnbuffered(ch) == Capacity[ch] = 0
IsFull(ch) == length[ch] = Capacity[ch]
IsEmpty(ch) == length[ch] = 0
Waiting(ch, op) == waiters[ch][op] # <<>>

\* CAT_CHANNEL_CHECK_STATE, and CAT_CHANNEL_CHECK_STATE_FOR_READING for a pop.
IsRefused(r) == closed[r.channel] /\ (r.opcode = "pop" => IsEmpty(r.channel))

\* A wrong IsReady that looks at the waiters of its own side, kept to show that
\* ReadyIsPossible can fail.
IsReadyWithRivals(r) ==
    IF r.opcode = "push"
      THEN ~closed[r.channel] /\ (~IsFull(r.channel) \/ Waiting(r.channel, "push"))
      ELSE ~IsEmpty(r.channel) \/ (~closed[r.channel] /\ Waiting(r.channel, "pop"))

\* cat_channel__is_writable() and cat_channel__is_readable().
IsReady(r) ==
    IF r.opcode = "push"
      THEN ~closed[r.channel] /\ (~IsFull(r.channel) \/ Waiting(r.channel, "pop"))
      ELSE ~IsEmpty(r.channel) \/ (~closed[r.channel] /\ Waiting(r.channel, "push"))

\* The condition under which cat_channel_push() and cat_channel_pop() do not wait.
IsPossible(r) ==
    IF IsUnbuffered(r.channel) THEN Waiting(r.channel, Other(r.opcode))
    ELSE IF r.opcode = "push" THEN ~IsFull(r.channel)
    ELSE ~IsEmpty(r.channel)

\* cat_channel_resume_waiter() of the first waiter, if there is one: a dummy
\* loses its coroutine pointer.
Wake(queue) ==
    /\ fired' = FALSE
    /\ IF queue = <<>>
         THEN resumed' = NoCo /\ UNCHANGED named
         ELSE /\ resumed' = Head(queue).coroutine
              /\ named' = [named EXCEPT ![Head(queue).coroutine] = Head(queue).index]

\* One item more or less in a buffer.
Move(r) ==
    length' = [length EXCEPT ![r.channel] = IF r.opcode = "push" THEN @ + 1 ELSE @ - 1]

\* A wrong Perform that notifies nobody, kept to show that NobodyWaitsInVain can
\* fail.
PerformSilently(r) ==
    /\ IF IsUnbuffered(r.channel)
         THEN able' = [able EXCEPT ![r.channel] = Other(r.opcode)] /\ UNCHANGED length
         ELSE Move(r) /\ UNCHANGED able
    /\ UNCHANGED <<closed, waiters, resumed, fired, named>>

\* A wrong Perform that names the caller's side to the waiter, kept to show that
\* WokenSelectCanGoOn can fail.
PerformForOwnSide(r) ==
    /\ IF IsUnbuffered(r.channel)
         THEN able' = [able EXCEPT ![r.channel] = r.opcode] /\ UNCHANGED length
         ELSE Move(r) /\ UNCHANGED able
    /\ Wake(waiters[r.channel][Other(r.opcode)])
    /\ UNCHANGED <<closed, waiters>>

\* The part of a push or pop that does not wait.
Perform(r) ==
    /\ IF IsUnbuffered(r.channel)
         THEN able' = [able EXCEPT ![r.channel] = Other(r.opcode)] /\ UNCHANGED length
         ELSE Move(r) /\ UNCHANGED able
    /\ Wake(waiters[r.channel][Other(r.opcode)])
    /\ UNCHANGED <<closed, waiters>>

-----------------------------------------------------------------------------
\* cat_channel_push() and cat_channel_pop().  Here and below, a call that is
\* refused because the channel is closed changes nothing and is left out.
Call(c, r) ==
    /\ Free(c)
    /\ ~IsRefused(r)
    /\ \/ IsPossible(r) /\ Perform(r) /\ UNCHANGED <<pending, requests>>
       \/ /\ ~IsPossible(r)
          /\ waiters' = [waiters EXCEPT ![r.channel][r.opcode] = Append(@, Node(c, 0))]
          /\ Begin(c, "wait", <<r>>)
          /\ UNCHANGED <<closed, length, able, resumed, fired, named>>

\* The first loop of cat_channel_select(): the first request that is refused or
\* ready decides.  A refused one ends the call and changes nothing.
Decides(rs, i) ==
    /\ IsRefused(rs[i]) \/ IsReady(rs[i])
    /\ \A j \in 1..(i - 1) : ~IsRefused(rs[j]) /\ ~IsReady(rs[j])

SelectAtOnce(c, rs) ==
    /\ Free(c)
    /\ \E i \in DOMAIN rs :
          /\ Decides(rs, i)
          /\ ~IsRefused(rs[i])
          /\ IsPossible(rs[i])
          /\ Perform(rs[i])
    /\ UNCHANGED <<pending, requests>>

\* Otherwise it queues a dummy for every request and waits.
Dummies(c, rs, ch, op) ==
    LET wanted == {i \in DOMAIN rs : rs[i] = [channel |-> ch, opcode |-> op]}
    IN  Keeping([i \in DOMAIN rs |-> Node(c, i)], {Node(c, i) : i \in wanted})

SelectWaits(c, rs) ==
    /\ Free(c)
    /\ \A i \in DOMAIN rs : ~Decides(rs, i)
    /\ waiters' = [ch \in Channels |->
                      [op \in Opcodes |-> waiters[ch][op] \o Dummies(c, rs, ch, op)]]
    /\ Begin(c, "select", rs)
    /\ named' = [named EXCEPT ![c] = 0]
    /\ UNCHANGED <<closed, length, able, resumed, fired>>

-----------------------------------------------------------------------------
\* A waiter is resumed by a timer or by another coroutine.
Interrupt(c) ==
    /\ resumed = NoCo
    /\ pending[c] \in {"wait", "select"}
    /\ resumed' = c
    /\ fired' \in BOOLEAN
    /\ UNCHANGED <<closed, length, able, waiters, pending, requests, named>>

WithoutNodes(S) ==
    [ch \in Channels |->
        [op \in Opcodes |-> Keeping(waiters[ch][op], ToSet(waiters[ch][op]) \ S)]]

\* A wrong Finish that does not take the offer back, kept to show that
\* NoHalfRendezvous can fail.
FinishHalf(r) ==
    IF IsUnbuffered(r.channel) THEN UNCHANGED <<length, able>> ELSE Move(r) /\ UNCHANGED able

\* A transfer by a waiter that was resumed, with nobody to wake in turn.
Finish(r) ==
    IF IsUnbuffered(r.channel)
      THEN able' = [able EXCEPT ![r.channel] = "none"] /\ UNCHANGED length
      ELSE Move(r) /\ UNCHANGED able

\* The rest of a plain push or pop that waited: out of the queue, and on with
\* the transfer if the timer did not fire and the channel allows it now.
CanFinish(r) ==
    IF IsUnbuffered(r.channel) THEN able[r.channel] = r.opcode ELSE IsPossible(r)

WaitEnds(c) ==
    /\ resumed = c
    /\ pending[c] = "wait"
    /\ waiters' = WithoutNodes({Node(c, 0)})
    /\ resumed' = NoCo
    /\ fired' = FALSE
    /\ IF ~fired /\ CanFinish(requests[c][1])
         THEN Finish(requests[c][1])
         ELSE UNCHANGED <<length, able>>
    /\ End(c)
    /\ UNCHANGED <<closed, named>>

\* The second loop of cat_channel_select(): remove the dummies in order, and do
\* what the one without coroutine was for, without looking whether the wait
\* succeeded.  If its channel has been closed, the loop ends there.
Breaks(c) == named[c] # 0 /\ closed[requests[c][named[c]].channel]

\* A wrong Removed that stops at the dummy that was taken, kept to show that
\* NodesAreAlive can fail.
RemovedUpToNamed(c) == IF named[c] # 0 THEN 1..named[c] ELSE DOMAIN requests[c]

Removed(c) == IF Breaks(c) THEN 1..named[c] ELSE DOMAIN requests[c]

SelectEnds(c) ==
    /\ resumed = c
    /\ pending[c] = "select"
    /\ waiters' = WithoutNodes({Node(c, i) : i \in Removed(c)})
    /\ resumed' = NoCo
    /\ fired' = FALSE
    /\ IF named[c] # 0 /\ ~Breaks(c)
         THEN Finish(requests[c][named[c]])
         ELSE UNCHANGED <<length, able>>
    /\ End(c)
    /\ named' = [named EXCEPT ![c] = 0]
    /\ UNCHANGED closed

\* cat_channel_close(): producers first, then consumers, one resume at a time.
ClosingQueue(ch) ==
    IF Waiting(ch, "push") THEN waiters[ch]["push"] ELSE waiters[ch]["pop"]

Close(c, ch) ==
    /\ Free(c)
    /\ ~closed[ch]
    /\ closed' = [closed EXCEPT ![ch] = TRUE]
    /\ Begin(c, "close", <<[channel |-> ch, opcode |-> "push"]>>)
    /\ Wake(ClosingQueue(ch))
    /\ UNCHANGED <<length, able, waiters>>

CloseGoesOn(c) ==
    LET queue == ClosingQueue(requests[c][1].channel)
    IN  /\ resumed = NoCo
        /\ pending[c] = "close"
        /\ Wake(queue)
        /\ IF queue = <<>> THEN End(c) ELSE UNCHANGED <<pending, requests>>
        /\ UNCHANGED <<closed, length, able, waiters>>

Next ==
    \E c \in Coroutines :
       \/ \E r \in Requests : Call(c, r)
       \/ \E rs \in Selections : SelectAtOnce(c, rs) \/ SelectWaits(c, rs)
       \/ Interrupt(c) \/ WaitEnds(c) \/ SelectEnds(c)
       \/ \E ch \in Closable : Close(c, ch)
       \/ CloseGoesOn(c)

Spec == Init /\ [][Next]_vars

-----------------------------------------------------------------------------
\* The node for the i-th request of a waiting coroutine.
NodeOf(c, i) == Node(c, IF pending[c] = "wait" THEN 0 ELSE i)

\* Whoever takes a node out of a queue finds a coroutine behind it that waits
\* for just that: the memory of a dummy lives as long as its select, and a
\* select that ended has left no dummy in any queue.  And the other way round:
\* every request of a waiting call is in its queue.
NodesAreAlive ==
    /\ \A ch \in Channels, op \in Opcodes : \A n \in ToSet(waiters[ch][op]) :
          \E i \in DOMAIN requests[n.coroutine] :
              /\ pending[n.coroutine] \in {"wait", "select"}
              /\ n = NodeOf(n.coroutine, i)
              /\ requests[n.coroutine][i] = [channel |-> ch, opcode |-> op]
    /\ \A c \in Coroutines : pending[c] \in {"wait", "select"} =>
          \A i \in DOMAIN requests[c] :
              NodeOf(c, i) \in ToSet(waiters[requests[c][i].channel][requests[c][i].opcode])

IsClosing(ch) == \E c \in Coroutines : pending[c] = "close" /\ requests[c][1].channel = ch

\* No coroutine waits for something it could do, and once the close of a channel has
\* returned, nobody waits on it any more, be it as one of several channels.
NobodyWaitsInVain ==
    /\ resumed = NoCo =>
          \A c \in Coroutines : pending[c] \in {"wait", "select"} =>
              \A i \in DOMAIN requests[c] : ~IsReady(requests[c][i])
    /\ \A ch \in Channels : closed[ch] /\ ~IsClosing(ch) =>
          ~Waiting(ch, "push") /\ ~Waiting(ch, "pop")

\* A select that finds a dummy without coroutine does the transfer unchecked:
\* it must be possible then, and buffers stay within their capacity.
WokenSelectCanGoOn ==
    /\ \A ch \in Channels : length[ch] <= Capacity[ch]
    /\ \A c \in Coroutines : pending[c] = "select" /\ named[c] # 0 =>
          LET r == requests[c][named[c]]
          IN  /\ resumed = c
              /\ \/ closed[r.channel]
                 \/ IsUnbuffered(r.channel) /\ able[r.channel] = r.opcode
                 \/ ~IsUnbuffered(r.channel) /\ IsPossible(r)

\* A rendezvous that was offered is completed by whoever was resumed for it,
\* before anybody else looks at the channel.
NoHalfRendezvous ==
    \A ch \in Channels : able[ch] # "none" =>
        /\ resumed # NoCo
        /\ \E i \in DOMAIN requests[resumed] :
              /\ requests[resumed][i] = [channel |-> ch, opcode |-> able[ch]]
              /\ pending[resumed] = "wait" \/ named[resumed] = i

\* The assertions of the first loop, and of a push or pop that finds a partner: what
\* is ready is done without waiting, and of each channel only one side has waiters.
ReadyIsPossible ==
    /\ resumed = NoCo => \A r \in Requests : IsReady(r) => IsPossible(r)
    /\ \A ch \in Channels : ~(Waiting(ch, "push") /\ Waiting(ch, "pop"))
=============================================================================
