-------------------------------- MODULE Socket --------------------------------
(***************************************************************************)
(* Swow\Socket (swow_socket.c on cat_socket.c): socket objects that share  *)
(* an internal socket, the calls that wait on it, the write requests that  *)
(* libuv has, and the close that cancels all of them.                      *)
(*                                                                         *)
(* A coroutine that is woken runs the rest of the function that waited at  *)
(* once, so that waking it and leaving the wait are one step; what PHP     *)
(* code it runs after that is any action of that coroutine.  A close wakes *)
(* the waiters one by one, and others act in between.                      *)
(*                                                                         *)
(* Streams (TCP, pipes) and datagrams (UDP) are modelled, TLS and the Unix *)
(* datagrams, which do not write through libuv, are not.                   *)
(***************************************************************************)
EXTENDS Naturals, Sequences, FiniteSets, SequencesExt, Queues

CONSTANTS Sockets,    \* Swow\Socket objects
          Internals,  \* the memory for internal sockets: a bound
          Coroutines,
          Null,       \* no socket, no internal socket
          NoCo,       \* no coroutine
          Kinds,      \* "stream", "datagram"
          MaxFlight,  \* a bound on the write requests in flight
          Allowed     \* the uses below that callers do not avoid

\* One use goes wrong that the code does not refuse; careful callers have Allowed = {}.
Misuses == {"share the connection"}

ASSUME SocketAssumption ==
    /\ IsFiniteSet(Sockets)
    /\ Null \notin Sockets \cup Internals
    /\ NoCo \notin Coroutines
    /\ Kinds \subseteq {"stream", "datagram"}
    /\ MaxFlight \in Nat
    /\ Allowed \subseteq Misuses

VARIABLES
    internal,  \* socket->internal
    inner,     \* the internal sockets
    call       \* the call each coroutine is in

vars == <<internal, inner, call>>

\* CAT_SOCKET_IO_FLAG_*: those of bind, accept and connect include read and write.
BIND == {"bind", "read", "write"}
ACCEPT == {"accept", "read", "write"}
CONNECT == {"connect", "read", "write"}

\* An internal socket that is not allocated.
Unused ==
    [stage |-> "unused", \* then "lazy", "server" or "established", then
                         \* "closed" (the flag CLOSED) and "gone" (uv_close())
     kind |-> "stream",
     refs |-> 0,         \* CAT_REF_FIELD
     io |-> {},          \* io_flags
     waiter |-> NoCo,    \* context.*.coroutine of all but writes: a union
     writers |-> <<>>,   \* context.io.write.coroutines
     flight |-> <<>>,    \* the write requests that libuv has, in order
     cache |-> FALSE,    \* whether there is a cache.write_request
     early |-> FALSE]    \* not in the code: something was sent during a resolution

\* A coroutine in no call.
Idle == [op |-> "none", on |-> Null, with |-> Null]

Waits == {"read", "write", "bind", "accept", "resolve", "connect"}
Open == {"lazy", "server", "established"}

Init ==
    /\ internal = [s \in Sockets |-> Null]
    /\ inner = [i \in Internals |-> Unused]
    /\ call = [c \in Coroutines |-> Idle]

-----------------------------------------------------------------------------
\* Helpers.

\* a ^ b, of flags
Xor(a, b) == (a \ b) \cup (b \ a)

\* The sockets that are bound to internal socket i: socket_i->sockets.
Bound(i) == {s \in Sockets : internal[s] = i}

\* Nobody else has the new connection of an accept() that waits.
Private(s) == \E c \in Coroutines : call[c].op = "accept" /\ call[c].with = s

\* Coroutine c may call a method of socket s now.
CanUse(c, s) ==
    /\ call[c] = Idle
    /\ Private(s) => "share the connection" \in Allowed

\* The internal socket r is resolving a name, for bind or for connect.
Resolving(r) == \E c \in Coroutines : r.waiter = c /\ call[c].op \in {"bind", "resolve"}

Waiting(op, i) == [op |-> op, on |-> i, with |-> Null]

\* r after a call that has io flags to itself has begun and ended its wait.
Entered(r, c, flags) == [r EXCEPT !.io = flags, !.waiter = c]
Left(r) == [r EXCEPT !.io = {}, !.waiter = NoCo]

\* r after a read has begun and ended its wait.
ReadEntered(r, c) == [r EXCEPT !.io = @ \cup {"read"}, !.waiter = c]
ReadLeft(r) == [r EXCEPT !.io = Xor(@, {"read"}), !.waiter = NoCo]

\* A wrong WriteEntered that uses the cached request whenever there is one, kept to
\* show that RequestsAreDistinct can fail.
WriteEnteredCached(r, c) ==
    [r EXCEPT !.io = @ \cup {"write"},
              !.writers = Append(@, c),
              !.cache = @ \/ "write" \notin r.io,
              !.flight = Append(@, [who |-> c, cached |-> r.cache]),
              !.early = @ \/ Resolving(r)]

\* r after a write has begun: with the cached request if nobody else writes.
WriteEntered(r, c) ==
    [r EXCEPT !.io = @ \cup {"write"},
              !.writers = Append(@, c),
              !.cache = @ \/ "write" \notin r.io,
              !.flight = Append(@, [who |-> c, cached |-> "write" \notin r.io]),
              !.early = @ \/ Resolving(r)]

\* A wrong WriteLeft that clears the flag with others in the queue, kept to show
\* that WaitersAreKnown can fail.
WriteLeftAlone(r, c) ==
    [r EXCEPT !.writers = Without(@, c),
              !.io = Xor(@, {"write"})]

\* r after a write has ended its wait: the last one clears the flag.
WriteLeft(r, c) ==
    [r EXCEPT !.writers = Without(@, c),
              !.io = IF Without(r.writers, c) = <<>> THEN Xor(@, {"write"}) ELSE @]

\* request->u.coroutine = NULL, of a request that libuv still has.
Abandoned(r, c) ==
    [r EXCEPT !.flight = [n \in DOMAIN @ |->
        IF @[n].who = c THEN [@[n] EXCEPT !.who = NoCo] ELSE @[n]]]

\* r after coroutine c, which is in call "op", was resumed before its call was done.
Interrupted(r, c, op) ==
    CASE op = "write" -> Abandoned(WriteLeft(r, c), c)
      [] op = "read" -> ReadLeft(r)
      [] OTHER -> Left(r)

-----------------------------------------------------------------------------
\* Close.

\* A wrong NextWaiter that forgets the reader, kept to show that CloseEndsEverything
\* can fail.
NextWaiterButReader(r) ==
    IF r.io \in {BIND, ACCEPT, CONNECT} THEN r.waiter
    ELSE IF "write" \in r.io /\ r.writers # <<>> THEN Head(r.writers)
    ELSE NoCo

\* The waiter that a close cancels next: the one of bind, accept or connect, else the
\* writers, then the reader.
NextWaiter(r) ==
    IF r.io \in {BIND, ACCEPT, CONNECT} THEN r.waiter
    ELSE IF "write" \in r.io /\ r.writers # <<>> THEN Head(r.writers)
    ELSE IF "read" \in r.io THEN r.waiter
    ELSE NoCo

\* Coroutine c closes r, which is socket i: it cancels a waiter, who finds the socket
\* closed, or calls uv_close() when there are none left.
CloseStep(c, i, r, calls) ==
    LET w == NextWaiter(r) IN
    IF w = NoCo
    THEN /\ inner' = [inner EXCEPT ![i] = [r EXCEPT !.stage = "gone"]]
         /\ call' = [calls EXCEPT ![c] = Idle]
    ELSE /\ inner' = [inner EXCEPT ![i] = Interrupted(r, w, calls[w].op)]
         /\ call' = [calls EXCEPT ![w] = Idle, ![c] = Waiting("close", i)]

\* r, marked as closed, without the sockets that are bound to it.
Closed(r) == [r EXCEPT !.stage = "closed", !.refs = 0]

\* cat_socket_internal_unrecoverable_io_error(): closed for all who share it.
Break(c, i, r, calls) ==
    IF r.stage \notin Open
    THEN /\ inner' = [inner EXCEPT ![i] = r]
         /\ call' = calls
         /\ UNCHANGED internal
    ELSE /\ internal' = [s \in Sockets |-> IF internal[s] = i THEN Null ELSE internal[s]]
         /\ CloseStep(c, i, Closed(r), calls)

\* A wrong Unbind that closes what others share, kept to show that
\* NobodyUsesTheClosed can fail.
UnbindAll(c, s) ==
    LET i == internal[s] IN
    /\ internal' = [internal EXCEPT ![s] = Null]
    /\ CloseStep(c, i, Closed(inner[i]), call)

\* cat_socket_close(): the last socket closes what they share.
Unbind(c, s) ==
    LET i == internal[s]
        r == [inner[i] EXCEPT !.refs = @ - 1]
    IN  /\ internal' = [internal EXCEPT ![s] = Null]
        /\ IF r.refs # 0
           THEN /\ inner' = [inner EXCEPT ![i] = r]
                /\ UNCHANGED call
           ELSE CloseStep(c, i, Closed(r), call)

\* close(), and the destructor of an object.
Close(c, s) ==
    /\ CanUse(c, s)
    /\ internal[s] # Null
    /\ Unbind(c, s)

\* A waiter gave control back to the coroutine that closes.
CloseGoesOn(c) ==
    /\ call[c].op = "close"
    /\ CloseStep(c, call[c].on, inner[call[c].on], call)
    /\ UNCHANGED internal

\* cat_socket_close_callback(), after those of the write requests.
CloseCallback(i) ==
    /\ inner[i].stage = "gone"
    /\ inner[i].flight = <<>>
    /\ inner' = [inner EXCEPT ![i] = Unused]
    /\ UNCHANGED <<internal, call>>

-----------------------------------------------------------------------------
\* Calls that do not wait.

\* __construct()
Construct(c, s, kind) ==
    /\ CanUse(c, s)
    /\ internal[s] = Null
    /\ \E i \in Internals :
          /\ inner[i].stage = "unused"
          /\ inner' = [inner EXCEPT ![i] =
                [Unused EXCEPT !.stage = "lazy", !.kind = kind, !.refs = 1]]
          /\ internal' = [internal EXCEPT ![s] = i]
    /\ UNCHANGED call

\* open() of the socket of a stream: s, which is lazy, and origin share one internal
\* socket from now on, and the one s had is closed.
OpenSocket(c, s, origin) ==
    LET old == internal[s]
        new == internal[origin]
    IN  /\ CanUse(c, s) /\ CanUse(c, origin)
        /\ old # Null /\ new # Null /\ old # new
        /\ inner[old].stage = "lazy" /\ inner[old].io = {} /\ inner[old].refs = 1
        /\ inner[old].flight = <<>>
        /\ internal' = [internal EXCEPT ![s] = new]
        /\ inner' = [inner EXCEPT ![old] = [Closed(@) EXCEPT !.stage = "gone"],
                                  ![new].refs = @ + 1]
        /\ UNCHANGED call

\* listen()
Listen(c, s) ==
    /\ CanUse(c, s)
    /\ internal[s] # Null
    /\ inner[internal[s]].stage = "lazy" /\ inner[internal[s]].io = {}
    /\ inner[internal[s]].kind = "stream"
    /\ inner' = [inner EXCEPT ![internal[s]].stage = "server"]
    /\ UNCHANGED <<internal, call>>

-----------------------------------------------------------------------------
\* Calls that wait.

\* Coroutine c waits on the internal socket of s, in call "op", for which the socket
\* must not be busy with flags; it becomes r.
Wait(c, s, op, flags, r) ==
    /\ CanUse(c, s)
    /\ internal[s] # Null
    /\ inner[internal[s]].io \cap flags = {}
    /\ inner' = [inner EXCEPT ![internal[s]] = r]
    /\ call' = [call EXCEPT ![c] = Waiting(op, internal[s])]
    /\ UNCHANGED internal

\* A stream must be established for reads and writes.
IsReady(r) == r.kind = "stream" => r.stage = "established"

\* bind() to a name that has to be resolved.
Bind(c, s) ==
    LET r == inner[internal[s]] IN
    /\ internal[s] # Null /\ r.stage = "lazy"
    /\ Wait(c, s, "bind", BIND, Entered(r, c, BIND))

\* accept() and acceptTo() that find no connection and wait for one.
Accept(c, s, connection) ==
    LET r == inner[internal[s]] IN
    /\ CanUse(c, s) /\ CanUse(c, connection)
    /\ internal[s] # Null /\ r.stage = "server"
    /\ r.io \cap ACCEPT = {}
    /\ internal[connection] # Null
    /\ inner[internal[connection]].stage = "lazy"
    /\ inner[internal[connection]].kind = "stream"
    /\ inner[internal[connection]].io = {}
    /\ inner[internal[connection]].refs = 1
    /\ inner' = [inner EXCEPT ![internal[s]] = Entered(r, c, ACCEPT)]
    /\ call' = [call EXCEPT ![c] =
                   [op |-> "accept", on |-> internal[s], with |-> connection]]
    /\ UNCHANGED internal

\* connect() to a name, or to an address.
Connect(c, s, op) ==
    LET r == inner[internal[s]] IN
    /\ internal[s] # Null /\ r.stage = "lazy"
    /\ r.kind = "datagram" => op = "resolve"
    /\ Wait(c, s, op, CONNECT, Entered(r, c, CONNECT))

\* read() and its like, when nothing is there to be read.
Read(c, s) ==
    LET r == inner[internal[s]] IN
    /\ internal[s] # Null /\ IsReady(r)
    /\ Wait(c, s, "read", {"read"}, ReadEntered(r, c))

\* write() and its like: any number of coroutines at once.  A datagram can be sent
\* while bind() or connect() still resolves a name.
Write(c, s) ==
    LET r == inner[internal[s]] IN
    /\ internal[s] # Null /\ IsReady(r)
    /\ Len(r.flight) < MaxFlight
    /\ Wait(c, s, "write", {}, WriteEntered(r, c))

-----------------------------------------------------------------------------
\* How waits end.

\* The call of c on i ends as it should; the internal socket becomes r.
Done(c, i, r) ==
    /\ inner' = [inner EXCEPT ![i] = r]
    /\ call' = [call EXCEPT ![c] = Idle]
    /\ UNCHANGED internal

\* uv_close() has not been called: libuv still serves the internal socket.
IsServed(i) == inner[i].stage \notin {"unused", "gone"}

\* Something was read, or the reading failed.
ReadDone(c) ==
    LET i == call[c].on IN
    /\ call[c].op = "read" /\ IsServed(i)
    /\ Done(c, i, ReadLeft(inner[i]))

\* The answer of the name server lets bind() go on.
BindDone(c) ==
    LET i == call[c].on IN
    /\ call[c].op = "bind" /\ IsServed(i)
    /\ Done(c, i, Left(inner[i]))

\* The answer of the name server: none, or an address to connect to.
ResolveDone(c, found) ==
    LET i == call[c].on
        r == inner[i]
    IN  /\ call[c].op = "resolve" /\ IsServed(i)
        /\ \/ ~found /\ Done(c, i, Left(r))
           \/ found /\ r.kind = "datagram"
              /\ Done(c, i, [Left(r) EXCEPT !.stage = "established"])
           \/ found /\ r.kind = "stream"
              /\ inner' = [inner EXCEPT ![i] = Entered(Left(r), c, CONNECT)]
              /\ call' = [call EXCEPT ![c].op = "connect"]
              /\ UNCHANGED internal

\* The peer accepts, or it refuses.
ConnectDone(c, accepted) ==
    LET i == call[c].on
        r == inner[i]
    IN  /\ call[c].op = "connect" /\ IsServed(i)
        /\ Done(c, i, IF accepted THEN [Left(r) EXCEPT !.stage = "established"] ELSE Left(r))

\* A connection comes in: uv_accept() makes it that of the connection socket.
AcceptDone(c) ==
    LET i == call[c].on
        j == internal[call[c].with]
    IN  /\ call[c].op = "accept" /\ IsServed(i)
        /\ j # Null
        /\ inner' = [inner EXCEPT ![i] = Left(@), ![j].stage = "established"]
        /\ call' = [call EXCEPT ![c] = Idle]
        /\ UNCHANGED internal

\* libuv is done with the oldest write request, in cat_socket_write_callback(), which
\* resumes the writer unless he gave up.
WriteDone(i) ==
    LET r == [inner[i] EXCEPT !.flight = Tail(@)]
        c == Head(inner[i].flight).who
    IN  /\ inner[i].flight # <<>>
        /\ IF c = NoCo
           THEN /\ inner' = [inner EXCEPT ![i] = r]
                /\ UNCHANGED <<internal, call>>
           ELSE Done(c, i, WriteLeft(r, c))

\* A wrong Interrupt that lets others go on with the socket, kept to show that
\* NobodyWritesAfterATornWrite can fail.
InterruptOnly(c) ==
    LET i == call[c].on
        op == call[c].op
    IN  /\ op \in Waits
        /\ inner' = [inner EXCEPT ![i] = Interrupted(inner[i], c, op)]
        /\ call' = [call EXCEPT ![c] = Idle]
        /\ UNCHANGED internal

\* The timeout of a call, or another coroutine that resumes c: what is under way in
\* libuv cannot be taken back, which breaks the socket.
Interrupt(c) ==
    LET i == call[c].on
        op == call[c].op
        r == Interrupted(inner[i], c, op)
        calls == [call EXCEPT ![c] = Idle]
    IN  /\ op \in Waits
        /\ IF op \in {"write", "connect"}
           THEN Break(c, i, r, calls)
           ELSE /\ inner' = [inner EXCEPT ![i] = r]
                /\ call' = calls
                /\ UNCHANGED internal

-----------------------------------------------------------------------------
Begin(c) ==
    \E s \in Sockets :
       \/ \E kind \in Kinds : Construct(c, s, kind)
       \/ Close(c, s)
       \/ Listen(c, s) \/ Bind(c, s) \/ Read(c, s) \/ Write(c, s)
       \/ \E op \in {"resolve", "connect"} : Connect(c, s, op)
       \/ \E t \in Sockets \ {s} : Accept(c, s, t) \/ OpenSocket(c, s, t)

End(c) ==
    \/ ReadDone(c) \/ BindDone(c) \/ AcceptDone(c)
    \/ \E ok \in BOOLEAN : ResolveDone(c, ok) \/ ConnectDone(c, ok)
    \/ Interrupt(c)

Next ==
    \/ \E c \in Coroutines : Begin(c) \/ End(c) \/ CloseGoesOn(c)
    \/ \E i \in Internals : WriteDone(i) \/ CloseCallback(i)

Spec == Init /\ [][Next]_vars

\* Fairness: a coroutine that was woken gives control back to the one that closes,
\* and libuv calls its callbacks.
FairSpec ==
    /\ Spec
    /\ \A c \in Coroutines : WF_vars(CloseGoesOn(c))
    /\ \A i \in Internals : WF_vars(WriteDone(i)) /\ WF_vars(CloseCallback(i))

-----------------------------------------------------------------------------
\* Properties.

TypeOK ==
    /\ internal \in [Sockets -> Internals \cup {Null}]
    /\ inner \in [Internals ->
          [stage : {"unused", "closed", "gone"} \cup Open,
           kind : {"stream", "datagram"},
           refs : Nat,
           io : SUBSET (BIND \cup ACCEPT \cup CONNECT),
           waiter : Coroutines \cup {NoCo},
           writers : Seq(Coroutines),
           flight : Seq([who : Coroutines \cup {NoCo}, cached : BOOLEAN]),
           cache : BOOLEAN,
           early : BOOLEAN]]
    /\ call \in [Coroutines ->
          [op : {"none", "close"} \cup Waits, on : Internals \cup {Null},
           with : Sockets \cup {Null}]]

\* The flags that go with each call.
FlagsOf(op) == CASE op = "read" -> {"read"}
                 [] op = "bind" -> BIND
                 [] op = "accept" -> ACCEPT
                 [] op \in {"resolve", "connect"} -> CONNECT

\* A close finds everybody who waits: the flags and the context of an internal socket
\* say who waits on it and for what, those who write are in its queue, once each, and
\* the flags of others are not set (cat_socket_internal_close_impl()).  The flag of the
\* writers alone may be wrong after an early send, against what
\* cat_socket_internal_write_callback() asserts: the end of the resolution clears it.
WaitersAreKnown ==
    \A i \in Internals :
       LET r == inner[i]
           others == {c \in Coroutines : call[c].on = i /\ call[c].op \in Waits \ {"write"}}
           flags == UNION {FlagsOf(call[c].op) : c \in others}
       IN  /\ ToSet(r.writers) = {c \in Coroutines : call[c].on = i /\ call[c].op = "write"}
           /\ IsInjective(r.writers)
           /\ others = {r.waiter} \ {NoCo}
           /\ r.io \ {"write"} = flags \ {"write"}
           /\ r.early \/ ("write" \in r.io <=> "write" \in flags \/ r.writers # <<>>)

\* Whoever uses an internal socket finds it open, or closed by one who is still at it:
\* none waits on what was given back to libuv, but for a writer whom a close may miss
\* after an early send, no socket is bound to what was closed, and the count is that of
\* the bound sockets.
NobodyUsesTheClosed ==
    /\ \A c \in Coroutines : call[c].op # "none" =>
          IsServed(call[c].on) \/ (call[c].op = "write" /\ inner[call[c].on].early)
    /\ \A c \in Coroutines : call[c].op = "accept" =>
          internal[call[c].with] # Null /\ inner[internal[call[c].with]].stage = "lazy"
    /\ \A i \in Internals :
          /\ inner[i].refs = Cardinality(Bound(i))
          /\ inner[i].refs # 0 <=> inner[i].stage \in Open

\* After a write was cut short, nobody writes to the socket any more, through
\* whichever object: the peer never gets a message behind part of another one
\* (cat_socket_internal_write_raw(), "write request is in progress, it can not be
\* cancelled gracefully").
NobodyWritesAfterATornWrite ==
    \A i \in Internals :
       (\E n \in DOMAIN inner[i].flight : inner[i].flight[n].who = NoCo)
           => inner[i].stage \in {"closed", "gone"}

\* The memory of the cached write request is given to libuv once at a time, unless
\* something was sent early, when the flags no longer say that the request is in use
\* (cat_socket_internal_write_raw()).
RequestsAreDistinct ==
    \A i \in {j \in Internals : ~inner[j].early} :
       LET cached == {n \in DOMAIN inner[i].flight : inner[i].flight[n].cached}
       IN  Cardinality(cached) <= 1 /\ (cached # {} => inner[i].cache)

\* An internal socket that was closed is freed in the end and nobody waits on it any
\* more: the close wakes all who wait, and nobody keeps it from going on.
CloseEndsEverything ==
    \A i \in Internals :
       inner[i].stage = "closed"
           ~> inner[i].stage = "unused" /\ \A c \in Coroutines : call[c].on # i
=============================================================================
