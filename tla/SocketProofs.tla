----------------------------- MODULE SocketProofs -----------------------------
(***************************************************************************)
(* When callers do not share the connection of an accept() (Allowed = {}), *)
(* an internal socket knows who waits on it, nobody uses it once it is     *)
(* closed, no write follows a torn one, and the cached request is used     *)
(* once at a time, for any number of sockets and coroutines.  What is sent *)
(* while a name is resolved spoils the flag of the writers and no more.    *)
(*                                                                         *)
(* The invariant is a statement about one internal socket and the calls,   *)
(* Good(i, r, calls), for the steps that change one of them: the lemmas    *)
(* say what entering and leaving a wait and a step of a close do to it.    *)
(***************************************************************************)
EXTENDS Socket, QueueProofs, FiniteSetTheorems

-----------------------------------------------------------------------------
(* The invariant *)

Whole == {"bind", "accept", "resolve", "connect"}
AllFlags == BIND \cup ACCEPT \cup CONNECT

Entries == [who : Coroutines \cup {NoCo}, cached : BOOLEAN]

Records ==
    [stage : {"unused", "closed", "gone"} \cup Open,
     kind : {"stream", "datagram"},
     refs : Nat,
     io : SUBSET AllFlags,
     waiter : Coroutines \cup {NoCo},
     writers : Seq(Coroutines),
     flight : Seq(Entries),
     cache : BOOLEAN,
     early : BOOLEAN]

Calls == [op : {"none", "close"} \cup Waits, on : Internals \cup {Null},
          with : Sockets \cup {Null}]

TypedCalls(calls) ==
    /\ calls \in [Coroutines -> Calls]
    /\ \A c \in Coroutines : calls[c].op = "none" => calls[c] = Idle
    /\ \A c \in Coroutines : calls[c].op # "none" => calls[c].on \in Internals

\* Coroutine c writes on i, or waits on it for anything else.
Writes(c, i, calls) == calls[c].on = i /\ calls[c].op = "write"
WaitsOn(c, i, calls) == calls[c].on = i /\ calls[c].op \in Waits \ {"write"}
Closes(c, i, calls) == calls[c].on = i /\ calls[c].op = "close"

\* The flags of the waiter and of the writers.
WaiterFlags(r, calls) == IF r.waiter = NoCo THEN {} ELSE FlagsOf(calls[r.waiter].op)
WriterFlags(r) == IF r.writers = <<>> THEN {} ELSE {"write"}

\* The flags name the waiter and the writers, who are not there with one who has the
\* internal socket for himself.
Exact(i, r, calls) ==
    /\ r.io = WaiterFlags(r, calls) \cup WriterFlags(r)
    /\ \A c \in Coroutines :
          calls[c].on = i /\ calls[c].op \in Whole => r.writers = <<>>

\* The internal socket i, with the fields r, knows who waits on it; without an early send
\* the flag of the writers is right as well, and who has i for himself has it for himself.
Known(i, r, calls) ==
    /\ \A c \in Coroutines : c \in ToSet(r.writers) <=> Writes(c, i, calls)
    /\ IsInjective(r.writers)
    /\ \A c \in Coroutines : r.waiter = c <=> WaitsOn(c, i, calls)
    /\ r.io \ {"write"} = WaiterFlags(r, calls) \ {"write"}
    /\ r.early \/ Exact(i, r, calls)

\* The stage allows the calls, a writer alone may be left to libuv after an early send,
\* one coroutine closes, and streams are those that listen or that nothing is sent on
\* early.
Staged(i, r, calls) ==
    /\ \A c \in Coroutines : calls[c].on = i =>
          /\ calls[c].op \in {"bind", "resolve", "connect"} => r.stage = "lazy"
          /\ calls[c].op \in {"accept", "connect"} => r.kind = "stream"
          /\ calls[c].op = "accept" => r.stage = "server"
          /\ calls[c].op = "close" => r.stage = "closed"
          /\ calls[c].op # "none" => r.stage # "unused"
          /\ calls[c].op # "none" /\ r.stage = "gone" => calls[c].op = "write" /\ r.early
    /\ \A c, d \in Coroutines : Closes(c, i, calls) /\ Closes(d, i, calls) => c = d
    /\ r.stage = "server" => r.kind = "stream"
    /\ r.early => r.kind = "datagram"

\* The cached request is in flight once at most.
CachedOnce(r) ==
    /\ \A m, n \in DOMAIN r.flight : r.flight[m].cached /\ r.flight[n].cached => m = n
    /\ \A n \in DOMAIN r.flight : r.flight[n].cached => r.cache

\* The requests in flight are those of different writers, or torn, and one at most is
\* the cached one, unless something was sent early.
Flown(r) ==
    /\ \A n \in DOMAIN r.flight :
          r.flight[n].who # NoCo => r.flight[n].who \in ToSet(r.writers)
    /\ \A m, n \in DOMAIN r.flight :
          r.flight[m].who = r.flight[n].who /\ r.flight[m].who # NoCo => m = n
    /\ r.early \/ CachedOnce(r)

\* The request of each writer is in flight.
Carried(r, writers) == \A c \in writers : \E n \in DOMAIN r.flight : r.flight[n].who = c

Flying(r) == Flown(r) /\ Carried(r, ToSet(r.writers))

Torn(r) == \E n \in DOMAIN r.flight : r.flight[n].who = NoCo

Good(i, r, calls) ==
    /\ r \in Records
    /\ Known(i, r, calls) /\ Staged(i, r, calls) /\ Flying(r)
    /\ Torn(r) => r.stage \in {"closed", "gone"}

\* The count is that of the bound sockets, and all of them let go of what is closed.
RefsAreExact ==
    \A i \in Internals :
       /\ inner[i].refs = Cardinality(Bound(i))
       /\ inner[i].refs # 0 <=> inner[i].stage \in Open

\* The new connection of accept() is lazy, not in use, and nobody else's.
Lent(c) ==
    call[c].op = "accept" =>
        LET s == call[c].with IN
        /\ s \in Sockets /\ internal[s] \in Internals
        /\ inner[internal[s]].stage = "lazy"
        /\ inner[internal[s]].kind = "stream"
        /\ inner[internal[s]].io = {}
        /\ inner[internal[s]].refs = 1
        /\ \A d \in Coroutines : call[d].op = "accept" /\ call[d].with = s => d = c

IInv ==
    /\ internal \in [Sockets -> Internals \cup {Null}]
    /\ inner \in [Internals -> Records]
    /\ TypedCalls(call)
    /\ \A i \in Internals : Good(i, inner[i], call)
    /\ RefsAreExact
    /\ \A c \in Coroutines : Lent(c)

-----------------------------------------------------------------------------
(* Waits begin and end *)

LEMMA FlagsProperties ==
    /\ FlagsOf("read") = {"read"}
    /\ FlagsOf("bind") = BIND /\ FlagsOf("accept") = ACCEPT
    /\ FlagsOf("resolve") = CONNECT /\ FlagsOf("connect") = CONNECT
    /\ \A op \in Whole : FlagsOf(op) \in {BIND, ACCEPT, CONNECT}
    /\ \A op \in Waits \ {"write"} : FlagsOf(op) \subseteq AllFlags /\ "read" \in FlagsOf(op)
    /\ Waits = Whole \cup {"read", "write"} /\ "write" \notin Whole /\ "read" \notin Whole
    /\ \A f \in {BIND, ACCEPT, CONNECT} : "read" \in f /\ "write" \in f
    /\ {"read"} \notin {BIND, ACCEPT, CONNECT} /\ {"write"} \notin {BIND, ACCEPT, CONNECT}
    /\ {"read", "write"} \notin {BIND, ACCEPT, CONNECT} /\ {} \notin {BIND, ACCEPT, CONNECT}
<1>1. /\ FlagsOf("read") = {"read"}
      /\ FlagsOf("bind") = BIND /\ FlagsOf("accept") = ACCEPT
      /\ FlagsOf("resolve") = CONNECT /\ FlagsOf("connect") = CONNECT
  BY DEF FlagsOf
<1>2. Waits = Whole \cup {"read", "write"} /\ "write" \notin Whole /\ "read" \notin Whole
  BY DEF Waits, Whole
<1>3. \A f \in {BIND, ACCEPT, CONNECT} : "read" \in f /\ "write" \in f
  BY DEF BIND, ACCEPT, CONNECT
<1>4. \A op \in Whole : FlagsOf(op) \in {BIND, ACCEPT, CONNECT}
  BY <1>1 DEF Whole
<1>5. \A op \in Waits \ {"write"} : FlagsOf(op) \subseteq AllFlags /\ "read" \in FlagsOf(op)
  BY <1>1, <1>2, <1>3 DEF Whole, AllFlags
<1>6. /\ {"read"} \notin {BIND, ACCEPT, CONNECT} /\ {"write"} \notin {BIND, ACCEPT, CONNECT}
      /\ {"read", "write"} \notin {BIND, ACCEPT, CONNECT} /\ {} \notin {BIND, ACCEPT, CONNECT}
  BY DEF BIND, ACCEPT, CONNECT
<1> QED
  BY <1>1, <1>2, <1>3, <1>4, <1>5, <1>6

\* The fields of the records that the helpers make.
LEMMA LeftRecords ==
    ASSUME NEW r \in Records, NEW c \in Coroutines, NEW flags \in SUBSET AllFlags
    PROVE  /\ Entered(r, c, flags) \in Records
           /\ Entered(r, c, flags).io = flags /\ Entered(r, c, flags).waiter = c
           /\ Entered(r, c, flags).writers = r.writers
           /\ Left(r) \in Records /\ Left(r).io = {} /\ Left(r).waiter = NoCo
           /\ Left(r).writers = r.writers
           /\ \A x \in {Entered(r, c, flags), Left(r)} :
                 /\ x.stage = r.stage /\ x.kind = r.kind /\ x.refs = r.refs
                 /\ x.flight = r.flight /\ x.cache = r.cache /\ x.early = r.early
BY DEF Entered, Left, Records

LEMMA ReadRecords ==
    ASSUME NEW r \in Records, NEW c \in Coroutines
    PROVE  /\ ReadEntered(r, c) \in Records
           /\ ReadEntered(r, c).io = r.io \cup {"read"} /\ ReadEntered(r, c).waiter = c
           /\ ReadLeft(r) \in Records
           /\ ReadLeft(r).io = Xor(r.io, {"read"}) /\ ReadLeft(r).waiter = NoCo
           /\ \A x \in {ReadEntered(r, c), ReadLeft(r)} :
                 /\ x.stage = r.stage /\ x.kind = r.kind /\ x.refs = r.refs
                 /\ x.flight = r.flight /\ x.cache = r.cache /\ x.writers = r.writers
                 /\ x.early = r.early
<1>1. "read" \in AllFlags
  BY DEF AllFlags, BIND
<1>2. r.io \cup {"read"} \in SUBSET AllFlags /\ Xor(r.io, {"read"}) \in SUBSET AllFlags
  BY <1>1 DEF Records, Xor
<1> QED
  BY <1>2 DEF ReadEntered, ReadLeft, Records

LEMMA WriteEnteredRecords ==
    ASSUME NEW r \in Records, NEW c \in Coroutines
    PROVE  LET x == WriteEntered(r, c)
           IN  /\ x \in Records /\ x.io = r.io \cup {"write"} /\ x.waiter = r.waiter
               /\ x.writers = Append(r.writers, c)
               /\ x.cache = (r.cache \/ "write" \notin r.io)
               /\ x.flight = Append(r.flight, [who |-> c, cached |-> "write" \notin r.io])
               /\ x.early = (r.early \/ Resolving(r))
               /\ x.stage = r.stage /\ x.kind = r.kind /\ x.refs = r.refs
<1>1. "write" \in AllFlags
  BY DEF AllFlags, BIND
<1>2. r.io \cup {"write"} \in SUBSET AllFlags
  BY <1>1 DEF Records
<1>3. Append(r.writers, c) \in Seq(Coroutines)
  BY DEF Records
<1>4. Append(r.flight, [who |-> c, cached |-> "write" \notin r.io]) \in Seq(Entries)
  BY DEF Records, Entries
<1>5. (r.early \/ Resolving(r)) \in BOOLEAN
  BY DEF Records, Resolving
<1> QED
  BY <1>2, <1>3, <1>4, <1>5 DEF WriteEntered, Records

LEMMA WriteLeftRecords ==
    ASSUME NEW r \in Records, NEW c \in Coroutines, IsInjective(r.writers)
    PROVE  LET x == WriteLeft(r, c)
           IN  /\ x \in Records /\ x.waiter = r.waiter
               /\ x.writers = Without(r.writers, c) /\ x.writers \in Seq(Coroutines)
               /\ x.writers = <<>> => x.io = Xor(r.io, {"write"})
               /\ x.writers # <<>> => x.io = r.io
               /\ ToSet(x.writers) = ToSet(r.writers) \ {c} /\ IsInjective(x.writers)
               /\ x.cache = r.cache /\ x.flight = r.flight /\ x.early = r.early
               /\ x.stage = r.stage /\ x.kind = r.kind /\ x.refs = r.refs
<1> DEFINE w == Without(r.writers, c)
<1>1. "write" \in AllFlags
  BY DEF AllFlags, BIND
<1>2. Xor(r.io, {"write"}) \in SUBSET AllFlags
  BY <1>1 DEF Records, Xor
<1>3. r.writers \in Seq(Coroutines)
  BY DEF Records
<1>4. w \in Seq(Coroutines) /\ ToSet(w) = ToSet(r.writers) \ {c} /\ IsInjective(w)
  <2>1. CASE c \in ToSet(r.writers)
    BY <1>3, <2>1, WithoutProperties
  <2>2. CASE c \notin ToSet(r.writers)
    BY <1>3, <2>2, WithoutStranger
  <2> QED
    BY <2>1, <2>2
<1> QED
  BY <1>2, <1>4 DEF WriteLeft, Records

\* Who could be there.
LEMMA WaiterIsKnown ==
    ASSUME NEW i, NEW r \in Records, NEW calls, Known(i, r, calls)
    PROVE  /\ r.waiter # NoCo => WaitsOn(r.waiter, i, calls) /\ "read" \in r.io
           /\ r.waiter = NoCo => "read" \notin r.io
           /\ "read" \notin r.io => \A c \in Coroutines : ~WaitsOn(c, i, calls)
           /\ ~r.early =>
                 /\ r.writers # <<>> => "write" \in r.io
                 /\ "write" \notin r.io => r.writers = <<>>
<1>1. r.waiter \in Coroutines \cup {NoCo}
  BY DEF Records
<1>2. r.waiter # NoCo => WaitsOn(r.waiter, i, calls) /\ "read" \in r.io
  <2> SUFFICES ASSUME r.waiter # NoCo
               PROVE  WaitsOn(r.waiter, i, calls) /\ "read" \in r.io
    OBVIOUS
  <2>1. WaitsOn(r.waiter, i, calls)
    BY <1>1 DEF Known
  <2>2. "read" \in WaiterFlags(r, calls) \ {"write"}
    BY <2>1, FlagsProperties DEF WaitsOn, WaiterFlags
  <2> QED
    BY <2>1, <2>2 DEF Known
<1>3. ~r.early /\ r.writers # <<>> => "write" \in r.io
  BY DEF Known, Exact, WriterFlags
<1>4. "read" \notin r.io => \A c \in Coroutines : ~WaitsOn(c, i, calls)
  BY <1>2, SocketAssumption DEF Known
<1>5. r.waiter = NoCo => "read" \notin r.io
  BY DEF Known, WaiterFlags
<1> QED
  BY <1>2, <1>3, <1>4, <1>5

\* A call that a coroutine can be in.
Fits(new) ==
    /\ new \in Calls
    /\ new.op = "none" => new = Idle
    /\ new.op # "none" => new.on \in Internals

\* The calls after c alone changed its call.
Changed(calls, c, new) == [calls EXCEPT ![c] = new]

LEMMA OneCall ==
    ASSUME NEW calls, TypedCalls(calls), NEW c \in Coroutines, NEW new, Fits(new)
    PROVE  /\ TypedCalls(Changed(calls, c, new)) /\ Changed(calls, c, new)[c] = new
           /\ \A d \in Coroutines \ {c} : Changed(calls, c, new)[d] = calls[d]
BY DEF TypedCalls, Fits, Changed

LEMMA IdleCall == Idle \in Calls /\ Idle.op = "none" /\ Idle.on = Null /\ Idle.op \notin Waits
BY DEF Idle, Calls, Waits

LEMMA FittingCalls ==
    /\ Fits(Idle)
    /\ \A i \in Internals : \A op \in Waits \cup {"close"} :
          /\ Fits(Waiting(op, i)) /\ Waiting(op, i).op = op /\ Waiting(op, i).on = i
          /\ Waiting(op, i) \in Calls
<1>1. Fits(Idle)
  BY IdleCall DEF Fits
<1>2. ASSUME NEW i \in Internals, NEW op \in Waits \cup {"close"}
      PROVE  /\ Waiting(op, i).op = op /\ Waiting(op, i).on = i /\ op # "none"
             /\ Waiting(op, i) \in Calls
  BY <1>2 DEF Waiting, Calls, Waits
<1> QED
  BY <1>1, <1>2 DEF Fits

LEMMA EnterWhole ==
    ASSUME NEW i \in Internals, NEW r \in Records, NEW calls, TypedCalls(calls),
           Known(i, r, calls), NEW c \in Coroutines, calls[c] = Idle, NEW new \in Calls,
           new.on = i, new.op \in Whole, r.io \cap FlagsOf(new.op) = {}
    PROVE  Known(i, Entered(r, c, FlagsOf(new.op)), [calls EXCEPT ![c] = new])
<1> DEFINE x == Entered(r, c, FlagsOf(new.op))
           after == [calls EXCEPT ![c] = new]
<1> USE SocketAssumption
<1>1. /\ new.op \in Waits \ {"write"} /\ FlagsOf(new.op) \in SUBSET AllFlags
      /\ "read" \notin r.io /\ "write" \notin r.io
  BY FlagsProperties
<1>2. /\ r.early \/ r.writers = <<>>
      /\ \A d \in Coroutines : ~WaitsOn(d, i, calls)
  BY <1>1, WaiterIsKnown
<1>3. x.writers = r.writers /\ x.waiter = c /\ x.io = FlagsOf(new.op) /\ x.early = r.early
  BY <1>1, LeftRecords
<1>4. after[c] = new /\ \A d \in Coroutines \ {c} : after[d] = calls[d]
  BY DEF TypedCalls
<1> HIDE DEF x, after
<1>5. ASSUME NEW d \in Coroutines PROVE d \in ToSet(x.writers) <=> Writes(d, i, after)
  BY <1>1, <1>3, <1>4, IdleCall DEF Known, Writes
<1>6. ASSUME NEW d \in Coroutines PROVE x.waiter = d <=> WaitsOn(d, i, after)
  BY <1>1, <1>2, <1>3, <1>4 DEF WaitsOn
<1>7. x.io = WaiterFlags(x, after)
  BY <1>3, <1>4 DEF WaiterFlags
<1>8. x.early \/ Exact(i, x, after)
  BY <1>2, <1>3, <1>7 DEF Exact, WriterFlags
<1> QED
  BY <1>3, <1>5, <1>6, <1>7, <1>8 DEF Known, x, after

LEMMA EnterRead ==
    ASSUME NEW i \in Internals, NEW r \in Records, NEW calls, TypedCalls(calls),
           Known(i, r, calls), NEW c \in Coroutines, calls[c] = Idle, NEW new \in Calls,
           new.on = i, new.op = "read", "read" \notin r.io
    PROVE  Known(i, ReadEntered(r, c), [calls EXCEPT ![c] = new])
<1> DEFINE x == ReadEntered(r, c)
           after == [calls EXCEPT ![c] = new]
<1> USE SocketAssumption
<1>1. /\ new.op \in Waits \ {"write"} /\ new.op \notin Whole
      /\ \A d \in Coroutines : ~WaitsOn(d, i, calls)
  BY WaiterIsKnown, FlagsProperties
<1>2. /\ x.writers = r.writers /\ x.waiter = c /\ x.io = r.io \cup {"read"}
      /\ x.early = r.early
  BY ReadRecords
<1>3. after[c] = new /\ \A d \in Coroutines \ {c} : after[d] = calls[d]
  BY DEF TypedCalls
<1> HIDE DEF x, after
<1>4. ASSUME NEW d \in Coroutines PROVE d \in ToSet(x.writers) <=> Writes(d, i, after)
  BY <1>1, <1>2, <1>3, IdleCall DEF Known, Writes
<1>5. ASSUME NEW d \in Coroutines PROVE x.waiter = d <=> WaitsOn(d, i, after)
  BY <1>1, <1>2, <1>3 DEF WaitsOn
<1>6. r.waiter = NoCo /\ WaiterFlags(r, calls) = {} /\ WaiterFlags(x, after) = {"read"}
  <2>1. r.waiter = NoCo
    BY <1>1, WaiterIsKnown DEF Records
  <2> QED
    BY <1>2, <1>3, <2>1, FlagsProperties DEF WaiterFlags
<1>7. x.io \ {"write"} = WaiterFlags(x, after) \ {"write"}
  BY <1>2, <1>6 DEF Known
<1>8. x.early \/ Exact(i, x, after)
  <2> SUFFICES ASSUME ~x.early PROVE Exact(i, x, after)
    OBVIOUS
  <2>1. Exact(i, r, calls)
    BY <1>2 DEF Known
  <2>2. x.io = WaiterFlags(x, after) \cup WriterFlags(x)
    BY <1>2, <1>6, <2>1 DEF Exact, WriterFlags
  <2>3. ASSUME NEW d \in Coroutines, after[d].on = i, after[d].op \in Whole
        PROVE  x.writers = <<>>
    BY <1>1, <1>2, <1>3, <2>1, <2>3 DEF Exact
  <2> QED
    BY <2>2, <2>3 DEF Exact
<1> QED
  BY <1>2, <1>4, <1>5, <1>7, <1>8 DEF Known, x, after

LEMMA EnterWrite ==
    ASSUME NEW i \in Internals, NEW r \in Records, NEW calls, TypedCalls(calls),
           Known(i, r, calls), NEW c \in Coroutines, calls[c] = Idle, NEW new \in Calls,
           new.on = i, new.op = "write",
           \/ WriteEntered(r, c).early
           \/ \A d \in Coroutines : calls[d].on = i => calls[d].op \notin Whole
    PROVE  Known(i, WriteEntered(r, c), [calls EXCEPT ![c] = new])
<1> DEFINE x == WriteEntered(r, c)
           after == [calls EXCEPT ![c] = new]
<1> USE SocketAssumption
<1>1. new.op \notin Whole /\ new.op \notin Waits \ {"write"} /\ IsInjective(r.writers)
  BY FlagsProperties DEF Known
<1>2. /\ x.writers = Append(r.writers, c) /\ x.waiter = r.waiter
      /\ x.io = r.io \cup {"write"} /\ (~x.early => ~r.early)
      /\ \/ x.early
         \/ \A d \in Coroutines : calls[d].on = i => calls[d].op \notin Whole
  BY WriteEnteredRecords
<1>3. after[c] = new /\ \A d \in Coroutines \ {c} : after[d] = calls[d]
  BY DEF TypedCalls
<1>4. /\ c \notin ToSet(r.writers) /\ r.waiter # c /\ r.writers \in Seq(Coroutines)
  BY IdleCall DEF Known, Writes, WaitsOn, Records
<1>5. /\ x.writers # <<>> /\ IsInjective(x.writers)
      /\ ToSet(x.writers) = ToSet(r.writers) \cup {c}
  BY <1>1, <1>2, <1>4, AppendWaiter
<1> HIDE DEF x, after
<1>6. ASSUME NEW d \in Coroutines PROVE d \in ToSet(x.writers) <=> Writes(d, i, after)
  BY <1>3, <1>5 DEF Known, Writes
<1>7. ASSUME NEW d \in Coroutines PROVE x.waiter = d <=> WaitsOn(d, i, after)
  BY <1>1, <1>2, <1>3, <1>4 DEF Known, WaitsOn
<1>8. WaiterFlags(x, after) = WaiterFlags(r, calls)
  BY <1>2, <1>3, <1>4 DEF WaiterFlags, Records
<1>9. x.io \ {"write"} = WaiterFlags(x, after) \ {"write"}
  BY <1>2, <1>8 DEF Known
<1>10. x.early \/ Exact(i, x, after)
  <2> SUFFICES ASSUME ~x.early PROVE Exact(i, x, after)
    OBVIOUS
  <2>1. Exact(i, r, calls)
    BY <1>2 DEF Known
  <2>2. x.io = WaiterFlags(x, after) \cup WriterFlags(x)
    BY <1>2, <1>5, <1>8, <2>1 DEF Exact, WriterFlags
  <2>3. \A d \in Coroutines : ~(after[d].on = i /\ after[d].op \in Whole)
    BY <1>1, <1>2, <1>3
  <2> QED
    BY <2>2, <2>3 DEF Exact
<1> QED
  BY <1>5, <1>6, <1>7, <1>9, <1>10 DEF Known, x, after

LEMMA LeaveWhole ==
    ASSUME NEW i \in Internals, NEW r \in Records, NEW calls, TypedCalls(calls),
           Known(i, r, calls), NEW c \in Coroutines, calls[c].on = i, calls[c].op \in Whole
    PROVE  Known(i, Left(r), [calls EXCEPT ![c] = Idle])
<1> DEFINE x == Left(r)
           after == [calls EXCEPT ![c] = Idle]
<1> USE SocketAssumption
<1>1. x.writers = r.writers /\ x.waiter = NoCo /\ x.io = {} /\ x.early = r.early
  BY LeftRecords
<1>2. after[c] = Idle /\ \A d \in Coroutines \ {c} : after[d] = calls[d]
  BY DEF TypedCalls
<1> HIDE DEF x, after
<1>3. /\ r.early \/ r.writers = <<>>
      /\ WaitsOn(c, i, calls) /\ r.waiter = c
  BY FlagsProperties DEF Known, Exact, WaitsOn
<1>4. ASSUME NEW d \in Coroutines PROVE d \in ToSet(x.writers) <=> Writes(d, i, after)
  BY <1>1, <1>2, <1>3, IdleCall, FlagsProperties DEF Known, Writes
<1>5. ASSUME NEW d \in Coroutines PROVE x.waiter = d <=> WaitsOn(d, i, after)
  BY <1>1, <1>2, <1>3, IdleCall DEF Known, WaitsOn
<1>6. x.io \ {"write"} = WaiterFlags(x, after) \ {"write"}
  BY <1>1 DEF WaiterFlags
<1>7. x.early \/ Exact(i, x, after)
  BY <1>1, <1>3 DEF Exact, WaiterFlags, WriterFlags
<1> QED
  BY <1>1, <1>4, <1>5, <1>6, <1>7 DEF Known, x, after

LEMMA LeaveRead ==
    ASSUME NEW i \in Internals, NEW r \in Records, NEW calls, TypedCalls(calls),
           Known(i, r, calls), NEW c \in Coroutines, calls[c].on = i, calls[c].op = "read"
    PROVE  Known(i, ReadLeft(r), [calls EXCEPT ![c] = Idle])
<1> DEFINE x == ReadLeft(r)
           after == [calls EXCEPT ![c] = Idle]
<1> USE SocketAssumption
<1>1. /\ x.writers = r.writers /\ x.waiter = NoCo /\ x.io = Xor(r.io, {"read"})
      /\ x.early = r.early
  BY ReadRecords
<1>2. after[c] = Idle /\ \A d \in Coroutines \ {c} : after[d] = calls[d]
  BY DEF TypedCalls
<1> HIDE DEF x, after
<1>3. WaitsOn(c, i, calls) /\ r.waiter = c /\ Idle.op \notin Whole
  BY IdleCall, FlagsProperties DEF Known, WaitsOn
<1>4. ASSUME NEW d \in Coroutines PROVE d \in ToSet(x.writers) <=> Writes(d, i, after)
  BY <1>1, <1>2, <1>3, IdleCall DEF Known, Writes
<1>5. ASSUME NEW d \in Coroutines PROVE x.waiter = d <=> WaitsOn(d, i, after)
  BY <1>1, <1>2, <1>3, IdleCall DEF Known, WaitsOn
<1>6. WaiterFlags(r, calls) = {"read"} /\ WaiterFlags(x, after) = {}
  BY <1>1, <1>3, FlagsProperties, SocketAssumption DEF WaiterFlags
<1>7. x.io \ {"write"} = WaiterFlags(x, after) \ {"write"}
  BY <1>1, <1>6 DEF Known, Xor
<1>8. x.early \/ Exact(i, x, after)
  <2> SUFFICES ASSUME ~x.early PROVE Exact(i, x, after)
    OBVIOUS
  <2>1. Exact(i, r, calls)
    BY <1>1 DEF Known
  <2>2. r.io = {"read"} \cup WriterFlags(r)
    BY <1>6, <2>1 DEF Exact
  <2>3. Xor(r.io, {"read"}) = WriterFlags(r)
    BY <2>2 DEF Xor, WriterFlags
  <2>4. x.io = WaiterFlags(x, after) \cup WriterFlags(x)
    BY <1>1, <1>6, <2>3 DEF WriterFlags
  <2>5. ASSUME NEW d \in Coroutines, after[d].on = i, after[d].op \in Whole
        PROVE  x.writers = <<>>
    BY <1>1, <1>2, <1>3, <2>1, <2>5 DEF Exact
  <2> QED
    BY <2>4, <2>5 DEF Exact
<1> QED
  BY <1>1, <1>4, <1>5, <1>7, <1>8 DEF Known, x, after

LEMMA LeaveWrite ==
    ASSUME NEW i \in Internals, NEW r \in Records, NEW calls, TypedCalls(calls),
           Known(i, r, calls), NEW c \in Coroutines, Writes(c, i, calls)
    PROVE  Known(i, WriteLeft(r, c), [calls EXCEPT ![c] = Idle])
<1> DEFINE x == WriteLeft(r, c)
           after == [calls EXCEPT ![c] = Idle]
<1> USE SocketAssumption
<1>1. /\ c \in ToSet(r.writers) /\ IsInjective(r.writers) /\ r.writers \in Seq(Coroutines)
      /\ Idle.op \notin Whole /\ "write" \notin Whole
  BY IdleCall, FlagsProperties DEF Known, Records
<1>2. /\ x.writers = Without(r.writers, c) /\ x.waiter = r.waiter
      /\ x.writers = <<>> => x.io = Xor(r.io, {"write"})
      /\ x.writers # <<>> => x.io = r.io
      /\ IsInjective(x.writers) /\ ToSet(x.writers) = ToSet(r.writers) \ {c}
      /\ x.early = r.early
  BY <1>1, WriteLeftRecords
<1>3. after[c] = Idle /\ \A d \in Coroutines \ {c} : after[d] = calls[d]
  BY DEF TypedCalls
<1>5. /\ r.writers # <<>> /\ r.waiter # c
      /\ r.early \/ \A d \in Coroutines : calls[d].on = i => calls[d].op \notin Whole
  BY <1>1, EmptyQueue DEF Known, Exact, WaitsOn, Writes
<1> HIDE DEF x, after
<1>6. ASSUME NEW d \in Coroutines PROVE d \in ToSet(x.writers) <=> Writes(d, i, after)
  BY <1>3, <1>2, IdleCall DEF Known, Writes
<1>7. ASSUME NEW d \in Coroutines PROVE x.waiter = d <=> WaitsOn(d, i, after)
  BY <1>2, <1>3, <1>5, IdleCall DEF Known, WaitsOn
<1>8. WaiterFlags(x, after) = WaiterFlags(r, calls)
  BY <1>2, <1>3, <1>5 DEF WaiterFlags, Records
<1>9. x.io \ {"write"} = WaiterFlags(x, after) \ {"write"}
  <2>1. x.io \ {"write"} = r.io \ {"write"}
    BY <1>2 DEF Xor
  <2> QED
    BY <1>8, <2>1 DEF Known
<1>10. x.early \/ Exact(i, x, after)
  <2> SUFFICES ASSUME ~x.early PROVE Exact(i, x, after)
    OBVIOUS
  <2>1. Exact(i, r, calls)
    BY <1>2 DEF Known
  <2>2. r.io = WaiterFlags(r, calls) \cup {"write"}
    BY <1>5, <2>1 DEF Exact, WriterFlags
  <2>3. "write" \notin WaiterFlags(r, calls)
    <3>1. CASE r.waiter = NoCo
      BY <3>1 DEF WaiterFlags
    <3>2. CASE r.waiter # NoCo
      <4>1. WaitsOn(r.waiter, i, calls) /\ r.waiter \in Coroutines
        BY <3>2, WaiterIsKnown DEF Records
      <4>2. calls[r.waiter].op = "read"
        BY <1>2, <1>5, <4>1, FlagsProperties DEF WaitsOn
      <4> QED
        BY <3>2, <4>2, FlagsProperties DEF WaiterFlags
    <3> QED
      BY <3>1, <3>2
  <2>4. Xor(r.io, {"write"}) = WaiterFlags(r, calls)
    BY <2>2, <2>3 DEF Xor
  <2>5. x.io = WaiterFlags(x, after) \cup WriterFlags(x)
    BY <1>2, <1>8, <2>2, <2>4 DEF WriterFlags
  <2>6. \A d \in Coroutines : ~(after[d].on = i /\ after[d].op \in Whole)
    BY <1>1, <1>2, <1>3, <1>5
  <2> QED
    BY <2>5, <2>6 DEF Exact
<1> QED
  BY <1>2, <1>6, <1>7, <1>9, <1>10 DEF Known, x, after

-----------------------------------------------------------------------------
(* Requests in flight *)

LEMMA FlightStays ==
    ASSUME NEW r \in Records, NEW x \in Records, Flying(r), x.flight = r.flight,
           x.cache = r.cache, x.early = r.early, x.writers = r.writers
    PROVE  Flying(x) /\ (Torn(x) <=> Torn(r))
BY DEF Flying, Flown, CachedOnce, Carried, Torn

LEMMA FlightGrows ==
    ASSUME NEW i, NEW calls, NEW r \in Records, Known(i, r, calls), Flying(r), ~Torn(r),
           NEW c \in Coroutines, c \notin ToSet(r.writers)
    PROVE  Flying(WriteEntered(r, c)) /\ ~Torn(WriteEntered(r, c))
<1> DEFINE x == WriteEntered(r, c)
           n == Len(r.flight)
           new == [who |-> c, cached |-> "write" \notin r.io]
<1>1. IsInjective(r.writers)
  BY DEF Known
<1>2. /\ x.flight = Append(r.flight, new) /\ x.writers = Append(r.writers, c)
      /\ x.cache = (r.cache \/ "write" \notin r.io) /\ (~x.early => ~r.early)
  BY WriteEnteredRecords
<1>3. ToSet(x.writers) = ToSet(r.writers) \cup {c}
  BY <1>1, <1>2, AppendWaiter DEF Records
<1>4. /\ r.flight \in Seq(Entries) /\ new \in Entries
      /\ new.who = c /\ new.cached = ("write" \notin r.io)
  BY DEF Records, Entries
<1> HIDE DEF new
<1>5. /\ DOMAIN x.flight = 1..(n + 1) /\ DOMAIN r.flight = 1..n /\ n \in Nat
      /\ x.flight[n + 1] = new /\ \A m \in 1..n : x.flight[m] = r.flight[m]
  BY <1>2, <1>4
<1> HIDE DEF x, n
<1>6. \A m \in 1..n : r.flight[m].who # NoCo /\ r.flight[m].who \in ToSet(r.writers)
  BY <1>5 DEF Flying, Flown, Torn
<1>7. ~r.early /\ "write" \notin r.io => n = 0
  <2>1. ~r.early /\ "write" \notin r.io => ToSet(r.writers) = {}
    BY WaiterIsKnown, EmptyQueue DEF Records
  <2> QED
    BY <1>5, <1>6, <2>1
<1>8. ~Torn(x)
  BY <1>4, <1>5, <1>6, SocketAssumption DEF Torn
<1>9. Flying(x)
  <2>1. ASSUME NEW m \in 1..(n + 1) PROVE m \in 1..n \/ m = n + 1
    BY <1>5
  <2>2. \A m \in DOMAIN x.flight : x.flight[m].who \in ToSet(x.writers)
    BY <1>3, <1>4, <1>5, <1>6, <2>1
  <2>3. \A k, m \in DOMAIN x.flight : x.flight[k].who = x.flight[m].who => k = m
    BY <1>4, <1>5, <1>6, <2>1 DEF Flying, Flown
  <2>4. x.early \/ CachedOnce(x)
    <3> SUFFICES ASSUME ~x.early PROVE CachedOnce(x)
      OBVIOUS
    <3>1. ~r.early /\ CachedOnce(r)
      BY <1>2 DEF Flying, Flown
    <3>2. \A k, m \in 1..n : x.flight[k].cached /\ x.flight[m].cached => k = m
      BY <1>5, <3>1 DEF CachedOnce
    <3>3. \A k \in 1..n : ~(x.flight[k].cached /\ x.flight[n + 1].cached)
      <4>1. ASSUME NEW k \in 1..n PROVE "write" \in r.io
        BY <1>5, <1>7, <3>1, <4>1
      <4> QED
        BY <1>4, <1>5, <4>1
    <3>4. \A k, m \in DOMAIN x.flight : x.flight[k].cached /\ x.flight[m].cached => k = m
      BY <1>5, <2>1, <3>2, <3>3
    <3>5. \A m \in DOMAIN x.flight : x.flight[m].cached => x.cache
      BY <1>2, <1>4, <1>5, <2>1, <3>1 DEF CachedOnce
    <3> QED
      BY <3>4, <3>5 DEF CachedOnce
  <2>5. Carried(x, ToSet(x.writers))
    <3> SUFFICES ASSUME NEW d \in ToSet(x.writers)
                 PROVE  \E m \in DOMAIN x.flight : x.flight[m].who = d
      BY DEF Carried
    <3>1. CASE d = c
      <4>1. n + 1 \in DOMAIN x.flight /\ x.flight[n + 1].who = c
        BY <1>4, <1>5
      <4> QED
        BY <3>1, <4>1
    <3>2. CASE d # c
      <4>1. PICK m \in 1..n : r.flight[m].who = d
        BY <1>3, <1>5, <3>2 DEF Flying, Carried
      <4>2. m \in DOMAIN x.flight /\ x.flight[m].who = d
        BY <1>5, <4>1
      <4> QED
        BY <4>2
    <3> QED
      BY <3>1, <3>2
  <2> QED
    BY <2>2, <2>3, <2>4, <2>5 DEF Flying, Flown
<1> QED
  BY <1>8, <1>9 DEF x

\* The write of c was cut short.
LEMMA FlightTears ==
    ASSUME NEW r \in Records, IsInjective(r.writers), Flying(r), NEW c \in Coroutines
    PROVE  LET x == Abandoned(WriteLeft(r, c), c)
           IN  /\ x \in Records /\ Flying(x)
               /\ x.stage = r.stage /\ x.kind = r.kind /\ x.refs = r.refs
               /\ x.early = r.early
               /\ x.io = WriteLeft(r, c).io /\ x.waiter = WriteLeft(r, c).waiter
               /\ x.writers = WriteLeft(r, c).writers
<1> DEFINE l == WriteLeft(r, c)
           flight == [n \in DOMAIN l.flight |->
                         IF l.flight[n].who = c THEN [l.flight[n] EXCEPT !.who = NoCo]
                         ELSE l.flight[n]]
           x == Abandoned(l, c)
<1>1. /\ l \in Records /\ l.flight = r.flight /\ l.writers = Without(r.writers, c)
      /\ l.cache = r.cache /\ l.stage = r.stage /\ l.kind = r.kind /\ l.refs = r.refs
      /\ l.early = r.early /\ ToSet(l.writers) = ToSet(r.writers) \ {c}
  BY WriteLeftRecords
<1> HIDE DEF l
<1>2. /\ l.flight \in Seq(Entries) /\ DOMAIN flight = DOMAIN l.flight
      /\ \A n \in DOMAIN l.flight :
            /\ l.flight[n] \in Entries /\ flight[n] \in Entries
            /\ flight[n].who = IF l.flight[n].who = c THEN NoCo ELSE l.flight[n].who
            /\ flight[n].cached = l.flight[n].cached
  <2>1. l.flight \in Seq(Entries) /\ DOMAIN flight = DOMAIN l.flight
    BY <1>1 DEF Records
  <2>2. ASSUME NEW n \in DOMAIN l.flight
        PROVE  /\ l.flight[n] \in Entries
               /\ flight[n] = IF l.flight[n].who = c THEN [l.flight[n] EXCEPT !.who = NoCo]
                              ELSE l.flight[n]
    BY <2>1
  <2> HIDE DEF flight
  <2> QED
    BY <2>1, <2>2 DEF Entries
<1>3. flight \in Seq(Entries)
  <2>1. Len(l.flight) \in Nat /\ DOMAIN l.flight = 1..Len(l.flight)
    BY <1>2
  <2>2. flight \in [1..Len(l.flight) -> Entries]
    BY <1>2, <2>1
  <2>3. \A m \in Nat : \A f \in [1..m -> Entries] : f \in Seq(Entries)
    OBVIOUS
  <2> HIDE DEF flight
  <2> QED
    BY <2>1, <2>2, <2>3, Zenon
<1>4. x = [l EXCEPT !.flight = flight]
  BY DEF Abandoned
<1> HIDE DEF flight, x
<1>5. /\ x \in Records /\ x.flight = flight /\ x.stage = l.stage /\ x.kind = l.kind
      /\ x.refs = l.refs /\ x.io = l.io /\ x.waiter = l.waiter /\ x.writers = l.writers
      /\ x.cache = l.cache /\ x.early = l.early
  BY <1>1, <1>3, <1>4 DEF Records
<1>6. ToSet(x.writers) = ToSet(r.writers) \ {c}
  BY <1>1, <1>5
<1>7. Flying(x)
  <2>1. \A n \in DOMAIN x.flight : x.flight[n].who # NoCo =>
           x.flight[n].who \in ToSet(x.writers)
    BY <1>1, <1>2, <1>5, <1>6 DEF Flying, Flown
  <2>2. \A m, n \in DOMAIN x.flight :
           x.flight[m].who = x.flight[n].who /\ x.flight[m].who # NoCo => m = n
    BY <1>1, <1>2, <1>5 DEF Flying, Flown
  <2>3. x.early \/ CachedOnce(x)
    BY <1>1, <1>2, <1>5 DEF Flying, Flown, CachedOnce
  <2>4. Carried(x, ToSet(x.writers))
    BY <1>1, <1>2, <1>5, <1>6 DEF Flying, Carried
  <2> QED
    BY <2>1, <2>2, <2>3, <2>4 DEF Flying, Flown
<1> QED
  BY <1>1, <1>5, <1>7 DEF x, l

-----------------------------------------------------------------------------
(* Cancellation and close *)

LEMMA Cancelled ==
    ASSUME NEW i \in Internals, NEW r \in Records, NEW calls, TypedCalls(calls),
           Known(i, r, calls), Flying(r), NEW w \in Coroutines, calls[w].on = i,
           calls[w].op \in Waits, NEW y, y = Interrupted(r, w, calls[w].op)
    PROVE  /\ y \in Records /\ Known(i, y, Changed(calls, w, Idle)) /\ Flying(y)
           /\ y.stage = r.stage /\ y.kind = r.kind /\ y.refs = r.refs /\ y.early = r.early
           /\ calls[w].op # "write" => (Torn(y) <=> Torn(r))
<1> DEFINE after == Changed(calls, w, Idle)
<1>1. CASE calls[w].op = "write"
  <2> DEFINE x == Abandoned(WriteLeft(r, w), w)
  <2>1. Interrupted(r, w, calls[w].op) = x
    BY <1>1 DEF Interrupted
  <2>2. /\ x \in Records /\ Flying(x)
        /\ x.stage = r.stage /\ x.kind = r.kind /\ x.refs = r.refs /\ x.early = r.early
        /\ x.io = WriteLeft(r, w).io /\ x.waiter = WriteLeft(r, w).waiter
        /\ x.writers = WriteLeft(r, w).writers
        /\ WriteLeft(r, w).early = r.early
    BY FlightTears, WriteLeftRecords DEF Known
  <2>3. Known(i, WriteLeft(r, w), after)
    BY <1>1, LeaveWrite DEF Writes, Changed
  <2> HIDE DEF x
  <2>4. Known(i, x, after)
    BY <2>2, <2>3 DEF Known, Exact, WaiterFlags, WriterFlags
  <2> QED
    BY <1>1, <2>1, <2>2, <2>4
<1>2. CASE calls[w].op = "read"
  <2>1. Interrupted(r, w, calls[w].op) = ReadLeft(r)
    BY <1>2 DEF Interrupted
  <2> DEFINE x == ReadLeft(r)
  <2>2. /\ x \in Records /\ x.writers = r.writers /\ x.flight = r.flight
        /\ x.cache = r.cache /\ x.stage = r.stage /\ x.kind = r.kind /\ x.refs = r.refs
        /\ x.early = r.early
    BY ReadRecords
  <2>3. Known(i, x, after)
    BY <1>2, LeaveRead DEF Changed
  <2> HIDE DEF x
  <2>4. Flying(x) /\ (Torn(x) <=> Torn(r))
    BY <2>2, FlightStays
  <2> QED
    BY <2>1, <2>2, <2>3, <2>4 DEF x
<1>3. CASE calls[w].op \notin {"write", "read"}
  <2>1. Interrupted(r, w, calls[w].op) = Left(r) /\ calls[w].op \in Whole
    BY <1>3, FlagsProperties DEF Interrupted
  <2> DEFINE x == Left(r)
  <2>2. /\ x \in Records /\ x.writers = r.writers /\ x.flight = r.flight
        /\ x.cache = r.cache /\ x.stage = r.stage /\ x.kind = r.kind /\ x.refs = r.refs
        /\ x.early = r.early
    BY LeftRecords
  <2>3. Known(i, x, after)
    BY <2>1, LeaveWhole DEF Changed
  <2> HIDE DEF x
  <2>4. Flying(x) /\ (Torn(x) <=> Torn(r))
    BY <2>2, FlightStays
  <2> QED
    BY <2>1, <2>2, <2>3, <2>4 DEF x
<1> QED
  BY <1>1, <1>2, <1>3

\* A close finds a waiter as long as there is one, but for writers after an early send,
\* and first the one that has the socket for itself.
LEMMA NextProperties ==
    ASSUME NEW i \in Internals, NEW r \in Records, NEW calls, Known(i, r, calls)
    PROVE  LET w == NextWaiter(r)
           IN  /\ w = NoCo =>
                     /\ \A d \in Coroutines : ~WaitsOn(d, i, calls)
                     /\ r.early \/ \A d \in Coroutines : ~Writes(d, i, calls)
               /\ w # NoCo =>
                     /\ w \in Coroutines /\ calls[w].on = i /\ calls[w].op \in Waits
                     /\ calls[w].op \notin Whole =>
                           \A d \in Coroutines : calls[d].on = i => calls[d].op \notin Whole
<1> DEFINE w == NextWaiter(r)
<1> USE SocketAssumption
<1>1. r.waiter \in Coroutines \cup {NoCo} /\ r.writers \in Seq(Coroutines)
  BY DEF Records
<1>2. r.io \ {"write"} = WaiterFlags(r, calls) \ {"write"}
  BY DEF Known
<1>3. CASE r.io \in {BIND, ACCEPT, CONNECT}
  <2>1. w = r.waiter
    BY <1>3 DEF NextWaiter
  <2>2. r.waiter # NoCo
    BY <1>3, WaiterIsKnown, FlagsProperties
  <2>3. WaitsOn(r.waiter, i, calls)
    BY <2>2, WaiterIsKnown
  <2>4. calls[r.waiter].op \in Whole
    <3>1. calls[r.waiter].op = "read" => r.io \in {{"read"}, {"read", "write"}}
      BY <1>2, <2>2, FlagsProperties DEF WaiterFlags
    <3> QED
      BY <1>3, <2>3, <3>1, FlagsProperties DEF WaitsOn
  <2> QED
    BY <1>1, <2>1, <2>2, <2>3, <2>4 DEF WaitsOn
<1>4. CASE r.io \notin {BIND, ACCEPT, CONNECT} /\ "write" \in r.io /\ r.writers # <<>>
  <2>1. ASSUME NEW d \in Coroutines, calls[d].on = i, calls[d].op \in Whole PROVE FALSE
    <3>1. r.waiter = d
      BY <2>1, FlagsProperties DEF Known, WaitsOn
    <3>2. r.io \ {"write"} = FlagsOf(calls[d].op) \ {"write"}
      BY <1>2, <3>1 DEF WaiterFlags
    <3>3. "write" \in FlagsOf(calls[d].op) /\ FlagsOf(calls[d].op) \in {BIND, ACCEPT, CONNECT}
      BY <2>1, FlagsProperties
    <3>4. r.io = FlagsOf(calls[d].op)
      <4>1. PICK f : f = FlagsOf(calls[d].op)
        OBVIOUS
      <4>2. r.io \ {"write"} = f \ {"write"} /\ "write" \in f /\ "write" \in r.io
        BY <1>4, <3>2, <3>3, <4>1
      <4>3. r.io = f
        BY <4>2
      <4> QED
        BY <4>1, <4>3
    <3> QED
      BY <1>4, <3>3, <3>4
  <2>2. w = Head(r.writers)
    BY <1>4 DEF NextWaiter
  <2>3. Head(r.writers) \in ToSet(r.writers) /\ Head(r.writers) \in Coroutines
    BY <1>1, <1>4, HeadIsInQueue
  <2>4. Writes(w, i, calls)
    BY <2>2, <2>3 DEF Known
  <2> QED
    BY <2>1, <2>2, <2>3, <2>4, FlagsProperties DEF Writes
<1>5. CASE r.io \notin {BIND, ACCEPT, CONNECT} /\ ~("write" \in r.io /\ r.writers # <<>>)
  <2>1. w = IF "read" \in r.io THEN r.waiter ELSE NoCo
    BY <1>5 DEF NextWaiter
  <2>2. w = r.waiter
    BY <2>1, WaiterIsKnown
  <2>3. r.early \/ \A d \in Coroutines : ~Writes(d, i, calls)
    <3>1. r.early \/ r.writers = <<>>
      BY <1>5, WaiterIsKnown
    <3> QED
      BY <1>1, <3>1, EmptyQueue DEF Known
  <2>4. CASE w = NoCo
    <3>1. \A d \in Coroutines : ~WaitsOn(d, i, calls)
      BY <2>2, <2>4 DEF Known
    <3> QED
      BY <2>3, <2>4, <3>1
  <2>5. CASE w # NoCo
    <3>1. WaitsOn(w, i, calls) /\ \A d \in Coroutines : WaitsOn(d, i, calls) => d = w
      BY <2>2, <2>5, WaiterIsKnown DEF Known
    <3>2. \A d \in Coroutines : calls[d].on = i /\ calls[d].op \in Whole => WaitsOn(d, i, calls)
      BY FlagsProperties DEF WaitsOn
    <3> QED
      BY <1>1, <2>2, <2>5, <3>1, <3>2 DEF WaitsOn
  <2> QED
    BY <2>4, <2>5
<1> QED
  BY <1>3, <1>4, <1>5

\* Only calls on i change; none begins to accept.
Local(i, calls, after) ==
    \A d \in Coroutines :
       \/ after[d] = calls[d]
       \/ /\ after[d] = Idle \/ after[d].on = i
          /\ calls[d] = Idle \/ calls[d].on = i

NoneAccepts(calls, after) ==
    \A d \in Coroutines : after[d].op = "accept" => after[d] = calls[d]

LEMMA CloseStepProperties ==
    ASSUME NEW i \in Internals, NEW r \in Records, NEW calls, TypedCalls(calls),
           Known(i, r, calls), Flying(r), r.stage = "closed", r.early => r.kind = "datagram",
           inner \in [Internals -> Records],
           NEW c \in Coroutines, calls[c] = Idle \/ Closes(c, i, calls),
           \A d \in Coroutines \ {c} : ~Closes(d, i, calls), CloseStep(c, i, r, calls)
    PROVE  /\ inner' \in [Internals -> Records] /\ TypedCalls(call')
           /\ \A j \in Internals \ {i} : inner'[j] = inner[j]
           /\ Good(i, inner'[i], call')
           /\ inner'[i].refs = r.refs /\ inner'[i].stage \in {"closed", "gone"}
           /\ Local(i, calls, call') /\ NoneAccepts(calls, call')
<1> USE SocketAssumption
<1> DEFINE w == NextWaiter(r)
<1>1. calls[c].op \notin Waits
  BY IdleCall DEF Closes, Waits
<1>2. CASE w = NoCo
  <2> DEFINE x == [r EXCEPT !.stage = "gone"]
  <2>1. inner' = [inner EXCEPT ![i] = x] /\ call' = [calls EXCEPT ![c] = Idle]
    BY <1>2 DEF CloseStep
  <2>2. /\ x \in Records /\ x.stage = "gone" /\ x.kind = r.kind /\ x.refs = r.refs
        /\ x.io = r.io /\ x.waiter = r.waiter /\ x.writers = r.writers
        /\ x.flight = r.flight /\ x.cache = r.cache /\ x.early = r.early
    BY DEF Records
  <2> HIDE DEF x
  <2>3. /\ inner' \in [Internals -> Records] /\ inner'[i] = x
        /\ \A j \in Internals \ {i} : inner'[j] = inner[j]
    BY <2>1, <2>2
  <2>4. /\ TypedCalls(call') /\ call'[c] = Idle
        /\ \A d \in Coroutines \ {c} : call'[d] = calls[d]
    <3>1. call' = Changed(calls, c, Idle)
      BY <2>1 DEF Changed
    <3> QED
      BY <3>1, FittingCalls, OneCall
  <2>5. /\ \A d \in Coroutines : ~WaitsOn(d, i, calls)
        /\ r.early \/ \A d \in Coroutines : ~Writes(d, i, calls)
    BY <1>2, NextProperties
  <2>6. \A d \in Coroutines :
           /\ Writes(d, i, call') <=> Writes(d, i, calls)
           /\ ~WaitsOn(d, i, call') /\ ~Closes(d, i, call')
    <3> TAKE d \in Coroutines
    <3>1. CASE d = c
      BY <1>1, <2>4, <3>1, IdleCall, FlagsProperties DEF Writes, WaitsOn, Closes
    <3>2. CASE d # c
      BY <2>4, <2>5, <3>2 DEF Writes, WaitsOn, Closes
    <3> QED
      BY <3>1, <3>2
  <2>7. Known(i, x, call')
    <3>1. r.waiter = NoCo
      BY <2>5 DEF Known, Records
    <3>2. \A d \in Coroutines : ~(call'[d].on = i /\ call'[d].op \in Whole)
      BY <2>6, FlagsProperties DEF WaitsOn
    <3>3. WaiterFlags(x, call') = WaiterFlags(r, calls) /\ WriterFlags(x) = WriterFlags(r)
      BY <2>2, <3>1 DEF WaiterFlags, WriterFlags
    <3> QED
      BY <2>2, <2>5, <2>6, <3>1, <3>2, <3>3 DEF Known, Exact
  <2>8. Staged(i, x, call')
    <3>1. ASSUME NEW d \in Coroutines, call'[d].on = i, call'[d].op # "none"
          PROVE  call'[d].op = "write" /\ r.early
      <4>1. call'[d] \in Calls /\ ~WaitsOn(d, i, call') /\ ~Closes(d, i, call')
        BY <2>4, <2>6 DEF TypedCalls
      <4>2. call'[d].op = "write"
        BY <3>1, <4>1 DEF Calls, WaitsOn, Closes
      <4>3. Writes(d, i, calls)
        BY <2>6, <3>1, <4>2 DEF Writes
      <4> QED
        BY <2>5, <4>2, <4>3
    <3> QED
      BY <2>2, <2>6, <3>1 DEF Staged
  <2>9. Flying(x)
    BY <2>2, FlightStays
  <2>10. Local(i, calls, call') /\ NoneAccepts(calls, call')
    BY <2>4, IdleCall DEF Local, NoneAccepts, Closes
  <2> QED
    BY <2>2, <2>3, <2>4, <2>7, <2>8, <2>9, <2>10 DEF Good
<1>3. CASE w # NoCo
  <2> DEFINE x == Interrupted(r, w, calls[w].op)
             mid == Changed(calls, w, Idle)
  <2>1. /\ w \in Coroutines /\ calls[w].on = i /\ calls[w].op \in Waits
        /\ calls[w].op \notin Whole =>
              \A d \in Coroutines : calls[d].on = i => calls[d].op \notin Whole
    BY <1>3, NextProperties
  <2>2. inner' = [inner EXCEPT ![i] = x]
        /\ call' = [calls EXCEPT ![w] = Idle, ![c] = Waiting("close", i)]
    BY <1>3 DEF CloseStep
  <2> HIDE DEF w
  <2>3. /\ x \in Records /\ Known(i, x, mid) /\ Flying(x)
        /\ x.stage = r.stage /\ x.kind = r.kind /\ x.refs = r.refs /\ x.early = r.early
    BY <2>1, Cancelled
  <2> HIDE DEF x
  <2>4. /\ inner' \in [Internals -> Records] /\ inner'[i] = x
        /\ \A j \in Internals \ {i} : inner'[j] = inner[j]
    BY <2>2, <2>3
  <2>5. TypedCalls(mid) /\ mid[w] = Idle /\ \A d \in Coroutines \ {w} : mid[d] = calls[d]
    BY <2>1, FittingCalls, OneCall
  <2>6. c # w
    BY <1>1, <2>1
  <2> HIDE DEF mid
  <2>7. /\ Fits(Waiting("close", i)) /\ Waiting("close", i).op = "close"
        /\ Waiting("close", i).on = i
    BY FittingCalls
  <2>8. call' = Changed(mid, c, Waiting("close", i))
    BY <2>2 DEF mid, Changed
  <2>9. /\ TypedCalls(call') /\ call'[c] = Waiting("close", i)
        /\ \A d \in Coroutines \ {c} : call'[d] = mid[d]
    BY <2>5, <2>7, <2>8, OneCall
  <2>10. Known(i, x, call')
    <3>1. mid[c] = calls[c] /\ mid[c].op \notin Waits /\ call'[c].op \notin Waits
      BY <1>1, <2>5, <2>6, <2>7, <2>9 DEF Waits
    <3>2. \A d \in Coroutines :
             /\ Writes(d, i, call') <=> Writes(d, i, mid)
             /\ WaitsOn(d, i, call') <=> WaitsOn(d, i, mid)
      BY <2>9, <3>1, FlagsProperties DEF Writes, WaitsOn
    <3>3. WaiterFlags(x, call') = WaiterFlags(x, mid)
      <4>1. x.waiter # c
        BY <2>3, <3>1 DEF Known, WaitsOn
      <4> QED
        BY <2>3, <2>9, <4>1 DEF WaiterFlags, Records
    <3>4. x.early \/ Exact(i, x, call')
      <4>1. \A d \in Coroutines : call'[d].op \in Whole => call'[d] = mid[d]
        BY <2>9, <3>1, FlagsProperties
      <4> QED
        BY <2>3, <3>3, <4>1 DEF Known, Exact
    <3> QED
      BY <2>3, <3>2, <3>3, <3>4 DEF Known
  <2>11. ASSUME NEW d \in Coroutines, call'[d].on = i, call'[d].op \in Whole PROVE FALSE
    <3>1. d # c /\ d # w
      BY <2>5, <2>7, <2>9, <2>11, IdleCall, FlagsProperties DEF Whole
    <3>2. calls[d].on = i /\ calls[d].op \in Whole
      BY <2>5, <2>9, <2>11, <3>1
    <3>3. r.waiter = d /\ r.waiter = w
      BY <2>1, <3>2, FlagsProperties DEF Known, WaitsOn
    <3> QED
      BY <3>1, <3>3
  <2>12. Staged(i, x, call')
    <3>1. \A d \in Coroutines : Closes(d, i, call') => d = c
      BY <2>5, <2>9, IdleCall DEF Closes
    <3> QED
      BY <2>3, <2>11, <3>1 DEF Staged, Whole
  <2>13. Local(i, calls, call') /\ NoneAccepts(calls, call')
    <3>1. \A d \in Coroutines : d # c /\ d # w => call'[d] = calls[d]
      BY <2>5, <2>9
    <3>2. call'[w] = Idle /\ calls[w].on = i
      BY <2>1, <2>5, <2>6, <2>9
    <3> QED
      BY <2>7, <2>9, <3>1, <3>2, IdleCall DEF Local, NoneAccepts, Closes
  <2> QED
    BY <2>3, <2>4, <2>9, <2>10, <2>12, <2>13 DEF Good
<1> QED
  BY <1>2, <1>3

-----------------------------------------------------------------------------
(* The parts of the invariant *)

\* A call on i ends, or begins, and the stage stays.
LEMMA StagedEnds ==
    ASSUME NEW i \in Internals, NEW r, NEW calls, TypedCalls(calls), Staged(i, r, calls),
           NEW c \in Coroutines, NEW x, x.stage = r.stage, x.kind = r.kind,
           x.early = r.early
    PROVE  Staged(i, x, Changed(calls, c, Idle))
<1> DEFINE after == Changed(calls, c, Idle)
<1>1. after[c] = Idle /\ \A d \in Coroutines \ {c} : after[d] = calls[d]
  BY FittingCalls, OneCall
<1> HIDE DEF after
<1>2. \A d \in Coroutines : after[d] = calls[d] \/ after[d].on = Null
  BY <1>1, IdleCall
<1>3. Null # i
  BY SocketAssumption
<1> QED
  BY <1>2, <1>3 DEF Staged, Closes, after

LEMMA StagedBegins ==
    ASSUME NEW i \in Internals, NEW r, NEW calls, TypedCalls(calls), Staged(i, r, calls),
           NEW c \in Coroutines, NEW x, x.stage = r.stage, x.kind = r.kind,
           x.early => x.kind = "datagram",
           NEW new, Fits(new), new.op \in Waits,
           new.op \in {"bind", "resolve", "connect"} => r.stage = "lazy",
           new.op \in {"accept", "connect"} => r.kind = "stream",
           new.op = "accept" => r.stage = "server",
           r.stage \notin {"unused", "gone"}
    PROVE  Staged(i, x, Changed(calls, c, new))
<1> DEFINE after == Changed(calls, c, new)
<1>1. after[c] = new /\ \A d \in Coroutines \ {c} : after[d] = calls[d]
  BY OneCall
<1> HIDE DEF after
<1>2. new.op # "close"
  BY DEF Waits
<1>3. ASSUME NEW d \in Coroutines, after[d].on = i
      PROVE  /\ after[d].op \in {"bind", "resolve", "connect"} => x.stage = "lazy"
             /\ after[d].op \in {"accept", "connect"} => x.kind = "stream"
             /\ after[d].op = "accept" => x.stage = "server"
             /\ after[d].op = "close" => x.stage = "closed"
             /\ after[d].op # "none" => x.stage \notin {"unused", "gone"}
  BY <1>1, <1>2, <1>3 DEF Staged
<1>4. \A d \in Coroutines : Closes(d, i, after) => Closes(d, i, calls)
  BY <1>1, <1>2 DEF Closes
<1>5. x.stage = "server" => x.kind = "stream"
  BY DEF Staged
<1> QED
  BY <1>3, <1>4, <1>5 DEF Staged, after

\* What happens at one internal socket leaves the others as they are.
LEMMA GoodElsewhere ==
    ASSUME NEW i \in Internals, NEW j \in Internals, i # j, NEW r \in Records, NEW calls,
           NEW after, Local(i, calls, after), Good(j, r, calls)
    PROVE  Good(j, r, after)
<1>1. ASSUME NEW d \in Coroutines
      PROVE  after[d] = calls[d] \/ (after[d].on # j /\ calls[d].on # j)
  BY IdleCall, SocketAssumption DEF Local
<1>2. \A d \in Coroutines :
         /\ Writes(d, j, after) <=> Writes(d, j, calls)
         /\ WaitsOn(d, j, after) <=> WaitsOn(d, j, calls)
         /\ Closes(d, j, after) <=> Closes(d, j, calls)
         /\ after[d].on = j => after[d] = calls[d]
  BY <1>1 DEF Writes, WaitsOn, Closes
<1>3. WaiterFlags(r, after) = WaiterFlags(r, calls)
  <2>1. r.waiter # NoCo => r.waiter \in Coroutines /\ WaitsOn(r.waiter, j, calls)
    BY DEF Good, Known, Records
  <2> QED
    BY <1>1, <2>1 DEF WaiterFlags, WaitsOn
<1>4. Known(j, r, after)
  BY <1>2, <1>3 DEF Good, Known, Exact
<1>5. Staged(j, r, after)
  BY <1>2 DEF Good, Staged
<1> QED
  BY <1>4, <1>5 DEF Good

\* A step at internal socket i.
StepAt(i) ==
    /\ inner' \in [Internals -> Records]
    /\ \A j \in Internals \ {i} : inner'[j] = inner[j]
    /\ TypedCalls(call') /\ Local(i, call, call')
    /\ Good(i, inner'[i], call')

LEMMA GoodStays ==
    ASSUME IInv, NEW i \in Internals, StepAt(i)
    PROVE  \A j \in Internals : Good(j, inner'[j], call')
<1> TAKE j \in Internals
<1>1. CASE j = i
  BY <1>1 DEF StepAt
<1>2. CASE j # i
  <2>1. inner'[j] = inner[j] /\ inner[j] \in Records /\ Good(j, inner[j], call)
    BY <1>2 DEF StepAt, IInv
  <2>2. Local(i, call, call')
    BY DEF StepAt
  <2> QED
    BY <1>2, <2>1, <2>2, GoodElsewhere
<1> QED
  BY <1>1, <1>2

\* The internal socket i is not that of the new connection of an accept().
NotLent(i) == \A c \in Coroutines : call[c].op = "accept" => internal[call[c].with] # i

LEMMA LentStays ==
    ASSUME IInv, NEW S \in SUBSET Internals, \A i \in S : NotLent(i),
           \A j \in Internals \ S : inner'[j] = inner[j],
           \A s \in Sockets : internal[s] \in Internals \ S => internal'[s] = internal[s],
           NoneAccepts(call, call')
    PROVE  \A c \in Coroutines : Lent(c)'
<1> SUFFICES ASSUME NEW c \in Coroutines, call'[c].op = "accept"
             PROVE  LET s == call'[c].with IN
                    /\ s \in Sockets /\ internal'[s] \in Internals
                    /\ inner'[internal'[s]].stage = "lazy"
                    /\ inner'[internal'[s]].kind = "stream"
                    /\ inner'[internal'[s]].io = {}
                    /\ inner'[internal'[s]].refs = 1
                    /\ \A d \in Coroutines :
                          call'[d].op = "accept" /\ call'[d].with = s => d = c
  BY DEF Lent
<1>1. \A d \in Coroutines : call'[d].op = "accept" => call'[d] = call[d]
  BY DEF NoneAccepts
<1>2. Lent(c) /\ call'[c] = call[c]
  BY <1>1 DEF IInv
<1>3. PICK s \in Sockets : s = call[c].with
  BY <1>2 DEF Lent
<1>4. internal[s] \in Internals \ S
  BY <1>2, <1>3 DEF Lent, NotLent
<1>5. internal'[s] = internal[s] /\ inner'[internal[s]] = inner[internal[s]]
  BY <1>4
<1> QED
  BY <1>1, <1>2, <1>3, <1>4, <1>5 DEF Lent

\* The counts stay, and so does what is bound.
LEMMA RefsStay ==
    ASSUME IInv, UNCHANGED internal,
           \A j \in Internals : inner'[j].refs = inner[j].refs,
           \A j \in Internals : inner'[j].stage \in Open <=> inner[j].stage \in Open
    PROVE  RefsAreExact'
<1> SUFFICES ASSUME NEW j \in Internals
             PROVE  /\ inner'[j].refs = Cardinality(Bound(j)')
                    /\ (inner'[j].refs # 0 <=> inner'[j].stage \in Open)
  BY DEF RefsAreExact
<1>1. Bound(j)' = Bound(j)
  BY DEF Bound
<1>2. /\ inner[j].refs = Cardinality(Bound(j))
      /\ (inner[j].refs # 0 <=> inner[j].stage \in Open)
  BY DEF IInv, RefsAreExact
<1> QED
  BY <1>1, <1>2

\* A step at one internal socket that leaves its users and its openness alone.
LEMMA QuietStep ==
    ASSUME IInv, NEW i \in Internals, StepAt(i), UNCHANGED internal,
           inner'[i].refs = inner[i].refs,
           inner'[i].stage \in Open <=> inner[i].stage \in Open,
           NotLent(i), NoneAccepts(call, call')
    PROVE  IInv'
<1>1. \A j \in Internals : Good(j, inner'[j], call')
  BY GoodStays
<1>2. \A j \in Internals \ {i} : inner'[j] = inner[j]
  BY DEF StepAt
<1>3. RefsAreExact'
  BY <1>2, RefsStay
<1>4. \A c \in Coroutines : Lent(c)'
  <2>1. {i} \in SUBSET Internals /\ \A j \in {i} : NotLent(j)
    OBVIOUS
  <2>2. /\ \A j \in Internals \ {i} : inner'[j] = inner[j]
        /\ \A s \in Sockets : internal[s] \in Internals \ {i} => internal'[s] = internal[s]
    BY <1>2
  <2> QED
    BY <2>1, <2>2, LentStays
<1> QED
  BY <1>1, <1>3, <1>4 DEF IInv, StepAt

-----------------------------------------------------------------------------
(* Who has a socket *)

LEMMA BoundIsFinite ==
    ASSUME NEW i \in Internals
    PROVE  IsFiniteSet(Bound(i)) /\ Cardinality(Bound(i)) \in Nat
           /\ (Cardinality(Bound(i)) = 0 <=> Bound(i) = {})
<1>1. IsFiniteSet(Sockets) /\ Bound(i) \subseteq Sockets
  BY SocketAssumption DEF Bound
<1>2. IsFiniteSet(Bound(i))
  BY <1>1, FS_Subset
<1> QED
  BY <1>2, FS_EmptySet, FS_CardinalityType

\* The internal socket of an object is open and counts it.
LEMMA BoundIsOpen ==
    ASSUME IInv, NEW s \in Sockets, NEW i \in Internals, internal[s] = i
    PROVE  inner[i].stage \in Open /\ inner[i].refs \in Nat \ {0}
<1>1. Bound(i) # {}
  BY DEF Bound
<1>2. inner[i].refs = Cardinality(Bound(i)) /\ (inner[i].refs # 0 <=> inner[i].stage \in Open)
  BY DEF IInv, RefsAreExact
<1> QED
  BY <1>1, <1>2, BoundIsFinite

LEMMA OnlyUser ==
    ASSUME IInv, NEW s \in Sockets, NEW t \in Sockets, NEW i \in Internals,
           internal[s] = i, internal[t] = i, inner[i].refs = 1
    PROVE  s = t
<1>1. IsFiniteSet(Bound(i)) /\ Cardinality(Bound(i)) = 1
  BY BoundIsFinite DEF IInv, RefsAreExact
<1>2. \E x : Bound(i) = {x}
  BY <1>1, FS_Singleton
<1>3. s \in Bound(i) /\ t \in Bound(i)
  BY DEF Bound
<1> QED
  BY <1>2, <1>3

\* The contract keeps callers off the new connection of an accept().
LEMMA UsedIsNotLent ==
    ASSUME IInv, Allowed = {}, NEW c \in Coroutines, NEW s \in Sockets,
           NEW i \in Internals, internal[s] = i, CanUse(c, s)
    PROVE  NotLent(i)
<1> SUFFICES ASSUME NEW d \in Coroutines, call[d].op = "accept",
                    internal[call[d].with] = i
             PROVE  FALSE
  BY DEF NotLent
<1>1. Lent(d)
  BY DEF IInv
<1>2. PICK t \in Sockets : t = call[d].with
  BY <1>1 DEF Lent
<1>3. inner[i].refs = 1
  BY <1>1, <1>2 DEF Lent
<1>4. s = t
  BY <1>2, <1>3, OnlyUser
<1>5. Private(s)
  BY <1>2, <1>4 DEF Private
<1> QED
  BY <1>5 DEF CanUse

\* Nobody is in a call on an internal socket without flags that is not being closed, if
\* it is a stream or has no requests in flight.
LEMMA NobodyOnIdle ==
    ASSUME IInv, NEW i \in Internals, inner[i].io = {}, inner[i].stage # "closed",
           inner[i].kind = "stream" \/ inner[i].flight = <<>>
    PROVE  \A c \in Coroutines : call[c].on = i => call[c].op = "none"
<1> TAKE c \in Coroutines
<1>1. Good(i, inner[i], call) /\ call[c] \in Calls
  BY DEF IInv, TypedCalls
<1>2. call[c].on = i => call[c].op # "close"
  BY <1>1 DEF Good, Staged
<1>3. \A e \in Coroutines : ~WaitsOn(e, i, call)
  BY <1>1, WaiterIsKnown DEF Good
<1>4. ~Writes(c, i, call)
  <2>1. inner[i].writers \in Seq(Coroutines)
    BY <1>1 DEF Good, Records
  <2>2. CASE inner[i].kind = "stream"
    <3>1. ~inner[i].early
      BY <1>1, <2>2 DEF Good, Staged
    <3>2. inner[i].writers = <<>>
      BY <1>1, <3>1, WaiterIsKnown DEF Good
    <3> QED
      BY <1>1, <2>1, <3>2, EmptyQueue DEF Good, Known
  <2>3. CASE inner[i].flight = <<>>
    <3>1. DOMAIN inner[i].flight = {}
      BY <2>3
    <3> QED
      BY <1>1, <3>1 DEF Good, Known, Flying, Carried
  <2> QED
    BY <2>2, <2>3
<1> QED
  BY <1>1, <1>2, <1>3, <1>4 DEF Calls, Writes, WaitsOn

\* Nobody is in a call on the new connection of an accept().
LEMMA BusyIsNotLent ==
    ASSUME IInv, NEW i \in Internals, NEW c \in Coroutines, call[c].on = i,
           call[c].op # "none"
    PROVE  NotLent(i)
<1> SUFFICES ASSUME NEW d \in Coroutines, call[d].op = "accept",
                    internal[call[d].with] = i
             PROVE  FALSE
  BY DEF NotLent
<1>1. Lent(d)
  BY DEF IInv
<1>2. inner[i].stage = "lazy" /\ inner[i].io = {} /\ inner[i].kind = "stream"
  BY <1>1 DEF Lent
<1> QED
  BY <1>2, NobodyOnIdle

\* A wait on i ends and x is what it leaves.
Ends(c, i, x) ==
    /\ call[c].on = i /\ call[c].op # "none"
    /\ x \in Records /\ Known(i, x, Changed(call, c, Idle)) /\ Flying(x)
    /\ x.refs = inner[i].refs
    /\ Torn(x) => x.stage \in {"closed", "gone"}

LEMMA EndStep ==
    ASSUME IInv, NEW i \in Internals, NEW c \in Coroutines, NEW x, Ends(c, i, x),
           x.stage \in Open <=> inner[i].stage \in Open,
           Staged(i, x, Changed(call, c, Idle)),
           inner' = [inner EXCEPT ![i] = x], call' = Changed(call, c, Idle),
           UNCHANGED internal
    PROVE  IInv'
<1>1. inner' \in [Internals -> Records] /\ inner'[i] = x
      /\ \A j \in Internals \ {i} : inner'[j] = inner[j]
  BY DEF IInv, Ends
<1>2. /\ TypedCalls(call') /\ call'[c] = Idle
      /\ \A d \in Coroutines \ {c} : call'[d] = call[d]
  BY FittingCalls, OneCall DEF IInv
<1>3. Local(i, call, call') /\ NoneAccepts(call, call')
  BY <1>2, IdleCall DEF Local, NoneAccepts, Ends
<1>4. Good(i, x, call')
  BY DEF Good, Ends
<1>5. StepAt(i)
  BY <1>1, <1>2, <1>3, <1>4 DEF StepAt
<1>6. NotLent(i)
  BY BusyIsNotLent DEF Ends
<1> QED
  BY <1>1, <1>3, <1>5, <1>6, QuietStep DEF Ends

\* A wait on i begins, in call new, and x is what it makes of i.
Begins(c, i, x, new) ==
    /\ Fits(new) /\ new.on = i /\ new.op \in Waits
    /\ x \in Records /\ Known(i, x, Changed(call, c, new)) /\ Flying(x)
    /\ x.refs = inner[i].refs /\ x.stage = inner[i].stage /\ x.kind = inner[i].kind
    /\ x.early => x.kind = "datagram"
    /\ Torn(x) => x.stage \in {"closed", "gone"}
    /\ new.op \in {"bind", "resolve", "connect"} => x.stage = "lazy"
    /\ new.op \in {"accept", "connect"} => x.kind = "stream"
    /\ new.op = "accept" => x.stage = "server"
    /\ x.stage \notin {"unused", "gone"}

LEMMA BeginStepAt ==
    ASSUME IInv, NEW i \in Internals, NEW c \in Coroutines, call[c] = Idle, NEW x, NEW new,
           Begins(c, i, x, new), inner' = [inner EXCEPT ![i] = x], call' = Changed(call, c, new)
    PROVE  /\ StepAt(i) /\ inner'[i] = x /\ call'[c] = new
           /\ \A d \in Coroutines \ {c} : call'[d] = call[d]
<1>1. inner' \in [Internals -> Records] /\ inner'[i] = x
      /\ \A j \in Internals \ {i} : inner'[j] = inner[j]
  BY DEF IInv, Begins
<1>2. /\ TypedCalls(call') /\ call'[c] = new
      /\ \A d \in Coroutines \ {c} : call'[d] = call[d]
  BY OneCall DEF IInv, Begins
<1>3. Local(i, call, call')
  BY <1>2 DEF Local, Begins
<1>4. Staged(i, x, call')
  <2>1. TypedCalls(call) /\ Staged(i, inner[i], call)
    BY DEF IInv, Good
  <2> QED
    BY <2>1, StagedBegins DEF Begins
<1>5. Good(i, x, call')
  BY <1>4 DEF Good, Begins
<1> QED
  BY <1>1, <1>2, <1>3, <1>5 DEF StepAt

LEMMA BeginStep ==
    ASSUME IInv, NEW i \in Internals, NEW c \in Coroutines, call[c] = Idle, NEW x, NEW new,
           Begins(c, i, x, new), inner' = [inner EXCEPT ![i] = x], call' = Changed(call, c, new),
           UNCHANGED internal, NotLent(i), new.op # "accept"
    PROVE  IInv'
<1>1. /\ StepAt(i) /\ inner'[i] = x /\ call'[c] = new
      /\ \A d \in Coroutines \ {c} : call'[d] = call[d]
  BY BeginStepAt
<1>2. NoneAccepts(call, call')
  BY <1>1 DEF NoneAccepts
<1> QED
  BY <1>1, <1>2, QuietStep DEF Begins

-----------------------------------------------------------------------------
(* The actions *)

\* What an internal socket in use is like.
LEMMA UsedProperties ==
    ASSUME IInv, Allowed = {}, NEW c \in Coroutines, NEW s \in Sockets, CanUse(c, s),
           internal[s] # Null
    PROVE  /\ internal[s] \in Internals /\ call[c] = Idle /\ NotLent(internal[s])
           /\ inner[internal[s]].stage \in Open
           /\ inner[internal[s]] \in Records /\ Good(internal[s], inner[internal[s]], call)
           /\ ~Torn(inner[internal[s]]) /\ TypedCalls(call)
<1>1. internal[s] \in Internals
  BY DEF IInv
<1>2. inner[internal[s]].stage \in Open
  BY <1>1, BoundIsOpen
<1>3. Good(internal[s], inner[internal[s]], call)
  BY <1>1 DEF IInv
<1>4. NotLent(internal[s])
  BY <1>1, UsedIsNotLent
<1>5. ~Torn(inner[internal[s]])
  BY <1>2, <1>3 DEF Good, Open
<1> QED
  BY <1>1, <1>2, <1>3, <1>4, <1>5 DEF CanUse, IInv, Good

LEMMA WaitProperties ==
    ASSUME IInv, Allowed = {}, NEW c \in Coroutines, NEW s \in Sockets, NEW op \in Waits,
           NEW flags, NEW x, Wait(c, s, op, flags, x)
    PROVE  /\ CanUse(c, s) /\ internal[s] # Null
           /\ inner[internal[s]].io \cap flags = {}
           /\ inner' = [inner EXCEPT ![internal[s]] = x]
           /\ call' = Changed(call, c, Waiting(op, internal[s]))
           /\ UNCHANGED internal
BY DEF Wait, Changed

LEMMA WholeStep ==
    ASSUME IInv, Allowed = {}, NEW c \in Coroutines, NEW s \in Sockets, NEW op \in Whole,
           op # "accept", inner[internal[s]].stage = "lazy",
           op = "connect" => inner[internal[s]].kind = "stream",
           Wait(c, s, op, FlagsOf(op), Entered(inner[internal[s]], c, FlagsOf(op)))
    PROVE  IInv'
<1>1. PICK i : i = internal[s]
  OBVIOUS
<1>2. PICK r : r = inner[i]
  OBVIOUS
<1>3. PICK new : new = Waiting(op, i)
  OBVIOUS
<1>4. PICK x : x = Entered(r, c, FlagsOf(op))
  OBVIOUS
<1>5. op \in Waits \ {"write"} /\ FlagsOf(op) \in SUBSET AllFlags
  BY FlagsProperties
<1>6. /\ CanUse(c, s) /\ internal[s] # Null /\ r.io \cap FlagsOf(op) = {}
      /\ inner' = [inner EXCEPT ![i] = x]
      /\ call' = Changed(call, c, new) /\ UNCHANGED internal
  BY <1>1, <1>2, <1>3, <1>4, <1>5, WaitProperties
<1>7. /\ i \in Internals /\ call[c] = Idle /\ NotLent(i) /\ r \in Records
      /\ Good(i, r, call) /\ ~Torn(r) /\ TypedCalls(call)
  BY <1>1, <1>2, <1>6, UsedProperties
<1>8. Fits(new) /\ new.op = op /\ new.on = i /\ new \in Calls
  BY <1>3, <1>5, <1>7, FittingCalls
<1>9. Known(i, x, Changed(call, c, new))
  BY <1>4, <1>6, <1>7, <1>8, EnterWhole DEF Good, Changed
<1>10. /\ x \in Records /\ x.writers = r.writers /\ x.stage = r.stage /\ x.kind = r.kind
       /\ x.refs = r.refs /\ x.flight = r.flight /\ x.cache = r.cache
       /\ x.early = r.early
  BY <1>4, <1>5, <1>7, LeftRecords
<1>11. Flying(x) /\ ~Torn(x) /\ (x.early => x.kind = "datagram")
  BY <1>7, <1>10, FlightStays DEF Good, Staged
<1>12. Begins(c, i, x, new)
  BY <1>1, <1>2, <1>5, <1>8, <1>9, <1>10, <1>11 DEF Begins
<1> QED
  BY <1>5, <1>6, <1>7, <1>8, <1>12, BeginStep

LEMMA BindStep ==
    ASSUME IInv, Allowed = {}, NEW c \in Coroutines, NEW s \in Sockets, Bind(c, s)
    PROVE  IInv'
BY WholeStep, FlagsProperties DEF Bind, Whole

LEMMA ConnectStep ==
    ASSUME IInv, Allowed = {}, NEW c \in Coroutines, NEW s \in Sockets,
           NEW op \in {"resolve", "connect"}, Connect(c, s, op)
    PROVE  IInv'
<1>1. inner[internal[s]] \in Records
  BY DEF Connect, IInv
<1>2. op = "connect" => inner[internal[s]].kind = "stream"
  BY <1>1 DEF Connect, Records
<1> QED
  BY <1>2, WholeStep, FlagsProperties DEF Connect, Whole

LEMMA ReadStep ==
    ASSUME IInv, Allowed = {}, NEW c \in Coroutines, NEW s \in Sockets, Read(c, s)
    PROVE  IInv'
<1>1. PICK i : i = internal[s]
  OBVIOUS
<1>2. PICK r : r = inner[i]
  OBVIOUS
<1>3. PICK new : new = Waiting("read", i)
  OBVIOUS
<1>4. PICK x : x = ReadEntered(r, c)
  OBVIOUS
<1>5. "read" \in Waits
  BY DEF Waits
<1>6. /\ CanUse(c, s) /\ internal[s] # Null /\ r.io \cap {"read"} = {}
      /\ inner' = [inner EXCEPT ![i] = x]
      /\ call' = Changed(call, c, new) /\ UNCHANGED internal
  BY <1>1, <1>2, <1>3, <1>4, <1>5, WaitProperties DEF Read
<1>7. /\ i \in Internals /\ call[c] = Idle /\ NotLent(i) /\ r \in Records
      /\ Good(i, r, call) /\ ~Torn(r) /\ TypedCalls(call) /\ r.stage \in Open
  BY <1>1, <1>2, <1>6, UsedProperties
<1>8. Fits(new) /\ new.op = "read" /\ new.on = i /\ new \in Calls
  BY <1>3, <1>5, <1>7, FittingCalls
<1>9. Known(i, x, Changed(call, c, new))
  <2>1. "read" \notin r.io
    BY <1>6
  <2> QED
    BY <2>1, <1>4, <1>7, <1>8, EnterRead DEF Good, Changed
<1>10. /\ x \in Records /\ x.writers = r.writers /\ x.stage = r.stage /\ x.kind = r.kind
       /\ x.refs = r.refs /\ x.flight = r.flight /\ x.cache = r.cache
       /\ x.early = r.early
  BY <1>4, <1>7, ReadRecords
<1>11. Flying(x) /\ ~Torn(x) /\ (x.early => x.kind = "datagram")
  BY <1>7, <1>10, FlightStays DEF Good, Staged
<1>12. Begins(c, i, x, new)
  BY <1>1, <1>2, <1>5, <1>7, <1>8, <1>9, <1>10, <1>11 DEF Begins, Open
<1> QED
  BY <1>6, <1>7, <1>8, <1>12, BeginStep

LEMMA WriteStep ==
    ASSUME IInv, Allowed = {}, NEW c \in Coroutines, NEW s \in Sockets, Write(c, s)
    PROVE  IInv'
<1>1. PICK i : i = internal[s]
  OBVIOUS
<1>2. PICK r : r = inner[i]
  OBVIOUS
<1>3. PICK new : new = Waiting("write", i)
  OBVIOUS
<1>4. PICK x : x = WriteEntered(r, c)
  OBVIOUS
<1>5. "write" \in Waits
  BY DEF Waits
<1>6. /\ CanUse(c, s) /\ internal[s] # Null /\ inner' = [inner EXCEPT ![i] = x]
      /\ call' = Changed(call, c, new) /\ UNCHANGED internal
      /\ IsReady(r)
  BY <1>1, <1>2, <1>3, <1>4, <1>5, WaitProperties DEF Write
<1>7. /\ i \in Internals /\ call[c] = Idle /\ NotLent(i) /\ r \in Records
      /\ Good(i, r, call) /\ ~Torn(r) /\ TypedCalls(call) /\ r.stage \in Open
  BY <1>1, <1>2, <1>6, UsedProperties
<1>8. Fits(new) /\ new.op = "write" /\ new.on = i /\ new \in Calls
  BY <1>3, <1>5, <1>7, FittingCalls
<1>9. ASSUME NEW d \in Coroutines, call[d].on = i, call[d].op \in Whole
      PROVE  r.waiter = d /\ r.stage = "lazy" /\ r.kind = "datagram" /\ Resolving(r)
  <2>1. /\ call[d].op \in {"bind", "resolve", "connect"} => r.stage = "lazy"
        /\ call[d].op \in {"accept", "connect"} => r.kind = "stream"
        /\ call[d].op = "accept" => r.stage = "server"
    BY <1>7, <1>9 DEF Good, Staged
  <2>2. r.waiter = d
    BY <1>7, <1>9, FlagsProperties DEF Good, Known, WaitsOn
  <2>3. r.kind = "datagram" /\ r.stage = "lazy" /\ call[d].op \in {"bind", "resolve"}
    BY <1>6, <1>7, <1>9, <2>1 DEF IsReady, Whole, Records
  <2> QED
    BY <2>2, <2>3 DEF Resolving
<1>10. /\ x \in Records /\ x.stage = r.stage /\ x.kind = r.kind /\ x.refs = r.refs
       /\ x.early = (r.early \/ Resolving(r))
  BY <1>4, <1>7, WriteEnteredRecords
<1>11. Known(i, x, Changed(call, c, new))
  <2>1. x.early \/ \A d \in Coroutines : call[d].on = i => call[d].op \notin Whole
    BY <1>9, <1>10
  <2> QED
    BY <1>4, <1>7, <1>8, <2>1, EnterWrite DEF Good, Changed
<1>12. Flying(x) /\ ~Torn(x)
  <2>1. c \notin ToSet(r.writers)
    BY <1>7, IdleCall DEF Good, Known, Writes
  <2> QED
    BY <1>4, <1>7, <2>1, FlightGrows DEF Good
<1>13. x.early => x.kind = "datagram"
  <2>1. ASSUME Resolving(r) PROVE r.kind = "datagram"
    <3>1. PICK d \in Coroutines : r.waiter = d /\ call[d].op \in {"bind", "resolve"}
      BY <2>1 DEF Resolving
    <3>2. call[d].on = i /\ call[d].op \in Whole
      BY <1>7, <3>1 DEF Good, Known, WaitsOn, Whole
    <3> QED
      BY <1>9, <3>2
  <2>2. r.early => r.kind = "datagram"
    BY <1>7 DEF Good, Staged
  <2> QED
    BY <1>10, <2>1, <2>2
<1>14. Begins(c, i, x, new)
  BY <1>1, <1>2, <1>5, <1>7, <1>8, <1>10, <1>11, <1>12, <1>13 DEF Begins, Open
<1> QED
  BY <1>6, <1>7, <1>8, <1>14, BeginStep

LEMMA AcceptStep ==
    ASSUME IInv, Allowed = {}, NEW c \in Coroutines, NEW s \in Sockets, NEW t \in Sockets,
           Accept(c, s, t)
    PROVE  IInv'
<1>1. PICK i : i = internal[s]
  OBVIOUS
<1>2. PICK r : r = inner[i]
  OBVIOUS
<1>3. PICK new : new = [op |-> "accept", on |-> i, with |-> t]
  OBVIOUS
<1>4. PICK x : x = Entered(r, c, ACCEPT)
  OBVIOUS
<1>5. "accept" \in Waits \ {"write"} /\ "accept" \in Whole /\ FlagsOf("accept") = ACCEPT
      /\ ACCEPT \in SUBSET AllFlags
  BY FlagsProperties DEF Waits, Whole, AllFlags
<1>6. /\ CanUse(c, s) /\ CanUse(c, t) /\ internal[s] # Null /\ internal[t] # Null
      /\ r.stage = "server" /\ r.io \cap ACCEPT = {}
      /\ inner[internal[t]].stage = "lazy" /\ inner[internal[t]].io = {}
      /\ inner[internal[t]].refs = 1 /\ inner[internal[t]].kind = "stream"
      /\ inner' = [inner EXCEPT ![i] = x] /\ call' = Changed(call, c, new)
      /\ UNCHANGED internal
  BY <1>1, <1>2, <1>3, <1>4 DEF Accept, Changed
<1>7. /\ i \in Internals /\ call[c] = Idle /\ NotLent(i) /\ r \in Records
      /\ Good(i, r, call) /\ ~Torn(r) /\ TypedCalls(call) /\ r.stage \in Open
      /\ internal[t] \in Internals
  BY <1>1, <1>2, <1>6, UsedProperties
<1>8. Fits(new) /\ new.op = "accept" /\ new.on = i /\ new \in Calls /\ new.with = t
  BY <1>3, <1>5, <1>7 DEF Fits, Calls
<1>9. Known(i, x, Changed(call, c, new))
  BY <1>4, <1>5, <1>6, <1>7, <1>8, EnterWhole DEF Good, Changed
<1>10. /\ x \in Records /\ x.writers = r.writers /\ x.stage = r.stage /\ x.kind = r.kind
       /\ x.refs = r.refs /\ x.flight = r.flight /\ x.cache = r.cache
       /\ x.early = r.early
  BY <1>4, <1>5, <1>7, LeftRecords
<1>11. Flying(x) /\ ~Torn(x) /\ (x.early => x.kind = "datagram")
  BY <1>7, <1>10, FlightStays DEF Good, Staged
<1>12. x.kind = "stream"
  BY <1>6, <1>7, <1>10 DEF Good, Staged
<1>13. Begins(c, i, x, new)
  BY <1>1, <1>2, <1>5, <1>6, <1>7, <1>8, <1>9, <1>10, <1>11, <1>12 DEF Begins, Open
<1>14. /\ StepAt(i) /\ inner'[i] = x /\ call'[c] = new
       /\ \A d \in Coroutines \ {c} : call'[d] = call[d]
  BY <1>6, <1>7, <1>13, BeginStepAt
<1>15. \A j \in Internals : Good(j, inner'[j], call')
  BY <1>7, <1>14, GoodStays
<1>16. \A j \in Internals \ {i} : inner'[j] = inner[j]
  BY <1>14 DEF StepAt
<1>17. RefsAreExact'
  BY <1>2, <1>6, <1>10, <1>14, <1>16, RefsStay
<1>18. \A d \in Coroutines : call[d].op = "accept" => call[d].with # t
  BY <1>6 DEF CanUse, Private
<1>19. ASSUME NEW d \in Coroutines PROVE Lent(d)'
  <2>1. CASE d = c
    <3>1. internal[t] # i
      BY <1>2, <1>6
    <3> QED
      BY <1>6, <1>7, <1>8, <1>14, <1>16, <1>18, <2>1, <3>1 DEF Lent
  <2>2. CASE d # c
    <3>1. call'[d] = call[d] /\ Lent(d)
      BY <1>14, <2>2 DEF IInv
    <3>2. SUFFICES ASSUME call[d].op = "accept" PROVE Lent(d)'
      BY <3>1 DEF Lent
    <3>3. PICK u \in Sockets : u = call[d].with
      BY <3>1, <3>2 DEF Lent
    <3>4. internal[u] \in Internals \ {i} /\ u # t
      BY <1>7, <1>18, <3>1, <3>2, <3>3 DEF Lent, NotLent
    <3>5. internal'[u] = internal[u] /\ inner'[internal[u]] = inner[internal[u]]
      BY <1>6, <1>16, <3>4
    <3>6. \A e \in Coroutines : call'[e].op = "accept" /\ call'[e].with = u => e = d
      BY <1>8, <1>14, <3>1, <3>2, <3>3, <3>4 DEF Lent
    <3> QED
      BY <3>1, <3>2, <3>3, <3>4, <3>5, <3>6 DEF Lent
  <2> QED
    BY <2>1, <2>2
<1> QED
  BY <1>6, <1>14, <1>15, <1>17, <1>19 DEF IInv, StepAt

LEMMA ListenStep ==
    ASSUME IInv, Allowed = {}, NEW c \in Coroutines, NEW s \in Sockets, Listen(c, s)
    PROVE  IInv'
<1>1. PICK i : i = internal[s]
  OBVIOUS
<1>2. PICK r : r = inner[i]
  OBVIOUS
<1>3. PICK x : x = [r EXCEPT !.stage = "server"]
  OBVIOUS
<1>4. /\ CanUse(c, s) /\ internal[s] # Null /\ r.stage = "lazy" /\ r.io = {}
      /\ inner' = [inner EXCEPT ![i].stage = "server"] /\ UNCHANGED <<internal, call>>
  BY <1>1, <1>2 DEF Listen
<1>5. r.kind = "stream"
  BY <1>1, <1>2 DEF Listen
<1>6. /\ i \in Internals /\ NotLent(i) /\ r \in Records /\ Good(i, r, call)
      /\ ~Torn(r) /\ TypedCalls(call)
  BY <1>1, <1>2, <1>4, UsedProperties
<1>7. /\ x \in Records /\ x.stage = "server" /\ x.kind = r.kind /\ x.refs = r.refs
      /\ x.io = r.io /\ x.waiter = r.waiter /\ x.writers = r.writers
      /\ x.flight = r.flight /\ x.cache = r.cache /\ x.early = r.early
  BY <1>3, <1>6 DEF Records, Open
<1>8. inner' \in [Internals -> Records] /\ inner'[i] = x
      /\ \A j \in Internals \ {i} : inner'[j] = inner[j]
  <2>1. inner' = [inner EXCEPT ![i] = x]
    BY <1>2, <1>3, <1>4
  <2> QED
    BY <1>6, <1>7, <2>1 DEF IInv
<1>9. \A d \in Coroutines : call[d].on = i => call[d].op = "none"
  BY <1>2, <1>4, <1>5, <1>6, NobodyOnIdle
<1>10. Good(i, x, call)
  <2>1. Known(i, x, call)
    BY <1>6, <1>7 DEF Good, Known, Exact, WaiterFlags, WriterFlags
  <2>2. Staged(i, x, call)
    BY <1>5, <1>6, <1>7, <1>9 DEF Good, Staged, Closes
  <2> QED
    BY <1>6, <1>7, <2>1, <2>2, FlightStays DEF Good
<1>11. StepAt(i)
  BY <1>4, <1>6, <1>8, <1>10 DEF StepAt, Local
<1> QED
  BY <1>2, <1>4, <1>6, <1>7, <1>8, <1>11, QuietStep DEF NoneAccepts, Open

\* A coroutine that waits on i.
LEMMA WaiterProperties ==
    ASSUME IInv, NEW c \in Coroutines, call[c].op \in Waits
    PROVE  /\ call[c].on \in Internals /\ call[c].op # "none" /\ call[c] \in Calls
           /\ inner[call[c].on] \in Records /\ Good(call[c].on, inner[call[c].on], call)
           /\ TypedCalls(call)
BY DEF IInv, TypedCalls, Waits

\* A wait other than a write ends, as it should or not.
LEMMA LeaveStep ==
    ASSUME IInv, NEW c \in Coroutines, call[c].op \in Waits, call[c].op # "write", NEW x,
           x = Interrupted(inner[call[c].on], c, call[c].op),
           inner' = [inner EXCEPT ![call[c].on] = x],
           call' = [call EXCEPT ![c] = Idle], UNCHANGED internal
    PROVE  IInv'
<1>1. PICK i : i = call[c].on
  OBVIOUS
<1>2. PICK r : r = inner[i]
  OBVIOUS
<1>3. /\ i \in Internals /\ call[c].op # "none" /\ r \in Records /\ Good(i, r, call)
      /\ TypedCalls(call)
  BY <1>1, <1>2, WaiterProperties
<1>4. /\ x \in Records /\ Known(i, x, Changed(call, c, Idle)) /\ Flying(x)
      /\ x.stage = r.stage /\ x.kind = r.kind /\ x.refs = r.refs /\ x.early = r.early
      /\ (Torn(x) <=> Torn(r))
  <2>1. Known(i, r, call) /\ Flying(r)
    BY <1>3 DEF Good
  <2>2. x = Interrupted(r, c, call[c].op)
    BY <1>1, <1>2
  <2> QED
    BY <1>1, <1>3, <2>1, <2>2, Cancelled
<1>5. Staged(i, x, Changed(call, c, Idle))
  BY <1>3, <1>4, StagedEnds DEF Good
<1>6. Ends(c, i, x)
  BY <1>1, <1>2, <1>3, <1>4 DEF Ends, Good
<1>7. inner' = [inner EXCEPT ![i] = x] /\ call' = Changed(call, c, Idle)
  BY <1>1 DEF Changed
<1> QED
  BY <1>2, <1>3, <1>4, <1>5, <1>6, <1>7, EndStep

LEMMA ReadDoneStep ==
    ASSUME IInv, NEW c \in Coroutines, ReadDone(c) PROVE IInv'
<1>1. PICK x : x = ReadLeft(inner[call[c].on])
  OBVIOUS
<1>2. x = Interrupted(inner[call[c].on], c, call[c].op)
  BY <1>1 DEF ReadDone, Interrupted
<1> QED
  BY <1>1, <1>2, LeaveStep DEF ReadDone, Done, Waits

LEMMA LeftIsInterrupted ==
    ASSUME NEW op, op \notin {"read", "write"}, NEW r, NEW c
    PROVE  Left(r) = Interrupted(r, c, op)
BY DEF Interrupted

LEMMA BindDoneStep ==
    ASSUME IInv, NEW c \in Coroutines, BindDone(c) PROVE IInv'
<1>1. PICK x : x = Left(inner[call[c].on])
  OBVIOUS
<1>2. x = Interrupted(inner[call[c].on], c, call[c].op)
  BY <1>1, LeftIsInterrupted DEF BindDone
<1> QED
  BY <1>1, <1>2, LeaveStep DEF BindDone, Done, Waits

\* Who has a lazy internal socket for himself is alone on it, but for early writers.
LEMMA AloneOnLazy ==
    ASSUME IInv, NEW c \in Coroutines, call[c].op \in {"resolve", "connect"}
    PROVE  /\ call[c].op \in Whole /\ call[c].op \in Waits
           /\ inner[call[c].on].stage = "lazy" /\ ~Torn(inner[call[c].on])
           /\ \A d \in Coroutines \ {c} :
                 call[d].on = call[c].on => call[d].op \in {"none", "write"}
<1>1. PICK i : i = call[c].on
  OBVIOUS
<1>2. PICK r : r = inner[i]
  OBVIOUS
<1>3. call[c].op \in Whole /\ call[c].op \in Waits /\ call[c].op # "write"
  BY DEF Whole, Waits
<1>4. /\ i \in Internals /\ r \in Records /\ Good(i, r, call) /\ TypedCalls(call)
  BY <1>1, <1>2, <1>3, WaiterProperties
<1>5. r.stage = "lazy"
  BY <1>1, <1>4 DEF Good, Staged
<1>6. ~Torn(r)
  BY <1>4, <1>5 DEF Good
<1>7. r.waiter = c
  BY <1>1, <1>3, <1>4 DEF Good, Known, WaitsOn
<1>8. ASSUME NEW d \in Coroutines \ {c}, call[d].on = i
      PROVE  call[d].op \in {"none", "write"}
  <2>1. ~WaitsOn(d, i, call)
    BY <1>4, <1>7 DEF Good, Known
  <2>2. call[d].op # "close" /\ call[d] \in Calls
    BY <1>4, <1>5, <1>8 DEF Good, Staged, TypedCalls
  <2> QED
    BY <1>8, <2>1, <2>2 DEF Calls, WaitsOn
<1> QED
  BY <1>1, <1>2, <1>3, <1>5, <1>6, <1>8

\* connect() ends well.
LEMMA EstablishedStep ==
    ASSUME IInv, NEW c \in Coroutines, call[c].op \in {"resolve", "connect"}, NEW x,
           x = [Left(inner[call[c].on]) EXCEPT !.stage = "established"],
           inner' = [inner EXCEPT ![call[c].on] = x],
           call' = [call EXCEPT ![c] = Idle], UNCHANGED internal
    PROVE  IInv'
<1>1. PICK i : i = call[c].on
  OBVIOUS
<1>2. PICK r : r = inner[i]
  OBVIOUS
<1>3. PICK l : l = Left(r)
  OBVIOUS
<1>4. PICK after : after = Changed(call, c, Idle)
  OBVIOUS
<1>5. /\ call[c].op \in Whole /\ call[c].op \in Waits /\ r.stage = "lazy" /\ ~Torn(r)
      /\ \A d \in Coroutines \ {c} : call[d].on = i => call[d].op \in {"none", "write"}
  BY <1>1, <1>2, AloneOnLazy
<1>6. /\ i \in Internals /\ call[c].op # "none" /\ r \in Records /\ Good(i, r, call)
      /\ TypedCalls(call)
  BY <1>1, <1>2, <1>5, WaiterProperties
<1>7. /\ l \in Records /\ l.writers = r.writers /\ l.flight = r.flight /\ l.cache = r.cache
      /\ l.refs = r.refs /\ l.kind = r.kind /\ l.early = r.early
  BY <1>3, <1>6, LeftRecords
<1>8. /\ x \in Records /\ x.stage = "established" /\ x.refs = r.refs
      /\ x.io = l.io /\ x.waiter = l.waiter /\ x.writers = r.writers
      /\ x.flight = r.flight /\ x.cache = r.cache /\ x.kind = r.kind /\ x.early = r.early
  BY <1>1, <1>2, <1>3, <1>7 DEF Records, Open
<1>9. Known(i, l, after)
  BY <1>1, <1>3, <1>4, <1>5, <1>6, LeaveWhole DEF Good, Changed
<1>10. Known(i, x, after)
  BY <1>7, <1>8, <1>9 DEF Known, Exact, WaiterFlags, WriterFlags
<1>11. Flying(x) /\ ~Torn(x)
  BY <1>5, <1>6, <1>8, FlightStays DEF Good
<1>12. Staged(i, x, after)
  <2>1. after[c] = Idle /\ \A d \in Coroutines \ {c} : after[d] = call[d]
    BY <1>4, <1>6, FittingCalls, OneCall
  <2>2. \A d \in Coroutines : after[d].on = i => after[d].op \in {"none", "write"}
    BY <1>5, <2>1, IdleCall
  <2>3. x.early => x.kind = "datagram"
    BY <1>6, <1>8 DEF Good, Staged
  <2> QED
    BY <1>8, <2>2, <2>3 DEF Staged, Closes
<1>13. Ends(c, i, x)
  BY <1>1, <1>2, <1>4, <1>6, <1>8, <1>10, <1>11 DEF Ends
<1>14. inner' = [inner EXCEPT ![i] = x] /\ call' = after
  BY <1>1, <1>4 DEF Changed
<1>15. x.stage \in Open /\ r.stage \in Open
  BY <1>5, <1>8 DEF Open
<1> QED
  BY <1>2, <1>4, <1>6, <1>12, <1>13, <1>14, <1>15, EndStep

LEMMA ConnectDoneStep ==
    ASSUME IInv, NEW c \in Coroutines, NEW accepted \in BOOLEAN, ConnectDone(c, accepted)
    PROVE  IInv'
<1>1. call[c].op = "connect" /\ UNCHANGED internal /\ call' = [call EXCEPT ![c] = Idle]
  BY DEF ConnectDone, Done
<1>2. CASE accepted
  <2>1. PICK x : x = [Left(inner[call[c].on]) EXCEPT !.stage = "established"]
    OBVIOUS
  <2>2. inner' = [inner EXCEPT ![call[c].on] = x]
    BY <1>2, <2>1 DEF ConnectDone, Done
  <2> QED
    BY <1>1, <2>1, <2>2, EstablishedStep
<1>3. CASE ~accepted
  <2>1. PICK x : x = Left(inner[call[c].on])
    OBVIOUS
  <2>2. inner' = [inner EXCEPT ![call[c].on] = x]
    BY <1>3, <2>1 DEF ConnectDone, Done
  <2>3. x = Interrupted(inner[call[c].on], c, call[c].op)
    BY <1>1, <2>1, LeftIsInterrupted
  <2> QED
    BY <1>1, <2>2, <2>3, LeaveStep DEF Waits
<1> QED
  BY <1>2, <1>3

LEMMA ResolveDoneStep ==
    ASSUME IInv, NEW c \in Coroutines, NEW found \in BOOLEAN, ResolveDone(c, found)
    PROVE  IInv'
<1>1. call[c].op = "resolve" /\ UNCHANGED internal
  BY DEF ResolveDone, Done
<1>2. PICK i : i = call[c].on
  OBVIOUS
<1>3. PICK r : r = inner[i]
  OBVIOUS
<1>4. PICK l : l = Left(r)
  OBVIOUS
<1>5. CASE inner' = [inner EXCEPT ![i] = l] /\ call' = [call EXCEPT ![c] = Idle]
  <2>1. l = Interrupted(inner[call[c].on], c, call[c].op)
    BY <1>1, <1>2, <1>3, <1>4, LeftIsInterrupted
  <2> QED
    BY <1>1, <1>2, <1>5, <2>1, LeaveStep DEF Waits
<1>6. CASE /\ inner' = [inner EXCEPT ![i] = [l EXCEPT !.stage = "established"]]
           /\ call' = [call EXCEPT ![c] = Idle]
  <2>1. PICK x : x = [l EXCEPT !.stage = "established"]
    OBVIOUS
  <2>2. x = [Left(inner[call[c].on]) EXCEPT !.stage = "established"]
    BY <1>2, <1>3, <1>4, <2>1
  <2> QED
    BY <1>1, <1>2, <1>6, <2>1, <2>2, EstablishedStep
<1>7. CASE /\ r.kind = "stream"
           /\ inner' = [inner EXCEPT ![i] = Entered(l, c, CONNECT)]
           /\ call' = [call EXCEPT ![c].op = "connect"]
  <2>1. PICK x : x = Entered(l, c, CONNECT)
    OBVIOUS
  <2>2. PICK new : new = [call[c] EXCEPT !.op = "connect"]
    OBVIOUS
  <2>3. PICK mid : mid = Changed(call, c, Idle)
    OBVIOUS
  <2>4. /\ call[c].op \in Whole /\ call[c].op \in Waits /\ r.stage = "lazy" /\ ~Torn(r)
    BY <1>1, <1>2, <1>3, AloneOnLazy
  <2>5. /\ i \in Internals /\ call[c] \in Calls /\ r \in Records /\ Good(i, r, call)
        /\ TypedCalls(call)
    BY <1>2, <1>3, <2>4, WaiterProperties
  <2>6. /\ new \in Calls /\ new.op = "connect" /\ new.on = i /\ Fits(new)
        /\ new.op \in Whole /\ new.op \in Waits /\ FlagsOf(new.op) = CONNECT
    <3>1. new \in Calls /\ new.op = "connect" /\ new.on = i
      BY <1>2, <2>2, <2>5 DEF Calls, Waits
    <3> QED
      BY <2>5, <3>1, FlagsProperties DEF Fits, Whole, Waits
  <2>7. /\ l \in Records /\ l.io = {} /\ l.stage = r.stage /\ l.kind = r.kind
        /\ l.refs = r.refs /\ l.writers = r.writers /\ l.flight = r.flight
        /\ l.cache = r.cache /\ l.early = r.early
    BY <1>4, <2>5, LeftRecords
  <2>8. /\ x \in Records /\ x.stage = r.stage /\ x.kind = r.kind
        /\ x.refs = r.refs /\ x.writers = r.writers /\ x.flight = r.flight
        /\ x.cache = r.cache /\ x.early = r.early
    <3>1. CONNECT \in SUBSET AllFlags
      BY DEF AllFlags
    <3> QED
      BY <2>1, <2>7, <3>1, LeftRecords
  <2>9. TypedCalls(mid) /\ mid[c] = Idle
    BY <2>3, <2>5, FittingCalls, OneCall
  <2>10. Known(i, l, mid)
    BY <1>2, <1>4, <2>3, <2>4, <2>5, LeaveWhole DEF Good, Changed
  <2>11. call' = Changed(mid, c, new) /\ call' = Changed(call, c, new)
    <3>1. call \in [Coroutines -> Calls]
      BY <2>5 DEF TypedCalls
    <3>2. call' = [call EXCEPT ![c] = new]
      BY <1>7, <2>2, <3>1
    <3>3. [[call EXCEPT ![c] = Idle] EXCEPT ![c] = new] = [call EXCEPT ![c] = new]
      BY <3>1
    <3> QED
      BY <2>3, <3>2, <3>3 DEF Changed
  <2>12. Known(i, x, call')
    <3>1. l.io \cap FlagsOf(new.op) = {}
      BY <2>7
    <3>2. Known(i, Entered(l, c, FlagsOf(new.op)), Changed(mid, c, new))
      BY <2>5, <2>6, <2>7, <2>9, <2>10, <3>1, EnterWhole DEF Changed
    <3> QED
      BY <2>1, <2>6, <2>11, <3>2
  <2>13. Flying(x) /\ ~Torn(x)
    BY <2>4, <2>5, <2>8, FlightStays DEF Good
  <2>14. Staged(i, x, call')
    <3>1. /\ new.op \in {"bind", "resolve", "connect"} => r.stage = "lazy"
          /\ new.op \in {"accept", "connect"} => r.kind = "stream"
          /\ new.op = "accept" => r.stage = "server"
          /\ r.stage \notin {"unused", "gone"}
      BY <1>7, <2>4, <2>6
    <3>2. Staged(i, r, call)
      BY <2>5 DEF Good
    <3>3. x.early => x.kind = "datagram"
      BY <2>8, <3>2 DEF Staged
    <3>4. Staged(i, x, Changed(call, c, new))
      BY <2>5, <2>6, <2>8, <3>1, <3>2, <3>3, StagedBegins
    <3> QED
      BY <2>11, <3>4
  <2>15. /\ TypedCalls(call') /\ call'[c] = new
         /\ \A d \in Coroutines \ {c} : call'[d] = call[d]
    BY <2>5, <2>6, <2>11, OneCall
  <2>16. Local(i, call, call') /\ NoneAccepts(call, call')
    BY <1>2, <2>6, <2>15 DEF Local, NoneAccepts
  <2>17. /\ inner' \in [Internals -> Records] /\ inner'[i] = x
         /\ \A j \in Internals \ {i} : inner'[j] = inner[j]
    BY <1>7, <2>1, <2>5, <2>8 DEF IInv
  <2>18. StepAt(i)
    BY <2>8, <2>12, <2>13, <2>14, <2>15, <2>16, <2>17 DEF StepAt, Good
  <2>19. NotLent(i)
    BY <1>1, <1>2, <2>5, BusyIsNotLent
  <2> QED
    BY <1>1, <1>3, <2>5, <2>8, <2>16, <2>17, <2>18, <2>19, QuietStep
<1> QED
  BY <1>2, <1>3, <1>4, <1>5, <1>6, <1>7 DEF ResolveDone, Done

LEMMA AcceptDoneStep ==
    ASSUME IInv, NEW c \in Coroutines, AcceptDone(c) PROVE IInv'
<1>1. call[c].op = "accept" /\ call[c].op \in Waits /\ call[c].op \in Whole
      /\ UNCHANGED internal
  BY DEF AcceptDone, Waits, Whole
<1>2. PICK i : i = call[c].on
  OBVIOUS
<1>3. PICK r : r = inner[i]
  OBVIOUS
<1>4. PICK s : s = call[c].with
  OBVIOUS
<1>5. PICK j : j = internal[s]
  OBVIOUS
<1>6. PICK l : l = Left(r)
  OBVIOUS
<1>7. PICK y : y = [inner[j] EXCEPT !.stage = "established"]
  OBVIOUS
<1>8. /\ i \in Internals /\ call[c].op # "none" /\ r \in Records /\ Good(i, r, call)
      /\ TypedCalls(call) /\ NotLent(i)
  BY <1>1, <1>2, <1>3, WaiterProperties, BusyIsNotLent
<1>9. /\ s \in Sockets /\ j \in Internals /\ inner[j].stage = "lazy"
      /\ inner[j].io = {} /\ inner[j].refs = 1 /\ inner[j].kind = "stream" /\ i # j
      /\ \A d \in Coroutines : call[d].op = "accept" /\ call[d].with = s => d = c
  BY <1>1, <1>4, <1>5, <1>8 DEF IInv, Lent, NotLent
<1>10. /\ inner' = [inner EXCEPT ![i] = Left(@), ![j].stage = "established"]
       /\ call' = Changed(call, c, Idle)
  BY <1>2, <1>4, <1>5 DEF AcceptDone, Changed
<1>11. /\ l \in Records /\ l.stage = r.stage /\ l.kind = r.kind
       /\ l.refs = r.refs /\ l.writers = r.writers /\ l.flight = r.flight
       /\ l.cache = r.cache /\ l.early = r.early
  BY <1>6, <1>8, LeftRecords
<1>12. /\ inner[j] \in Records /\ y \in Records /\ y.stage = "established"
       /\ y.refs = inner[j].refs /\ y.io = inner[j].io /\ y.waiter = inner[j].waiter
       /\ y.writers = inner[j].writers /\ y.flight = inner[j].flight
       /\ y.cache = inner[j].cache /\ y.kind = inner[j].kind /\ y.early = inner[j].early
  <2>1. inner[j] \in Records
    BY <1>9 DEF IInv
  <2> QED
    BY <1>7, <2>1 DEF Records, Open
<1>13. /\ inner' \in [Internals -> Records] /\ inner'[i] = l /\ inner'[j] = y
       /\ \A k \in Internals \ {i, j} : inner'[k] = inner[k]
  <2>1. inner' = [inner EXCEPT ![i] = l, ![j] = y]
    BY <1>3, <1>6, <1>7, <1>8, <1>9, <1>10 DEF IInv
  <2> QED
    BY <1>8, <1>9, <1>11, <1>12, <2>1 DEF IInv
<1>14. /\ TypedCalls(call') /\ call'[c] = Idle
       /\ \A d \in Coroutines \ {c} : call'[d] = call[d]
  BY <1>8, <1>10, FittingCalls, OneCall
<1>15. Local(i, call, call')
  BY <1>2, <1>14 DEF Local
<1>16. Good(i, l, call')
  <2>1. Known(i, l, call')
    BY <1>1, <1>2, <1>6, <1>8, <1>10, LeaveWhole DEF Good, Changed
  <2>2. Staged(i, l, call')
    BY <1>8, <1>10, <1>11, StagedEnds DEF Good
  <2>3. Flying(l) /\ (Torn(l) <=> Torn(r))
    BY <1>8, <1>11, FlightStays DEF Good
  <2> QED
    BY <1>8, <1>11, <2>1, <2>2, <2>3 DEF Good
<1>17. \A k \in Internals \ {i} : Good(k, inner[k], call')
  <2> TAKE k \in Internals \ {i}
  <2>1. Good(k, inner[k], call) /\ inner[k] \in Records
    BY DEF IInv
  <2> QED
    BY <1>8, <1>15, <2>1, GoodElsewhere
<1>18. Good(j, y, call')
  <2>1. Good(j, inner[j], call')
    BY <1>9, <1>17
  <2>2. \A d \in Coroutines : call'[d].on = j => call'[d].op = "none"
    BY <1>9, <1>14, IdleCall, NobodyOnIdle
  <2>3. Known(j, y, call')
    BY <1>12, <2>1 DEF Good, Known, Exact, WaiterFlags, WriterFlags
  <2>4. Staged(j, y, call')
    BY <1>12, <2>1, <2>2 DEF Good, Staged, Closes
  <2>5. Flying(y) /\ ~Torn(y)
    BY <1>9, <1>12, <2>1, FlightStays DEF Good
  <2> QED
    BY <1>12, <2>3, <2>4, <2>5 DEF Good
<1>19. \A k \in Internals : Good(k, inner'[k], call')
  BY <1>13, <1>16, <1>17, <1>18
<1>20. RefsAreExact'
  BY <1>1, <1>3, <1>9, <1>11, <1>12, <1>13, RefsStay DEF Open
<1>21. ASSUME NEW d \in Coroutines PROVE Lent(d)'
  <2>1. CASE d = c
    BY <1>14, <2>1, IdleCall DEF Lent
  <2>2. CASE d # c
    <3>1. call'[d] = call[d] /\ Lent(d)
      BY <1>14, <2>2 DEF IInv
    <3>2. SUFFICES ASSUME call[d].op = "accept" PROVE Lent(d)'
      BY <3>1 DEF Lent
    <3>3. PICK u \in Sockets : u = call[d].with
      BY <3>1, <3>2 DEF Lent
    <3>4. internal[u] \in Internals /\ internal[u] # i /\ u # s
      BY <1>8, <1>9, <2>2, <3>1, <3>2, <3>3 DEF Lent, NotLent
    <3>5. internal[u] # j
      BY <1>5, <1>9, <3>4, OnlyUser
    <3>6. internal'[u] = internal[u] /\ inner'[internal[u]] = inner[internal[u]]
      BY <1>1, <1>13, <3>4, <3>5
    <3>7. \A e \in Coroutines : call'[e].op = "accept" /\ call'[e].with = u => e = d
      BY <1>14, <3>1, <3>2, <3>3, IdleCall DEF Lent
    <3> QED
      BY <3>1, <3>2, <3>3, <3>4, <3>6, <3>7 DEF Lent
  <2> QED
    BY <2>1, <2>2
<1> QED
  BY <1>1, <1>13, <1>14, <1>19, <1>20, <1>21 DEF IInv

\* libuv is done with the oldest request.
LEMMA FlightShrinks ==
    ASSUME NEW r \in Records, Flying(r), r.flight # <<>>, NEW x,
           x = [r EXCEPT !.flight = Tail(@)]
    PROVE  /\ x \in Records /\ Flown(x) /\ (Torn(x) => Torn(r))
           /\ Carried(x, ToSet(r.writers) \ {Head(r.flight).who})
           /\ x.stage = r.stage /\ x.kind = r.kind /\ x.refs = r.refs /\ x.io = r.io
           /\ x.waiter = r.waiter /\ x.writers = r.writers /\ x.cache = r.cache
           /\ x.early = r.early
           /\ \A n \in DOMAIN x.flight : x.flight[n].who # NoCo =>
                 x.flight[n].who # Head(r.flight).who
           /\ Head(r.flight).who \in Coroutines \cup {NoCo}
           /\ Head(r.flight).who = NoCo => Torn(r)
           /\ Head(r.flight).who # NoCo => Head(r.flight).who \in ToSet(r.writers)
<1> DEFINE q == r.flight
           t == Tail(q)
<1>1. q \in Seq(Entries) /\ q # <<>>
  BY DEF Records
<1>2. /\ t \in Seq(Entries) /\ Len(q) \in Nat /\ Len(q) >= 1 /\ DOMAIN q = 1..Len(q)
      /\ DOMAIN t = 1..(Len(q) - 1) /\ Head(q) = q[1]
      /\ \A n \in 1..(Len(q) - 1) : t[n] = q[n + 1]
  BY <1>1
<1>3. /\ x \in Records /\ x.flight = t
      /\ x.stage = r.stage /\ x.kind = r.kind /\ x.refs = r.refs /\ x.io = r.io
      /\ x.waiter = r.waiter /\ x.writers = r.writers /\ x.cache = r.cache
      /\ x.early = r.early
  BY <1>2 DEF Records
<1> HIDE DEF q, t
<1>4. \A n \in DOMAIN t : n + 1 \in DOMAIN q /\ t[n] = q[n + 1] /\ n + 1 # 1 /\ n \in Nat
  BY <1>2
<1>5. 1 \in DOMAIN q /\ Head(q) = q[1] /\ q[1] \in Entries
  BY <1>1, <1>2
<1>6. \A m, n \in DOMAIN q : q[m].who = q[n].who /\ q[m].who # NoCo => m = n
  BY DEF Flying, Flown, q
<1>7. r.early \/ CachedOnce(r)
  BY DEF Flying, Flown
<1>8. \A n \in DOMAIN q : q[n].who # NoCo => q[n].who \in ToSet(r.writers)
  BY DEF Flying, Flown, q
<1>9. Flown(x)
  <2>1. \A n \in DOMAIN x.flight :
           x.flight[n].who # NoCo => x.flight[n].who \in ToSet(x.writers)
    BY <1>3, <1>4, <1>8
  <2>2. \A m, n \in DOMAIN x.flight :
           x.flight[m].who = x.flight[n].who /\ x.flight[m].who # NoCo => m = n
    <3>1. \A m, n \in DOMAIN t : t[m].who = t[n].who /\ t[m].who # NoCo => m = n
      BY <1>4, <1>6
    <3> QED
      BY <1>3, <3>1
  <2>3. x.early \/ CachedOnce(x)
    BY <1>3, <1>4, <1>7 DEF CachedOnce, q
  <2> QED
    BY <2>1, <2>2, <2>3, Zenon DEF Flown
<1>10. Torn(x) => Torn(r)
  BY <1>3, <1>4 DEF Torn, q
<1>11. \A n \in DOMAIN x.flight : x.flight[n].who # NoCo => x.flight[n].who # Head(q).who
  BY <1>3, <1>4, <1>5, <1>6
<1>12. /\ Head(q).who \in Coroutines \cup {NoCo}
       /\ Head(q).who # NoCo => Head(q).who \in ToSet(r.writers)
  BY <1>5, <1>8 DEF Entries
<1>13. Head(q).who = NoCo => Torn(r)
  BY <1>5 DEF Torn, q
<1>14. Carried(x, ToSet(r.writers) \ {Head(q).who})
  <2> SUFFICES ASSUME NEW d \in ToSet(r.writers) \ {Head(q).who}
               PROVE  \E n \in DOMAIN x.flight : x.flight[n].who = d
    BY DEF Carried
  <2>1. PICK m \in DOMAIN q : q[m].who = d
    BY DEF Flying, Carried, q
  <2>2. m # 1
    BY <1>5, <2>1
  <2>3. m - 1 \in DOMAIN t /\ t[m - 1] = q[m]
    BY <1>2, <2>2
  <2> QED
    BY <1>3, <2>1, <2>3
<1> QED
  BY <1>3, <1>9, <1>10, <1>11, <1>12, <1>13, <1>14 DEF q

LEMMA WriteDoneStep ==
    ASSUME IInv, NEW i \in Internals, WriteDone(i) PROVE IInv'
<1>1. PICK r : r = inner[i]
  OBVIOUS
<1>2. PICK y : y = [r EXCEPT !.flight = Tail(@)]
  OBVIOUS
<1>3. PICK c : c = Head(r.flight).who
  OBVIOUS
<1>4. r \in Records /\ Good(i, r, call) /\ r.flight # <<>> /\ TypedCalls(call)
      /\ UNCHANGED internal
  BY <1>1 DEF IInv, WriteDone, Done
<1>5. /\ y \in Records /\ Flown(y) /\ (Torn(y) => Torn(r))
      /\ Carried(y, ToSet(r.writers) \ {c}) /\ y.early = r.early
      /\ y.stage = r.stage /\ y.kind = r.kind /\ y.refs = r.refs /\ y.io = r.io
      /\ y.waiter = r.waiter /\ y.writers = r.writers /\ y.cache = r.cache
      /\ \A n \in DOMAIN y.flight : y.flight[n].who # NoCo => y.flight[n].who # c
      /\ c \in Coroutines \cup {NoCo}
      /\ c = NoCo => Torn(r)
      /\ c # NoCo => c \in ToSet(r.writers)
  BY <1>2, <1>3, <1>4, FlightShrinks DEF Good
<1>6. Known(i, y, call)
  BY <1>4, <1>5 DEF Good, Known, Exact, WaiterFlags, WriterFlags
<1>7. CASE c = NoCo
  <2>1. inner' = [inner EXCEPT ![i] = y] /\ UNCHANGED call
    BY <1>1, <1>2, <1>3, <1>7 DEF WriteDone
  <2>2. /\ inner' \in [Internals -> Records] /\ inner'[i] = y
        /\ \A j \in Internals \ {i} : inner'[j] = inner[j]
    BY <1>5, <2>1 DEF IInv
  <2>3. Flying(y)
    <3>1. NoCo \notin ToSet(r.writers)
      BY <1>4, SocketAssumption DEF Records, ToSet
    <3> QED
      BY <1>5, <1>7, <3>1 DEF Flying, Carried
  <2>4. Good(i, y, call)
    BY <1>4, <1>5, <1>6, <2>3 DEF Good, Staged
  <2>5. StepAt(i)
    BY <1>4, <2>1, <2>2, <2>4 DEF StepAt, Local
  <2>6. NotLent(i)
    <3>1. r.stage # "lazy"
      BY <1>4, <1>5, <1>7 DEF Good
    <3> QED
      BY <1>1, <3>1 DEF NotLent, IInv, Lent
  <2> QED
    BY <1>1, <1>4, <1>5, <2>1, <2>2, <2>5, <2>6, QuietStep DEF NoneAccepts
<1>8. CASE c # NoCo
  <2>1. PICK x : x = WriteLeft(y, c)
    OBVIOUS
  <2>2. inner' = [inner EXCEPT ![i] = x] /\ call' = Changed(call, c, Idle)
    BY <1>1, <1>2, <1>3, <1>8, <2>1 DEF WriteDone, Done, Changed
  <2>3. c \in Coroutines /\ Writes(c, i, call)
    BY <1>4, <1>5, <1>8 DEF Good, Known
  <2>4. IsInjective(y.writers)
    BY <1>6 DEF Known
  <2>5. /\ x \in Records /\ ToSet(x.writers) = ToSet(y.writers) \ {c}
        /\ x.cache = y.cache /\ x.flight = y.flight /\ x.early = y.early
        /\ x.stage = y.stage /\ x.kind = y.kind /\ x.refs = y.refs
    BY <1>5, <2>1, <2>3, <2>4, WriteLeftRecords
  <2>6. Known(i, x, Changed(call, c, Idle))
    BY <1>4, <1>5, <1>6, <2>1, <2>3, LeaveWrite DEF Changed
  <2>7. Flying(x) /\ (Torn(x) <=> Torn(y))
    BY <1>5, <2>5 DEF Flying, Flown, CachedOnce, Carried, Torn
  <2>8. Staged(i, x, Changed(call, c, Idle))
    BY <1>4, <1>5, <2>3, <2>5, StagedEnds DEF Good
  <2>9. Ends(c, i, x)
    BY <1>1, <1>4, <1>5, <2>3, <2>5, <2>6, <2>7 DEF Ends, Good, Writes
  <2> QED
    BY <1>1, <1>4, <1>5, <2>2, <2>3, <2>5, <2>8, <2>9, EndStep
<1> QED
  BY <1>7, <1>8

\* All objects let go of i, which is not open any more.
LEMMA LetGo ==
    ASSUME IInv, NEW i \in Internals, NotLent(i), StepAt(i), NoneAccepts(call, call'),
           inner'[i].refs = 0, inner'[i].stage \notin Open,
           internal' = [s \in Sockets |-> IF internal[s] = i THEN Null ELSE internal[s]]
    PROVE  IInv'
<1>1. internal' \in [Sockets -> Internals \cup {Null}]
  BY DEF IInv
<1>2. \A s \in Sockets : internal'[s] = IF internal[s] = i THEN Null ELSE internal[s]
  OBVIOUS
<1>3. \A j \in Internals \ {i} : inner'[j] = inner[j]
  BY DEF StepAt
<1>4. \A j \in Internals : Good(j, inner'[j], call')
  BY GoodStays
<1>5. RefsAreExact'
  <2> SUFFICES ASSUME NEW j \in Internals
               PROVE  /\ inner'[j].refs = Cardinality(Bound(j)')
                      /\ (inner'[j].refs # 0 <=> inner'[j].stage \in Open)
    BY DEF RefsAreExact
  <2>1. CASE j = i
    <3>1. Bound(j)' = {}
      BY <1>2, <2>1, SocketAssumption DEF Bound
    <3> QED
      BY <2>1, <3>1, FS_EmptySet
  <2>2. CASE j # i
    <3>1. Bound(j)' = Bound(j)
      BY <1>2, <2>2, SocketAssumption DEF Bound
    <3>2. /\ inner[j].refs = Cardinality(Bound(j))
          /\ (inner[j].refs # 0 <=> inner[j].stage \in Open)
      BY DEF IInv, RefsAreExact
    <3> QED
      BY <1>3, <2>2, <3>1, <3>2
  <2> QED
    BY <2>1, <2>2
<1>6. \A c \in Coroutines : Lent(c)'
  <2>1. {i} \in SUBSET Internals /\ \A j \in {i} : NotLent(j)
    OBVIOUS
  <2>2. \A s \in Sockets : internal[s] \in Internals \ {i} => internal'[s] = internal[s]
    BY <1>2
  <2> QED
    BY <1>3, <2>1, <2>2, LentStays
<1> QED
  BY <1>1, <1>4, <1>5, <1>6 DEF IInv, StepAt

LEMMA ClosedRecords ==
    ASSUME NEW i \in Internals, NEW r \in Records, NEW calls, Known(i, r, calls), Flying(r)
    PROVE  /\ Closed(r) \in Records /\ Closed(r).stage = "closed" /\ Closed(r).refs = 0
           /\ Known(i, Closed(r), calls) /\ Flying(Closed(r))
           /\ Closed(r).kind = r.kind /\ Closed(r).early = r.early
<1> DEFINE x == Closed(r)
<1>1. /\ x \in Records /\ x.stage = "closed" /\ x.refs = 0
      /\ x.io = r.io /\ x.waiter = r.waiter /\ x.writers = r.writers
      /\ x.flight = r.flight /\ x.cache = r.cache /\ x.kind = r.kind /\ x.early = r.early
  BY DEF Closed, Records
<1> HIDE DEF x
<1>2. Known(i, x, calls)
  BY <1>1 DEF Known, Exact, WaiterFlags, WriterFlags
<1>3. Flying(x)
  BY <1>1, FlightStays
<1> QED
  BY <1>1, <1>2, <1>3 DEF x

\* The first step of a close, by c, which is not in a call any more.
LEMMA CloseBegins ==
    ASSUME IInv, NEW i \in Internals, NEW c \in Coroutines, NEW r \in Records, NEW calls,
           TypedCalls(calls), Known(i, r, calls), Flying(r), r.early => r.kind = "datagram",
           inner[i].stage \in Open, NotLent(i), calls[c] = Idle,
           call[c] = Idle \/ call[c].on = i,
           \A d \in Coroutines \ {c} : calls[d] = call[d],
           CloseStep(c, i, Closed(r), calls),
           internal' = [s \in Sockets |-> IF internal[s] = i THEN Null ELSE internal[s]]
    PROVE  IInv'
<1>1. PICK x : x = Closed(r)
  OBVIOUS
<1>2. /\ x \in Records /\ x.stage = "closed" /\ x.refs = 0
      /\ Known(i, x, calls) /\ Flying(x) /\ (x.early => x.kind = "datagram")
  BY <1>1, ClosedRecords
<1>3. \A d \in Coroutines \ {c} : ~Closes(d, i, calls)
  <2>1. Staged(i, inner[i], call) /\ inner[i].stage # "closed"
    BY DEF IInv, Good, Open
  <2> QED
    BY <2>1 DEF Staged, Closes
<1>4. inner \in [Internals -> Records] /\ CloseStep(c, i, x, calls)
  BY <1>1 DEF IInv
<1>5. /\ inner' \in [Internals -> Records] /\ TypedCalls(call')
      /\ \A j \in Internals \ {i} : inner'[j] = inner[j]
      /\ Good(i, inner'[i], call')
      /\ inner'[i].refs = x.refs /\ inner'[i].stage \in {"closed", "gone"}
      /\ Local(i, calls, call') /\ NoneAccepts(calls, call')
  BY <1>2, <1>3, <1>4, CloseStepProperties
<1>6. Local(i, call, call')
  BY <1>5 DEF Local
<1>7. NoneAccepts(call, call')
  BY <1>5, IdleCall DEF NoneAccepts
<1>8. StepAt(i)
  BY <1>5, <1>6 DEF StepAt
<1>9. inner'[i].refs = 0 /\ inner'[i].stage \notin Open
  BY <1>2, <1>5 DEF Open
<1> QED
  BY <1>7, <1>8, <1>9, LetGo

LEMMA CloseGoesOnStep ==
    ASSUME IInv, NEW c \in Coroutines, CloseGoesOn(c) PROVE IInv'
<1>1. PICK i : i = call[c].on
  OBVIOUS
<1>2. PICK r : r = inner[i]
  OBVIOUS
<1>3. /\ call[c].op = "close" /\ CloseStep(c, i, r, call) /\ UNCHANGED internal
  BY <1>1, <1>2 DEF CloseGoesOn
<1>4. /\ i \in Internals /\ r \in Records /\ Good(i, r, call) /\ TypedCalls(call)
      /\ inner \in [Internals -> Records]
  BY <1>1, <1>2, <1>3 DEF IInv, TypedCalls
<1>5. Closes(c, i, call) /\ r.stage = "closed"
      /\ \A d \in Coroutines \ {c} : ~Closes(d, i, call)
  BY <1>1, <1>3, <1>4 DEF Closes, Good, Staged
<1>6. Known(i, r, call) /\ Flying(r) /\ (r.early => r.kind = "datagram")
  BY <1>4 DEF Good, Staged
<1>7. /\ inner' \in [Internals -> Records] /\ TypedCalls(call')
      /\ \A j \in Internals \ {i} : inner'[j] = inner[j]
      /\ Good(i, inner'[i], call')
      /\ inner'[i].refs = r.refs /\ inner'[i].stage \in {"closed", "gone"}
      /\ Local(i, call, call') /\ NoneAccepts(call, call')
  BY <1>3, <1>4, <1>5, <1>6, CloseStepProperties
<1>8. StepAt(i)
  BY <1>7 DEF StepAt
<1>9. NotLent(i)
  BY <1>1, <1>3, <1>4, BusyIsNotLent
<1> QED
  BY <1>2, <1>3, <1>4, <1>5, <1>7, <1>8, <1>9, QuietStep DEF Open

LEMMA CloseByUser ==
    ASSUME IInv, Allowed = {}, NEW c \in Coroutines, NEW s \in Sockets, Close(c, s)
    PROVE  IInv'
<1>1. PICK i : i = internal[s]
  OBVIOUS
<1>2. PICK r : r = inner[i]
  OBVIOUS
<1>3. PICK x : x = [r EXCEPT !.refs = @ - 1]
  OBVIOUS
<1>4. /\ CanUse(c, s) /\ internal[s] # Null /\ internal' = [internal EXCEPT ![s] = Null]
  BY DEF Close, Unbind
<1>5. /\ i \in Internals /\ call[c] = Idle /\ NotLent(i) /\ r \in Records
      /\ Good(i, r, call) /\ ~Torn(r) /\ TypedCalls(call) /\ r.stage \in Open
  BY <1>1, <1>2, <1>4, UsedProperties
<1>6. r.refs \in Nat \ {0} /\ r.refs = Cardinality(Bound(i))
  BY <1>1, <1>2, <1>5, BoundIsOpen DEF IInv, RefsAreExact
<1>7. /\ x \in Records /\ x.refs = r.refs - 1 /\ x.stage = r.stage /\ x.kind = r.kind
      /\ x.io = r.io /\ x.waiter = r.waiter /\ x.writers = r.writers
      /\ x.flight = r.flight /\ x.cache = r.cache /\ x.early = r.early
  <2>1. r \in Records /\ r.refs - 1 \in Nat
    BY <1>5, <1>6
  <2>2. \A n \in Nat : /\ [r EXCEPT !.refs = n] \in Records
                       /\ [r EXCEPT !.refs = n].refs = n
    BY <2>1 DEF Records
  <2>3. x = [r EXCEPT !.refs = r.refs - 1]
    BY <1>3
  <2>4. x \in Records /\ x.refs = r.refs - 1
    BY <2>1, <2>2, <2>3
  <2>5. /\ x.stage = r.stage /\ x.kind = r.kind
        /\ x.io = r.io /\ x.waiter = r.waiter /\ x.writers = r.writers
        /\ x.flight = r.flight /\ x.cache = r.cache /\ x.early = r.early
    BY <2>1, <2>3 DEF Records
  <2> QED
    BY <2>4, <2>5
<1>8. Known(i, x, call) /\ Flying(x) /\ (Torn(x) <=> Torn(r))
  <2>1. Flying(x) /\ (Torn(x) <=> Torn(r))
    BY <1>5, <1>7, FlightStays DEF Good
  <2> QED
    BY <1>5, <1>7, <2>1 DEF Good, Known, Exact, WaiterFlags, WriterFlags
<1>9. internal \in [Sockets -> Internals \cup {Null}]
  BY DEF IInv
<1>10. IF x.refs # 0 THEN inner' = [inner EXCEPT ![i] = x] /\ UNCHANGED call
       ELSE CloseStep(c, i, Closed(x), call)
  BY <1>1, <1>2, <1>3 DEF Close, Unbind
<1>11. CASE x.refs = 0
  <2>1. \A t \in Sockets : internal[t] = i => t = s
    BY <1>1, <1>2, <1>5, <1>6, <1>7, <1>11, OnlyUser
  <2>2. internal' = [t \in Sockets |-> IF internal[t] = i THEN Null ELSE internal[t]]
    BY <1>1, <1>4, <1>9, <2>1
  <2>3. CloseStep(c, i, Closed(x), call) /\ inner[i].stage \in Open
    BY <1>2, <1>5, <1>10, <1>11
  <2>4. x.early => x.kind = "datagram"
    BY <1>5, <1>7 DEF Good, Staged
  <2> QED
    BY <1>5, <1>7, <1>8, <2>2, <2>3, <2>4, CloseBegins
<1>12. CASE x.refs # 0
  <2>1. /\ inner' \in [Internals -> Records] /\ inner'[i] = x /\ UNCHANGED call
        /\ \A j \in Internals \ {i} : inner'[j] = inner[j]
    BY <1>5, <1>7, <1>10, <1>12 DEF IInv
  <2>2. Good(i, x, call)
    BY <1>5, <1>7, <1>8 DEF Good, Staged
  <2>3. StepAt(i)
    BY <1>5, <2>1, <2>2 DEF StepAt, Local
  <2>4. \A j \in Internals : Good(j, inner'[j], call')
    BY <1>5, <2>3, GoodStays
  <2>5. /\ internal' \in [Sockets -> Internals \cup {Null}] /\ internal'[s] = Null
        /\ \A t \in Sockets \ {s} : internal'[t] = internal[t]
    BY <1>4, <1>9
  <2>6. RefsAreExact'
    <3> SUFFICES ASSUME NEW j \in Internals
                 PROVE  /\ inner'[j].refs = Cardinality(Bound(j)')
                        /\ (inner'[j].refs # 0 <=> inner'[j].stage \in Open)
      BY DEF RefsAreExact
    <3>1. /\ inner[j].refs = Cardinality(Bound(j))
          /\ (inner[j].refs # 0 <=> inner[j].stage \in Open)
      BY DEF IInv, RefsAreExact
    <3>2. CASE j = i
      <4>1. Bound(i)' = Bound(i) \ {s} /\ s \in Bound(i)
        BY <1>1, <1>5, <2>5, SocketAssumption DEF Bound
      <4>2. Cardinality(Bound(i) \ {s}) = Cardinality(Bound(i)) - 1
        BY <1>5, <4>1, BoundIsFinite, FS_RemoveElement
      <4> QED
        BY <1>5, <1>6, <1>7, <1>12, <2>1, <3>2, <4>1, <4>2
    <3>3. CASE j # i
      <4>1. Bound(j)' = Bound(j)
        BY <1>1, <2>5, <3>3, SocketAssumption DEF Bound
      <4> QED
        BY <2>1, <3>1, <3>3, <4>1
    <3> QED
      BY <3>2, <3>3
  <2>7. \A d \in Coroutines : Lent(d)'
    <3>1. {i} \in SUBSET Internals /\ \A j \in {i} : NotLent(j)
      BY <1>5
    <3>2. \A t \in Sockets : internal[t] \in Internals \ {i} => internal'[t] = internal[t]
      BY <1>1, <2>5
    <3>3. NoneAccepts(call, call')
      BY <2>1 DEF NoneAccepts
    <3> QED
      BY <2>1, <3>1, <3>2, <3>3, LentStays
  <2> QED
    BY <1>5, <2>1, <2>4, <2>5, <2>6, <2>7 DEF IInv
<1> QED
  BY <1>11, <1>12

\* A fresh internal socket that nobody is in a call on.
LEMMA FreshIsGood ==
    ASSUME NEW i \in Internals, NEW x \in Records, x.stage \in {"unused", "lazy"},
           x.io = {}, x.waiter = NoCo, x.writers = <<>>, x.flight = <<>>, ~x.early, NEW calls,
           \A d \in Coroutines : calls[d].on = i => calls[d].op = "none"
    PROVE  Good(i, x, calls)
<1>1. \A d \in Coroutines :
         ~Writes(d, i, calls) /\ ~WaitsOn(d, i, calls) /\ ~Closes(d, i, calls)
  BY DEF Writes, WaitsOn, Closes, Waits
<1>2. ToSet(x.writers) = {} /\ IsInjective(x.writers)
  BY DEF ToSet, IsInjective
<1>3. Known(i, x, calls)
  BY <1>1, <1>2, SocketAssumption DEF Known, Exact, WaiterFlags, WriterFlags
<1>4. Staged(i, x, calls)
  BY <1>1 DEF Staged
<1>5. DOMAIN x.flight = {}
  OBVIOUS
<1>6. Flying(x) /\ ~Torn(x)
  BY <1>2, <1>5 DEF Flying, Flown, CachedOnce, Carried, Torn
<1> QED
  BY <1>3, <1>4, <1>6 DEF Good

LEMMA UnusedRecord == Unused \in Records
BY DEF Unused, Records

LEMMA CloseCallbackStep ==
    ASSUME IInv, NEW i \in Internals, CloseCallback(i) PROVE IInv'
<1>1. PICK r : r = inner[i]
  OBVIOUS
<1>2. /\ r.stage = "gone" /\ r.flight = <<>> /\ inner' = [inner EXCEPT ![i] = Unused]
      /\ UNCHANGED <<internal, call>>
  BY <1>1 DEF CloseCallback
<1>3. /\ Unused \in Records /\ Unused.stage = "unused" /\ Unused.refs = 0 /\ Unused.io = {}
      /\ Unused.waiter = NoCo /\ Unused.writers = <<>> /\ Unused.flight = <<>>
      /\ Unused.cache = FALSE /\ Unused.early = FALSE
  BY DEF Unused, Records
<1>4. /\ inner' \in [Internals -> Records] /\ inner'[i] = Unused
      /\ \A j \in Internals \ {i} : inner'[j] = inner[j]
  BY <1>2, <1>3 DEF IInv
<1>5. Good(i, r, call) /\ TypedCalls(call)
  BY <1>1 DEF IInv
<1>6. \A d \in Coroutines : call[d].on = i => call[d].op = "none"
  <2>1. DOMAIN r.flight = {}
    BY <1>2
  <2>2. \A d \in Coroutines : ~Writes(d, i, call)
    BY <1>5, <2>1 DEF Good, Known, Flying, Carried
  <2> QED
    BY <1>2, <1>5, <2>2 DEF Good, Staged, Writes
<1>7. Good(i, Unused, call)
  BY <1>3, <1>6, FreshIsGood
<1>8. StepAt(i)
  BY <1>2, <1>4, <1>5, <1>7 DEF StepAt, Local
<1>9. r.refs = 0 /\ r.stage \notin Open /\ NotLent(i)
  BY <1>1, <1>2 DEF IInv, RefsAreExact, NotLent, Lent, Open
<1> QED
  BY <1>1, <1>2, <1>3, <1>4, <1>8, <1>9, QuietStep DEF NoneAccepts, Open

LEMMA ConstructStep ==
    ASSUME IInv, NEW c \in Coroutines, NEW s \in Sockets, NEW kind \in Kinds,
           Construct(c, s, kind)
    PROVE  IInv'
<1>1. PICK i \in Internals :
         /\ inner[i].stage = "unused"
         /\ inner' = [inner EXCEPT ![i] =
               [Unused EXCEPT !.stage = "lazy", !.kind = kind, !.refs = 1]]
         /\ internal' = [internal EXCEPT ![s] = i]
  BY DEF Construct
<1>2. PICK x : x = [Unused EXCEPT !.stage = "lazy", !.kind = kind, !.refs = 1]
  OBVIOUS
<1>3. internal[s] = Null /\ UNCHANGED call
  BY DEF Construct
<1>4. /\ x \in Records /\ x.stage = "lazy" /\ x.refs = 1 /\ x.io = {}
      /\ x.waiter = NoCo /\ x.writers = <<>> /\ x.flight = <<>> /\ ~x.early
  <2>1. /\ Unused.io = {} /\ Unused.waiter = NoCo /\ Unused.writers = <<>>
        /\ Unused.flight = <<>> /\ ~Unused.early
    BY DEF Unused
  <2>2. Unused \in Records
    BY UnusedRecord
  <2>3. kind \in {"stream", "datagram"} /\ "lazy" \in Open
    BY SocketAssumption DEF Open
  <2>4. \A r \in Records : [r EXCEPT !.stage = "lazy", !.kind = kind, !.refs = 1] \in Records
    BY <2>3 DEF Records
  <2>5. \A r \in Records : 
           LET y == [r EXCEPT !.stage = "lazy", !.kind = kind, !.refs = 1]
           IN  /\ y.stage = "lazy" /\ y.refs = 1 /\ y.io = r.io /\ y.waiter = r.waiter
               /\ y.writers = r.writers /\ y.flight = r.flight /\ y.early = r.early
    BY DEF Records
  <2> QED
    BY <1>2, <2>1, <2>2, <2>4, <2>5
<1>5. /\ inner' \in [Internals -> Records] /\ inner'[i] = x
      /\ \A j \in Internals \ {i} : inner'[j] = inner[j]
  BY <1>1, <1>2, <1>4 DEF IInv
<1>6. /\ internal' \in [Sockets -> Internals \cup {Null}] /\ internal'[s] = i
      /\ \A t \in Sockets \ {s} : internal'[t] = internal[t]
  BY <1>1 DEF IInv
<1>7. Good(i, inner[i], call) /\ TypedCalls(call)
  BY DEF IInv
<1>8. \A d \in Coroutines : call[d].on = i => call[d].op = "none"
  BY <1>1, <1>7 DEF Good, Staged
<1>9. Good(i, x, call)
  BY <1>4, <1>8, FreshIsGood
<1>10. StepAt(i)
  BY <1>3, <1>5, <1>7, <1>9 DEF StepAt, Local
<1>11. \A j \in Internals : Good(j, inner'[j], call')
  BY <1>10, GoodStays
<1>12. RefsAreExact'
  <2> SUFFICES ASSUME NEW j \in Internals
               PROVE  /\ inner'[j].refs = Cardinality(Bound(j)')
                      /\ (inner'[j].refs # 0 <=> inner'[j].stage \in Open)
    BY DEF RefsAreExact
  <2>1. /\ inner[j].refs = Cardinality(Bound(j))
        /\ (inner[j].refs # 0 <=> inner[j].stage \in Open)
    BY DEF IInv, RefsAreExact
  <2>2. CASE j = i
    <3>1. inner[i].refs = 0
      BY <1>1, <2>1, <2>2 DEF Open
    <3>2. Bound(i) = {}
      BY <2>1, <2>2, <3>1, BoundIsFinite
    <3>3. Bound(i)' = {s}
      BY <1>6, <3>2 DEF Bound
    <3>4. Cardinality({s}) = 1
      BY FS_Singleton
    <3> QED
      BY <1>4, <1>5, <2>2, <3>3, <3>4 DEF Open
  <2>3. CASE j # i
    <3>1. Bound(j)' = Bound(j)
      BY <1>3, <1>6, <2>3, SocketAssumption DEF Bound
    <3> QED
      BY <1>5, <2>1, <2>3, <3>1
  <2> QED
    BY <2>2, <2>3
<1>13. \A d \in Coroutines : Lent(d)'
  <2>1. NotLent(i)
    BY <1>1 DEF IInv, NotLent, Lent
  <2>2. {i} \in SUBSET Internals /\ \A j \in {i} : NotLent(j)
    BY <2>1
  <2>3. \A t \in Sockets : internal[t] \in Internals \ {i} => internal'[t] = internal[t]
    BY <1>3, <1>6, SocketAssumption
  <2>4. NoneAccepts(call, call')
    BY <1>3 DEF NoneAccepts
  <2> QED
    BY <1>5, <2>2, <2>3, <2>4, LentStays
<1> QED
  BY <1>3, <1>5, <1>6, <1>7, <1>11, <1>12, <1>13 DEF IInv

LEMMA OpenSocketStep ==
    ASSUME IInv, Allowed = {}, NEW c \in Coroutines, NEW s \in Sockets, NEW t \in Sockets,
           OpenSocket(c, s, t)
    PROVE  IInv'
<1>1. PICK old : old = internal[s]
  OBVIOUS
<1>2. PICK new : new = internal[t]
  OBVIOUS
<1>3. PICK x : x = [Closed(inner[old]) EXCEPT !.stage = "gone"]
  OBVIOUS
<1>4. PICK y : y = [inner[new] EXCEPT !.refs = @ + 1]
  OBVIOUS
<1>5. /\ CanUse(c, s) /\ CanUse(c, t) /\ internal[s] # Null /\ internal[t] # Null
      /\ old # new /\ inner[old].stage = "lazy" /\ inner[old].io = {}
      /\ inner[old].refs = 1 /\ inner[old].flight = <<>>
      /\ internal' = [internal EXCEPT ![s] = new]
      /\ inner' = [inner EXCEPT ![old] = [Closed(@) EXCEPT !.stage = "gone"],
                               ![new].refs = @ + 1]
      /\ UNCHANGED call
  BY <1>1, <1>2 DEF OpenSocket
<1>6. /\ old \in Internals /\ NotLent(old) /\ inner[old] \in Records
      /\ Good(old, inner[old], call) /\ TypedCalls(call)
  BY <1>1, <1>5, UsedProperties
<1>7. /\ new \in Internals /\ NotLent(new) /\ inner[new] \in Records
      /\ Good(new, inner[new], call) /\ inner[new].stage \in Open
  BY <1>2, <1>5, UsedProperties
<1>8. /\ x \in Records /\ x.stage = "gone" /\ x.refs = 0
      /\ x.io = inner[old].io /\ x.waiter = inner[old].waiter
      /\ x.writers = inner[old].writers /\ x.flight = inner[old].flight
      /\ x.cache = inner[old].cache /\ x.kind = inner[old].kind
      /\ x.early = inner[old].early
  BY <1>3, <1>6 DEF Closed, Records
<1>9. /\ y \in Records /\ y.refs = inner[new].refs + 1 /\ y.stage = inner[new].stage
      /\ y.kind = inner[new].kind /\ y.io = inner[new].io /\ y.waiter = inner[new].waiter
      /\ y.writers = inner[new].writers /\ y.flight = inner[new].flight
      /\ y.cache = inner[new].cache /\ y.early = inner[new].early
      /\ inner[new].refs \in Nat
  BY <1>4, <1>7 DEF Records
<1>10. /\ inner' \in [Internals -> Records] /\ inner'[old] = x /\ inner'[new] = y
       /\ \A j \in Internals \ {old, new} : inner'[j] = inner[j]
  <2>1. inner' = [inner EXCEPT ![old] = x, ![new] = y]
    BY <1>3, <1>4, <1>5, <1>6, <1>7 DEF IInv
  <2> QED
    BY <1>5, <1>6, <1>7, <1>8, <1>9, <2>1 DEF IInv
<1>11. /\ internal' \in [Sockets -> Internals \cup {Null}] /\ internal'[s] = new
       /\ \A u \in Sockets \ {s} : internal'[u] = internal[u]
  BY <1>5, <1>7 DEF IInv
<1>12. Good(old, x, call)
  <2>1. Known(old, x, call)
    BY <1>6, <1>8 DEF Good, Known, Exact, WaiterFlags, WriterFlags
  <2>2. \A d \in Coroutines : call[d].on = old => call[d].op = "none"
    BY <1>5, <1>6, NobodyOnIdle
  <2>3. Staged(old, x, call)
    BY <1>6, <1>8, <2>2 DEF Good, Staged, Closes
  <2>4. Flying(x)
    BY <1>6, <1>8, FlightStays DEF Good
  <2> QED
    BY <1>8, <2>1, <2>3, <2>4 DEF Good
<1>13. Good(new, y, call)
  <2>1. Known(new, y, call)
    BY <1>7, <1>9 DEF Good, Known, Exact, WaiterFlags, WriterFlags
  <2>2. Staged(new, y, call)
    BY <1>7, <1>9 DEF Good, Staged
  <2>3. Flying(y) /\ (Torn(y) <=> Torn(inner[new]))
    BY <1>7, <1>9, FlightStays DEF Good
  <2> QED
    BY <1>7, <1>9, <2>1, <2>2, <2>3 DEF Good
<1>14. \A j \in Internals : Good(j, inner'[j], call')
  BY <1>5, <1>10, <1>12, <1>13 DEF IInv
<1>15. RefsAreExact'
  <2> SUFFICES ASSUME NEW j \in Internals
               PROVE  /\ inner'[j].refs = Cardinality(Bound(j)')
                      /\ (inner'[j].refs # 0 <=> inner'[j].stage \in Open)
    BY DEF RefsAreExact
  <2>1. /\ inner[j].refs = Cardinality(Bound(j))
        /\ (inner[j].refs # 0 <=> inner[j].stage \in Open)
    BY DEF IInv, RefsAreExact
  <2>2. CASE j = old
    <3>1. \A u \in Sockets : internal[u] = old => u = s
      BY <1>1, <1>5, <1>6, OnlyUser
    <3>2. Bound(old)' = {}
      BY <1>5, <1>11, <3>1 DEF Bound
    <3> QED
      BY <1>8, <1>10, <2>2, <3>2, FS_EmptySet DEF Open
  <2>3. CASE j = new
    <3>1. Bound(new)' = Bound(new) \cup {s} /\ s \notin Bound(new)
      BY <1>1, <1>5, <1>11 DEF Bound
    <3>2. Cardinality(Bound(new) \cup {s}) = Cardinality(Bound(new)) + 1
      BY <1>7, <3>1, BoundIsFinite, FS_AddElement
    <3>3. inner'[j].refs = Cardinality(Bound(j)')
      BY <1>9, <1>10, <2>1, <2>3, <3>1, <3>2
    <3>4. y.refs # 0 /\ y.stage \in Open
      BY <1>7, <1>9
    <3> QED
      BY <1>10, <2>3, <3>3, <3>4
  <2>4. CASE j \notin {old, new}
    <3>1. Bound(j)' = Bound(j)
      BY <1>1, <1>11, <2>4 DEF Bound
    <3> QED
      BY <1>10, <2>1, <2>4, <3>1
  <2> QED
    BY <2>2, <2>3, <2>4
<1>16. \A d \in Coroutines : Lent(d)'
  <2>1. {old, new} \in SUBSET Internals /\ \A j \in {old, new} : NotLent(j)
    BY <1>6, <1>7
  <2>2. \A u \in Sockets :
           internal[u] \in Internals \ {old, new} => internal'[u] = internal[u]
    BY <1>1, <1>11
  <2>3. NoneAccepts(call, call')
    BY <1>5 DEF NoneAccepts
  <2> QED
    BY <1>10, <2>1, <2>2, <2>3, LentStays
<1> QED
  BY <1>5, <1>6, <1>10, <1>11, <1>14, <1>15, <1>16 DEF IInv

LEMMA InterruptStep ==
    ASSUME IInv, NEW c \in Coroutines, Interrupt(c) PROVE IInv'
<1>1. PICK i : i = call[c].on
  OBVIOUS
<1>2. PICK r : r = inner[i]
  OBVIOUS
<1>3. PICK x : x = Interrupted(r, c, call[c].op)
  OBVIOUS
<1>4. PICK calls : calls = Changed(call, c, Idle)
  OBVIOUS
<1>5. /\ call[c].op \in Waits
      /\ IF call[c].op \in {"write", "connect"} THEN Break(c, i, x, calls)
         ELSE /\ inner' = [inner EXCEPT ![i] = x]
              /\ call' = calls /\ UNCHANGED internal
  BY <1>1, <1>2, <1>3, <1>4 DEF Interrupt, Changed
<1>6. /\ i \in Internals /\ call[c].op # "none" /\ r \in Records /\ Good(i, r, call)
      /\ TypedCalls(call)
  BY <1>1, <1>2, <1>5, WaiterProperties
<1>7. /\ x \in Records /\ Known(i, x, calls) /\ Flying(x)
      /\ x.stage = r.stage /\ x.kind = r.kind /\ x.refs = r.refs /\ x.early = r.early
      /\ (r.early => r.kind = "datagram") /\ r.stage # "unused"
  BY <1>1, <1>3, <1>4, <1>5, <1>6, Cancelled DEF Good, Staged
<1>8. CASE call[c].op \notin {"write", "connect"}
  BY <1>1, <1>2, <1>3, <1>4, <1>5, <1>8, LeaveStep DEF Changed
<1>9. CASE call[c].op \in {"write", "connect"}
  <2>1. Break(c, i, x, calls)
    BY <1>5, <1>9
  <2>2. CASE r.stage \notin Open
    <3>1. inner' = [inner EXCEPT ![i] = x] /\ call' = calls /\ UNCHANGED internal
      BY <1>7, <2>1, <2>2 DEF Break
    <3>2. Staged(i, x, calls)
      BY <1>4, <1>6, <1>7, StagedEnds DEF Good
    <3>3. x.stage \in {"closed", "gone"}
      BY <1>6, <1>7, <2>2 DEF Records
    <3>4. Ends(c, i, x)
      BY <1>1, <1>2, <1>4, <1>6, <1>7, <3>3 DEF Ends
    <3> QED
      BY <1>2, <1>4, <1>6, <1>7, <3>1, <3>2, <3>4, EndStep
  <2>3. CASE r.stage \in Open
    <3>1. /\ internal' = [s \in Sockets |-> IF internal[s] = i THEN Null ELSE internal[s]]
          /\ CloseStep(c, i, Closed(x), calls)
      BY <1>7, <2>1, <2>3 DEF Break
    <3>3. TypedCalls(calls) /\ calls[c] = Idle
          /\ \A d \in Coroutines \ {c} : calls[d] = call[d]
      BY <1>4, <1>6, FittingCalls, OneCall
    <3>4. NotLent(i)
      BY <1>1, <1>6, BusyIsNotLent
    <3> QED
      BY <1>1, <1>2, <1>6, <1>7, <2>3, <3>1, <3>3, <3>4, CloseBegins
  <2> QED
    BY <2>2, <2>3
<1> QED
  BY <1>8, <1>9

-----------------------------------------------------------------------------
(* The invariant and what it says *)

LEMMA InitInv == Init => IInv
<1> SUFFICES ASSUME Init PROVE IInv
  OBVIOUS
<1>1. /\ internal \in [Sockets -> Internals \cup {Null}]
      /\ \A s \in Sockets : internal[s] = Null
      /\ inner \in [Internals -> Records] /\ \A i \in Internals : inner[i] = Unused
      /\ \A c \in Coroutines : call[c] = Idle
  BY UnusedRecord DEF Init
<1>2. TypedCalls(call)
  BY IdleCall DEF Init, TypedCalls
<1>3. /\ Unused.stage = "unused" /\ Unused.refs = 0 /\ Unused.io = {}
      /\ Unused.waiter = NoCo /\ Unused.writers = <<>> /\ Unused.flight = <<>>
      /\ ~Unused.early
  BY DEF Unused
<1>4. \A i \in Internals : Good(i, inner[i], call)
  BY <1>1, <1>3, IdleCall, UnusedRecord, FreshIsGood
<1>5. RefsAreExact
  <2>1. \A i \in Internals : Bound(i) = {}
    BY <1>1, SocketAssumption DEF Bound
  <2> QED
    BY <1>1, <1>3, <2>1, FS_EmptySet DEF RefsAreExact, Open
<1>6. \A c \in Coroutines : Lent(c)
  BY <1>1, IdleCall DEF Lent
<1> QED
  BY <1>1, <1>2, <1>4, <1>5, <1>6 DEF IInv

LEMMA StutterInv == ASSUME IInv, UNCHANGED vars PROVE IInv'
BY DEF vars, IInv, RefsAreExact, Bound, Lent

LEMMA NextInv == ASSUME Allowed = {}, IInv, [Next]_vars PROVE IInv'
<1>1. ASSUME NEW c \in Coroutines, Begin(c) PROVE IInv'
  <2>1. PICK s \in Sockets :
           \/ \E kind \in Kinds : Construct(c, s, kind)
           \/ Close(c, s)
           \/ Listen(c, s) \/ Bind(c, s) \/ Read(c, s) \/ Write(c, s)
           \/ \E op \in {"resolve", "connect"} : Connect(c, s, op)
           \/ \E t \in Sockets \ {s} : Accept(c, s, t) \/ OpenSocket(c, s, t)
    BY <1>1 DEF Begin
  <2>2. ASSUME NEW kind \in Kinds, Construct(c, s, kind) PROVE IInv'
    BY <2>2, ConstructStep
  <2>3. ASSUME NEW op \in {"resolve", "connect"}, Connect(c, s, op) PROVE IInv'
    BY <2>3, ConnectStep
  <2>4. ASSUME NEW t \in Sockets, Accept(c, s, t) \/ OpenSocket(c, s, t) PROVE IInv'
    BY <2>4, AcceptStep, OpenSocketStep
  <2> QED
    BY <2>1, <2>2, <2>3, <2>4, CloseByUser, ListenStep, BindStep, ReadStep, WriteStep
<1>2. ASSUME NEW c \in Coroutines, End(c) PROVE IInv'
  BY <1>2, ReadDoneStep, BindDoneStep, AcceptDoneStep, ResolveDoneStep, ConnectDoneStep,
     InterruptStep DEF End
<1>3. ASSUME NEW c \in Coroutines, CloseGoesOn(c) PROVE IInv'
  BY <1>3, CloseGoesOnStep
<1>4. ASSUME NEW i \in Internals, WriteDone(i) \/ CloseCallback(i) PROVE IInv'
  BY <1>4, WriteDoneStep, CloseCallbackStep
<1>5. CASE UNCHANGED vars
  BY <1>5, StutterInv
<1> QED
  BY <1>1, <1>2, <1>3, <1>4, <1>5 DEF Next

LEMMA Invariance == ASSUME Allowed = {} PROVE Spec => []IInv
<1>1. Init => IInv
  BY InitInv
<1>2. IInv /\ [Next]_vars => IInv'
  BY NextInv
<1> QED
  BY <1>1, <1>2, PTL DEF Spec

\* The fields of an internal socket and the calls keep their types.
THEOREM TypeCorrect == ASSUME Allowed = {} PROVE Spec => []TypeOK
<1>1. IInv => TypeOK
  <2> SUFFICES ASSUME IInv PROVE TypeOK
    OBVIOUS
  <2>1. inner \in [Internals -> Records] /\ call \in [Coroutines -> Calls]
    BY DEF IInv, TypedCalls
  <2> QED
    BY <2>1 DEF IInv, TypeOK, Records, Calls, Entries, AllFlags
<1> QED
  BY <1>1, Invariance, PTL

LEMMA KnownFlags ==
    ASSUME IInv, NEW i \in Internals
    PROVE  LET r == inner[i]
               others == {c \in Coroutines :
                             call[c].on = i /\ call[c].op \in Waits \ {"write"}}
               flags == UNION {FlagsOf(call[c].op) : c \in others}
           IN  /\ ToSet(r.writers) =
                     {c \in Coroutines : call[c].on = i /\ call[c].op = "write"}
               /\ IsInjective(r.writers)
               /\ others = {r.waiter} \ {NoCo}
               /\ r.io \ {"write"} = flags \ {"write"}
               /\ r.early \/ ("write" \in r.io <=> "write" \in flags \/ r.writers # <<>>)
<1> DEFINE r == inner[i]
           others == {c \in Coroutines :
                         call[c].on = i /\ call[c].op \in Waits \ {"write"}}
           flags == UNION {FlagsOf(call[c].op) : c \in others}
<1>1. r \in Records /\ Known(i, r, call)
  BY DEF IInv, Good
<1> HIDE DEF r
<1>2. r.writers \in Seq(Coroutines) /\ r.waiter \in Coroutines \cup {NoCo}
  BY <1>1 DEF Records
<1>3. ToSet(r.writers) \subseteq Coroutines
  BY <1>2 DEF ToSet
<1>4. ToSet(r.writers) = {c \in Coroutines : call[c].on = i /\ call[c].op = "write"}
  BY <1>1, <1>3 DEF Known, Writes
<1>5. others = {r.waiter} \ {NoCo}
  BY <1>1, <1>2, SocketAssumption DEF Known, WaitsOn
<1>6. flags = WaiterFlags(r, call)
  <2>1. CASE r.waiter = NoCo
    BY <1>5, <2>1 DEF WaiterFlags
  <2>2. CASE r.waiter # NoCo
    <3>1. others = {r.waiter}
      BY <1>5, <2>2
    <3> HIDE DEF others
    <3> QED
      BY <2>2, <3>1 DEF WaiterFlags
  <2> QED
    BY <2>1, <2>2
<1> HIDE DEF flags
<1>7. r.io \ {"write"} = flags \ {"write"}
  BY <1>1, <1>6 DEF Known
<1>8. r.early \/ ("write" \in r.io <=> "write" \in flags \/ r.writers # <<>>)
  BY <1>1, <1>6 DEF Known, Exact, WriterFlags
<1> HIDE DEF others
<1> QED
  BY <1>1, <1>4, <1>5, <1>7, <1>8 DEF Known, r, others, flags

\* A close finds everybody who waits: cat_socket_internal_close_impl() goes by the flags
\* and the context, which name all of them, until something is sent while a name is
\* resolved; after that, whoever does not write is still found.
THEOREM CloseFindsAllWaiters == ASSUME Allowed = {} PROVE Spec => []WaitersAreKnown
<1>1. IInv => WaitersAreKnown
  BY KnownFlags DEF WaitersAreKnown
<1> QED
  BY <1>1, Invariance, PTL

\* Nobody waits on what cat_socket_internal_close() gave back to libuv, but for a writer
\* that it may miss after an early send; no object is bound to it, and the reference count
\* is that of the objects.
THEOREM ClosedIsNotUsed == ASSUME Allowed = {} PROVE Spec => []NobodyUsesTheClosed
<1>1. IInv => NobodyUsesTheClosed
  <2> SUFFICES ASSUME IInv PROVE NobodyUsesTheClosed
    OBVIOUS
  <2>1. ASSUME NEW c \in Coroutines, call[c].op # "none"
        PROVE  IsServed(call[c].on) \/ (call[c].op = "write" /\ inner[call[c].on].early)
    <3>1. PICK i \in Internals : i = call[c].on
      BY <2>1 DEF IInv, TypedCalls
    <3>2. Good(i, inner[i], call)
      BY DEF IInv
    <3> QED
      BY <2>1, <3>1, <3>2 DEF Good, Staged, IsServed
  <2>2. ASSUME NEW c \in Coroutines, call[c].op = "accept"
        PROVE  internal[call[c].with] # Null /\ inner[internal[call[c].with]].stage = "lazy"
    BY <2>2, SocketAssumption DEF IInv, Lent
  <2> QED
    BY <2>1, <2>2 DEF NobodyUsesTheClosed, IInv, RefsAreExact
<1> QED
  BY <1>1, Invariance, PTL

\* After a write was cut short (cat_socket_internal_write_raw()), the socket is closed for
\* everybody, so that nothing follows the part that was sent.
THEOREM TornWritesAreLast == ASSUME Allowed = {} PROVE Spec => []NobodyWritesAfterATornWrite
<1>1. IInv => NobodyWritesAfterATornWrite
  BY DEF IInv, Good, Torn, NobodyWritesAfterATornWrite
<1> QED
  BY <1>1, Invariance, PTL

\* The memory of cache.write_request is given to libuv once at a time, as long as nothing
\* is sent while a name is resolved.
THEOREM CachedRequestIsUsedOnce == ASSUME Allowed = {} PROVE Spec => []RequestsAreDistinct
<1>1. IInv => RequestsAreDistinct
  <2> SUFFICES ASSUME IInv, NEW i \in Internals, ~inner[i].early
               PROVE  LET cached == {n \in DOMAIN inner[i].flight : inner[i].flight[n].cached}
                      IN  Cardinality(cached) <= 1 /\ (cached # {} => inner[i].cache)
    BY DEF RequestsAreDistinct
  <2> DEFINE cached == {n \in DOMAIN inner[i].flight : inner[i].flight[n].cached}
  <2>1. CachedOnce(inner[i])
    BY DEF IInv, Good, Flying, Flown
  <2>2. \A m, n \in cached : m = n
    BY <2>1 DEF CachedOnce
  <2>3. cached # {} => inner[i].cache
    BY <2>1 DEF CachedOnce
  <2> SUFFICES Cardinality(cached) <= 1 /\ (cached # {} => inner[i].cache)
    OBVIOUS
  <2> HIDE DEF cached
  <2>4. CASE cached = {}
    BY <2>3, <2>4, FS_EmptySet
  <2>5. CASE cached # {}
    <3>1. PICK n \in cached : cached = {n}
      <4>1. PICK n : n \in cached
        BY <2>5
      <4>2. cached = {n}
        BY <2>2, <4>1
      <4> QED
        BY <4>1, <4>2
    <3>2. Cardinality(cached) = 1
      BY <3>1, FS_Singleton
    <3> QED
      BY <2>3, <3>2
  <2> QED
    BY <2>4, <2>5
<1> QED
  BY <1>1, Invariance, PTL
=============================================================================
