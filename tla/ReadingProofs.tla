---------------------------- MODULE ReadingProofs -----------------------------
(***************************************************************************)
(* What is read, where it is kept and how it is taken apart: proofs about  *)
(* Buffer, and behind them about Receiver.                                 *)
(*                                                                         *)
(* Of a buffer, what holds whatever its program does, what else as long as *)
(* strings are counted, and what else in a careful program, for any number *)
(* of buffers, variables and coroutines and any sizes.  What makes it so:  *)
(* a string is changed, but at the end of a read, through its single owner *)
(* only, and a careful program leaves that alone during a read.            *)
(*                                                                         *)
(* When nobody takes liberties (Liberties = {}), the receiver returns what *)
(* was sent and refuses nothing else, for any streams, any limits, any     *)
(* size of the buffer and any pieces that come.  What makes it so: the     *)
(* receiver is always at one position of the stream, and all that it knows *)
(* and holds is what the stream has before and behind that.                *)
(***************************************************************************)
EXTENDS Buffer, Receiver, QueueProofs, SequenceTheorems, TLAPS

-----------------------------------------------------------------------------
(* The invariant of buffers *)

References == [AllStrings -> SUBSET (Holders \cup {Null})]
Stores == [AllStrings -> Seq(Bytes \cup {Junk})]
Locks == [Buffers -> Coroutines \cup {NoCo}]

Calls == [op : {"none", "read", "write"},
          buffer : Buffers \cup {Null}, string : AllStrings \cup {Null},
          offset : Nat, size : Nat, sent : Seq(Bytes \cup {Junk})]

\* The types, and that a call that goes on has a string.
Typed == TypeOK /\ \A c \in Coroutines : io[c].op # "none" => io[c].string \in AllStrings

SizeFits(b) == (value[b] = Null => size[b] = 0) /\ (Fresh => length[b] <= size[b])

SizesFit == \A b \in Buffers : SizeFits(b)

\* If c reads, then into a buffer that it has locked.
ReadAt(c) ==
    io[c].op = "read" =>
        /\ io[c].buffer \in Buffers
        /\ locker[io[c].buffer] = c
        /\ value[io[c].buffer] # Null
        /\ Fresh =>
              /\ io[c].offset <= length[io[c].buffer]
              /\ io[c].offset + io[c].size <= size[io[c].buffer]
              /\ "read into shared" \in allowed \/ value[io[c].buffer] = io[c].string

Reads == \A c \in Coroutines : ReadAt(c)

Exact == \A s \in Strings : \A h : h \in owners[s] <=> h \in Holders /\ Holds(h, s)

\* Coroutine c reads into the string of a buffer that has it for itself.
Alone(c) == io[c].string \in Strings /\ owners[io[c].string] = {io[c].buffer}

\* What holds of careful programs.
Pure ==
    /\ HeldStringsNeverChange
    /\ \A s \in AllStrings : data[s] \in Seq(Bytes)
    /\ \A b \in Buffers : length[b] = Len(Shown(b))
    /\ \A c \in Coroutines : io[c].op = "read" => Alone(c)

IInv == Typed /\ SizesFit /\ Reads /\ (Counting => Exact) /\ (Careful => Pure)

\* A step that keeps the invariant and changes no string that is shared.
Good == IInv' /\ (Counting => SharedStringsAreCopied)

LEMMA Kinds ==
    /\ Careful => Counting /\ Fresh /\ allowed = {}
    /\ Counting => Fresh /\ "serialize counted" \notin allowed
BY DEF Careful, Counting, Fresh

LEMMA InvInit == Init => IInv
<1> SUFFICES ASSUME Init PROVE IInv
  OBVIOUS
<1> USE BufferAssumption DEF Init
<1>1. Typed
  BY DEF Typed, TypeOK, AllStrings, Idle
<1>2. Exact
  BY DEF Exact, Holds, AllStrings, Holders, Idle
<1>3. SizesFit
  BY DEF SizesFit, SizeFits
<1> HIDE DEF Init
<1>5. Reads
  BY DEF Init, Reads, ReadAt, Idle
<1> USE DEF Init
<1>4. Pure
  BY DEF Pure, HeldStringsNeverChange, Shown, Idle, AllStrings
<1> QED
  BY <1>1, <1>2, <1>3, <1>4, <1>5 DEF IInv

-----------------------------------------------------------------------------
(* Bytes *)

LEMMA SliceProperties ==
    ASSUME NEW S, NEW q \in Seq(S), NEW start \in Nat, NEW n \in Nat, start + n <= Len(q)
    PROVE  Slice(q, start, n) \in Seq(S) /\ Len(Slice(q, start, n)) = n
BY DEF Slice

LEMMA TakeProperties ==
    ASSUME NEW S, NEW q \in Seq(S), NEW n \in Nat
    PROVE  Take(q, n) \in Seq(S) /\ Len(Take(q, n)) = Smaller(n, Len(q))
BY DEF Take, Smaller

LEMMA MemoryProperties ==
    ASSUME NEW q \in Seq(Bytes \cup {Junk}), NEW n \in Nat
    PROVE  /\ Memory(q, n) \in Seq(Bytes \cup {Junk}) /\ Len(Memory(q, n)) = n
           /\ n = Len(q) => Memory(q, n) = q
<1>1. Memory(q, n) \in [1..n -> Bytes \cup {Junk}]
  BY DEF Memory
<1>2. \A T : \A m \in Nat : \A f \in [1..m -> T] : f \in Seq(T) /\ Len(f) = m
  OBVIOUS
<1>3. n = Len(q) => Memory(q, n) = q
  BY DEF Memory
<1> QED
  BY <1>1, <1>2, <1>3, Zenon

LEMMA OverlayProperties ==
    ASSUME NEW old \in Seq(Bytes \cup {Junk}), NEW new \in Seq(Bytes \cup {Junk}),
           NEW offset \in Nat
    PROVE  /\ Overlay(old, offset, new) \in Seq(Bytes \cup {Junk})
           /\ Len(Overlay(old, offset, new)) = Larger(Len(old), offset + Len(new))
           /\ (old \in Seq(Bytes) /\ new \in Seq(Bytes) /\ offset <= Len(old))
              => Overlay(old, offset, new) \in Seq(Bytes)
<1> DEFINE n == Larger(Len(old), offset + Len(new))
<1>1. n \in Nat
  BY DEF Larger
<1>2. Overlay(old, offset, new) \in [1..n -> Bytes \cup {Junk}]
  BY DEF Overlay, Larger
<1>3. (old \in Seq(Bytes) /\ new \in Seq(Bytes) /\ offset <= Len(old))
      => Overlay(old, offset, new) \in [1..n -> Bytes]
  BY DEF Overlay, Larger
<1>4. \A T : \A m \in Nat : \A f \in [1..m -> T] : f \in Seq(T) /\ Len(f) = m
  OBVIOUS
<1> QED
  BY <1>1, <1>2, <1>3, <1>4, Zenon

\* The length of a buffer of length l that gets bytes up to e.
LEMMA LargerProperties ==
    ASSUME NEW l \in Nat, NEW e \in Nat
    PROVE  /\ Larger(l, e) \in Nat /\ Larger(l, e) = (IF e > l THEN e ELSE l)
           /\ Smaller(e, e) = e
BY DEF Larger, Smaller

\* What the buffers show and believe.
LEMMA ShownProperties ==
    ASSUME IInv, NEW b \in Buffers
    PROVE  /\ length[b] \in Nat /\ size[b] \in Nat /\ (Fresh => length[b] <= size[b])
           /\ Shown(b) \in Seq(Bytes \cup {Junk})
           /\ Readable(b) \in Seq(Bytes \cup {Junk}) /\ Len(Readable(b)) = length[b]
           /\ Own(b) \in Seq(Bytes \cup {Junk})
           /\ Careful => /\ Shown(b) \in Seq(Bytes) /\ Len(Shown(b)) = length[b]
                         /\ Readable(b) = Shown(b) /\ Own(b) = Shown(b)
<1>1. length[b] \in Nat /\ size[b] \in Nat /\ (Fresh => length[b] <= size[b])
  BY DEF IInv, Typed, TypeOK, SizesFit, SizeFits
<1>2. Shown(b) \in Seq(Bytes \cup {Junk})
  BY DEF IInv, Typed, TypeOK, Shown
<1>3. Careful => Shown(b) \in Seq(Bytes) /\ Len(Shown(b)) = length[b]
  BY DEF IInv, Typed, TypeOK, Pure, Shown
<1>4. /\ Memory(Shown(b), length[b]) \in Seq(Bytes \cup {Junk})
      /\ Len(Memory(Shown(b), length[b])) = length[b]
      /\ length[b] = Len(Shown(b)) => Memory(Shown(b), length[b]) = Shown(b)
  <2> DEFINE q == Shown(b)
             n == length[b]
  <2>1. q \in Seq(Bytes \cup {Junk}) /\ n \in Nat
    BY <1>1, <1>2
  <2> HIDE DEF q, n
  <2>2. /\ Memory(q, n) \in Seq(Bytes \cup {Junk}) /\ Len(Memory(q, n)) = n
        /\ n = Len(q) => Memory(q, n) = q
    BY <2>1, MemoryProperties
  <2> QED
    BY <2>2 DEF q, n
<1> QED
  BY <1>1, <1>2, <1>3, <1>4 DEF Readable, Own

-----------------------------------------------------------------------------
(* References *)

\* One reference more or less.
LEMMA OneEnd ==
    ASSUME NEW refs, NEW h, NEW s
    PROVE  /\ DelRef(refs, h, s) = Moved(refs, h, s, Null)
           /\ AddRef(refs, h, s) = Moved(refs, h, Null, s)
BY BufferAssumption DEF Moved, AddRef, DelRef, AllStrings

\* Where h is counted as the holder of from and of nothing else, it is moved to to.
LEMMA MovedProperties ==
    ASSUME NEW refs \in References, NEW h \in Holders, NEW from, NEW to
    PROVE  /\ Moved(refs, h, from, to) \in References
           /\ (\A t \in Strings : h \in refs[t] <=> t = from)
              => \A t \in Strings : \A k :
                    k \in Moved(refs, h, from, to)[t]
                       <=> IF k = h THEN t = to ELSE k \in refs[t]
<1> DEFINE mid == DelRef(refs, h, from)
<1>1. mid \in References
  BY DEF DelRef, References, AllStrings
<1>2. (\A t \in Strings : h \in refs[t] <=> t = from)
      => \A t \in Strings : \A k : k \in mid[t] <=> k # h /\ k \in refs[t]
  BY DEF DelRef, References, AllStrings
<1> HIDE DEF mid
<1>3. /\ AddRef(mid, h, to) \in References
      /\ \A t \in Strings : \A k : k \in AddRef(mid, h, to)[t] <=> (k = h /\ t = to) \/ k \in mid[t]
  BY <1>1 DEF AddRef, References, AllStrings
<1> QED
  BY <1>2, <1>3 DEF Moved, mid

\* The references when holder h, that held only from, lets go of it and takes to.
LEMMA MovedExact ==
    ASSUME IInv, NEW h \in Holders, NEW from, NEW to,
           \A t \in Strings : Holds(h, t) <=> t = from
    PROVE  /\ Moved(owners, h, from, to) \in References
           /\ Counting => \A t \in Strings : \A k :
                 k \in Moved(owners, h, from, to)[t]
                    <=> IF k = h THEN t = to ELSE k \in owners[t]
<1>1. owners \in References
  BY DEF IInv, Typed, TypeOK, References
<1>2. Counting => \A t \in Strings : h \in owners[t] <=> t = from
  BY DEF IInv, Exact
<1> QED
  BY <1>1, <1>2, MovedProperties

\* What is left of settled references.
LEMMA Settled ==
    ASSUME NEW refs \in References, NEW bytes \in Stores, Settle(refs, bytes)
    PROVE  /\ owners' = refs /\ owners' \in References /\ data' \in Stores
           /\ \A s \in AllStrings :
                 data'[s] = bytes[s] \/ (s \in Strings /\ owners'[s] = {} /\ data'[s] = <<>>)
           /\ (\A s \in AllStrings : bytes[s] \in Seq(Bytes))
              => \A s \in AllStrings : data'[s] \in Seq(Bytes)
<1>1. data' = [s \in AllStrings |-> IF s \in Strings /\ refs[s] = {} THEN <<>> ELSE bytes[s]]
  BY DEF Settle
<1>2. <<>> \in Seq(Bytes) /\ <<>> \in Seq(Bytes \cup {Junk})
  OBVIOUS
<1> QED
  BY <1>1, <1>2 DEF Settle, Stores

-----------------------------------------------------------------------------
(* What a step has to show *)

\* The only strings that change are of nobody, or of buffer b alone, or a read ends.
Quiet(b) ==
    \A s \in AllStrings :
       \/ data'[s] = data[s] \/ ReadEnds(s)
       \/ s \in Strings /\ (\/ owners[s] = {} \/ owners'[s] = {}
                            \/ b \in Buffers /\ value[b] = s /\ Exclusive(b))

\* The buffers but b are as they were.
Others(b) ==
    \A a \in Buffers \ {b} :
       /\ value'[a] = value[a] /\ size'[a] = size[a] /\ length'[a] = length[a]
       /\ locker'[a] = locker[a]

\* Who still reads.
StillReads(c) == c \in Coroutines /\ io'[c] = io[c] /\ io[c].op = "read"

\* A step in a careful program, through buffer b.
Gentle(b) ==
    /\ \A s \in AllStrings : data'[s] \in Seq(Bytes)
    /\ \A v \in Variables :
          variable'[v] # Null => \/ variable'[v] = variable[v] /\ seen'[v] = seen[v]
                                 \/ seen'[v] = data'[variable'[v]]
    /\ \A c \in Coroutines :
          io'[c].op = "write" => io'[c] = io[c] \/ io'[c].sent = data'[io'[c].string]
    /\ b \in Buffers => length'[b] = Len(Shown(b)')
    /\ \A c \in Coroutines : io[c].op = "read" => io'[c] = io[c] \/ io[c].buffer = b
    /\ \A c \in Coroutines :
          io'[c].op = "read" =>
             \/ /\ io'[c] = io[c]
                /\ \A h : h \in owners'[io[c].string] => h \in owners[io[c].string]
             \/ Alone(c)'

LEMMA StringsCopied ==
    ASSUME Exact, Exact', NEW b, Quiet(b)
    PROVE  SharedStringsAreCopied
<1> USE BufferAssumption
<1> SUFFICES ASSUME NEW s \in AllStrings, IsShared(s), IsShared(s)', data'[s] # data[s],
                    ~ReadEnds(s)
             PROVE  FALSE
  BY DEF SharedStringsAreCopied
<1>1. s \in Strings /\ s \notin Literals
  BY DEF Quiet
<1>2. \E h \in Holders : Holds(h, s)
  BY <1>1 DEF IsShared, Holders
<1>3. \E h \in Holders : Holds(h, s)'
  BY <1>1 DEF IsShared, Holders
<1>4. b \in Buffers /\ value[b] = s /\ Exclusive(b)
  BY <1>1, <1>2, <1>3 DEF Quiet, Exact
<1>5. PICK k : owners[s] = {k}
  BY <1>4 DEF Exclusive
<1>6. \A h \in Holders : Holds(h, s) => h = b
  BY <1>1, <1>4, <1>5 DEF Exact, Holds, Holders
<1>7. \A h \in Variables \cup Coroutines : ~Holds(h, s)
  BY <1>4, <1>6 DEF Holders
<1>8. \A h \in Buffers : Holds(h, s) => h = b
  BY <1>6 DEF Holders
<1> QED
  BY <1>1, <1>7, <1>8 DEF IsShared

\* What is read into at the end of a read, in a careful program.
LEMMA ReadEndsAlone ==
    ASSUME IInv, Careful, NEW s \in AllStrings, ReadEnds(s)
    PROVE  \E c \in Coroutines :
              /\ io[c].op = "read" /\ io'[c].op = "none" /\ s \in Strings
              /\ owners[s] = {io[c].buffer} /\ io[c].buffer \in Buffers
<1>1. PICK c \in Coroutines :
         /\ io[c].op = "read" /\ io'[c].op = "none"
         /\ s \in {io[c].string, value[io[c].buffer]}
  BY DEF ReadEnds
<1>2. ReadAt(c) /\ Alone(c)
  BY <1>1 DEF IInv, Reads, Pure
<1>3. s = io[c].string
  BY <1>1, <1>2, Kinds DEF ReadAt
<1> QED
  BY <1>1, <1>2, <1>3 DEF ReadAt, Alone

LEMMA HeldStays ==
    ASSUME IInv, Careful, Typed', Exact', NEW b \in Buffers \cup {Null}, Quiet(b), Gentle(b)
    PROVE  HeldStringsNeverChange'
<1> USE BufferAssumption
<1>1. Exact /\ HeldStringsNeverChange
  BY Kinds DEF IInv, Pure
<1>2. ASSUME NEW s \in AllStrings, NEW h \in Variables \cup Coroutines,
             Holds(h, s), Holds(h, s)'
      PROVE  data'[s] = data[s]
  <2>1. h \in Holders /\ IsShared(s) /\ IsShared(s)'
    BY <1>2 DEF IsShared, Holders
  <2>2. data'[s] = data[s] \/ ReadEnds(s)
    BY <1>1, <2>1, StringsCopied DEF SharedStringsAreCopied
  <2>3. ~ReadEnds(s)
    <3> SUFFICES ASSUME ReadEnds(s) PROVE FALSE
      OBVIOUS
    <3>1. PICK a \in Buffers : s \in Strings /\ owners[s] = {a}
      BY ReadEndsAlone
    <3>2. h \in owners[s] /\ h # a
      BY <1>1, <1>2, <2>1, <3>1 DEF Exact
    <3> QED
      BY <3>1, <3>2
  <2> QED
    BY <2>2, <2>3
<1>3. ASSUME NEW v \in Variables, variable'[v] # Null
      PROVE  data'[variable'[v]] = seen'[v]
  <2>1. CASE variable'[v] = variable[v] /\ seen'[v] = seen[v]
    <3>1. PICK s \in AllStrings : s = variable[v]
      BY <1>3, <2>1 DEF IInv, Typed, TypeOK
    <3>2. Holds(v, s) /\ Holds(v, s)'
      BY <2>1, <3>1 DEF Holds
    <3>3. data'[s] = data[s] /\ data[s] = seen[v]
      BY <1>1, <1>2, <1>3, <2>1, <3>1, <3>2 DEF HeldStringsNeverChange
    <3> QED
      BY <2>1, <3>1, <3>3
  <2> QED
    BY <1>3, <2>1 DEF Gentle
<1>4. ASSUME NEW c \in Coroutines, io'[c].op = "write"
      PROVE  data'[io'[c].string] = io'[c].sent
  <2>1. CASE io'[c] = io[c]
    <3>1. PICK s \in AllStrings : s = io[c].string
      BY <1>4, <2>1 DEF IInv, Typed
    <3>2. Holds(c, s) /\ Holds(c, s)'
      BY <1>4, <2>1, <3>1 DEF Holds
    <3>3. data'[s] = data[s] /\ data[s] = io[c].sent
      BY <1>1, <1>2, <1>4, <2>1, <3>1, <3>2 DEF HeldStringsNeverChange
    <3> QED
      BY <2>1, <3>1, <3>3
  <2> QED
    BY <1>4, <2>1 DEF Gentle
<1> QED
  BY <1>3, <1>4 DEF HeldStringsNeverChange

LEMMA SoundStays ==
    ASSUME IInv, Careful, Typed', Exact', NEW b \in Buffers \cup {Null}, Quiet(b),
           Others(b), Gentle(b), NEW a \in Buffers
    PROVE  length'[a] = Len(Shown(a)')
<1> USE BufferAssumption
<1>1. Exact /\ length[a] = Len(Shown(a))
  BY Kinds DEF IInv, Pure
<1>2. CASE a = b
  BY <1>2 DEF Gentle
<1>3. CASE a # b
  <2>1. value'[a] = value[a] /\ length'[a] = length[a]
    BY <1>3 DEF Others
  <2>2. CASE value[a] = Null
    BY <1>1, <2>1, <2>2 DEF Shown
  <2>3. CASE value[a] # Null
    <3>1. PICK s \in AllStrings : s = value[a]
      BY <2>3 DEF IInv, Typed, TypeOK
    <3>2. s \in Strings => a \in owners[s] /\ a \in owners'[s]
      BY <1>1, <2>1, <3>1 DEF Exact, Holds, Holders
    <3>3. ~(b \in Buffers /\ value[b] = s /\ Exclusive(b) /\ s \in Strings)
      <4> SUFFICES ASSUME b \in Buffers, value[b] = s, Exclusive(b), s \in Strings PROVE FALSE
        OBVIOUS
      <4>1. b \in owners[s]
        BY <1>1 DEF Exact, Holds, Holders
      <4> QED
        BY <1>3, <3>2, <4>1 DEF Exclusive
    <3>4. ~ReadEnds(s)
      <4> SUFFICES ASSUME ReadEnds(s) PROVE FALSE
        OBVIOUS
      <4>1. PICK c \in Coroutines :
               /\ io[c].op = "read" /\ io'[c].op = "none" /\ s \in Strings
               /\ owners[s] = {io[c].buffer}
        BY ReadEndsAlone
      <4>2. io[c].buffer = b
        BY <4>1 DEF Gentle
      <4> QED
        BY <1>3, <3>2, <4>1, <4>2
    <3>5. data'[s] = data[s]
      BY <3>2, <3>3, <3>4 DEF Quiet
    <3> QED
      BY <1>1, <2>1, <2>3, <3>1, <3>5 DEF Shown
  <2> QED
    BY <2>2, <2>3
<1> QED
  BY <1>2, <1>3

LEMMA AloneStays ==
    ASSUME IInv, Careful, Exact', Reads', UNCHANGED allowed, NEW b, Gentle(b),
           NEW c \in Coroutines, io'[c].op = "read"
    PROVE  Alone(c)'
<1>1. CASE /\ io'[c] = io[c]
           /\ \A h : h \in owners'[io[c].string] => h \in owners[io[c].string]
  <2>1. Alone(c) /\ ReadAt(c) /\ ReadAt(c)' /\ Careful'
    BY <1>1 DEF IInv, Reads, Pure, Careful
  <2>2. Fresh' /\ allowed' = {}
    BY <2>1 DEF Fresh, Careful
  <2>3. value'[io[c].buffer] = io[c].string /\ io[c].buffer \in Buffers
    BY <1>1, <2>1, <2>2 DEF ReadAt
  <2>4. io[c].buffer \in owners'[io[c].string]
    BY <2>1, <2>3 DEF Exact, Holds, Holders, Alone
  <2> QED
    BY <1>1, <2>1, <2>4 DEF Alone
<1> QED
  BY <1>1 DEF Gentle

\* All that a step has to show.
LEMMA StepInv ==
    ASSUME IInv, UNCHANGED allowed, NEW b \in Buffers \cup {Null}, Typed', Others(b), Quiet(b),
           b \in Buffers => SizeFits(b)',
           \A c \in Coroutines :
              io'[c].op = "read" => (StillReads(c) /\ io[c].buffer # b) \/ ReadAt(c)',
           Counting => Exact', Careful => Gentle(b)
    PROVE  Good
<1>1. (Fresh' <=> Fresh) /\ (Counting' <=> Counting) /\ (Careful' <=> Careful)
  BY DEF Fresh, Counting, Careful
<1>2. SizesFit'
  <2> SUFFICES ASSUME NEW a \in Buffers PROVE SizeFits(a)'
    BY DEF SizesFit
  <2>1. CASE a # b
    BY <1>1, <2>1 DEF IInv, SizesFit, SizeFits, Others
  <2> QED
    BY <2>1
<1>3. Reads'
  <2> SUFFICES ASSUME NEW c \in Coroutines, io'[c].op = "read" PROVE ReadAt(c)'
    BY DEF Reads, ReadAt
  <2>1. CASE StillReads(c) /\ io[c].buffer # b
    <3>1. ReadAt(c) /\ io'[c] = io[c] /\ io[c].op = "read"
      BY <2>1 DEF IInv, Reads, StillReads
    <3>2. PICK a \in Buffers \ {b} : a = io[c].buffer
      BY <2>1, <3>1 DEF ReadAt
    <3> QED
      BY <1>1, <3>1, <3>2 DEF ReadAt, Others
  <2> QED
    BY <2>1
<1>4. Counting => SharedStringsAreCopied
  BY StringsCopied DEF IInv
<1>5. ASSUME Careful PROVE Pure'
  <2>1. Exact' /\ Gentle(b)
    BY <1>5, Kinds
  <2>2. \A s \in AllStrings : data'[s] \in Seq(Bytes)
    BY <2>1 DEF Gentle
  <2>3. HeldStringsNeverChange'
    BY <1>5, <2>1, HeldStays
  <2>4. \A a \in Buffers : length'[a] = Len(Shown(a)')
    BY <1>5, <2>1, SoundStays
  <2>5. \A c \in Coroutines : io'[c].op = "read" => Alone(c)'
    BY <1>3, <1>5, <2>1, AloneStays
  <2> QED
    BY <2>2, <2>3, <2>4, <2>5 DEF Pure
<1> QED
  BY <1>1, <1>2, <1>3, <1>4, <1>5 DEF Good, IInv

-----------------------------------------------------------------------------
(* The kinds of steps *)

\* No write begins or ends, and reads only through buffer b.
ReadsOnly(b) ==
    /\ io' \in [Coroutines -> Calls]
    /\ \A c \in Coroutines : io'[c].op # "none" => io'[c].string \in AllStrings
    /\ \A c \in Coroutines :
          \/ io'[c] = io[c]
          \/ /\ io[c].op # "write" /\ io'[c].op # "write" /\ ReadAt(c)'
             /\ (Careful /\ io[c].op = "read") => io[c].buffer = b
             /\ (Careful /\ io'[c].op = "read") => Alone(c)'

LEMMA CallsStay ==
    ASSUME IInv, UNCHANGED io, NEW b
    PROVE  ReadsOnly(b)
BY DEF ReadsOnly, IInv, Typed, TypeOK, Calls

\* Buffer b gets string s, where nobody else has it if it is changed.
Rebind(b, s, n, len, refs, bytes) ==
    /\ Settle(refs, bytes) /\ SetValue(b, s, n, len)
    /\ UNCHANGED <<variable, seen, allowed>>
    /\ ReadsOnly(b)
    /\ locker' \in Locks /\ \A a \in Buffers \ {b} : locker'[a] = locker[a]
    /\ (s = Null => n = 0) /\ (Fresh => len <= n)
    /\ \A c \in Coroutines : StillReads(c) /\ io[c].buffer = b => ReadAt(c)'
    /\ Counting => \A t \in Strings : \A h :
          h \in refs[t] <=> IF h = b THEN t = s ELSE h \in owners[t]
    /\ \A t \in AllStrings :
          \/ bytes[t] = data[t] \/ ReadEnds(t)
          \/ t \in Strings /\ (owners[t] = {} \/ (value[b] = t /\ Exclusive(b)))
    /\ Careful =>
          /\ \A t \in AllStrings : bytes[t] \in Seq(Bytes)
          /\ len = IF s = Null THEN 0 ELSE Len(bytes[s])
          /\ \A c \in Coroutines : StillReads(c) => io[c].buffer # b /\ io[c].string # s

LEMMA BufferChange ==
    ASSUME IInv, NEW b \in Buffers, NEW s \in AllStrings \cup {Null}, NEW n \in Nat,
           NEW len \in Nat, NEW refs \in References, NEW bytes \in Stores,
           Rebind(b, s, n, len, refs, bytes)
    PROVE  Good
<1> USE BufferAssumption
<1>1. /\ owners' = refs /\ owners' \in References /\ data' \in Stores
      /\ \A t \in AllStrings :
            data'[t] = bytes[t] \/ (t \in Strings /\ owners'[t] = {} /\ data'[t] = <<>>)
      /\ (\A t \in AllStrings : bytes[t] \in Seq(Bytes)) => \A t \in AllStrings : data'[t] \in Seq(Bytes)
  BY Settled DEF Rebind
<1>2. Typed
  BY DEF IInv
<1>3. /\ value' \in [Buffers -> AllStrings \cup {Null}] /\ size' \in [Buffers -> Nat]
      /\ length' \in [Buffers -> Nat]
      /\ value'[b] = s /\ size'[b] = n /\ length'[b] = len /\ Others(b)
  BY <1>2 DEF Rebind, SetValue, Typed, TypeOK, Others
<1>4. ReadsOnly(b)
  BY DEF Rebind
<1>5. Typed'
  BY <1>1, <1>2, <1>3, <1>4
     DEF Typed, TypeOK, ReadsOnly, Rebind, References, Stores, Locks, Calls
<1>6. ASSUME Counting PROVE Exact'
  <2> SUFFICES ASSUME NEW t \in Strings, NEW h
               PROVE  h \in owners'[t] <=> h \in Holders /\ Holds(h, t)'
    BY DEF Exact
  <2>1. h \in owners[t] <=> h \in Holders /\ Holds(h, t)
    BY <1>6 DEF IInv, Exact
  <2>2. h \in owners'[t] <=> IF h = b THEN t = s ELSE h \in owners[t]
    BY <1>1, <1>6 DEF Rebind
  <2>3. CASE h = b
    BY <1>3, <2>2, <2>3 DEF Holds, Holders
  <2>4. CASE h # b
    <3>1. h \in Coroutines => (io'[h].op = "write" /\ io'[h].string = t
                                  <=> io[h].op = "write" /\ io[h].string = t)
      BY <1>4 DEF ReadsOnly
    <3>2. h \in Buffers => value'[h] = value[h]
      BY <1>3, <2>4 DEF Others
    <3>3. Holds(h, t)' <=> Holds(h, t)
      BY <3>1, <3>2 DEF Holds, Rebind
    <3> QED
      BY <2>1, <2>2, <2>4, <3>3
  <2> QED
    BY <2>3, <2>4
<1>7. Quiet(b)
  BY <1>1 DEF Quiet, Rebind
<1>8. ASSUME Careful PROVE Gentle(b)
  <2>1. Counting /\ Exact'
    BY <1>6, <1>8, Kinds
  <2>2. \A t \in AllStrings : data'[t] \in Seq(Bytes)
    BY <1>1, <1>8 DEF Rebind
  <2>3. length'[b] = Len(Shown(b)')
    <3>1. s \in Strings => owners'[s] # {}
      BY <1>3, <2>1 DEF Exact, Holds, Holders
    <3>2. s # Null => data'[s] = bytes[s]
      BY <1>1, <3>1
    <3> QED
      BY <1>3, <1>8, <3>2 DEF Rebind, Shown
  <2>4. ASSUME NEW c \in Coroutines, io'[c] = io[c], io'[c].op = "read",
               NEW h, h \in owners'[io[c].string]
        PROVE  h \in owners[io[c].string]
    <3>1. io[c].string # s /\ io[c].string \in Strings
      BY <1>8, <2>4 DEF Rebind, StillReads, IInv, Pure, Alone
    <3> QED
      BY <1>1, <2>1, <2>4, <3>1 DEF Rebind
  <2> QED
    BY <1>4, <1>8, <2>2, <2>3, <2>4 DEF Gentle, ReadsOnly, Rebind
<1>9. \A c \in Coroutines :
         io'[c].op = "read" => (StillReads(c) /\ io[c].buffer # b) \/ ReadAt(c)'
  BY <1>4 DEF ReadsOnly, Rebind, StillReads
<1>10. SizeFits(b)' /\ UNCHANGED allowed
  BY <1>3 DEF SizeFits, Rebind, Fresh
<1> QED
  BY <1>3, <1>5, <1>6, <1>7, <1>8, <1>9, <1>10, StepInv

\* Variable v gets string s, and buffer b, if it is one, is emptied.
Assigned(v, s, b, refs, bytes) ==
    /\ Settle(refs, bytes)
    /\ variable' = [variable EXCEPT ![v] = s]
    /\ seen' = [seen EXCEPT ![v] = IF s = Null THEN <<>> ELSE bytes[s]]
    /\ UNCHANGED <<locker, io, allowed>>
    /\ IF b = Null THEN UNCHANGED <<value, size, length>> ELSE SetValue(b, Null, 0, 0)
    /\ Counting => \A t \in Strings : \A h :
          h \in refs[t] <=> IF h = v THEN t = s ELSE h \in owners[t] /\ h # b
    /\ \A t \in AllStrings : bytes[t] = data[t] \/ (t \in Strings /\ owners[t] = {})
    /\ \A c \in Coroutines : io[c].op = "read" => io[c].buffer # b
    /\ Careful => /\ \A t \in AllStrings : bytes[t] \in Seq(Bytes)
                  /\ \A c \in Coroutines : io[c].op = "read" => io[c].string # s

LEMMA VariableChange ==
    ASSUME IInv, NEW v \in Variables, NEW s \in AllStrings \cup {Null},
           NEW b \in Buffers \cup {Null}, NEW refs \in References, NEW bytes \in Stores,
           Assigned(v, s, b, refs, bytes)
    PROVE  Good
<1> USE BufferAssumption
<1>1. /\ owners' = refs /\ owners' \in References /\ data' \in Stores
      /\ \A t \in AllStrings :
            data'[t] = bytes[t] \/ (t \in Strings /\ owners'[t] = {} /\ data'[t] = <<>>)
      /\ (\A t \in AllStrings : bytes[t] \in Seq(Bytes)) => \A t \in AllStrings : data'[t] \in Seq(Bytes)
  BY Settled DEF Assigned
<1>2. Typed
  BY DEF IInv
<1>3. /\ value' \in [Buffers -> AllStrings \cup {Null}] /\ size' \in [Buffers -> Nat]
      /\ length' \in [Buffers -> Nat] /\ Others(b)
      /\ b \in Buffers => value'[b] = Null /\ size'[b] = 0 /\ length'[b] = 0
  <2>1. CASE b = Null
    BY <1>2, <2>1 DEF Assigned, Typed, TypeOK, Others, Holders
  <2>2. CASE b # Null
    <3>1. /\ value' = [value EXCEPT ![b] = Null] /\ size' = [size EXCEPT ![b] = 0]
          /\ length' = [length EXCEPT ![b] = 0] /\ UNCHANGED locker /\ b \in Buffers
      BY <2>2 DEF Assigned, SetValue
    <3> QED
      BY <1>2, <3>1 DEF Typed, TypeOK, Others
  <2> QED
    BY <2>1, <2>2
<1>4. /\ variable'[v] = s /\ \A w \in Variables \ {v} : variable'[w] = variable[w] /\ seen'[w] = seen[w]
      /\ s # Null => seen'[v] = bytes[s]
      /\ variable' \in [Variables -> AllStrings \cup {Null}]
      /\ seen' \in [Variables -> Seq(Bytes \cup {Junk})]
  <2>1. (IF s = Null THEN <<>> ELSE bytes[s]) \in Seq(Bytes \cup {Junk})
    BY DEF Stores
  <2> QED
    BY <1>2, <2>1 DEF Assigned, Typed, TypeOK
<1>5. Typed'
  BY <1>1, <1>2, <1>3, <1>4 DEF Typed, TypeOK, Assigned, References, Stores
<1>6. ASSUME Counting PROVE Exact'
  <2> SUFFICES ASSUME NEW t \in Strings, NEW h
               PROVE  h \in owners'[t] <=> h \in Holders /\ Holds(h, t)'
    BY DEF Exact
  <2>1. h \in owners[t] <=> h \in Holders /\ Holds(h, t)
    BY <1>6 DEF IInv, Exact
  <2>2. h \in owners'[t] <=> IF h = v THEN t = s ELSE h \in owners[t] /\ h # b
    BY <1>1, <1>6 DEF Assigned
  <2>3. CASE h = v
    BY <1>4, <2>2, <2>3 DEF Holds, Holders
  <2>4. CASE h # v /\ h = b
    BY <1>3, <2>2, <2>4 DEF Holds, Holders, AllStrings
  <2>5. CASE h # v /\ h # b
    <3>1. h \in Buffers => value'[h] = value[h]
      BY <1>3, <2>5 DEF Others
    <3>2. Holds(h, t)' <=> Holds(h, t)
      BY <1>4, <2>5, <3>1 DEF Holds, Assigned
    <3> QED
      BY <2>1, <2>2, <2>5, <3>2
  <2> QED
    BY <2>3, <2>4, <2>5
<1>7. Quiet(b)
  BY <1>1 DEF Quiet, Assigned
<1>8. ASSUME Careful PROVE Gentle(b)
  <2>1. Counting /\ Exact'
    BY <1>6, <1>8, Kinds
  <2>2. \A t \in AllStrings : data'[t] \in Seq(Bytes)
    BY <1>1, <1>8 DEF Assigned
  <2>3. s # Null => seen'[v] = data'[s]
    <3>1. s \in Strings => owners'[s] # {}
      BY <1>4, <2>1 DEF Exact, Holds, Holders
    <3> QED
      BY <1>1, <1>4, <3>1
  <2>4. ASSUME NEW c \in Coroutines, io[c].op = "read", NEW h, h \in owners'[io[c].string]
        PROVE  h \in owners[io[c].string]
    <3>1. io[c].string # s /\ io[c].string \in Strings
      BY <1>8, <2>4 DEF Assigned, IInv, Pure, Alone
    <3> QED
      BY <1>1, <2>1, <2>4, <3>1 DEF Assigned
  <2>5. b \in Buffers => length'[b] = Len(Shown(b)')
    BY <1>3 DEF Shown
  <2> QED
    BY <1>4, <2>2, <2>3, <2>4, <2>5 DEF Gentle, Assigned
<1>9. \A c \in Coroutines : io'[c].op = "read" => StillReads(c) /\ io[c].buffer # b
  BY DEF StillReads, Assigned
<1>10. (b \in Buffers => SizeFits(b)') /\ UNCHANGED allowed
  BY <1>3 DEF SizeFits, Assigned
<1> QED
  BY <1>3, <1>5, <1>6, <1>7, <1>8, <1>9, <1>10, StepInv

\* A lock is taken or left, and a read through b may end.
LEMMA CallChange ==
    ASSUME IInv, UNCHANGED <<data, owners, value, size, length, variable, seen, allowed>>,
           NEW b \in Buffers, ReadsOnly(b), locker' \in Locks,
           \A a \in Buffers \ {b} : locker'[a] = locker[a],
           \A c \in Coroutines : StillReads(c) => io[c].buffer # b
    PROVE  Good
<1> USE BufferAssumption
<1>1. Typed' /\ Others(b)
  BY DEF IInv, Typed, TypeOK, ReadsOnly, Others, Calls, Locks
<1>2. ASSUME NEW h, NEW t PROVE Holds(h, t)' <=> Holds(h, t)
  <2>1. h \in Coroutines => (io'[h].op = "write" /\ io'[h].string = t
                                <=> io[h].op = "write" /\ io[h].string = t)
    BY DEF ReadsOnly
  <2> QED
    BY <2>1 DEF Holds
<1>3. Counting => Exact'
  BY <1>2 DEF IInv, Exact
<1>4. Quiet(b)
  BY DEF Quiet
<1>5. ASSUME Careful PROVE Gentle(b)
  <2>1. Pure
    BY <1>5 DEF IInv
  <2>2. length'[b] = Len(Shown(b)') /\ \A t \in AllStrings : data'[t] \in Seq(Bytes)
    BY <2>1 DEF Pure, Shown
  <2> QED
    BY <1>5, <2>2 DEF Gentle, ReadsOnly
<1>6. \A c \in Coroutines :
         io'[c].op = "read" => (StillReads(c) /\ io[c].buffer # b) \/ ReadAt(c)'
  BY DEF ReadsOnly, StillReads
<1>7. SizeFits(b)'
  BY DEF IInv, SizesFit, SizeFits, Fresh
<1> QED
  BY <1>1, <1>3, <1>4, <1>5, <1>6, <1>7, StepInv

\* The call of c becomes new: a write of string s begins or, without a string, ends.
Writes(c, s, refs, new) ==
    /\ io[c].op # "read"
    /\ Settle(refs, data)
    /\ io' = [io EXCEPT ![c] = new]
    /\ s = Null => new.op = "none"
    /\ s # Null => new.op = "write" /\ new.string = s /\ new.sent = data[s]
    /\ UNCHANGED <<value, size, length, locker, variable, seen, allowed>>
    /\ Counting => \A t \in Strings : \A h :
          h \in refs[t] <=> IF h = c THEN t = s ELSE h \in owners[t]
    /\ Careful => \A d \in Coroutines : io[d].op = "read" => io[d].string # s

LEMMA WriteChange ==
    ASSUME IInv, NEW c \in Coroutines, NEW s \in AllStrings \cup {Null},
           NEW refs \in References, NEW new \in Calls, Writes(c, s, refs, new)
    PROVE  Good
<1> USE BufferAssumption
<1>1. Typed /\ data \in Stores
  BY DEF IInv, Typed, TypeOK, Stores
<1>2. /\ owners' = refs /\ owners' \in References /\ data' \in Stores
      /\ \A t \in AllStrings :
            data'[t] = data[t] \/ (t \in Strings /\ owners'[t] = {} /\ data'[t] = <<>>)
      /\ (\A t \in AllStrings : data[t] \in Seq(Bytes)) => \A t \in AllStrings : data'[t] \in Seq(Bytes)
  BY <1>1, Settled DEF Writes
<1>3. /\ io'[c] = new /\ \A d \in Coroutines \ {c} : io'[d] = io[d]
      /\ io' \in [Coroutines -> Calls] /\ new.op \in {"none", "write"}
  BY <1>1 DEF Typed, TypeOK, Writes, Calls
<1>4. Typed'
  <2>1. \A d \in Coroutines : io'[d].op # "none" => io'[d].string \in AllStrings
    BY <1>1, <1>3 DEF Typed, Writes
  <2> QED
    BY <1>1, <1>2, <1>3, <2>1 DEF Typed, TypeOK, Writes, References, Stores, Calls
<1>5. ASSUME Counting PROVE Exact'
  <2> SUFFICES ASSUME NEW t \in Strings, NEW h
               PROVE  h \in owners'[t] <=> h \in Holders /\ Holds(h, t)'
    BY DEF Exact
  <2>1. h \in owners[t] <=> h \in Holders /\ Holds(h, t)
    BY <1>5 DEF IInv, Exact
  <2>2. h \in owners'[t] <=> IF h = c THEN t = s ELSE h \in owners[t]
    BY <1>2, <1>5 DEF Writes
  <2>3. CASE h = c
    <3>1. t # Null /\ h \in Holders
      BY <2>3 DEF AllStrings, Holders
    <3>2. Holds(h, t)' <=> new.op = "write" /\ new.string = t
      BY <1>3, <2>3 DEF Holds
    <3> QED
      BY <2>2, <2>3, <3>1, <3>2 DEF Writes
  <2>4. CASE h # c
    <3>1. Holds(h, t)' <=> Holds(h, t)
      BY <1>3, <2>4 DEF Holds, Writes
    <3> QED
      BY <2>1, <2>2, <2>4, <3>1
  <2> QED
    BY <2>3, <2>4
<1>6. Quiet(Null) /\ Others(Null)
  BY <1>2 DEF Quiet, Others, Writes
<1>7. ASSUME Careful PROVE Gentle(Null)
  <2>1. Counting /\ Exact' /\ Pure
    BY <1>5, <1>7, Kinds DEF IInv
  <2>2. \A t \in AllStrings : data'[t] \in Seq(Bytes)
    BY <1>2, <2>1 DEF Pure
  <2>3. s # Null => data'[s] = data[s]
    <3>1. s \in Strings => c \in owners'[s]
      BY <1>2, <2>1 DEF Writes
    <3> QED
      BY <1>2, <3>1
  <2>4. ASSUME NEW d \in Coroutines, io[d].op = "read", NEW h, h \in owners'[io[d].string]
        PROVE  h \in owners[io[d].string]
    <3>1. io[d].string # s /\ io[d].string \in Strings
      BY <1>7, <2>1, <2>4 DEF Writes, Pure, Alone
    <3> QED
      BY <1>2, <2>1, <2>4, <3>1 DEF Writes
  <2>5. \A d \in Coroutines : io'[d].op = "write" => io'[d] = io[d] \/ io'[d].sent = data'[io'[d].string]
    BY <1>3, <2>3 DEF Writes
  <2>6. \A d \in Coroutines : io'[d].op = "read" \/ io[d].op = "read" => io'[d] = io[d] /\ io[d].op = "read"
    BY <1>3 DEF Writes
  <2> QED
    BY <2>2, <2>4, <2>5, <2>6 DEF Gentle, Writes, Holders
<1>8. \A d \in Coroutines : io'[d].op = "read" => (StillReads(d) /\ io[d].buffer # Null) \/ ReadAt(d)'
  <2> SUFFICES ASSUME NEW d \in Coroutines, io'[d].op = "read"
               PROVE  StillReads(d) /\ io[d].buffer # Null
    OBVIOUS
  <2>1. io'[d] = io[d] /\ io[d].op = "read"
    BY <1>3
  <2>2. io[d].buffer \in Buffers
    BY <2>1 DEF IInv, Reads, ReadAt
  <2> QED
    BY <2>1, <2>2 DEF StillReads, Holders
<1> QED
  BY <1>4, <1>5, <1>6, <1>7, <1>8, StepInv DEF Writes, Holders

-----------------------------------------------------------------------------
(* The steps *)

\* Where a coroutine that reads is.
LEMMA Reader ==
    ASSUME IInv, NEW c \in Coroutines, io[c].op = "read"
    PROVE  /\ io[c].buffer \in Buffers /\ locker[io[c].buffer] = c
           /\ value[io[c].buffer] # Null
           /\ Careful => io[c].string \in Strings /\ owners[io[c].string] = {io[c].buffer}
BY DEF IInv, Reads, ReadAt, Pure, Alone

\* In a careful program, a string that somebody else holds is not being read into.
LEMMA NotBeingRead ==
    ASSUME IInv, Careful, NEW s \in AllStrings, NEW h \in Holders, Holds(h, s),
           \A c \in Coroutines : io[c].op = "read" => io[c].buffer # h
    PROVE  ~BeingRead(s)
<1> SUFFICES ASSUME NEW c \in Coroutines, io[c].op = "read", io[c].string = s PROVE FALSE
  BY DEF BeingRead
<1>1. s \in Strings /\ owners[s] = {io[c].buffer} /\ io[c].buffer # h
  BY Reader
<1>2. h \in owners[s]
  BY <1>1, Kinds DEF IInv, Exact
<1> QED
  BY <1>1, <1>2

\* What nobody holds is not being read into, nor what is not counted.
LEMMA OthersNotRead ==
    ASSUME IInv, Careful, NEW s, s \in Literals \cup {Null} \/ (s \in Strings /\ owners[s] = {})
    PROVE  ~BeingRead(s)
<1> SUFFICES ASSUME NEW c \in Coroutines, io[c].op = "read", io[c].string = s PROVE FALSE
  BY DEF BeingRead
<1>1. s \in Strings /\ owners[s] = {io[c].buffer}
  BY Reader
<1> QED
  BY <1>1, BufferAssumption DEF AllStrings

LEMMA VariableNotRead ==
    ASSUME IInv, Careful, NEW v \in Variables, variable[v] # Null
    PROVE  variable[v] \in AllStrings /\ ~BeingRead(variable[v])
<1>1. PICK s \in AllStrings : s = variable[v]
  BY DEF IInv, Typed, TypeOK
<1>2. Holds(v, s) /\ v \in Holders
  BY <1>1 DEF Holds, Holders
<1>3. \A c \in Coroutines : io[c].op = "read" => io[c].buffer # v
  BY Reader, BufferAssumption
<1> QED
  BY <1>1, <1>2, <1>3, NotBeingRead

\* A buffer that is not locked, or has no string, is not being read into.
LEMMA NoReader ==
    ASSUME IInv, NEW b \in Buffers, Unlocked(b) \/ value[b] = Null,
           NEW c \in Coroutines, io[c].op = "read"
    PROVE  io[c].buffer # b
BY Reader, BufferAssumption DEF Unlocked

LEMMA BufferContext ==
    ASSUME IInv
    PROVE  /\ owners \in References /\ data \in Stores /\ locker \in Locks
           /\ Strings \subseteq AllStrings /\ Null \notin AllStrings
           /\ Careful => \A t \in AllStrings : data[t] \in Seq(Bytes)
           /\ \A b \in Buffers : value[b] \in AllStrings \cup {Null} /\ b \in Holders
           /\ \A v \in Variables : variable[v] \in AllStrings \cup {Null} /\ v \in Holders
BY BufferAssumption
   DEF IInv, Typed, TypeOK, References, Stores, Locks, AllStrings, Pure, Holders

LEMMA DropInv ==
    ASSUME IInv, NEW b \in Buffers, Drop(b), UNCHANGED <<variables, io, allowed>>,
           locker' \in Locks, \A a \in Buffers \ {b} : locker'[a] = locker[a],
           \A c \in Coroutines : io[c].op = "read" => io[c].buffer # b
    PROVE  Good
<1> DEFINE refs == Moved(owners, b, value[b], Null)
<1>1. Settle(refs, data) /\ SetValue(b, Null, 0, 0)
  BY OneEnd DEF Drop
<1>2. \A t \in Strings : Holds(b, t) <=> t = value[b]
  BY BufferAssumption DEF Holds, Holders
<1>3. /\ refs \in References
      /\ Counting => \A t \in Strings : \A h :
            h \in refs[t] <=> IF h = b THEN t = Null ELSE h \in owners[t]
  BY <1>2, MovedExact, BufferContext
<1> HIDE DEF refs
<1>4. \A c \in Coroutines : StillReads(c) /\ Careful => io[c].buffer # b /\ io[c].string # Null
  BY BufferContext DEF StillReads, IInv, Pure, Alone
<1>5. Rebind(b, Null, 0, 0, refs, data)
  BY <1>1, <1>3, <1>4, CallsStay, BufferContext DEF Rebind, variables, StillReads
<1> QED
  BY <1>3, <1>5, BufferChange, BufferContext

\* What Store stores is typed, and in a careful program as long as the buffer believes.
Fits(bytes, n, len) ==
    /\ bytes \in Seq(Bytes \cup {Junk}) /\ n \in Nat /\ len \in Nat
    /\ Fresh => len <= n
    /\ Careful => bytes \in Seq(Bytes) /\ Len(bytes) = len

LEMMA StoreInv ==
    ASSUME IInv, NEW b \in Buffers, NEW bytes, NEW n, NEW len, Fits(bytes, n, len),
           Store(b, bytes, n, len), UNCHANGED <<variables, allowed>>, ReadsOnly(b),
           locker' \in Locks, \A a \in Buffers \ {b} : locker'[a] = locker[a],
           \A c \in Coroutines : StillReads(c) => io[c].buffer # b
    PROVE  Good
<1> USE BufferAssumption
<1>1. /\ bytes \in Seq(Bytes \cup {Junk}) /\ n \in Nat /\ len \in Nat
      /\ UNCHANGED <<variable, seen, allowed>> /\ b \in Holders
      /\ \A t \in Strings : Holds(b, t) <=> t = value[b]
  BY BufferContext DEF Fits, variables, Holds, Holders
<1>2. CASE /\ Exclusive(b)
           /\ Settle(owners, [data EXCEPT ![value[b]] = bytes])
           /\ SetValue(b, value[b], n, len)
  <2> DEFINE new == [data EXCEPT ![value[b]] = bytes]
             s == value[b]
  <2>1. /\ new \in Stores /\ s \in Strings /\ s \in AllStrings /\ s # Null /\ new[s] = bytes
        /\ \A t \in AllStrings : new[t] = data[t] \/ t = s
    BY <1>1, <1>2, BufferContext DEF Exclusive, Stores
  <2>2. Settle(owners, new) /\ SetValue(b, s, n, len)
    BY <1>2
  <2> HIDE DEF new
  <2>3. ASSUME NEW c \in Coroutines, StillReads(c), Careful PROVE io[c].string # s
    <3>1. owners[io[c].string] = {io[c].buffer} /\ io[c].buffer # b
      BY <2>3 DEF StillReads, IInv, Pure, Alone
    <3>2. Holds(b, s)
      BY DEF Holds
    <3>3. b \in owners[s]
      BY <1>1, <2>1, <2>3, <3>2, Kinds DEF IInv, Exact
    <3> QED
      BY <3>1, <3>3
  <2>4. Counting => \A t \in Strings : \A h :
           h \in owners[t] <=> IF h = b THEN t = s ELSE h \in owners[t]
    BY <1>1 DEF IInv, Exact
  <2>5. \A t \in AllStrings :
           \/ new[t] = data[t] \/ ReadEnds(t)
           \/ t \in Strings /\ (owners[t] = {} \/ (value[b] = t /\ Exclusive(b)))
    BY <1>2, <2>1
  <2>6. Careful => /\ \A t \in AllStrings : new[t] \in Seq(Bytes)
                   /\ len = IF s = Null THEN 0 ELSE Len(new[s])
    BY <2>1, BufferContext DEF Fits
  <2> HIDE DEF s
  <2>7. Rebind(b, s, n, len, owners, new)
    BY <1>1, <2>1, <2>2, <2>3, <2>4, <2>5, <2>6 DEF Rebind, Fits
  <2> QED
    BY <1>1, <2>1, <2>7, BufferChange, BufferContext
<1>3. CASE /\ ~Exclusive(b) /\ n > 0
           /\ \E s \in Strings :
                 /\ owners[s] = {}
                 /\ Settle(Moved(owners, b, value[b], s), [data EXCEPT ![s] = bytes])
                 /\ SetValue(b, s, n, len)
  <2>1. PICK s \in Strings :
           /\ owners[s] = {}
           /\ Settle(Moved(owners, b, value[b], s), [data EXCEPT ![s] = bytes])
           /\ SetValue(b, s, n, len)
    BY <1>3
  <2> DEFINE new == [data EXCEPT ![s] = bytes]
             refs == Moved(owners, b, value[b], s)
  <2>2. /\ new \in Stores /\ s \in AllStrings /\ s # Null /\ new[s] = bytes
        /\ \A t \in AllStrings : new[t] = data[t] \/ t = s
    BY <1>1, <2>1, BufferContext DEF Stores
  <2>3. /\ refs \in References
        /\ Counting => \A t \in Strings : \A h :
              h \in refs[t] <=> IF h = b THEN t = s ELSE h \in owners[t]
    BY <1>1, MovedExact
  <2>4. Settle(refs, new)
    BY <2>1
  <2> HIDE DEF new, refs
  <2>5. ASSUME NEW c \in Coroutines, StillReads(c), Careful PROVE io[c].string # s
    BY <2>1, <2>5 DEF StillReads, IInv, Pure, Alone
  <2>6. Careful => /\ \A t \in AllStrings : new[t] \in Seq(Bytes)
                   /\ len = IF s = Null THEN 0 ELSE Len(new[s])
    BY <2>2, BufferContext DEF Fits
  <2>7. Rebind(b, s, n, len, refs, new)
    BY <1>1, <2>1, <2>2, <2>3, <2>4, <2>5, <2>6 DEF Rebind, Fits
  <2> QED
    BY <1>1, <2>2, <2>3, <2>7, BufferChange
<1>4. CASE /\ ~Exclusive(b) /\ n = 0
           /\ Settle(DelRef(owners, b, value[b]), data)
           /\ SetValue(b, Null, 0, 0)
  <2> DEFINE refs == Moved(owners, b, value[b], Null)
  <2>1. Settle(refs, data) /\ SetValue(b, Null, 0, 0)
    BY <1>4, OneEnd
  <2>2. /\ refs \in References
        /\ Counting => \A t \in Strings : \A h :
              h \in refs[t] <=> IF h = b THEN t = Null ELSE h \in owners[t]
    BY <1>1, MovedExact
  <2> HIDE DEF refs
  <2>3. \A c \in Coroutines : StillReads(c) /\ Careful => io[c].string # Null
    BY BufferContext DEF StillReads, IInv, Pure, Alone
  <2>4. Rebind(b, Null, 0, 0, refs, data)
    BY <1>1, <2>1, <2>2, <2>3, BufferContext DEF Rebind
  <2> QED
    BY <2>2, <2>4, BufferChange, BufferContext
<1> QED
  BY <1>2, <1>3, <1>4 DEF Store

\* Buffer b shares string s, that is not being read into in a careful program.
LEMMA ShareInv ==
    ASSUME IInv, NEW b \in Buffers, NEW s \in AllStrings, NEW n \in Nat, NEW len \in Nat,
           NEW refs \in References, Settle(refs, data), SetValue(b, s, n, len),
           UNCHANGED <<variables, io, allowed>>, Fresh => len <= n,
           locker' \in Locks, \A a \in Buffers \ {b} : locker'[a] = locker[a],
           Counting => \A t \in Strings : \A h :
              h \in refs[t] <=> IF h = b THEN t = s ELSE h \in owners[t],
           Careful => ~BeingRead(s) /\ len = Len(data[s]),
           \A c \in Coroutines :
              io[c].op = "read" /\ io[c].buffer = b => ~Fresh /\ locker'[b] = locker[b]
    PROVE  Good
<1>1. \A c \in Coroutines : StillReads(c) /\ Careful => io[c].buffer # b /\ io[c].string # s
  BY Kinds DEF StillReads, BeingRead
<1>2. \A c \in Coroutines : StillReads(c) /\ io[c].buffer = b => ReadAt(c)'
  <2> SUFFICES ASSUME NEW c \in Coroutines, StillReads(c), io[c].buffer = b PROVE ReadAt(c)'
    OBVIOUS
  <2>1. ~Fresh' /\ locker'[b] = locker[b] /\ io'[c] = io[c]
    BY DEF StillReads, Fresh
  <2>2. value'[b] = s /\ s # Null
    BY BufferContext DEF SetValue, IInv, Typed, TypeOK
  <2>3. locker[b] = c
    BY DEF StillReads, IInv, Reads, ReadAt
  <2> QED
    BY <2>1, <2>2, <2>3 DEF ReadAt
<1>3. Rebind(b, s, n, len, refs, data)
  BY <1>1, <1>2, CallsStay, BufferContext DEF Rebind, variables
<1> QED
  BY <1>3, BufferChange, BufferContext

\* Variable v gets string s, that is not being read into, or nothing.
LEMMA VariableInv ==
    ASSUME IInv, NEW v \in Variables, NEW s \in AllStrings \cup {Null}, NEW bytes \in Stores,
           Careful => ~BeingRead(s) /\ \A t \in AllStrings : bytes[t] \in Seq(Bytes),
           \A t \in AllStrings : bytes[t] = data[t] \/ (t \in Strings /\ owners[t] = {}),
           Settle(Moved(owners, v, variable[v], s), bytes),
           variable' = [variable EXCEPT ![v] = s],
           seen' = [seen EXCEPT ![v] = IF s = Null THEN <<>> ELSE bytes[s]],
           UNCHANGED <<buffers, io, allowed>>
    PROVE  Good
<1> DEFINE refs == Moved(owners, v, variable[v], s)
<1>1. \A t \in Strings : Holds(v, t) <=> t = variable[v]
  BY BufferAssumption DEF Holds, Holders
<1>2. /\ refs \in References
      /\ Counting => \A t \in Strings : \A h :
            h \in refs[t] <=> IF h = v THEN t = s ELSE h \in owners[t]
  BY <1>1, MovedExact, BufferContext
<1>3. Settle(refs, bytes)
  OBVIOUS
<1> HIDE DEF refs
<1>4. \A c \in Coroutines : io[c].op = "read" => io[c].buffer # Null
  BY Reader, BufferAssumption DEF Holders
<1>5. Counting => \A t \in Strings : \A h :
            h \in refs[t] <=> IF h = v THEN t = s ELSE h \in owners[t] /\ h # Null
  BY <1>2, BufferAssumption DEF IInv, Exact
<1>6. Assigned(v, s, Null, refs, bytes)
  BY <1>3, <1>4, <1>5 DEF Assigned, buffers, BeingRead
<1> QED
  BY <1>2, <1>6, VariableChange

LEMMA ResizeInv ==
    ASSUME IInv, NEW b \in Buffers, NEW n \in Nat, Resize(b, n),
           UNCHANGED <<locker, variables, io, allowed>>,
           \A c \in Coroutines : io[c].op = "read" => io[c].buffer # b
    PROVE  Good
<1>1. locker' \in Locks /\ \A a \in Buffers \ {b} : locker'[a] = locker[a]
  BY BufferContext
<1>2. CASE n = 0
  BY <1>1, <1>2, DropInv DEF Resize
<1>3. CASE n # 0
  <2> DEFINE q == Shown(b)
             len == Smaller(length[b], n)
  <2>1. /\ q \in Seq(Bytes \cup {Junk}) /\ length[b] \in Nat
        /\ Careful => q \in Seq(Bytes) /\ Len(q) = length[b]
    BY ShownProperties
  <2> HIDE DEF q
  <2>2. /\ Take(q, n) \in Seq(Bytes \cup {Junk}) /\ len \in Nat /\ len <= n
        /\ Careful => Take(q, n) \in Seq(Bytes) /\ Len(Take(q, n)) = len
    <3>1. Len(Take(q, n)) = Smaller(n, Len(q)) /\ Take(q, n) \in Seq(Bytes \cup {Junk})
      BY <2>1, TakeProperties
    <3>2. Careful => Take(q, n) \in Seq(Bytes)
      BY <2>1, TakeProperties
    <3> QED
      BY <2>1, <3>1, <3>2 DEF Smaller
  <2> HIDE DEF len
  <2>3. Store(b, Take(q, n), n, len)
    BY <1>3 DEF Resize, q, len
  <2>4. Fits(Take(q, n), n, len)
    BY <2>2 DEF Fits
  <2> QED
    BY <1>1, <2>3, <2>4, CallsStay, StoreInv DEF StillReads
<1> QED
  BY <1>2, <1>3

LEMMA GrowInv ==
    ASSUME IInv, NEW b \in Buffers, NEW want \in Nat, Unlocked(b), GrowTo(b, want),
           UNCHANGED <<locker, variables, io, allowed>>
    PROVE  Good
<1>1. PICK n \in 1..MaxSize : Resize(b, n)
  BY DEF GrowTo
<1>2. n \in Nat
  BY BufferAssumption
<1> QED
  BY <1>1, <1>2, NoReader, ResizeInv

LEMMA ResizingInv ==
    ASSUME IInv, UNCHANGED allowed, NEW b \in Buffers, Resizing(b)
    PROVE  Good
<1> USE BufferAssumption
<1>1. PICK n \in Sizes :
         Alloc(b, n) \/ Realloc(b, n) \/ Extend(b, n) \/ Prepare(b, n) \/ MallocTrim(b)
  BY DEF Resizing
<1>2. n \in Nat /\ length[b] \in Nat /\ length[b] + n \in Nat
  BY ShownProperties DEF Sizes
<1>3. CASE Alloc(b, n)
  <2>1. /\ Store(b, <<>>, n, 0) /\ UNCHANGED <<variables, io>> /\ value[b] = Null
        /\ locker' \in Locks /\ \A a \in Buffers \ {b} : locker'[a] = locker[a]
    BY <1>3, BufferContext DEF Alloc
  <2>2. Fits(<<>>, n, 0)
    BY <1>2 DEF Fits
  <2> QED
    BY <2>1, <2>2, NoReader, CallsStay, StoreInv DEF StillReads
<1>4. CASE Realloc(b, n)
  BY <1>2, <1>4, NoReader, ResizeInv DEF Realloc
<1>5. CASE Extend(b, n)
  BY <1>2, <1>5, GrowInv DEF Extend
<1>6. CASE Prepare(b, n)
  BY <1>2, <1>6, GrowInv DEF Prepare
<1>7. CASE MallocTrim(b)
  BY <1>2, <1>7, NoReader, ResizeInv DEF MallocTrim
<1> QED
  BY <1>1, <1>3, <1>4, <1>5, <1>6, <1>7

\* In a careful program only strings that nobody reads into are shared.
LEMMA CarefulShare == ASSUME Careful, NEW s, MayShare(s) PROVE ~BeingRead(s)
BY DEF Careful, MayShare

LEMMA WriteInv ==
    ASSUME IInv, UNCHANGED allowed, NEW b \in Buffers, NEW s \in AllStrings,
           NEW offset \in Nat, NEW start \in Nat, NEW n \in Nat,
           Adopts(b, s, offset, start, n) => MayShare(s), Write(b, s, offset, start, n)
    PROVE  Good
<1> USE BufferAssumption
<1>1. /\ data[s] \in Seq(Bytes \cup {Junk}) /\ (Careful => data[s] \in Seq(Bytes))
      /\ Unlocked(b) /\ n > 0 /\ start + n <= Len(data[s])
      /\ offset <= length[b] /\ UNCHANGED <<variables, io>>
      /\ locker' \in Locks /\ \A a \in Buffers \ {b} : locker'[a] = locker[a]
  BY BufferContext DEF Write, Stores
<1>2. \A c \in Coroutines : io[c].op = "read" => io[c].buffer # b
  BY <1>1, NoReader
<1>3. CASE Adopts(b, s, offset, start, n)
  <2> DEFINE refs == Moved(owners, b, value[b], s)
  <2>1. \A t \in Strings : Holds(b, t) <=> t = value[b]
    BY DEF Holds, Holders
  <2>2. /\ refs \in References
        /\ Counting => \A t \in Strings : \A h :
              h \in refs[t] <=> IF h = b THEN t = s ELSE h \in owners[t]
    BY <2>1, MovedExact, BufferContext
  <2>3. Settle(refs, data) /\ SetValue(b, s, n, n) /\ n = Len(data[s])
    BY <1>3 DEF Write, Adopts
  <2> HIDE DEF refs
  <2>4. Careful => ~BeingRead(s) /\ n = Len(data[s])
    BY <1>3, <2>3, CarefulShare
  <2> QED
    BY <1>1, <1>2, <2>2, <2>3, <2>4, ShareInv
<1>4. CASE ~Adopts(b, s, offset, start, n)
  <2> DEFINE piece == Slice(data[s], start, n)
             end == offset + n
             own == Own(b)
             over == Overlay(own, offset, piece)
             bytes == IF end > length[b] THEN Take(over, end) ELSE over
             len == Larger(length[b], end)
  <2>1. PICK m \in 1..MaxSize : Roomy(b, end, m) /\ Store(b, bytes, m, len)
    BY <1>4 DEF Write
  <2>2. /\ piece \in Seq(Bytes \cup {Junk}) /\ Len(piece) = n
        /\ Careful => piece \in Seq(Bytes)
    BY <1>1, SliceProperties
  <2>3. /\ own \in Seq(Bytes \cup {Junk}) /\ length[b] \in Nat /\ size[b] \in Nat
        /\ Fresh => length[b] <= size[b]
        /\ Careful => own \in Seq(Bytes) /\ Len(own) = length[b]
    BY ShownProperties
  <2> HIDE DEF own, piece
  <2>4. /\ over \in Seq(Bytes \cup {Junk})
        /\ Careful => over \in Seq(Bytes) /\ Len(over) = Larger(length[b], end)
    <3>1. Careful => own \in Seq(Bytes) /\ piece \in Seq(Bytes) /\ offset <= Len(own)
      BY <1>1, <2>2, <2>3
    <3>2. over \in Seq(Bytes \cup {Junk}) /\ Len(over) = Larger(Len(own), offset + Len(piece))
      BY <2>2, <2>3, OverlayProperties
    <3>3. Careful => over \in Seq(Bytes)
      BY <2>2, <2>3, <3>1, OverlayProperties
    <3>4. offset + Len(piece) = end
      BY <2>2
    <3> QED
      BY <2>3, <3>2, <3>3, <3>4
  <2> HIDE DEF over
  <2>6. end \in Nat /\ len \in Nat /\ m \in Nat
    BY <2>3 DEF Larger
  <2>7. /\ bytes \in Seq(Bytes \cup {Junk})
        /\ Careful => bytes \in Seq(Bytes) /\ Len(bytes) = len
    <3>1. /\ Take(over, end) \in Seq(Bytes \cup {Junk})
          /\ Careful => Take(over, end) \in Seq(Bytes)
          /\ Len(Take(over, end)) = Smaller(end, Len(over))
      BY <2>4, <2>6, TakeProperties
    <3>2. Careful => /\ end > length[b] => Smaller(end, Len(over)) = len
                     /\ ~(end > length[b]) => Len(over) = len
      <4>1. len = (IF end > length[b] THEN end ELSE length[b]) /\ Smaller(end, end) = end
        BY <2>3, <2>6, LargerProperties
      <4>2. Careful => Len(over) = len
        BY <2>4
      <4> QED
        BY <4>1, <4>2
    <3> QED
      BY <2>4, <3>1, <3>2
  <2>8. Fresh => len <= m
    <3>1. m >= end /\ m >= size[b]
      BY <2>1, <2>3, <2>6 DEF Roomy, IsGrown
    <3> QED
      BY <2>3, <2>6, <3>1 DEF Larger
  <2> HIDE DEF bytes, len
  <2>9. Fits(bytes, m, len)
    BY <2>6, <2>7, <2>8 DEF Fits
  <2> QED
    BY <1>1, <1>2, <2>1, <2>9, CallsStay, StoreInv DEF StillReads
<1> QED
  BY <1>3, <1>4

LEMMA TruncateInv ==
    ASSUME IInv, UNCHANGED allowed, NEW b \in Buffers, NEW offset \in Nat, NEW n \in Nat,
           TruncateFrom(b, offset, n)
    PROVE  Good
<1> DEFINE len == Kept(b, offset, n)
           own == Own(b)
           q == Readable(b)
           bytes == IF offset = 0 /\ len = length[b] /\ n > 0 THEN own ELSE Slice(q, offset, len)
<1>1. /\ Unlocked(b) /\ Store(b, bytes, size[b], len) /\ UNCHANGED <<variables, io>>
      /\ locker' \in Locks /\ \A a \in Buffers \ {b} : locker'[a] = locker[a]
  BY BufferContext DEF TruncateFrom
<1>2. /\ own \in Seq(Bytes \cup {Junk}) /\ length[b] \in Nat /\ size[b] \in Nat
      /\ q \in Seq(Bytes \cup {Junk}) /\ Len(q) = length[b]
      /\ Fresh => length[b] <= size[b]
      /\ Careful => own \in Seq(Bytes) /\ Len(own) = length[b] /\ q \in Seq(Bytes)
  BY ShownProperties
<1>3. len \in Nat /\ len <= length[b] /\ (len = 0 \/ offset + len <= length[b])
  BY <1>2 DEF Kept, Smaller
<1> HIDE DEF len, own, q
<1>4. /\ Slice(q, offset, len) \in Seq(Bytes \cup {Junk})
      /\ Careful => Slice(q, offset, len) \in Seq(Bytes)
      /\ Len(Slice(q, offset, len)) = len
  <2>1. CASE len = 0
    <3>1. Slice(q, offset, len) = <<>>
      BY <1>2, <2>1 DEF Slice
    <3>2. \A S : <<>> \in Seq(S)
      OBVIOUS
    <3> QED
      BY <2>1, <3>1, <3>2
  <2>2. CASE offset + len <= length[b]
    BY <1>2, <1>3, <2>2, SliceProperties
  <2> QED
    BY <1>3, <2>1, <2>2
<1>5. Fits(bytes, size[b], len)
  BY <1>2, <1>3, <1>4 DEF Fits
<1> HIDE DEF bytes
<1> QED
  BY <1>1, <1>5, NoReader, CallsStay, StoreInv DEF StillReads

LEMMA WritingInv ==
    ASSUME IInv, UNCHANGED allowed, NEW b \in Buffers, Writing(b)
    PROVE  Good
<1>1. Sizes \subseteq Nat
  BY BufferAssumption DEF Sizes
<1>2. Given \subseteq AllStrings
  BY BufferContext DEF Given, AllStrings
<1>3. ASSUME NEW s \in Given, NEW offset \in Sizes, NEW start \in Sizes, NEW n \in Sizes,
             Adopts(b, s, offset, start, n) => MayShare(s), Write(b, s, offset, start, n)
      PROVE  Good
  BY <1>1, <1>2, <1>3, WriteInv
<1>4. ASSUME NEW offset \in Sizes, NEW n \in Sizes, TruncateFrom(b, offset, n)
      PROVE  Good
  BY <1>1, <1>4, TruncateInv
<1>5. ASSUME Close(b) PROVE Good
  <2>1. /\ Unlocked(b) /\ Drop(b) /\ UNCHANGED <<variables, io>>
        /\ locker' \in Locks /\ \A a \in Buffers \ {b} : locker'[a] = locker[a]
    BY <1>5, BufferContext DEF Close
  <2> QED
    BY <2>1, NoReader, DropInv
<1> QED
  BY <1>3, <1>4, <1>5 DEF Writing

\* What a peer sends, or a string holds.
LEMMA ChunksAreBytes == Chunks \subseteq Seq(Bytes)
<1>1. \A n \in Nat : \A x \in Bytes : \A q \in [1..n -> {x}] : q \in Seq(Bytes)
  OBVIOUS
<1> QED
  BY <1>1, BufferAssumption DEF Chunks

\* What is bytes is bytes or junk.
LEMMA BytesAreBytes == \A q \in Seq(Bytes) : q \in Seq(Bytes \cup {Junk})
OBVIOUS

LEMMA AssignInv ==
    ASSUME IInv, UNCHANGED allowed, NEW v \in Variables, NEW s \in AllStrings, Assign(v, s)
    PROVE  Good
<1>1. Careful => ~BeingRead(s)
  <2>1. CASE s \in Literals
    BY <2>1, OthersNotRead
  <2>2. CASE s \notin Literals
    <3>1. PICK w \in Variables : s = variable[w]
      BY <2>2 DEF Assign
    <3> QED
      BY <3>1, VariableNotRead DEF Assign
  <2> QED
    BY <2>1, <2>2
<1>2. /\ Settle(Moved(owners, v, variable[v], s), data) /\ s # Null
      /\ variable' = [variable EXCEPT ![v] = s] /\ seen' = [seen EXCEPT ![v] = data[s]]
      /\ UNCHANGED <<buffers, io>>
  BY DEF Assign, SetVariable
<1> QED
  BY <1>1, <1>2, VariableInv, BufferContext

LEMMA NewStringInv ==
    ASSUME IInv, UNCHANGED allowed, NEW v \in Variables, NEW bytes \in Seq(Bytes \cup {Junk}),
           Careful => bytes \in Seq(Bytes), NewString(v, bytes)
    PROVE  Good
<1>1. PICK s \in Strings :
         /\ owners[s] = {}
         /\ SetVariable(v, s, owners, [data EXCEPT ![s] = bytes])
  BY DEF NewString
<1> DEFINE new == [data EXCEPT ![s] = bytes]
<1>2. /\ s \in AllStrings /\ s # Null /\ new \in Stores /\ new[s] = bytes
      /\ UNCHANGED <<buffers, io>>
      /\ \A t \in AllStrings : new[t] = data[t] \/ (t \in Strings /\ owners[t] = {})
      /\ Careful => \A t \in AllStrings : new[t] \in Seq(Bytes)
  BY <1>1, BufferContext DEF NewString, Stores
<1>3. /\ Settle(Moved(owners, v, variable[v], s), new)
      /\ variable' = [variable EXCEPT ![v] = s] /\ seen' = [seen EXCEPT ![v] = new[s]]
  BY <1>1 DEF SetVariable
<1> HIDE DEF new
<1>4. Careful => ~BeingRead(s)
  BY <1>1, OthersNotRead
<1> QED
  BY <1>2, <1>3, <1>4, VariableInv

LEMMA UnsetInv ==
    ASSUME IInv, UNCHANGED allowed, NEW v \in Variables, Unset(v)
    PROVE  Good
<1>1. /\ Settle(Moved(owners, v, variable[v], Null), data) /\ UNCHANGED <<buffers, io>>
      /\ variable' = [variable EXCEPT ![v] = Null] /\ seen' = [seen EXCEPT ![v] = <<>>]
  BY OneEnd DEF Unset
<1>2. Careful => ~BeingRead(Null)
  BY OthersNotRead
<1> QED
  BY <1>1, <1>2, VariableInv, BufferContext

LEMMA PhpInv == ASSUME IInv, UNCHANGED allowed, Php PROVE Good
BY AssignInv, NewStringInv, UnsetInv, ChunksAreBytes, BytesAreBytes DEF Php

LEMMA ReadInv ==
    ASSUME IInv, UNCHANGED allowed, NEW b \in Buffers, NEW v \in Variables,
           NEW start \in Nat, NEW n \in Nat, Read(b, start, n, v)
    PROVE  Good
<1> DEFINE q == Readable(b)
<1>1. /\ q \in Seq(Bytes \cup {Junk}) /\ Len(q) = length[b] /\ start + n <= length[b]
      /\ Careful => q \in Seq(Bytes)
  BY ShownProperties DEF Read
<1>2. NewString(v, Slice(q, start, n))
  BY DEF Read
<1> HIDE DEF q
<1>3. /\ Slice(q, start, n) \in Seq(Bytes \cup {Junk})
      /\ Careful => Slice(q, start, n) \in Seq(Bytes)
  BY <1>1, SliceProperties
<1> QED
  BY <1>2, <1>3, NewStringInv

LEMMA ShareStringInv ==
    ASSUME IInv, UNCHANGED allowed, NEW b \in Buffers, NEW v \in Variables,
           MayShare(value[b]), ShareString(b, v)
    PROVE  Good
<1>1. PICK s \in AllStrings : s = value[b]
  BY BufferContext DEF ShareString
<1>2. /\ Settle(Moved(owners, v, variable[v], s), data) /\ s # Null
      /\ variable' = [variable EXCEPT ![v] = s] /\ seen' = [seen EXCEPT ![v] = data[s]]
      /\ UNCHANGED <<buffers, io>>
  BY <1>1 DEF ShareString, SetVariable
<1>3. Careful => ~BeingRead(s)
  BY <1>1, CarefulShare
<1> QED
  BY <1>2, <1>3, VariableInv, BufferContext

\* Where strings are counted only a literal is serialized: it is not counted, so it does
\* not matter that the reference is not.
LEMMA SerializeInv ==
    ASSUME IInv, UNCHANGED allowed, NEW b \in Buffers, NEW v \in Variables,
           MaySerialize(b), Serialize(b, v)
    PROVE  Good
<1> USE BufferAssumption
<1>1. PICK s \in AllStrings : s = value[b]
  BY BufferContext DEF Serialize
<1> DEFINE refs == Moved(owners, v, variable[v], Null)
<1>2. \A t \in Strings : Holds(v, t) <=> t = variable[v]
  BY DEF Holds, Holders
<1>3. /\ refs \in References
      /\ Counting => \A t \in Strings : \A h :
            h \in refs[t] <=> IF h = v THEN t = Null ELSE h \in owners[t]
  BY <1>2, MovedExact, BufferContext
<1>4. /\ Settle(refs, data) /\ s # Null
      /\ variable' = [variable EXCEPT ![v] = s] /\ seen' = [seen EXCEPT ![v] = data[s]]
      /\ UNCHANGED <<buffers, io>>
  BY <1>1, OneEnd DEF Serialize
<1> HIDE DEF refs
<1>5. Counting => s \in Literals
  BY <1>1, Kinds DEF MaySerialize
<1>6. Counting => \A t \in Strings : \A h :
            h \in refs[t] <=> IF h = v THEN t = s ELSE h \in owners[t] /\ h # Null
  BY <1>3, <1>5, BufferContext DEF IInv, Exact
<1>7. Careful => ~BeingRead(s)
  BY <1>5, OthersNotRead, Kinds
<1>8. \A c \in Coroutines : io[c].op = "read" => io[c].buffer # Null
  BY Reader DEF Holders
<1>9. Assigned(v, s, Null, refs, data)
  BY <1>4, <1>6, <1>7, <1>8, BufferContext DEF Assigned, buffers, BeingRead
<1> QED
  BY <1>3, <1>9, VariableChange, BufferContext

LEMMA FetchStringInv ==
    ASSUME IInv, UNCHANGED allowed, NEW b \in Buffers, NEW v \in Variables, FetchString(b, v)
    PROVE  Good
<1> USE BufferAssumption
<1>1. PICK s \in AllStrings : s = value[b]
  BY BufferContext DEF FetchString
<1> DEFINE mid == Moved(owners, b, value[b], Null)
           refs == Moved(mid, v, variable[v], s)
<1>2. b \in Holders /\ v \in Holders /\ b # v /\ s # Null /\ b # Null
  BY <1>1, BufferContext
<1>3. \A t \in Strings : Holds(b, t) <=> t = value[b]
  BY DEF Holds, Holders
<1>4. /\ mid \in References
      /\ Counting => \A t \in Strings : \A h :
            h \in mid[t] <=> IF h = b THEN t = Null ELSE h \in owners[t]
  BY <1>2, <1>3, MovedExact
<1>5. Settle(refs, data)
  BY <1>1, OneEnd DEF FetchString, SetVariable
<1> HIDE DEF mid
<1>6. Counting => \A t \in Strings : v \in mid[t] <=> t = variable[v]
  BY <1>2, <1>4 DEF IInv, Exact, Holds, Holders
<1>7. /\ refs \in References
      /\ Counting => \A t \in Strings : \A h :
            h \in refs[t] <=> IF h = v THEN t = s ELSE h \in mid[t]
  BY <1>2, <1>4, <1>6, MovedProperties
<1> HIDE DEF refs
<1>8. /\ variable' = [variable EXCEPT ![v] = s] /\ seen' = [seen EXCEPT ![v] = data[s]]
      /\ SetValue(b, Null, 0, 0) /\ UNCHANGED <<locker, io>>
  BY <1>1 DEF FetchString, SetVariable
<1>9. Counting => \A t \in Strings : \A h :
         h \in refs[t] <=> IF h = v THEN t = s ELSE h \in owners[t] /\ h # b
  BY <1>4, <1>7, BufferContext
<1>10. \A c \in Coroutines : io[c].op = "read" => io[c].buffer # b
  BY NoReader DEF FetchString
<1>11. Careful => \A c \in Coroutines : io[c].op = "read" => io[c].string # s
  <2>1. Holds(b, s)
    BY <1>1 DEF Holds
  <2> QED
    BY <1>2, <1>10, <2>1, NotBeingRead DEF BeingRead
<1>12. Assigned(v, s, b, refs, data)
  BY <1>2, <1>5, <1>8, <1>9, <1>10, <1>11, BufferContext DEF Assigned
<1> QED
  BY <1>7, <1>12, VariableChange, BufferContext

LEMMA UnserializeInv ==
    ASSUME IInv, UNCHANGED allowed, NEW b \in Buffers, NEW v \in Variables,
           MayShare(variable[v]), MayUnserialize(b), Unserialize(b, v)
    PROVE  Good
<1> USE BufferAssumption
<1>1. PICK s \in AllStrings : s = variable[v]
  BY BufferContext DEF Unserialize
<1> DEFINE mid == Leak(owners, b, value[b])
           refs == Moved(mid, b, Null, s)
<1>2. mid \in References
  BY BufferContext DEF Leak, References
<1>3. Counting => value[b] = Null /\ mid = owners
  BY BufferContext DEF MayUnserialize, Counting, Leak
<1>4. Counting => \A t \in Strings : b \in mid[t] <=> t = Null
  BY <1>3, BufferContext DEF IInv, Exact, Holds, Holders
<1>5. Settle(refs, data)
  BY <1>1, OneEnd DEF Unserialize
<1> HIDE DEF mid
<1>6. /\ refs \in References
      /\ Counting => \A t \in Strings : \A h :
            h \in refs[t] <=> IF h = b THEN t = s ELSE h \in owners[t]
  BY <1>2, <1>3, <1>4, MovedProperties, BufferContext
<1> HIDE DEF refs
<1>7. /\ SetValue(b, s, Len(data[s]), Len(data[s])) /\ UNCHANGED <<variables, io>>
      /\ UNCHANGED locker /\ Len(data[s]) \in Nat
  BY <1>1, BufferContext DEF Unserialize, Stores
<1>8. Careful => ~BeingRead(s)
  BY <1>1, CarefulShare
<1>9. \A c \in Coroutines : io[c].op = "read" /\ io[c].buffer = b => ~Fresh
  BY NoReader DEF MayUnserialize, Fresh
<1> QED
  BY <1>5, <1>6, <1>7, <1>8, <1>9, ShareInv, BufferContext

LEMMA CloneInv ==
    ASSUME IInv, UNCHANGED allowed, NEW b \in Buffers, NEW copy \in Buffers,
           MayShare(value[b]), Clone(b, copy)
    PROVE  Good
<1> USE BufferAssumption
<1> DEFINE s == value[b]
           refs == Moved(owners, copy, Null, s)
<1>1. /\ value[copy] = Null /\ Settle(refs, data) /\ SetValue(copy, s, size[b], length[b])
      /\ UNCHANGED <<variables, io>>
      /\ locker' \in Locks /\ \A a \in Buffers \ {copy} : locker'[a] = locker[a]
  BY OneEnd, BufferContext DEF Clone, Locks
<1>2. \A t \in Strings : Holds(copy, t) <=> t = Null
  BY <1>1, BufferContext DEF Holds, Holders
<1>3. /\ refs \in References
      /\ Counting => \A t \in Strings : \A h :
            h \in refs[t] <=> IF h = copy THEN t = s ELSE h \in owners[t]
  BY <1>2, MovedExact, BufferContext
<1>4. /\ size[b] \in Nat /\ length[b] \in Nat /\ (Fresh => length[b] <= size[b])
      /\ Careful => length[b] = Len(Shown(b))
  BY ShownProperties
<1>5. \A c \in Coroutines : io[c].op = "read" => io[c].buffer # copy
  BY <1>1, NoReader
<1>6. CASE s \in AllStrings
  <2>1. Careful => ~BeingRead(s) /\ length[b] = Len(data[s])
    BY <1>4, <1>6, CarefulShare, BufferContext DEF Shown
  <2> HIDE DEF refs
  <2> QED
    BY <1>1, <1>3, <1>4, <1>5, <1>6, <2>1, ShareInv
<1>7. CASE s = Null
  <2>1. Rebind(copy, Null, size[b], length[b], refs, data)
    <3>1. size[b] = 0 /\ (Careful => length[b] = 0)
      BY <1>4, <1>7 DEF IInv, SizesFit, SizeFits, Shown
    <3>2. \A c \in Coroutines : StillReads(c) /\ Careful => io[c].string # Null
      BY Reader, BufferContext DEF StillReads
    <3> HIDE DEF refs
    <3> QED
      BY <1>1, <1>3, <1>4, <1>5, <1>7, <3>1, <3>2, CallsStay, BufferContext
         DEF Rebind, variables, StillReads
  <2> HIDE DEF refs
  <2> QED
    BY <1>3, <1>4, <2>1, BufferChange, BufferContext
<1> QED
  BY <1>6, <1>7, BufferContext

LEMMA SharingInv ==
    ASSUME IInv, UNCHANGED allowed, NEW b \in Buffers, Sharing(b)
    PROVE  Good
<1>1. Sizes \subseteq Nat
  BY BufferAssumption DEF Sizes
<1>2. CASE \E v \in Variables, start, n \in Sizes : Read(b, start, n, v)
  BY <1>1, <1>2, ReadInv
<1>3. CASE \E v \in Variables : (MayShare(value[b]) /\ ShareString(b, v)) \/ FetchString(b, v)
  BY <1>3, ShareStringInv, FetchStringInv
<1>4. CASE \E v \in Variables : \/ MayShare(value[b]) /\ MaySerialize(b) /\ Serialize(b, v)
                                \/ MayShare(variable[v]) /\ MayUnserialize(b) /\ Unserialize(b, v)
  BY <1>4, SerializeInv, UnserializeInv
<1>5. CASE \E copy \in Buffers \ {b} : MayShare(value[b]) /\ Clone(b, copy)
  BY <1>5, CloneInv
<1>6. CASE FreeObject(b)
  <2>1. /\ Drop(b) /\ UNCHANGED <<variables, io>>
        /\ locker' \in Locks /\ \A a \in Buffers \ {b} : locker'[a] = locker[a]
        /\ \A c \in Coroutines : io[c].op = "read" => io[c].buffer # b
    BY <1>6, BufferContext DEF FreeObject, Locks
  <2> QED
    BY <2>1, DropInv
<1> QED
  BY <1>2, <1>3, <1>4, <1>5, <1>6 DEF Sharing

LEMMA LockInv ==
    ASSUME IInv, UNCHANGED allowed, NEW c \in Coroutines, NEW b \in Buffers,
           Lock(c, b) \/ Unlock(c, b)
    PROVE  Good
<1>1. /\ UNCHANGED <<data, owners, value, size, length, variable, seen>> /\ UNCHANGED io
      /\ locker' \in Locks /\ \A a \in Buffers \ {b} : locker'[a] = locker[a]
      /\ io[c].op # "read" /\ (Unlocked(b) \/ locker[b] = c)
  <2>1. CASE Lock(c, b)
    BY <2>1, BufferContext DEF Lock, variables, Idle, Locks
  <2>2. CASE Unlock(c, b)
    BY <2>2, BufferContext DEF Unlock, variables, Idle, Locks
  <2> QED
    BY <2>1, <2>2
<1>2. \A d \in Coroutines : StillReads(d) => io[d].buffer # b
  BY <1>1, Reader, BufferAssumption DEF StillReads, Unlocked
<1> QED
  BY <1>1, <1>2, CallsStay, CallChange

LEMMA StartReadInv ==
    ASSUME IInv, UNCHANGED allowed, NEW c \in Coroutines, NEW b \in Buffers,
           NEW offset \in Nat, NEW n \in Nat, MayRead(b), StartRead(c, b, offset, n)
    PROVE  Good
<1> USE BufferAssumption
<1> DEFINE bytes == Own(b)
           new == [op |-> "read", buffer |-> b, string |-> value[b], offset |-> offset,
                   size |-> n, sent |-> <<>>]
<1>1. /\ io[c] = Idle /\ Unlocked(b) /\ value[b] \in AllStrings /\ n > 0
      /\ offset <= length[b] /\ offset + n <= size[b]
      /\ locker' = [locker EXCEPT ![b] = c] /\ io' = [io EXCEPT ![c] = new]
      /\ Store(b, bytes, size[b], length[b]) /\ UNCHANGED variables
  BY BufferContext DEF StartRead
<1>2. /\ bytes \in Seq(Bytes \cup {Junk}) /\ length[b] \in Nat /\ size[b] \in Nat
      /\ Fresh => length[b] <= size[b]
      /\ Careful => bytes \in Seq(Bytes) /\ Len(bytes) = length[b]
  BY ShownProperties
<1> HIDE DEF bytes
<1>3. Fits(bytes, size[b], length[b])
  BY <1>2 DEF Fits
<1>4. /\ locker' \in Locks /\ locker'[b] = c
      /\ \A a \in Buffers \ {b} : locker'[a] = locker[a]
  BY <1>1, BufferContext DEF Locks
<1>5. /\ new \in Calls /\ new.op = "read" /\ new.buffer = b /\ new.string = value[b]
      /\ new.offset = offset /\ new.size = n
  BY <1>1 DEF Calls
<1> HIDE DEF new
<1>6. /\ io'[c] = new /\ io' \in [Coroutines -> Calls]
      /\ \A d \in Coroutines \ {c} : io'[d] = io[d]
  BY <1>1, <1>5 DEF IInv, Typed, TypeOK, Calls
<1>7. /\ value' \in [Buffers -> AllStrings \cup {Null}]
      /\ value'[b] # Null /\ size'[b] = size[b] /\ length'[b] = length[b]
      /\ Exclusive(b) => value'[b] = value[b] /\ owners' = owners /\ value[b] \in Strings
  <2>1. size[b] > 0
    BY <1>1, <1>2
  <2>2. ASSUME NEW s \in AllStrings, SetValue(b, s, size[b], length[b])
        PROVE  /\ value' \in [Buffers -> AllStrings \cup {Null}]
               /\ value'[b] = s /\ size'[b] = size[b] /\ length'[b] = length[b]
    BY <2>2 DEF SetValue, IInv, Typed, TypeOK
  <2>3. CASE Exclusive(b)
    <3>1. SetValue(b, value[b], size[b], length[b]) /\ owners' = owners
      BY <1>1, <2>3 DEF Store, Settle
    <3> QED
      BY <1>1, <2>2, <2>3, <3>1, BufferContext DEF Exclusive
  <2>4. CASE ~Exclusive(b)
    <3>1. size[b] # 0
      BY <2>1
    <3>2. PICK s \in Strings : SetValue(b, s, size[b], length[b])
      BY <1>1, <2>4, <3>1 DEF Store
    <3> QED
      BY <2>2, <2>4, <3>2, BufferContext
  <2> QED
    BY <2>3, <2>4
<1>8. ReadAt(c)'
  BY <1>1, <1>4, <1>5, <1>6, <1>7 DEF ReadAt, MayRead
<1>9. Careful => Alone(c)'
  <2> SUFFICES ASSUME Careful PROVE Alone(c)'
    OBVIOUS
  <2>1. Exclusive(b) /\ Exact
    BY Kinds DEF MayRead, IInv
  <2>2. b \in owners[value[b]]
    BY <1>7, <2>1, BufferContext DEF Exact, Holds
  <2>3. owners[value[b]] = {b}
    BY <2>1, <2>2 DEF Exclusive
  <2> QED
    BY <1>5, <1>6, <1>7, <2>1, <2>3 DEF Alone
<1>10. ReadsOnly(b)
  <2>1. \A d \in Coroutines : io'[d].op # "none" => io'[d].string \in AllStrings
    BY <1>1, <1>5, <1>6 DEF IInv, Typed
  <2>2. io[c].op = "none" /\ io'[c].op = "read"
    BY <1>1, <1>5, <1>6 DEF Idle
  <2> QED
    BY <1>6, <1>8, <1>9, <2>1, <2>2 DEF ReadsOnly
<1>11. \A d \in Coroutines : StillReads(d) => io[d].buffer # b
  BY <1>1, NoReader DEF StillReads
<1> QED
  BY <1>1, <1>3, <1>4, <1>10, <1>11, StoreInv

LEMMA FinishReadInv ==
    ASSUME IInv, UNCHANGED allowed, NEW c \in Coroutines, NEW bytes \in Seq(Bytes),
           FinishRead(c, bytes)
    PROVE  Good
<1> USE BufferAssumption
<1>1. PICK b \in Buffers : b = io[c].buffer
  BY Reader DEF FinishRead
<1>2. PICK s \in AllStrings : s = io[c].string
  BY DEF FinishRead, IInv, Typed
<1>3. PICK offset \in Nat : offset = io[c].offset
  BY DEF IInv, Typed, TypeOK
<1>4. PICK mine \in AllStrings : mine = value[b]
  BY <1>1, Reader, BufferContext DEF FinishRead
<1>5. /\ io[c].op = "read" /\ locker[b] = c /\ ReadAt(c)
      /\ Careful => Alone(c) /\ s = mine
  BY <1>1, <1>2, <1>4, Kinds DEF FinishRead, IInv, Reads, ReadAt, Pure
<1>6. /\ locker' = [locker EXCEPT ![b] = NoCo] /\ io' = [io EXCEPT ![c] = Idle]
      /\ UNCHANGED <<variable, seen>> /\ Len(bytes) <= io[c].size
  BY <1>1 DEF FinishRead, variables
<1>7. locker' \in Locks /\ \A a \in Buffers \ {b} : locker'[a] = locker[a]
  BY <1>6, BufferContext DEF Locks
<1>8. Idle \in Calls /\ Idle.op = "none"
  BY DEF Idle, Calls
<1>9. io'[c] = Idle /\ io' \in [Coroutines -> Calls]
      /\ \A d \in Coroutines \ {c} : io'[d] = io[d]
  BY <1>6, <1>8 DEF IInv, Typed, TypeOK, Calls
<1>10. ReadsOnly(b)
  <2>1. ReadAt(c)'
    BY <1>8, <1>9 DEF ReadAt
  <2>2. \A d \in Coroutines : io'[d].op # "none" => io'[d].string \in AllStrings
    BY <1>8, <1>9 DEF IInv, Typed
  <2> QED
    BY <1>1, <1>5, <1>8, <1>9, <2>1, <2>2 DEF ReadsOnly
<1>11. ASSUME NEW d \in Coroutines, StillReads(d)
       PROVE  io[d].buffer # b /\ (Careful => io[d].string # s)
  <2>1. d # c /\ io[d].op = "read"
    BY <1>5, <1>8, <1>9, <1>11 DEF StillReads
  <2>2. locker[io[d].buffer] = d /\ (Careful => owners[io[d].string] = {io[d].buffer})
    BY <2>1, Reader
  <2>3. Careful => owners[s] = {b}
    BY <1>1, <1>2, <1>5 DEF Alone
  <2> QED
    BY <1>5, <2>1, <2>2, <2>3
<1>12. CASE bytes = <<>>
  <2>1. UNCHANGED <<data, owners, value, size, length>>
    BY <1>12 DEF FinishRead
  <2> QED
    BY <1>6, <1>7, <1>10, <1>11, <2>1, CallChange
<1>13. CASE bytes # <<>>
  <2> DEFINE end == offset + Len(bytes)
             landed == Overlay(data[s], offset, bytes)
             over == IF mine = s THEN landed ELSE data[mine]
             one == Memory(landed, Len(data[s]))
             two == Memory(over, IF end > length[b] THEN end ELSE Len(data[mine]))
             new == [data EXCEPT ![s] = one, ![mine] = two]
             len == Larger(length[b], end)
  <2>1. length[b] \in Nat /\ size[b] \in Nat /\ end \in Nat /\ Len(bytes) > 0
    BY <1>13, ShownProperties
  <2>2. data[s] \in Seq(Bytes \cup {Junk}) /\ data[mine] \in Seq(Bytes \cup {Junk})
        /\ bytes \in Seq(Bytes \cup {Junk})
    BY BufferContext, BytesAreBytes DEF Stores
  <2>3. landed \in Seq(Bytes \cup {Junk}) /\ over \in Seq(Bytes \cup {Junk})
        /\ Len(landed) = Larger(Len(data[s]), end)
    BY <2>2, OverlayProperties
  <2>4. ASSUME Careful
        PROVE  /\ landed \in Seq(Bytes) /\ Len(landed) = len /\ over = landed
               /\ Len(data[s]) = length[b] /\ owners[s] = {b} /\ s \in Strings
    <3>1. data[s] \in Seq(Bytes) /\ Len(data[s]) = length[b]
      BY <1>4, <1>5, <2>4, ShownProperties, BufferContext DEF Shown
    <3>2. offset <= length[b]
      BY <1>1, <1>3, <1>5, <2>4, Kinds DEF ReadAt
    <3> QED
      BY <1>1, <1>2, <1>5, <2>2, <2>3, <2>4, <3>1, <3>2, OverlayProperties DEF Alone
  <2> HIDE DEF landed
  <2>5. one \in Seq(Bytes \cup {Junk}) /\ two \in Seq(Bytes \cup {Junk})
    <3>1. Len(data[s]) \in Nat /\ (IF end > length[b] THEN end ELSE Len(data[mine])) \in Nat
      BY <2>1, <2>2
    <3> QED
      BY <2>3, <3>1, MemoryProperties
  <2>6. Settle(owners, new) /\ SetValue(b, mine, size[b], len)
    BY <1>1, <1>2, <1>3, <1>4, <1>13 DEF FinishRead, landed
  <2>7. len \in Nat /\ (Fresh => len <= size[b])
    <3>1. Fresh => offset + io[c].size <= size[b] /\ length[b] <= size[b]
      BY <1>1, <1>3, <1>5, ShownProperties DEF ReadAt
    <3>2. io[c].size \in Nat
      BY DEF IInv, Typed, TypeOK
    <3>3. Fresh => end <= size[b] /\ length[b] <= size[b]
      BY <1>6, <2>1, <3>1, <3>2
    <3> QED
      BY <2>1, <3>3 DEF Larger
  <2>8. Careful => two \in Seq(Bytes) /\ Len(two) = len
    <3>1. ASSUME Careful PROVE two = Memory(landed, len)
      <4>1. over = landed /\ Len(data[mine]) = length[b]
        BY <1>5, <2>4, <3>1
      <4>2. len = IF end > length[b] THEN end ELSE length[b]
        BY <2>1, LargerProperties
      <4> HIDE DEF over, len, end
      <4> QED
        BY <4>1, <4>2
    <3>2. Careful => Memory(landed, len) = landed
      BY <2>3, <2>4, <2>7, MemoryProperties
    <3> QED
      BY <2>4, <3>1, <3>2
  <2> HIDE DEF one, two, over, len, end
  <2>9. /\ new \in Stores /\ new[mine] = two
        /\ \A t \in AllStrings : new[t] = data[t] \/ t = s \/ t = mine
        /\ \A t \in AllStrings : new[t] = data[t] \/ t = mine \/ s # mine
    BY <2>5, BufferContext DEF Stores
  <2> HIDE DEF new
  <2>10. ReadEnds(s) /\ ReadEnds(mine)
    BY <1>1, <1>2, <1>4, <1>5, <1>8, <1>9 DEF ReadEnds
  <2>11. Counting => \A t \in Strings : \A h :
            h \in owners[t] <=> IF h = b THEN t = mine ELSE h \in owners[t]
    BY <1>4, BufferContext DEF IInv, Exact, Holds, Holders
  <2>12. Careful => /\ \A t \in AllStrings : new[t] \in Seq(Bytes)
                    /\ len = IF mine = Null THEN 0 ELSE Len(new[mine])
    BY <1>5, <2>8, <2>9, BufferContext
  <2>13. Rebind(b, mine, size[b], len, owners, new)
    <3>1. mine # Null /\ mine \in AllStrings
      BY BufferContext
    <3> QED
      BY <1>5, <1>6, <1>7, <1>10, <1>11, <2>6, <2>7, <2>9, <2>10, <2>11, <2>12, <3>1 DEF Rebind
  <2> QED
    BY <2>1, <2>7, <2>9, <2>13, BufferChange, BufferContext
<1> QED
  BY <1>12, <1>13

LEMMA StartWriteInv ==
    ASSUME IInv, UNCHANGED allowed, NEW c \in Coroutines, NEW s \in AllStrings,
           MayShare(s), StartWrite(c, s)
    PROVE  Good
<1> USE BufferAssumption
<1> DEFINE refs == Moved(owners, c, Null, s)
           new == [op |-> "write", buffer |-> Null, string |-> s, offset |-> 0,
                   size |-> 0, sent |-> data[s]]
<1>1. /\ io[c] = Idle /\ Settle(refs, data) /\ io' = [io EXCEPT ![c] = new]
      /\ UNCHANGED <<value, size, length, locker, variable, seen>>
  BY OneEnd DEF StartWrite, buffers, variables
<1>2. data[s] \in Seq(Bytes \cup {Junk}) /\ s # Null /\ c \in Holders
  BY BufferContext DEF Stores, Holders
<1>3. new \in Calls /\ new.op = "write" /\ new.string = s /\ new.sent = data[s]
  BY <1>2 DEF Calls
<1> HIDE DEF new
<1>4. \A t \in Strings : Holds(c, t) <=> t = Null
  BY <1>1 DEF Holds, Idle, AllStrings
<1>5. /\ refs \in References
      /\ Counting => \A t \in Strings : \A h :
            h \in refs[t] <=> IF h = c THEN t = s ELSE h \in owners[t]
  BY <1>2, <1>4, MovedExact
<1> HIDE DEF refs
<1>6. Careful => ~BeingRead(s)
  BY CarefulShare
<1>7. Writes(c, s, refs, new)
  BY <1>1, <1>2, <1>3, <1>5, <1>6 DEF Writes, BeingRead, Idle
<1> QED
  BY <1>3, <1>5, <1>7, WriteChange

LEMMA FinishWriteInv ==
    ASSUME IInv, UNCHANGED allowed, NEW c \in Coroutines, FinishWrite(c)
    PROVE  Good
<1> USE BufferAssumption
<1>1. PICK s \in AllStrings : s = io[c].string
  BY DEF FinishWrite, IInv, Typed
<1> DEFINE refs == Moved(owners, c, s, Null)
<1>2. /\ io[c].op = "write" /\ Settle(refs, data) /\ io' = [io EXCEPT ![c] = Idle]
      /\ UNCHANGED <<value, size, length, locker, variable, seen>>
  BY <1>1, OneEnd DEF FinishWrite, buffers, variables
<1>3. Idle \in Calls /\ Idle.op = "none" /\ c \in Holders
  BY DEF Idle, Calls, Holders
<1>4. \A t \in Strings : Holds(c, t) <=> t = s
  BY <1>1, <1>2 DEF Holds
<1>5. /\ refs \in References
      /\ Counting => \A t \in Strings : \A h :
            h \in refs[t] <=> IF h = c THEN t = Null ELSE h \in owners[t]
  BY <1>3, <1>4, MovedExact
<1> HIDE DEF refs
<1>6. Careful => ~BeingRead(Null)
  BY OthersNotRead
<1>7. Writes(c, Null, refs, Idle)
  BY <1>2, <1>3, <1>5, <1>6 DEF Writes, BeingRead
<1> QED
  BY <1>3, <1>5, <1>7, WriteChange

LEMMA SocketInv ==
    ASSUME IInv, UNCHANGED allowed, NEW c \in Coroutines, Socket(c)
    PROVE  Good
<1>1. Sizes \subseteq Nat
  BY BufferAssumption DEF Sizes
<1>2. CASE \E b \in Buffers : Lock(c, b) \/ Unlock(c, b)
  BY <1>2, LockInv
<1>3. CASE \E b \in Buffers : \E offset, n \in Sizes : MayRead(b) /\ StartRead(c, b, offset, n)
  BY <1>1, <1>3, StartReadInv
<1>4. CASE \E bytes \in Chunks : FinishRead(c, bytes)
  BY <1>4, ChunksAreBytes, FinishReadInv
<1>5. CASE \E s \in Given : MayShare(s) /\ StartWrite(c, s)
  <2>1. Given \subseteq AllStrings
    BY BufferContext DEF Given, AllStrings
  <2> QED
    BY <1>5, <2>1, StartWriteInv
<1>6. CASE FinishWrite(c)
  BY <1>6, FinishWriteInv
<1> QED
  BY <1>2, <1>3, <1>4, <1>5, <1>6 DEF Socket

LEMMA InvStep ==
    ASSUME IInv, Next
    PROVE  Good
BY PhpInv, ResizingInv, WritingInv, SharingInv, SocketInv DEF Next, Operation

LEMMA InvStutter == ASSUME IInv, UNCHANGED vars PROVE IInv'
<1>1. /\ UNCHANGED <<data, owners, value, size, length, locker, variable, seen>>
      /\ UNCHANGED io /\ UNCHANGED allowed
  BY DEF vars
<1>2. Typed'
  BY <1>1 DEF IInv, Typed, TypeOK
<1>3. SizesFit' /\ Reads'
  BY <1>1 DEF IInv, SizesFit, SizeFits, Reads, ReadAt, Fresh
<1>4. (Counting => Exact)'
  BY <1>1 DEF IInv, Exact, Counting, Holds
<1>5. (Careful => Pure)'
  BY <1>1 DEF IInv, Pure, Careful, HeldStringsNeverChange, Shown, Alone
<1> QED
  BY <1>2, <1>3, <1>4, <1>5 DEF IInv

\* What the theorems rest on: a string that is changed has a single owner, the buffer it
\* is changed through, and so has a string that is read into by a careful program.
LEMMA Invariance == Spec => []IInv
<1>1. IInv /\ [Next]_vars => IInv'
  BY InvStep, InvStutter DEF Good
<1> QED
  BY <1>1, InvInit, PTL DEF Spec

-----------------------------------------------------------------------------
(* The theorems *)

\* The types of the variables, whatever the program does.
THEOREM TypeCorrect == Spec => []TypeOK
<1>1. IInv => TypeOK
  BY DEF IInv, Typed
<1> QED
  BY <1>1, Invariance, PTL

\* As long as the program serializes interned strings and unserializes new buffers only,
\* strings are counted exactly, also when it reads into shared strings:
\* zend_string_copy() and zend_string_release() match who has the string, so nothing is
\* freed early and nothing leaks.
THEOREM StringsAreCounted == Spec => [](Counting => OwnersAreExact)
<1>1. IInv => (Counting => OwnersAreExact)
  <2> SUFFICES ASSUME IInv, Counting, NEW s \in Strings
               PROVE  owners[s] = {h \in Holders : Holds(h, s)}
    BY DEF OwnersAreExact
  <2> QED
    BY DEF IInv, Exact
<1> QED
  BY <1>1, Invariance, PTL

\* swow_buffer_cow() and swow_buffer_realloc_standard() change no string that anybody
\* else counts on: of all steps of all programs that keep the counts, only the end of a
\* read does.
THEOREM StringsAreCopied == Spec => CopyOnWrite
<1>1. IInv /\ [Next]_vars => [Counting => SharedStringsAreCopied]_vars
  BY InvStep DEF Good
<1> QED
  BY <1>1, Invariance, PTL DEF Spec, CopyOnWrite

\* What PHP holds, or a socket sends, stays as it was in a careful program: the end of a
\* read changes no shared string either.
THEOREM HeldStringsStay == Spec => []CarefulStringsNeverChange
<1>1. IInv => CarefulStringsNeverChange
  BY DEF IInv, Pure, CarefulStringsNeverChange
<1> QED
  BY <1>1, Invariance, PTL

\* The length fits the size in all programs that unserialize new buffers only, and where
\* the program is careful swow_buffer_update_standard() and swow_buffer_virtual_write()
\* keep the buffer and its string alike, and show no memory that nobody wrote.
THEOREM BuffersAreSound == Spec => []BufferIsSound
<1>1. ASSUME IInv, Careful, NEW b \in Buffers, NEW i \in DOMAIN Shown(b)
      PROVE  Shown(b)[i] # Junk
  <2>1. Shown(b) \in Seq(Bytes)
    BY <1>1, ShownProperties
  <2> QED
    BY <1>1, <2>1, BufferAssumption
<1>2. IInv => BufferIsSound
  BY <1>1 DEF IInv, SizesFit, SizeFits, Pure, BufferIsSound
<1> QED
  BY <1>2, Invariance, PTL

\* Whoever waits in _read() still has the lock and a buffer with memory, whatever the
\* program does, and the room it asked for; and the memory it reads to is that of the
\* buffer unless the string was shared when it began.
THEOREM ReadersAreSafe == Spec => []ReadsKeepTheirBuffer
<1>1. IInv => ReadsKeepTheirBuffer
  BY DEF IInv, Reads, ReadAt, ReadsKeepTheirBuffer
<1> QED
  BY <1>1, Invariance, PTL

-----------------------------------------------------------------------------
(* The invariant of the receiver *)

\* What the parser can expect next.
ParserStates == {"start", "head", "body", "complete", "size", "chunk", "end", "last",
                 "multipart"}

Places == {"none", "receive", "parse", "preserve", "body", "chunk", "frame", "payload"}

\* The local variables of a call.
CallsOfReceiver ==
    [at : Places, offset : Nat, source : {"buffer", "body"}, kept : Nat,
     headersCompleted : BOOLEAN, isChunked : BOOLEAN, isMultipart : BOOLEAN,
     contentLength : Nat, chunkLength : Nat, headerLength : Nat,
     head : Seq(Nat), body : Seq(Nat)]

\* The types, and that no call goes on when the connection is given up.
ReceiverTyped ==
    /\ stream \in Streams
    /\ preserve \in BOOLEAN
    /\ taken \in 0..Len(stream)
    /\ buffer \in Seq(Nat)
    /\ parsedOffset \in 0..LoadLimit
    /\ parser \in [state : ParserStates, left : Nat]
    /\ call \in CallsOfReceiver
    /\ got \in Seq([head : Seq(Nat), body : Seq(Nat)])
    /\ given_up # "no" => call = NoCall

\* Messages up to k are done with, but for an empty line.
AreDone(s, k, pos) ==
    \/ StartsBehind(s, k + 1, pos)
    \/ IsEmptyLine(s, k, pos + 1) /\ StartsBehind(s, k + 1, pos + 1)

\* What was not parsed yet.
Unread == After(Source, IF call.at = "none" THEN parsedOffset ELSE call.offset)

\* Between calls.
NoCallAt(pos) ==
    /\ call = NoCall
    /\ parser.state = "start"
    /\ AreDone(stream, Len(got), pos)
    /\ \/ parsedOffset = 0
       \/ parsedOffset < Len(buffer)
       \/ buffer = <<>> /\ IsEmptyLine(stream, Len(got), pos)

\* The call waits for more in the buffer, or parses what is there.
ReadsBuffer == call.at \in {"receive", "parse"} /\ call.source = "buffer"

\* Before the message, or behind an empty line that was skipped before it.
StartAt(pos) ==
    /\ ReadsBuffer
    /\ parser.state = "start"
    /\ Comes({"head", "junk"})
    /\ ~call.headersCompleted /\ call.head = <<>> /\ call.body = <<>>
    /\ \/ call.headerLength = 0 /\ AreDone(stream, Len(got), pos)
       \/ /\ call.headerLength = 1 /\ StartsBehind(stream, NextMessage, pos)
          /\ IsEmptyLine(stream, Len(got), pos)
    /\ \/ parsedOffset = 0
       \/ parsedOffset = call.offset /\ parsedOffset < Len(buffer)
       \/ IsEmptyLine(stream, Len(got), pos)

\* In the headers, which begin at f.
HeadAt(pos) ==
    /\ ReadsBuffer
    /\ parser.state = "head"
    /\ ~call.headersCompleted /\ call.body = <<>>
    /\ \E f \in 0..(pos - 1) :
          /\ StartsBehind(stream, NextMessage, f)
          /\ Are(stream, NextMessage, {"head"}, f, pos)
          /\ call.head = Positions(f, pos)
          /\ \/ call.headerLength = pos - f
             \/ call.headerLength = pos - f + 1 /\ IsEmptyLine(stream, Len(got), f)

\* The headers are those at f up to p.
HeadersAt(f, p) ==
    /\ StartsBehind(stream, NextMessage, f)
    /\ Are(stream, NextMessage, {"head"}, f, p - 1)
    /\ Are(stream, NextMessage, {"blank"}, p - 1, p)
    /\ call.headersCompleted
    /\ call.head = Positions(f, p)
    /\ p - f <= MaxHeaderLength /\ call.headerLength <= MaxHeaderLength
    /\ call.isChunked = (stream[p].body = "chunked")
    /\ call.isMultipart = (stream[p].body = "multipart")
    /\ call.contentLength <= MaxContentLength

\* In a body with a length, behind the headers up to p: all of it is yet to come, or the
\* rest of it that is read past the buffer.
LengthAt(p, pos) ==
    /\ stream[p].body \notin {"chunked", "multipart"}
    /\ call.source = "buffer"
    /\ call.contentLength = stream[p].n
    /\ \/ /\ parser.state = "complete"
          /\ call.at = "parse"
          /\ call.contentLength = 0
          /\ pos = p /\ call.body = <<>>
       \/ /\ parser.state = "body"
          /\ call.at \in {"receive", "parse"}
          /\ parser.left = call.contentLength /\ parser.left > 0
          /\ pos = p /\ call.body = <<>>
       \/ /\ parser.state = "body"
          /\ call.at = "body"
          /\ pos = taken /\ p <= pos /\ pos < p + call.contentLength
          /\ parser.left = p + call.contentLength - pos
          /\ call.body = Positions(p, pos)
          /\ Len(buffer) <= call.offset

\* In a body of chunks: before the header of one, in its data, or at its end.
ChunkedAt(p, pos) ==
    /\ stream[p].body = "chunked"
    /\ call.source = "buffer"
    /\ Are(stream, NextMessage, {"size", "data", "end"}, p, pos)
    /\ call.body = Picked(stream, NextMessage, {"data"}, p, pos)
    /\ call.contentLength = Len(call.body) + IF parser.state = "chunk" THEN parser.left ELSE 0
    /\ \/ /\ parser.state = "size"
          /\ call.at \in {"receive", "parse"}
          /\ Are(stream, NextMessage, {"size", "junk"}, pos, pos + 1)
       \/ /\ parser.state = "chunk"
          /\ call.at \in {"receive", "parse", "chunk"}
          /\ \E q \in (p + 1)..pos :
                /\ stream[q].is = "size"
                /\ parser.left \in 1..stream[q].n
                /\ pos = q + stream[q].n - parser.left
          /\ call.chunkLength = parser.left
          /\ call.at = "chunk" => pos = taken /\ Len(buffer) <= call.offset
       \/ /\ parser.state \in {"end", "last"}
          /\ call.at \in {"receive", "parse"}
          /\ \E q \in (p + 1)..pos :
                /\ stream[q].is = "size"
                /\ pos = q + stream[q].n
                /\ parser.state = IF stream[q].n = 0 THEN "last" ELSE "end"

\* In a multipart body, which is parsed in the buffer, or where it is preserved.
MultipartAt(p, pos) ==
    /\ stream[p].body = "multipart"
    /\ parser.state = "multipart"
    /\ call.contentLength = stream[p].n
    /\ Are(stream, NextMessage, {"part", "mark"}, p, pos)
    /\ \/ /\ ~preserve /\ ReadsBuffer
          /\ call.body = Picked(stream, NextMessage, {"part"}, p, pos)
       \/ /\ preserve /\ call.source = "body"
          /\ call.kept = Len(buffer)
          /\ call.body = Positions(p, taken)
          /\ \/ call.at = "preserve" /\ call.offset = 0 /\ pos = p /\ taken < p + call.contentLength
             \/ call.at = "parse" /\ taken >= p + call.contentLength

\* At the header of a frame.
FrameAt(pos) ==
    /\ call = [NoCall EXCEPT !.at = "frame", !.offset = parsedOffset]
    /\ parser.state = "start"
    /\ parsedOffset = 0 \/ parsedOffset < Len(buffer)
    /\ StartsBehind(stream, NextMessage, pos)
    /\ Are(stream, NextMessage, {"opcode"}, pos, pos + 1)

\* In the payload of the frame at f, the rest of which is read past the buffer.
PayloadAt(pos) ==
    /\ call.at = "payload" /\ call.source = "buffer"
    /\ parser.state = "start"
    /\ \E f \in 0..pos :
          /\ StartsBehind(stream, NextMessage, f)
          /\ Are(stream, NextMessage, {"opcode"}, f, f + 1)
          /\ pos = f + 2 + stream[f + 2].more
          /\ call.head = Positions(f, pos)
          /\ call.contentLength = stream[f + 2].n
    /\ call.contentLength <= MaxContentLength
    /\ call.body = Positions(pos, taken)
    /\ taken < pos + call.contentLength
    /\ Len(buffer) = call.offset + taken - pos

\* The call is where it has to be, having parsed what comes up to pos.
IsAt(pos) ==
    \/ NoCallAt(pos) \/ StartAt(pos) \/ HeadAt(pos) \/ FrameAt(pos) \/ PayloadAt(pos)
    \/ \E f, p \in 0..pos : HeadersAt(f, p) /\ (LengthAt(p, pos) \/ ChunkedAt(p, pos)
                                              \/ MultipartAt(p, pos))

\* The receiver follows the stream.
Follows ==
    /\ call.at = "receive" => call.offset <= Len(buffer)
    /\ \E pos \in 0..taken : Unread = Positions(pos, taken) /\ IsAt(pos)

\* Nothing was read that was sent behind a multipart body before that was answered.
SentInTime ==
    \A i \in 1..taken : \A j \in 1..(i - 1) :
       Kind(j) = "close" /\ stream[j].message < stream[i].message
          => Len(got) >= stream[j].message

\* Room in the buffer for the header of any frame.
HeadersFit ==
    \A s \in Streams : \A i \in DOMAIN s :
       LoadLimit + HEADER_MIN_SIZE + s[i].more <= BufferSize

\* OnlyTheBadAreRefused, but that a small buffer excuses an error.
Refusals ==
    /\ given_up = "error" /\ HeadersFit => Pieces(NextMessage, {"junk"}) # <<>>
    /\ given_up = "too large" =>
          IsTooLarge(NextMessage, Len(Pieces(NextMessage - 1, {"epilogue"})))

\* What holds at all times.
ReceiverInv ==
    /\ ReceiverTyped
    /\ SentInTime
    /\ DeliveredAreSent
    /\ Refusals
    /\ given_up = "no" => Follows
-----------------------------------------------------------------------------
(* The pieces of a message *)

\* The pieces of a message are picked in all of the stream.
LEMMA PiecesPicked ==
    ASSUME NEW k, NEW K
    PROVE  Pieces(k, K) = Picked(stream, k, K, 0, Len(stream))
  BY DEF Pieces, Picked, Kind

-----------------------------------------------------------------------------
(* The parser *)

\* A report, after an empty line that was skipped.
LEMMA ReportMore ==
    ASSUME NEW event, NEW n \in Nat, NEW state, NEW left, NEW k \in Nat
    PROVE  [Report(event, n, state, left) EXCEPT !.parsed = @ + k]
              = Report(event, n + k, state, left)
  BY DEF Report

\* What a report says.
LEMMA ReportSays ==
    ASSUME NEW event, NEW n, NEW state, NEW left
    PROVE  /\ Report(event, n, state, left).event = event
           /\ Report(event, n, state, left).parsed = n
           /\ Report(event, n, state, left).next.state = state
           /\ Report(event, n, state, left).next.left = left
           /\ Report(event, n, state, left).next = [state |-> state, left |-> left]
  BY DEF Report

\* Without an empty line nothing is skipped.
LEMMA ParseUnskipped ==
    ASSUME NEW p, NEW rest \in Seq(Nat), Skipped(p, rest) = 0,
           NEW event, NEW n \in Nat, NEW state, NEW left,
           ParseFrom(p, rest) = Report(event, n, state, left)
    PROVE  Parse(p, rest) = Report(event, n, state, left)
<1>1. After(rest, 0) = rest
  BY AfterNone
<1>2. [Report(event, n, state, left) EXCEPT !.parsed = @ + 0] = Report(event, n + 0, state, left)
  BY ReportMore
<1>3. n + 0 = n
  OBVIOUS
<1> QED
  BY <1>1, <1>2, <1>3 DEF Parse

\* At the end of what was read the parser waits.
LEMMA ParseNothing ==
    ASSUME NEW p, p.state # "complete"
    PROVE  Parse(p, <<>>) = Report("NONE", 0, p.state, p.left)
<1> DEFINE rest == <<>>
<1>1. rest \in Seq(Nat) /\ Skipped(p, rest) = 0 /\ 0 \in Nat
  BY DEF Skipped
<1>2. ParseFrom(p, rest) = Report("NONE", 0, p.state, p.left)
  BY DEF ParseFrom
<1> HIDE DEF rest
<1>3. Parse(p, rest) = Report("NONE", 0, p.state, p.left)
  BY <1>1, <1>2, ParseUnskipped
<1> QED
  BY <1>3 DEF rest

\* Behind the body of a message the parser says that it is complete.
LEMMA ParseComplete ==
    ASSUME NEW p, p.state = "complete", NEW rest \in Seq(Nat)
    PROVE  Parse(p, rest) = Report("MESSAGE_COMPLETE", 0, "start", 0)
<1>1. Skipped(p, rest) = 0
  BY DEF Skipped
<1>2. ParseFrom(p, rest) = Report("MESSAGE_COMPLETE", 0, "start", 0)
  BY DEF ParseFrom
<1>3. 0 \in Nat
  OBVIOUS
<1> QED
  BY <1>1, <1>2, <1>3, ParseUnskipped

\* The first position.
LEMMA HeadOfPositions ==
    ASSUME NEW a \in Nat, NEW b \in Nat, a < b
    PROVE  /\ Positions(a, b) \in Seq(Nat) /\ Positions(a, b) # <<>>
           /\ Head(Positions(a, b)) = a + 1 /\ Len(Positions(a, b)) = b - a
<1>1. /\ Positions(a, b) \in Seq(Nat) /\ Len(Positions(a, b)) = b - a
      /\ \A i \in 1..(b - a) : Positions(a, b)[i] = a + i
      /\ Positions(a, b) # <<>>
  BY PositionsProperties
<1>2. Positions(a, b)[1] = a + 1
  <2>1. 1 \in 1..(b - a)
    OBVIOUS
  <2> QED
    BY <1>1, <2>1
<1> QED
  BY <1>1, <1>2

\* What the parser finds behind position a.
LEMMA ParseToken ==
    ASSUME NEW p, NEW a \in Nat, NEW b \in Nat, a < b, p.left \in Nat,
           p.state # "start" \/ Kind(a + 1) # "epilogue"
    PROVE  /\ p.state \in {"start", "head"} =>
                 Parse(p, Positions(a, b)) = ParseHeaders(stream[a + 1])
           /\ p.state = "body" =>
                 Parse(p, Positions(a, b)) = ParseData(p.left, b - a, "body", "complete")
           /\ p.state = "chunk" =>
                 Parse(p, Positions(a, b)) = ParseData(p.left, b - a, "chunk", "end")
           /\ p.state \in {"size", "end", "last"} =>
                 Parse(p, Positions(a, b)) = ParseChunk(p.state, stream[a + 1])
           /\ p.state = "multipart" =>
                 Parse(p, Positions(a, b)) = ParseMultipart(stream[a + 1], b - a)
<1> DEFINE rest == Positions(a, b)
<1>1. rest \in Seq(Nat) /\ rest # <<>> /\ Head(rest) = a + 1 /\ Len(rest) = b - a
  BY HeadOfPositions
<1> HIDE DEF rest
<1>2. Skipped(p, rest) = 0
  BY <1>1 DEF Skipped
<1>3. After(rest, 0) = rest
  BY <1>1, AfterNone
<1>4. Parse(p, rest) = [ParseFrom(p, rest) EXCEPT !.parsed = @ + 0]
  BY <1>2, <1>3 DEF Parse
<1>5. ASSUME NEW event, NEW n \in Nat, NEW state, NEW left
      PROVE  [Report(event, n, state, left) EXCEPT !.parsed = @ + 0]
                = Report(event, n, state, left)
  BY DEF Report
<1>6. b - a \in Nat /\ 0 \in Nat /\ 1 \in Nat
  OBVIOUS
<1>7. ASSUME p.state \in {"start", "head"}
      PROVE  Parse(p, rest) = ParseHeaders(stream[a + 1])
  <2>1. ParseFrom(p, rest) = ParseHeaders(stream[a + 1])
    BY <1>1, <1>7 DEF ParseFrom
  <2> QED
    BY <1>4, <1>5, <1>6, <2>1 DEF ParseHeaders
<1>8. ASSUME p.state = "body"
      PROVE  Parse(p, rest) = ParseData(p.left, b - a, "body", "complete")
  <2>1. ParseFrom(p, rest) = ParseData(p.left, b - a, "body", "complete")
    BY <1>1, <1>8 DEF ParseFrom
  <2>2. Least(p.left, b - a) \in Nat
    BY <1>6 DEF Least
  <2> QED
    BY <1>4, <1>5, <2>1, <2>2 DEF ParseData
<1>9. ASSUME p.state = "chunk"
      PROVE  Parse(p, rest) = ParseData(p.left, b - a, "chunk", "end")
  <2>1. ParseFrom(p, rest) = ParseData(p.left, b - a, "chunk", "end")
    BY <1>1, <1>9 DEF ParseFrom
  <2>2. Least(p.left, b - a) \in Nat
    BY <1>6 DEF Least
  <2> QED
    BY <1>4, <1>5, <2>1, <2>2 DEF ParseData
<1>10. ASSUME p.state \in {"size", "end", "last"}
       PROVE  Parse(p, rest) = ParseChunk(p.state, stream[a + 1])
  <2>1. ParseFrom(p, rest) = ParseChunk(p.state, stream[a + 1])
    BY <1>1, <1>10 DEF ParseFrom
  <2> QED
    BY <1>4, <1>5, <1>6, <2>1 DEF ParseChunk
<1>11. ASSUME p.state = "multipart"
       PROVE  Parse(p, rest) = ParseMultipart(stream[a + 1], b - a)
  <2>1. ParseFrom(p, rest) = ParseMultipart(stream[a + 1], b - a)
    BY <1>1, <1>11 DEF ParseFrom
  <2> QED
    BY <1>4, <1>5, <1>6, <2>1 DEF ParseMultipart
<1> QED
  BY <1>7, <1>8, <1>9, <1>10, <1>11 DEF rest

\* An empty line before a message is skipped.
LEMMA ParseSkipping ==
    ASSUME NEW p, NEW a \in Nat, NEW b \in Nat, a < b,
           p.state = "start", Kind(a + 1) = "epilogue"
    PROVE  /\ a + 1 = b =>
                 Parse(p, Positions(a, b)) = Report("NONE", 1, "start", p.left)
           /\ a + 1 < b /\ stream[a + 2].is = "head" =>
                 Parse(p, Positions(a, b)) = Report("HEADER", 2, "head", 0)
           /\ a + 1 < b /\ stream[a + 2].is \notin {"head", "blank"} =>
                 Parse(p, Positions(a, b)) = Report("ERROR", 1, "error", 0)
<1> DEFINE rest == Positions(a, b)
           more == Positions(a + 1, b)
<1>1. rest \in Seq(Nat) /\ rest # <<>> /\ Head(rest) = a + 1
  BY HeadOfPositions
<1>2. After(rest, 1) = more
  BY PositionsAfter
<1>3. a + 1 \in Nat /\ (a + 1) + 1 = a + 2
  OBVIOUS
<1>4. ASSUME a + 1 < b
      PROVE  more # <<>> /\ Head(more) = a + 2
  BY <1>3, <1>4, HeadOfPositions
<1>5. ASSUME a + 1 = b
      PROVE  more = <<>>
  BY <1>3, <1>5, PositionsProperties
<1> HIDE DEF rest, more
<1>6. Skipped(p, rest) = 1
  BY <1>1 DEF Skipped
<1>7. Parse(p, rest) = [ParseFrom(p, more) EXCEPT !.parsed = @ + 1]
  BY <1>2, <1>6 DEF Parse
<1>8. ASSUME NEW event, NEW state, NEW left
      PROVE  /\ [Report(event, 0, state, left) EXCEPT !.parsed = @ + 1]
                   = Report(event, 1, state, left)
             /\ [Report(event, 1, state, left) EXCEPT !.parsed = @ + 1]
                   = Report(event, 2, state, left)
  BY DEF Report
<1>9. ASSUME a + 1 = b
      PROVE  Parse(p, rest) = Report("NONE", 1, "start", p.left)
  <2>1. ParseFrom(p, more) = Report("NONE", 0, "start", p.left)
    BY <1>5, <1>9 DEF ParseFrom
  <2> QED
    BY <1>7, <1>8, <2>1
<1>10. ASSUME a + 1 < b
       PROVE  ParseFrom(p, more) = ParseHeaders(stream[a + 2])
  BY <1>4, <1>10 DEF ParseFrom
<1>11. ASSUME a + 1 < b, stream[a + 2].is = "head"
       PROVE  Parse(p, rest) = Report("HEADER", 2, "head", 0)
  BY <1>7, <1>8, <1>10, <1>11 DEF ParseHeaders
<1>12. ASSUME a + 1 < b, stream[a + 2].is \notin {"head", "blank"}
       PROVE  Parse(p, rest) = Report("ERROR", 1, "error", 0)
  BY <1>7, <1>8, <1>10, <1>12 DEF ParseHeaders
<1> QED
  BY <1>9, <1>11, <1>12 DEF rest

-----------------------------------------------------------------------------
(* Where the receiver is *)

\* The local variables of a call.
LEMMA CallFields ==
    ASSUME NEW c \in CallsOfReceiver
    PROVE  /\ c.at \in Places /\ c.offset \in Nat /\ c.source \in {"buffer", "body"}
           /\ c.kept \in Nat /\ c.headersCompleted \in BOOLEAN /\ c.isChunked \in BOOLEAN
           /\ c.isMultipart \in BOOLEAN /\ c.contentLength \in Nat
           /\ c.chunkLength \in Nat /\ c.headerLength \in Nat
           /\ c.head \in Seq(Nat) /\ c.body \in Seq(Nat)
  BY DEF CallsOfReceiver

\* No call has the types of one.
LEMMA NoCallTyped == NoCall \in CallsOfReceiver
  BY DEF NoCall, CallsOfReceiver, Places

\* How far a call got, and what that leaves alone.
Advanced(c, o, h) == [c EXCEPT !.offset = o, !.headerLength = h]

IsAdvanced(d, c, o, h) ==
    /\ d \in CallsOfReceiver
    /\ d.at = c.at /\ d.offset = o /\ d.source = c.source /\ d.kept = c.kept
    /\ d.headersCompleted = c.headersCompleted /\ d.isChunked = c.isChunked
    /\ d.isMultipart = c.isMultipart /\ d.contentLength = c.contentLength
    /\ d.chunkLength = c.chunkLength /\ d.headerLength = h
    /\ d.head = c.head /\ d.body = c.body

\* What changes of a call that parsed up to o, and what does not.
LEMMA AdvancedProperties ==
    ASSUME NEW c \in CallsOfReceiver, NEW o \in Nat, NEW h \in Nat
    PROVE  IsAdvanced(Advanced(c, o, h), c, o, h)
<1>1. Advanced(c, o, h) \in CallsOfReceiver
  BY DEF CallsOfReceiver, Advanced
<1> QED
  BY <1>1 DEF CallsOfReceiver, Advanced, IsAdvanced

\* The types, in the form that the proofs need.
LEMMA Context ==
    ASSUME ReceiverTyped
    PROVE  /\ IsStream(stream) /\ DOMAIN stream = 1..Len(stream) /\ Len(stream) \in Nat
           /\ preserve \in BOOLEAN /\ taken \in Nat /\ taken <= Len(stream)
           /\ buffer \in Seq(Nat) /\ Len(buffer) \in Nat /\ parsedOffset \in Nat
           /\ parser.state \in ParserStates /\ parser.left \in Nat
           /\ call \in CallsOfReceiver
           /\ Len(got) \in Nat /\ NextMessage \in Nat /\ NextMessage = Len(got) + 1
           /\ BufferSize \in Nat /\ LoadLimit \in Nat /\ LoadLimit <= BufferSize
           /\ MaxHeaderLength \in Nat /\ MaxContentLength \in Nat
<1>1. IsStream(stream)
  BY ReceiverAssumption DEF ReceiverTyped
<1>2. DOMAIN stream = 1..Len(stream) /\ Len(stream) \in Nat
  BY <1>1, StreamTokens
<1>3. Len(got) \in Nat
  BY DEF ReceiverTyped
<1>4. /\ BufferSize \in Nat /\ LoadLimit \in Nat /\ LoadLimit <= BufferSize
      /\ MaxHeaderLength \in Nat /\ MaxContentLength \in Nat
  BY ReceiverAssumption
<1>5. taken \in Nat /\ taken <= Len(stream) /\ parsedOffset \in Nat
  BY <1>2, <1>4 DEF ReceiverTyped
<1>6. parser.state \in ParserStates /\ parser.left \in Nat
  BY DEF ReceiverTyped
<1> QED
  BY <1>1, <1>2, <1>3, <1>4, <1>5, <1>6 DEF ReceiverTyped, NextMessage

\* While there is a call the connection is not given up.
LEMMA Calling ==
    ASSUME ReceiverInv, call.at # "none"
    PROVE  ReceiverTyped /\ given_up = "no" /\ Follows
  BY DEF ReceiverInv, ReceiverTyped, NoCall

\* Where a call is that parses.
LEMMA Parsing ==
    ASSUME ReceiverInv, call.at = "parse"
    PROVE  \E pos \in 0..taken :
              /\ Rest = Positions(pos, taken)
              /\ \/ StartAt(pos) \/ HeadAt(pos)
                 \/ \E f, p \in 0..pos :
                       /\ HeadersAt(f, p)
                       /\ LengthAt(p, pos) \/ ChunkedAt(p, pos) \/ MultipartAt(p, pos)
<1>1. Follows
  BY Calling
<1>2. PICK pos \in 0..taken : Unread = Positions(pos, taken) /\ IsAt(pos)
  BY <1>1 DEF Follows
<1>3. Rest = Positions(pos, taken)
  BY <1>2 DEF Unread, Rest
<1>4. ~NoCallAt(pos) /\ ~FrameAt(pos) /\ ~PayloadAt(pos)
  <2>1. NoCall.at = "none" /\ [NoCall EXCEPT !.at = "frame", !.offset = parsedOffset].at = "frame"
    BY DEF NoCall
  <2> QED
    BY <2>1 DEF NoCallAt, FrameAt, PayloadAt
<1> QED
  BY <1>2, <1>3, <1>4 DEF IsAt

\* What the parser took.
LEMMA TakenPositions ==
    ASSUME NEW pos \in Nat, taken \in Nat, Rest = Positions(pos, taken),
           Now.parsed \in Nat, pos + Now.parsed <= taken
    PROVE  Taken = Positions(pos, pos + Now.parsed)
<1> DEFINE n == Now.parsed
<1>1. pos <= taken /\ n \in 0..(taken - pos)
  OBVIOUS
<1> HIDE DEF n
<1>2. SubSeq(Positions(pos, taken), 1, n) = Positions(pos, pos + n)
  BY <1>1, PositionsAfter
<1> QED
  BY <1>2 DEF Taken, n

-----------------------------------------------------------------------------
(* What the parser reports *)

\* Before a message.
LEMMA NowStart ==
    ASSUME ReceiverTyped, NEW pos \in 0..taken, Rest = Positions(pos, taken), StartAt(pos)
    PROVE  \/ pos = taken /\ Now = Report("NONE", 0, "start", parser.left)
           \/ /\ pos + 1 = taken /\ Now = Report("NONE", 1, "start", parser.left)
              /\ call.headerLength = 0
              /\ IsEmptyLine(stream, Len(got), pos + 1)
              /\ StartsBehind(stream, NextMessage, pos + 1)
           \/ \E f \in {pos, pos + 1} :
                 /\ f + 1 <= taken
                 /\ StartsBehind(stream, NextMessage, f)
                 /\ f = pos + 1 => call.headerLength = 0 /\ IsEmptyLine(stream, Len(got), f)
                 /\ \/ /\ Are(stream, NextMessage, {"head"}, f, f + 1)
                       /\ Now = Report("HEADER", f + 1 - pos, "head", 0)
                    \/ /\ Are(stream, NextMessage, {"junk"}, f, f + 1)
                       /\ Now = Report("ERROR", f - pos, "error", 0)
<1>1. /\ IsStream(stream) /\ taken \in Nat /\ taken <= Len(stream) /\ parser.left \in Nat
      /\ Len(got) \in Nat /\ NextMessage \in Nat /\ NextMessage = Len(got) + 1
      /\ DOMAIN stream = 1..Len(stream) /\ Len(stream) \in Nat
  BY Context
<1>2. parser.state = "start" /\ pos \in Nat /\ pos <= taken
  BY <1>1 DEF StartAt
<1>3. Now = Parse(parser, Positions(pos, taken))
  BY DEF Now
<1>4. CASE pos = taken
  <2>1. Positions(pos, taken) = <<>>
    BY <1>1, <1>4, PositionsProperties
  <2>2. parser.state # "complete"
    BY <1>2
  <2>3. Now = Report("NONE", 0, "start", parser.left)
    BY <1>2, <1>3, <2>1, <2>2, ParseNothing
  <2> QED
    BY <1>4, <2>3
<1>5. ASSUME NEW f \in Nat, StartsBehind(stream, NextMessage, f)
      PROVE  /\ f + 1 \in DOMAIN stream /\ stream[f + 1].message = NextMessage
             /\ stream[f + 1].is \in {"head", "junk"}
  <2>1. PICK i \in DOMAIN stream : stream[i].message = NextMessage /\ Kind(i) \in {"head", "junk"}
    BY DEF StartAt, Comes
  <2>2. /\ f + 1 \in DOMAIN stream /\ stream[f + 1].message = NextMessage
        /\ stream[f + 1].is \in {"head", "opcode", "junk"}
    BY <1>1, <1>5, <2>1, MessageBegins
  <2>3. ASSUME stream[f + 1].is = "opcode" PROVE FALSE
    <3>1. stream[i].is \in {"opcode", "length", "extended", "data"}
      BY <1>1, <2>1, <2>2, <2>3, FrameHasNoHeaders
    <3> QED
      BY <2>1, <3>1 DEF Kind
  <2> QED
    BY <2>2, <2>3
<1>6. CASE StartsBehind(stream, NextMessage, pos) /\ pos < taken
  <2>1. /\ pos + 1 \in DOMAIN stream /\ stream[pos + 1].message = NextMessage
        /\ stream[pos + 1].is \in {"head", "junk"}
    BY <1>2, <1>5, <1>6
  <2>2. parser.state = "start" /\ Kind(pos + 1) # "epilogue"
    BY <1>2, <2>1 DEF Kind
  <2>3. Now = ParseHeaders(stream[pos + 1])
    BY <1>1, <1>2, <1>3, <1>6, <2>2, ParseToken
  <2>4. pos + 1 <= taken /\ pos + 1 - pos = 1 /\ pos - pos = 0 /\ pos # pos + 1
    BY <1>1, <1>2, <1>6
  <2>5. \/ /\ Are(stream, NextMessage, {"head"}, pos, pos + 1)
           /\ Now = Report("HEADER", pos + 1 - pos, "head", 0)
        \/ /\ Are(stream, NextMessage, {"junk"}, pos, pos + 1)
           /\ Now = Report("ERROR", pos - pos, "error", 0)
    <3>1. CASE stream[pos + 1].is = "head"
      <4>1. Are(stream, NextMessage, {"head"}, pos, pos + 1)
        <5>1. pos \in Nat
          BY <1>2
        <5>2. stream[pos + 1].is \in {"head"}
          BY <3>1
        <5> QED
          BY <2>1, <5>1, <5>2, AreOne
      <4> QED
        BY <2>3, <2>4, <3>1, <4>1 DEF ParseHeaders
    <3>2. CASE stream[pos + 1].is = "junk"
      <4>1. Are(stream, NextMessage, {"junk"}, pos, pos + 1)
        <5>1. pos \in Nat
          BY <1>2
        <5>2. stream[pos + 1].is \in {"junk"}
          BY <3>2
        <5> QED
          BY <2>1, <5>1, <5>2, AreOne
      <4> QED
        BY <2>3, <2>4, <3>2, <4>1 DEF ParseHeaders
    <3> QED
      BY <2>1, <3>1, <3>2
  <2> QED
    BY <1>6, <2>4, <2>5
<1>7. CASE /\ ~StartsBehind(stream, NextMessage, pos) /\ pos < taken
  <2>1. /\ call.headerLength = 0 /\ IsEmptyLine(stream, Len(got), pos + 1)
        /\ StartsBehind(stream, NextMessage, pos + 1)
    BY <1>1, <1>7 DEF StartAt, AreDone
  <2>2. Kind(pos + 1) = "epilogue"
    BY <2>1 DEF IsEmptyLine, Kind
  <2>3. CASE pos + 1 = taken
    <3>1. Now = Report("NONE", 1, "start", parser.left)
      BY <1>1, <1>2, <1>3, <1>7, <2>2, <2>3, ParseSkipping
    <3> QED
      BY <2>1, <2>3, <3>1
  <2>4. CASE pos + 1 < taken
    <3>1. pos + 1 \in Nat /\ (pos + 1) + 1 = pos + 2
      BY <1>2
    <3>2. /\ (pos + 1) + 1 \in DOMAIN stream /\ stream[(pos + 1) + 1].message = NextMessage
          /\ stream[pos + 2].is \in {"head", "junk"}
      BY <1>5, <2>1, <3>1
    <3>3. pos + 2 <= taken /\ (pos + 1) + 1 - pos = 2 /\ (pos + 1) - pos = 1
      BY <1>1, <1>2, <2>4
    <3>4. \/ /\ Are(stream, NextMessage, {"head"}, pos + 1, (pos + 1) + 1)
             /\ Now = Report("HEADER", (pos + 1) + 1 - pos, "head", 0)
          \/ /\ Are(stream, NextMessage, {"junk"}, pos + 1, (pos + 1) + 1)
             /\ Now = Report("ERROR", (pos + 1) - pos, "error", 0)
      <4>1. CASE stream[pos + 2].is = "head"
        <5>1. Are(stream, NextMessage, {"head"}, pos + 1, (pos + 1) + 1)
          BY <3>1, <3>2, <4>1, AreOne
        <5>2. Now = Report("HEADER", 2, "head", 0)
          BY <1>1, <1>2, <1>3, <1>7, <2>2, <2>4, <4>1, ParseSkipping
        <5> QED
          BY <3>3, <5>1, <5>2
      <4>2. CASE stream[pos + 2].is = "junk"
        <5>1. Are(stream, NextMessage, {"junk"}, pos + 1, (pos + 1) + 1)
          BY <3>1, <3>2, <4>2, AreOne
        <5>2. stream[pos + 2].is \notin {"head", "blank"}
          BY <4>2
        <5>3. Now = Report("ERROR", 1, "error", 0)
          BY <1>1, <1>2, <1>3, <1>7, <2>2, <2>4, <5>2, ParseSkipping
        <5> QED
          BY <3>3, <5>1, <5>3
      <4> QED
        BY <3>2, <4>1, <4>2
    <3> QED
      BY <2>1, <3>1, <3>3, <3>4
  <2> QED
    BY <1>1, <1>2, <1>7, <2>3, <2>4
<1> QED
  BY <1>1, <1>2, <1>4, <1>6, <1>7

\* Behind a piece of the headers.
LEMMA NowHead ==
    ASSUME ReceiverTyped, NEW pos \in 0..taken, Rest = Positions(pos, taken), HeadAt(pos)
    PROVE  \/ pos = taken /\ Now = Report("NONE", 0, "head", parser.left)
           \/ /\ pos < taken /\ Are(stream, NextMessage, {"head"}, pos, pos + 1)
              /\ Now = Report("HEADER", 1, "head", 0)
           \/ /\ pos < taken /\ Are(stream, NextMessage, {"blank"}, pos, pos + 1)
              /\ Now = Report("HEADERS_COMPLETE", 1, BodyState(stream[pos + 1]), stream[pos + 1].n)
           \/ /\ pos < taken /\ Are(stream, NextMessage, {"junk"}, pos, pos + 1)
              /\ Now = Report("ERROR", 0, "error", 0)
<1>1. /\ IsStream(stream) /\ taken \in Nat /\ parser.left \in Nat
  BY Context
<1>2. parser.state = "head" /\ pos \in Nat /\ pos <= taken
  BY <1>1 DEF HeadAt
<1>3. Now = Parse(parser, Positions(pos, taken))
  BY DEF Now
<1>4. CASE pos = taken
  <2>1. Positions(pos, taken) = <<>>
    BY <1>1, <1>4, PositionsProperties
  <2>2. parser.state # "complete"
    BY <1>2
  <2>3. Now = Report("NONE", 0, "head", parser.left)
    BY <1>2, <1>3, <2>1, <2>2, ParseNothing
  <2> QED
    BY <1>4, <2>3
<1>5. CASE pos < taken
  <2>1. PICK f \in 0..(pos - 1) : Are(stream, NextMessage, {"head"}, f, pos)
    BY DEF HeadAt
  <2>2. pos \in DOMAIN stream /\ stream[pos].message = NextMessage /\ stream[pos].is \in {"head"}
    <3>1. f \in Nat /\ f < pos
      BY <1>2
    <3> QED
      BY <1>2, <2>1, <3>1, AreLast
  <2>3. Are(stream, NextMessage, {"head", "blank", "junk"}, pos, pos + 1)
    BY <1>1, <2>2 DEF IsStream
  <2>4. /\ pos + 1 \in DOMAIN stream /\ stream[pos + 1].message = NextMessage
        /\ stream[pos + 1].is \in {"head", "blank", "junk"}
    <3>1. pos \in Nat
      BY <1>2
    <3> QED
      BY <2>3, <3>1, AreOne
  <2>5. parser.state # "start"
    BY <1>2
  <2>6. Now = ParseHeaders(stream[pos + 1])
    BY <1>1, <1>2, <1>3, <1>5, <2>5, ParseToken
  <2>7. CASE stream[pos + 1].is = "head"
    <3>1. stream[pos + 1].is \in {"head"}
      BY <2>7
    <3>2. Are(stream, NextMessage, {"head"}, pos, pos + 1)
      BY <1>2, <2>4, <3>1, AreOne
    <3> QED
      BY <1>5, <2>6, <2>7, <3>2 DEF ParseHeaders
  <2>8. CASE stream[pos + 1].is = "blank"
    <3>1. stream[pos + 1].is \in {"blank"}
      BY <2>8
    <3>2. Are(stream, NextMessage, {"blank"}, pos, pos + 1)
      BY <1>2, <2>4, <3>1, AreOne
    <3> QED
      BY <1>5, <2>6, <2>8, <3>2 DEF ParseHeaders
  <2>9. CASE stream[pos + 1].is = "junk"
    <3>1. stream[pos + 1].is \in {"junk"}
      BY <2>9
    <3>2. Are(stream, NextMessage, {"junk"}, pos, pos + 1)
      BY <1>2, <2>4, <3>1, AreOne
    <3> QED
      BY <1>5, <2>6, <2>9, <3>2 DEF ParseHeaders
  <2> QED
    BY <2>4, <2>7, <2>8, <2>9
<1> QED
  BY <1>1, <1>2, <1>4, <1>5

\* Behind the headers of a body with a length.
LEMMA NowLength ==
    ASSUME ReceiverTyped, NEW pos \in 0..taken, Rest = Positions(pos, taken),
           NEW p, LengthAt(p, pos), call.at = "parse"
    PROVE  \/ /\ parser.state = "complete" /\ call.contentLength = 0
              /\ pos = p /\ call.body = <<>>
              /\ Now = Report("MESSAGE_COMPLETE", 0, "start", 0)
           \/ /\ parser.state = "body" /\ parser.left = call.contentLength /\ parser.left > 0
              /\ pos = p /\ call.body = <<>>
              /\ \/ pos = taken /\ Now = Report("NONE", 0, "body", parser.left)
                 \/ /\ pos < taken
                    /\ Now = ParseData(parser.left, taken - pos, "body", "complete")
<1>1. taken \in Nat /\ parser.left \in Nat
  BY Context
<1>2. pos \in Nat /\ pos <= taken
  BY <1>1
<1>3. Now = Parse(parser, Positions(pos, taken)) /\ Positions(pos, taken) \in Seq(Nat)
  BY <1>1, <1>2, PositionsProperties DEF Now
<1>4. CASE parser.state = "complete"
  <2>1. call.contentLength = 0 /\ pos = p /\ call.body = <<>>
    BY <1>4 DEF LengthAt
  <2>2. Now = Report("MESSAGE_COMPLETE", 0, "start", 0)
    BY <1>3, <1>4, ParseComplete
  <2> QED
    BY <1>4, <2>1, <2>2
<1>5. CASE parser.state = "body"
  <2>1. /\ parser.left = call.contentLength /\ parser.left > 0
        /\ pos = p /\ call.body = <<>>
    BY <1>5 DEF LengthAt
  <2>2. parser.state # "complete" /\ parser.state # "start"
    BY <1>5
  <2>3. CASE pos = taken
    <3>1. Positions(pos, taken) = <<>>
      BY <1>1, <2>3, PositionsProperties
    <3>2. Now = Report("NONE", 0, "body", parser.left)
      BY <1>3, <1>5, <2>2, <3>1, ParseNothing
    <3> QED
      BY <1>5, <2>1, <2>3, <3>2
  <2>4. CASE pos < taken
    <3>1. Now = ParseData(parser.left, taken - pos, "body", "complete")
      BY <1>1, <1>2, <1>3, <1>5, <2>2, <2>4, ParseToken
    <3> QED
      BY <1>5, <2>1, <2>4, <3>1
  <2> QED
    BY <1>1, <1>2, <2>3, <2>4
<1> QED
  BY <1>4, <1>5 DEF LengthAt

\* In a chunked body.
LEMMA NowChunked ==
    ASSUME ReceiverTyped, NEW pos \in 0..taken, Rest = Positions(pos, taken),
           NEW p \in 0..pos, ChunkedAt(p, pos),
           Are(stream, NextMessage, {"blank"}, p - 1, p), 0 < p
    PROVE  \/ pos = taken /\ Now = Report("NONE", 0, parser.state, parser.left)
           \/ /\ pos < taken /\ parser.state = "size"
              /\ Are(stream, NextMessage, {"size"}, pos, pos + 1)
              /\ Now = Report("CHUNK_HEADER", 1,
                              IF stream[pos + 1].n = 0 THEN "last" ELSE "chunk", stream[pos + 1].n)
           \/ /\ pos < taken /\ parser.state = "chunk"
              /\ Now = ParseData(parser.left, taken - pos, "chunk", "end")
           \/ /\ pos < taken /\ parser.state \in {"end", "last"}
              /\ Are(stream, NextMessage, {"end"}, pos, pos + 1)
              /\ IF parser.state = "last"
                 THEN /\ StartsBehind(stream, NextMessage + 1, pos + 1)
                      /\ Now = Report("CHUNK_COMPLETE", 1, "complete", 0)
                 ELSE /\ Are(stream, NextMessage, {"size", "junk"}, pos + 1, pos + 2)
                      /\ Now = Report("CHUNK_COMPLETE", 1, "size", 0)
           \/ /\ pos < taken /\ Are(stream, NextMessage, {"junk"}, pos, pos + 1)
              /\ Now = Report("ERROR", 0, "error", 0)
<1>1. IsStream(stream) /\ taken \in Nat /\ parser.left \in Nat
  BY Context
<1>2. pos \in Nat /\ pos <= taken /\ p \in Nat /\ p <= pos
  BY <1>1
<1>3. Now = Parse(parser, Positions(pos, taken))
  BY DEF Now
<1>4. parser.state \in {"size", "chunk", "end", "last"}
  BY DEF ChunkedAt
<1>5. parser.state # "complete" /\ parser.state # "start"
  BY <1>4
<1>6. CASE pos = taken
  <2>1. Positions(pos, taken) = <<>>
    BY <1>1, <1>6, PositionsProperties
  <2>2. Now = Report("NONE", 0, parser.state, parser.left)
    BY <1>3, <1>5, <2>1, ParseNothing
  <2> QED
    BY <1>6, <2>2
<1>7. CASE pos < taken /\ parser.state = "size"
  <2>1. Are(stream, NextMessage, {"size", "junk"}, pos, pos + 1)
    BY <1>7 DEF ChunkedAt
  <2>2. /\ pos + 1 \in DOMAIN stream /\ stream[pos + 1].message = NextMessage
        /\ stream[pos + 1].is \in {"size", "junk"}
    BY <1>2, <2>1, AreOne
  <2>3. Now = ParseChunk(parser.state, stream[pos + 1])
    BY <1>1, <1>2, <1>3, <1>5, <1>7, ParseToken
  <2>4. CASE stream[pos + 1].is = "size"
    <3>1. Are(stream, NextMessage, {"size"}, pos, pos + 1)
      BY <1>2, <2>2, <2>4, AreOne
    <3> QED
      BY <1>7, <2>3, <2>4, <3>1 DEF ParseChunk
  <2>5. CASE stream[pos + 1].is = "junk"
    <3>1. Are(stream, NextMessage, {"junk"}, pos, pos + 1)
      BY <1>2, <2>2, <2>5, AreOne
    <3> QED
      BY <1>7, <2>3, <2>5, <3>1 DEF ParseChunk
  <2> QED
    BY <2>2, <2>4, <2>5
<1>8. CASE pos < taken /\ parser.state = "chunk"
  <2>1. Now = ParseData(parser.left, taken - pos, "chunk", "end")
    BY <1>1, <1>2, <1>3, <1>5, <1>8, ParseToken
  <2> QED
    BY <1>8, <2>1
<1>9. CASE pos < taken /\ parser.state \in {"end", "last"}
  <2>1. PICK q \in (p + 1)..pos :
           /\ stream[q].is = "size"
           /\ pos = q + stream[q].n
           /\ parser.state = IF stream[q].n = 0 THEN "last" ELSE "end"
    BY <1>9 DEF ChunkedAt
  <2>2. q \in DOMAIN stream /\ stream[q].message = NextMessage
    BY DEF ChunkedAt, Are
  <2>3. HasChunk(stream, q)
    BY <1>1, <2>1, <2>2 DEF IsStream
  <2>4. pos + 1 - 1 = pos /\ (pos + 1) + 1 = pos + 2 /\ q + stream[q].n + 1 = pos + 1
    BY <1>2, <2>1
  <2>5. /\ Are(stream, NextMessage, {"end", "junk"}, pos, pos + 1)
        /\ stream[pos + 1].is = "end" =>
              IF stream[q].n = 0 THEN IsLast(stream, pos + 1)
              ELSE Are(stream, NextMessage, {"size", "junk"}, pos + 1, pos + 2)
    BY <2>2, <2>3, <2>4 DEF HasChunk
  <2>6. /\ pos + 1 \in DOMAIN stream /\ stream[pos + 1].message = NextMessage
        /\ stream[pos + 1].is \in {"end", "junk"}
    BY <1>2, <2>5, AreOne
  <2>7. Now = ParseChunk(parser.state, stream[pos + 1])
    BY <1>1, <1>2, <1>3, <1>5, <1>9, ParseToken
  <2>8. CASE stream[pos + 1].is = "end"
    <3>1. Are(stream, NextMessage, {"end"}, pos, pos + 1)
      BY <1>2, <2>6, <2>8, AreOne
    <3>2. CASE parser.state = "last"
      <4>1. IsLast(stream, pos + 1)
        BY <2>1, <2>5, <2>8, <3>2
      <4>2. StartsBehind(stream, NextMessage + 1, pos + 1)
        BY <1>1, <2>6, <4>1, MessageEnds
      <4>3. Now = Report("CHUNK_COMPLETE", 1, "complete", 0)
        BY <2>7, <2>8, <3>2 DEF ParseChunk
      <4> QED
        BY <1>9, <3>1, <3>2, <4>2, <4>3
    <3>3. CASE parser.state = "end"
      <4>1. Are(stream, NextMessage, {"size", "junk"}, pos + 1, pos + 2)
        BY <2>1, <2>5, <2>8, <3>3
      <4>2. Now = Report("CHUNK_COMPLETE", 1, "size", 0)
        BY <2>7, <2>8, <3>3 DEF ParseChunk
      <4> QED
        BY <1>9, <3>1, <3>3, <4>1, <4>2
    <3> QED
      BY <1>9, <3>2, <3>3
  <2>9. CASE stream[pos + 1].is = "junk"
    <3>1. Are(stream, NextMessage, {"junk"}, pos, pos + 1)
      BY <1>2, <2>6, <2>9, AreOne
    <3>2. Now = Report("ERROR", 0, "error", 0)
      BY <1>9, <2>7, <2>9 DEF ParseChunk
    <3> QED
      BY <1>9, <3>1, <3>2
  <2> QED
    BY <2>6, <2>8, <2>9
<1> QED
  BY <1>1, <1>2, <1>4, <1>6, <1>7, <1>8, <1>9

\* In a multipart body; e is the last of it that is parsed.
LEMMA NowMultipart ==
    ASSUME ReceiverTyped, NEW pos \in 0..taken, Rest = Positions(pos, taken),
           NEW p \in 0..pos, MultipartAt(p, pos),
           Are(stream, NextMessage, {"blank"}, p - 1, p), 0 < p
    PROVE  \/ pos = taken /\ Now = Report("NONE", 0, "multipart", parser.left)
           \/ /\ pos + 1 = taken /\ Are(stream, NextMessage, {"mark"}, pos, pos + 1)
              /\ pos + 1 < p + stream[p].n
              /\ Now = Report("NONE", 0, "multipart", 0)
           \/ /\ pos < taken /\ Are(stream, NextMessage, {"part", "mark"}, pos, pos + 1)
              /\ Now = Report("MULTIPART", 1, "multipart", 0)
           \/ /\ pos < taken /\ Are(stream, NextMessage, {"close"}, pos, pos + 1)
              /\ Are(stream, NextMessage, {"epilogue"}, pos + 1, p + stream[p].n)
              /\ pos + 1 <= p + stream[p].n /\ p + stream[p].n <= pos + 2
              /\ p + stream[p].n \in DOMAIN stream
              /\ StartsBehind(stream, NextMessage + 1, p + stream[p].n)
              /\ Now = Report("MESSAGE_COMPLETE", taken - pos, "start", 0)
           \/ /\ pos < taken /\ Are(stream, NextMessage, {"junk"}, pos, pos + 1)
              /\ Now = Report("ERROR", 0, "error", 0)
<1>1. IsStream(stream) /\ taken \in Nat /\ parser.left \in Nat
  BY Context
<1>2. pos \in Nat /\ pos <= taken /\ p \in Nat /\ p <= pos
  BY <1>1
<1>3. Now = Parse(parser, Positions(pos, taken))
  BY DEF Now
<1>4. /\ parser.state = "multipart" /\ stream[p].body = "multipart"
      /\ Are(stream, NextMessage, {"part", "mark"}, p, pos)
  BY DEF MultipartAt
<1>5. parser.state # "complete" /\ parser.state # "start"
  BY <1>4
<1>6. CASE pos = taken
  <2>1. Positions(pos, taken) = <<>>
    BY <1>1, <1>6, PositionsProperties
  <2>2. Now = Report("NONE", 0, "multipart", parser.left)
    BY <1>3, <1>4, <1>5, <2>1, ParseNothing
  <2> QED
    BY <1>6, <2>2
<1>7. CASE pos < taken
  <2>1. p \in DOMAIN stream /\ stream[p].message = NextMessage /\ stream[p].is = "blank"
    <3>1. p \in (p - 1 + 1)..p
      BY <1>2
    <3> QED
      BY <3>1 DEF Are
  <2>2. stream[p].n \in Nat
    BY <1>1, <2>1, StreamTokens
  <2> DEFINE end == p + stream[p].n
  <2>3. PICK e \in (p + 1)..end :
           /\ Are(stream, NextMessage, {"part", "mark"}, p, e - 1)
           /\ \/ Are(stream, NextMessage, {"junk"}, e - 1, end)
              \/ /\ Are(stream, NextMessage, {"close"}, e - 1, e)
                 /\ Are(stream, NextMessage, {"epilogue"}, e, end) /\ end <= e + 1
           /\ end \in DOMAIN stream
           /\ StartsBehind(stream, NextMessage + 1, end)
    BY <1>1, <1>4, <2>1, MultipartOf
  <2>4. e \in Nat /\ e - 1 \in Nat /\ e <= end /\ (e - 1) + 1 = e /\ end \in Nat /\ p < e
    BY <1>2, <2>2, <2>3
  <2> HIDE DEF end
  <2>5. e \in DOMAIN stream /\ stream[e].message = NextMessage /\ stream[e].is \in {"junk", "close"}
    <3>1. e \in (e - 1 + 1)..e /\ e \in (e - 1 + 1)..end
      BY <2>4
    <3> QED
      BY <2>3, <3>1 DEF Are
  <2>6. pos < e
    <3>1. ASSUME ~(pos < e) PROVE FALSE
      <4>1. e \in (p + 1)..pos
        BY <1>2, <2>4, <3>1
      <4>2. stream[e].is \in {"part", "mark"}
        BY <1>4, <4>1 DEF Are
      <4> QED
        BY <2>5, <4>2
    <3> QED
      BY <3>1
  <2>7. Now = ParseMultipart(stream[pos + 1], taken - pos)
    BY <1>1, <1>2, <1>3, <1>4, <1>5, <1>7, ParseToken
  <2>8. CASE pos + 1 < e
    <3>1. pos + 1 \in (p + 1)..(e - 1)
      BY <1>2, <2>4, <2>8
    <3>2. /\ pos + 1 \in DOMAIN stream /\ stream[pos + 1].message = NextMessage
          /\ stream[pos + 1].is \in {"part", "mark"}
      BY <2>3, <3>1 DEF Are
    <3>3. Are(stream, NextMessage, {"part", "mark"}, pos, pos + 1)
      BY <1>2, <3>2, AreOne
    <3>4. CASE stream[pos + 1].is = "mark" /\ taken - pos = 1
      <4>1. Are(stream, NextMessage, {"mark"}, pos, pos + 1)
        BY <1>2, <3>2, <3>4, AreOne
      <4>2. Now = Report("NONE", 0, "multipart", 0)
        BY <2>7, <3>4 DEF ParseMultipart
      <4>3. pos + 1 = taken /\ pos + 1 < end
        BY <1>1, <1>2, <2>4, <2>8, <3>4
      <4> QED
        BY <4>1, <4>2, <4>3 DEF end
    <3>5. CASE ~(stream[pos + 1].is = "mark" /\ taken - pos = 1)
      <4>1. Now = Report("MULTIPART", 1, "multipart", 0)
        <5>1. CASE stream[pos + 1].is = "part"
          BY <2>7, <5>1 DEF ParseMultipart
        <5>2. CASE stream[pos + 1].is = "mark" /\ taken - pos # 1
          BY <2>7, <5>2 DEF ParseMultipart
        <5> QED
          BY <3>2, <3>5, <5>1, <5>2
      <4> QED
        BY <1>7, <3>3, <4>1
    <3> QED
      BY <3>4, <3>5
  <2>9. CASE pos + 1 = e
    <3>1. CASE stream[e].is = "close"
      <4>1. Are(stream, NextMessage, {"close"}, pos, pos + 1)
        <5>1. pos \in Nat
          BY <1>2
        <5>2. /\ pos + 1 \in DOMAIN stream /\ stream[pos + 1].message = NextMessage
              /\ stream[pos + 1].is \in {"close"}
          BY <2>5, <2>9, <3>1
        <5> QED
          BY <5>1, <5>2, AreOne
      <4>2. ~Are(stream, NextMessage, {"junk"}, e - 1, end)
        <5>1. e \in (e - 1 + 1)..end
          BY <2>4
        <5> QED
          BY <3>1, <5>1 DEF Are
      <4>3. Are(stream, NextMessage, {"epilogue"}, pos + 1, end) /\ end <= pos + 2 /\ pos + 1 <= end
        BY <1>2, <2>3, <2>4, <2>9, <4>2
      <4>4. Now = Report("MESSAGE_COMPLETE", taken - pos, "start", 0)
        BY <2>7, <2>9, <3>1 DEF ParseMultipart
      <4> QED
        BY <1>7, <2>3, <4>1, <4>3, <4>4 DEF end
    <3>2. CASE stream[e].is = "junk"
      <4>1. Are(stream, NextMessage, {"junk"}, pos, pos + 1)
        <5>1. pos \in Nat
          BY <1>2
        <5>2. /\ pos + 1 \in DOMAIN stream /\ stream[pos + 1].message = NextMessage
              /\ stream[pos + 1].is \in {"junk"}
          BY <2>5, <2>9, <3>2
        <5> QED
          BY <5>1, <5>2, AreOne
      <4>2. Now = Report("ERROR", 0, "error", 0)
        BY <2>7, <2>9, <3>2 DEF ParseMultipart
      <4> QED
        BY <1>7, <4>1, <4>2
    <3> QED
      BY <2>5, <3>1, <3>2
  <2> QED
    BY <1>2, <2>4, <2>6, <2>8, <2>9
<1> QED
  BY <1>1, <1>2, <1>6, <1>7

-----------------------------------------------------------------------------
(* What a step keeps *)

\* What is to become of message k of stream s, and whether it is over the limits.
SentIn(s, keeps, k) ==
    [head |-> Picked(s, k, {"head", "blank", "opcode", "length", "extended"}, 0, Len(s)),
     body |-> Picked(s, k, {"data", "part"} \cup
                  IF keeps THEN {"mark", "close", "epilogue"} ELSE {}, 0, Len(s))]

\* Message k of stream s is over the limits.
TooLargeIn(s, k, before) ==
    \/ Len(Picked(s, k, {"head", "blank"}, 0, Len(s))) + before > MaxHeaderLength
    \/ Len(Picked(s, k, {"data", "part", "mark", "close", "epilogue", "junk"}, 0, Len(s)))
          > MaxContentLength

\* DeliveredAreSent, said of a stream.
LEMMA DeliveredIn ==
    /\ DeliveredAreSent <=>
          \A k \in DOMAIN got : got[k] = SentIn(stream, preserve, k) /\ ~TooLargeIn(stream, k, 0)
    /\ DeliveredAreSent' <=>
          \A k \in DOMAIN got' :
             got'[k] = SentIn(stream', preserve', k) /\ ~TooLargeIn(stream', k, 0)
<1>1. DeliveredAreSent <=>
          \A k \in DOMAIN got : got[k] = SentIn(stream, preserve, k) /\ ~TooLargeIn(stream, k, 0)
  BY DEF DeliveredAreSent, Sent, SentIn, IsTooLarge, TooLargeIn, Pieces, Picked, Kind
<1>2. DeliveredAreSent' <=>
          \A k \in DOMAIN got' :
             got'[k] = SentIn(stream', preserve', k) /\ ~TooLargeIn(stream', k, 0)
  BY DEF DeliveredAreSent, Sent, SentIn, IsTooLarge, TooLargeIn, Pieces, Picked, Kind
<1> QED
  BY <1>1, <1>2

\* Refusals, said of a stream.
LEMMA RefusalsIn ==
    /\ Refusals <=>
          /\ given_up = "error" /\ HeadersFit =>
                Picked(stream, NextMessage, {"junk"}, 0, Len(stream)) # <<>>
          /\ given_up = "too large" =>
                TooLargeIn(stream, NextMessage,
                    Len(Picked(stream, NextMessage - 1, {"epilogue"}, 0, Len(stream))))
    /\ Refusals' <=>
          /\ given_up' = "error" /\ HeadersFit =>
                Picked(stream', NextMessage', {"junk"}, 0, Len(stream')) # <<>>
          /\ given_up' = "too large" =>
                TooLargeIn(stream', NextMessage',
                    Len(Picked(stream', NextMessage' - 1, {"epilogue"}, 0, Len(stream'))))
<1>1. Refusals <=>
          /\ given_up = "error" /\ HeadersFit =>
                Picked(stream, NextMessage, {"junk"}, 0, Len(stream)) # <<>>
          /\ given_up = "too large" =>
                TooLargeIn(stream, NextMessage,
                    Len(Picked(stream, NextMessage - 1, {"epilogue"}, 0, Len(stream))))
  BY DEF Refusals, IsTooLarge, TooLargeIn, Pieces, Picked, Kind
<1>2. Refusals' <=>
          /\ given_up' = "error" /\ HeadersFit =>
                Picked(stream', NextMessage', {"junk"}, 0, Len(stream')) # <<>>
          /\ given_up' = "too large" =>
                TooLargeIn(stream', NextMessage',
                    Len(Picked(stream', NextMessage' - 1, {"epilogue"}, 0, Len(stream'))))
  BY DEF Refusals, IsTooLarge, TooLargeIn, Pieces, Picked, Kind, HeadersFit
<1> QED
  BY <1>1, <1>2

\* What was returned stays as it is.
LEMMA DeliveredStay ==
    ASSUME ReceiverInv, stream' = stream, preserve' = preserve, got' = got
    PROVE  DeliveredAreSent' /\ NextMessage' = NextMessage
<1>1. DeliveredAreSent'
  BY DeliveredIn DEF ReceiverInv
<1>2. NextMessage' = NextMessage
  BY DEF NextMessage
<1> QED
  BY <1>1, <1>2

\* Nothing was read.
LEMMA StillInTime ==
    ASSUME ReceiverInv, stream' = stream, taken' = taken,
           got' = got \/ Len(got') = Len(got) + 1
    PROVE  SentInTime'
<1>0. Len(got) \in Nat /\ (Len(got') = Len(got) \/ Len(got') = Len(got) + 1)
  BY Context DEF ReceiverInv
<1>1. /\ IsStream(stream) /\ DOMAIN stream = 1..Len(stream) /\ Len(stream) \in Nat
      /\ taken \in Nat /\ taken <= Len(stream) /\ Len(got) \in Nat
  BY Context DEF ReceiverInv
<1>2. SUFFICES ASSUME NEW i \in 1..taken, NEW j \in 1..(i - 1),
                      stream[j].is = "close", stream[j].message < stream[i].message
               PROVE  Len(got') >= stream[j].message
  BY DEF SentInTime, Kind
<1>3. Len(got) >= stream[j].message
  BY <1>2 DEF ReceiverInv, SentInTime, Kind
<1>4. stream[j].message \in Nat
  <2>1. j \in DOMAIN stream
    BY <1>1
  <2> QED
    BY <1>1, <2>1, StreamTokens
<1> QED
  BY <1>0, <1>3, <1>4

\* The peer does not send on behind a multipart body before that is answered.
LEMMA MoreInTime ==
    ASSUME ReceiverInv, Liberties = {}, NEW n \in Nat, HasCome(n),
           stream' = stream, taken' = taken + n,
           got' = got \/ Len(got') = Len(got) + 1
    PROVE  SentInTime' /\ taken + n <= Len(stream)
<1>0. Len(got) \in Nat /\ (Len(got') = Len(got) \/ Len(got') = Len(got) + 1)
  BY Context DEF ReceiverInv
<1>1. /\ IsStream(stream) /\ DOMAIN stream = 1..Len(stream) /\ Len(stream) \in Nat
      /\ taken \in Nat /\ taken <= Len(stream) /\ Len(got) \in Nat
  BY Context DEF ReceiverInv
<1>2. /\ taken + n <= Len(stream)
      /\ \A j \in 1..((taken + n) - 1) :
            stream[j].is = "close" /\ stream[j].message < stream[taken + n].message
               => Len(got) >= stream[j].message
  BY DEF HasCome, IsSent, Kind
<1>3. ASSUME NEW i \in 1..(taken + n), NEW j \in 1..(i - 1),
             stream[j].is = "close", stream[j].message < stream[i].message
      PROVE  Len(got') >= stream[j].message
  <2>1. i \in DOMAIN stream /\ j \in DOMAIN stream /\ taken + n \in DOMAIN stream
    BY <1>1, <1>2
  <2>2. /\ stream[i].message \in Nat /\ stream[j].message \in Nat
        /\ stream[taken + n].message \in Nat
    BY <1>1, <2>1, StreamTokens
  <2>3. stream[i].message <= stream[taken + n].message
    <3>1. i <= taken + n /\ \A x, y \in DOMAIN stream : x <= y => stream[x].message <= stream[y].message
      BY <1>1, StreamTokens
    <3> QED
      BY <2>1, <3>1
  <2>4. j \in 1..((taken + n) - 1)
    BY <1>1
  <2>5. Len(got) >= stream[j].message
    <3>1. stream[j].message < stream[taken + n].message
      BY <1>3, <2>2, <2>3
    <3> QED
      BY <1>2, <1>3, <2>4, <3>1
  <2> QED
    BY <1>0, <2>2, <2>5
<1>4. SentInTime'
  BY <1>3 DEF SentInTime, Kind
<1> QED
  BY <1>2, <1>4

\* A step that returns nothing and refuses nothing, and knows where it is.
LEMMA GoesOn ==
    ASSUME ReceiverInv, call.at # "none", stream' = stream, preserve' = preserve, got' = got,
           given_up' = given_up, SentInTime', ReceiverTyped', Follows'
    PROVE  ReceiverInv'
<1>1. given_up' = "no"
  BY Calling
<1>2. DeliveredAreSent'
  BY DeliveredStay
<1>3. Refusals'
  BY <1>1 DEF Refusals
<1> QED
  BY <1>1, <1>2, <1>3 DEF ReceiverInv

\* An exception, for a reason that the stream gives.
LEMMA GivesUp ==
    ASSUME ReceiverInv, NEW reason, reason # "no", GiveUp(reason),
           reason = "error" /\ HeadersFit =>
              Picked(stream, NextMessage, {"junk"}, 0, Len(stream)) # <<>>,
           reason = "too large" =>
              TooLargeIn(stream, NextMessage,
                 Len(Picked(stream, NextMessage - 1, {"epilogue"}, 0, Len(stream))))
    PROVE  ReceiverInv'
<1>1. /\ stream' = stream /\ preserve' = preserve /\ got' = got /\ taken' = taken
      /\ buffer' = buffer /\ parsedOffset' = parsedOffset /\ parser' = parser
      /\ given_up' = reason /\ call' = NoCall
  BY DEF GiveUp
<1>2. DeliveredAreSent' /\ NextMessage' = NextMessage
  BY <1>1, DeliveredStay
<1>3. SentInTime'
  BY <1>1, StillInTime
<1>4. Refusals'
  BY <1>1, <1>2, RefusalsIn
<1>5. ReceiverTyped'
  BY <1>1, NoCallTyped DEF ReceiverInv, ReceiverTyped
<1> QED
  BY <1>1, <1>2, <1>3, <1>4, <1>5 DEF ReceiverInv

\* The call after what was parsed.
LEMMA GoOnMoves ==
    ASSUME ReceiverTyped, NEW next \in CallsOfReceiver, GoOn(next), Now.parsed \in Nat
    PROVE  /\ IsAdvanced(call', next, call.offset + Now.parsed, HeaderLength)
           /\ call.offset + Now.parsed \in Nat /\ HeaderLength \in Nat
<1>1. call' = [next EXCEPT !.offset = call.offset + Now.parsed, !.headerLength = HeaderLength]
  BY DEF GoOn
<1>2. call \in CallsOfReceiver
  BY Context
<1>3. call.offset \in Nat /\ call.headerLength \in Nat
  BY <1>2, CallFields
<1>4. call.offset + Now.parsed \in Nat /\ HeaderLength \in Nat
  <2> DEFINE n == Now.parsed
  <2>1. n \in Nat /\ 0 \in Nat
    OBVIOUS
  <2> HIDE DEF n
  <2>2. call.offset + n \in Nat
    BY <1>3, <2>1
  <2>3. call.headerLength + (IF call.headersCompleted THEN 0 ELSE n) \in Nat
    BY <1>3, <2>1
  <2> QED
    BY <2>2, <2>3 DEF n, HeaderLength
<1> DEFINE offset == call.offset + Now.parsed
           total == HeaderLength
<1>5. offset \in Nat /\ total \in Nat /\ call' = Advanced(next, offset, total)
  BY <1>1, <1>4 DEF Advanced
<1> HIDE DEF offset, total
<1>6. IsAdvanced(Advanced(next, offset, total), next, offset, total)
  BY <1>5, AdvancedProperties
<1>7. IsAdvanced(call', next, offset, total)
  BY <1>5, <1>6
<1> QED
  BY <1>4, <1>7 DEF offset, total

\* The parser went on from pos to q.
LEMMA GoesOnBehind ==
    ASSUME ReceiverInv, call.at = "parse", NEW next \in CallsOfReceiver, GoOn(next),
           NEW pos \in 0..taken, Rest = Positions(pos, taken),
           Now.parsed \in Nat, NEW q \in Nat, q = pos + Now.parsed, q <= taken,
           Now.next.state \in ParserStates, Now.next.left \in Nat,
           Now.next = [state |-> Now.next.state, left |-> Now.next.left],
           next.source = call.source, next.source = "body" => next.body = call.body,
           next.at \in {"parse", "body", "chunk"}, IsAt(q)'
    PROVE  ReceiverInv'
<1>1. /\ stream' = stream /\ preserve' = preserve /\ got' = got /\ taken' = taken
      /\ buffer' = buffer /\ parsedOffset' = parsedOffset /\ parser' = Now.next
      /\ given_up' = given_up
      /\ call' = [next EXCEPT !.offset = call.offset + Now.parsed, !.headerLength = HeaderLength]
  BY DEF GoOn
<1>2. ReceiverTyped /\ given_up = "no"
  BY Calling
<1>3. /\ call \in CallsOfReceiver /\ taken \in Nat /\ Len(got) \in Nat /\ buffer \in Seq(Nat)
  BY <1>2, Context
<1>4. call.offset \in Nat /\ call.headerLength \in Nat /\ call.body \in Seq(Nat)
  BY <1>3, CallFields
<1>6. /\ call' \in CallsOfReceiver /\ call'.at = next.at
      /\ call'.offset = call.offset + Now.parsed
      /\ call'.source = next.source /\ call'.body = next.body
  <2>1. IsAdvanced(call', next, call.offset + Now.parsed, HeaderLength)
    BY <1>2, GoOnMoves
  <2> QED
    BY <2>1 DEF IsAdvanced
<1>7. ReceiverTyped'
  <2>1. parser' \in [state : ParserStates, left : Nat]
    BY <1>1
  <2>2. given_up' = "no"
    BY <1>1, <1>2
  <2> QED
    BY <1>1, <1>2, <1>6, <2>1, <2>2 DEF ReceiverTyped
<1>8. SentInTime'
  BY <1>1, StillInTime
<1>9. Unread' = Positions(q, taken')
  <2>1. Source' = Source
    BY <1>1, <1>6 DEF Source
  <2>2. Source \in Seq(Nat)
    BY <1>3, <1>4 DEF Source
  <2>3. Unread' = After(Source, call.offset + Now.parsed)
    BY <1>6, <2>1 DEF Unread
  <2> DEFINE n == Now.parsed
  <2>4. n \in Nat /\ pos \in Nat /\ pos <= taken /\ n \in 0..(taken - pos) /\ q = pos + n
    BY <1>3
  <2> HIDE DEF n
  <2>5. After(Source, call.offset + n) = After(After(Source, call.offset), n)
    BY <1>4, <2>2, <2>4, AfterAfter
  <2>6. After(Source, call.offset) = Positions(pos, taken)
    BY DEF Rest
  <2>7. After(Positions(pos, taken), n) = Positions(pos + n, taken)
    BY <1>3, <2>4, PositionsAfter
  <2> QED
    BY <1>1, <2>3, <2>4, <2>5, <2>6, <2>7 DEF n
<1>10. Follows'
  <2>1. q \in 0..taken'
    BY <1>1, <1>3
  <2>2. call'.at # "receive"
    BY <1>6
  <2> QED
    BY <1>9, <2>1, <2>2 DEF Follows
<1> QED
  BY <1>1, <1>7, <1>8, <1>10, GoesOn

\* A message is returned that ends at pos, but for an empty line.
LEMMA Delivers ==
    ASSUME ReceiverInv, call.at # "none",
           NEW head \in Seq(Nat), NEW body \in Seq(Nat), NEW offset \in Nat,
           Deliver(head, body, offset),
           [head |-> head, body |-> body] = SentIn(stream, preserve, NextMessage),
           ~TooLargeIn(stream, NextMessage, 0),
           SentInTime', taken' \in 0..Len(stream),
           parser' \in [state : ParserStates, left : Nat], parser'.state = "start",
           NEW pos \in 0..taken', After(buffer, offset) = Positions(pos, taken'),
           AreDone(stream, NextMessage, pos)
    PROVE  ReceiverInv'
<1> DEFINE m == [head |-> head, body |-> body]
           Entities == [head : Seq(Nat), body : Seq(Nat)]
<1>1. /\ got' = Append(got, m) /\ Recycle(offset) /\ call' = NoCall
      /\ stream' = stream /\ preserve' = preserve /\ given_up' = given_up
  BY DEF Deliver
<1>2. ReceiverTyped /\ given_up = "no"
  BY Calling
<1>3. /\ buffer \in Seq(Nat) /\ Len(buffer) \in Nat /\ Len(got) \in Nat
      /\ NextMessage = Len(got) + 1 /\ LoadLimit \in Nat
  BY <1>2, Context
<1>4. m \in Entities /\ got \in Seq(Entities)
  BY <1>2 DEF ReceiverTyped
<1> HIDE DEF m, Entities
<1>5. /\ got' \in Seq(Entities) /\ Len(got') = Len(got) + 1
      /\ \A k \in 1..Len(got) : got'[k] = got[k]
      /\ got'[Len(got) + 1] = m
      /\ DOMAIN got' = 1..(Len(got) + 1) /\ DOMAIN got = 1..Len(got)
  BY <1>1, <1>4
<1>6. After(buffer, offset) \in Seq(Nat)
  BY <1>3, AfterProperties
<1>7. /\ buffer' \in Seq(Nat) /\ parsedOffset' \in 0..LoadLimit
      /\ After(buffer', parsedOffset') = After(buffer, offset)
      /\ parsedOffset' = 0 \/ parsedOffset' < Len(buffer')
  <2>1. CASE Recycles(offset)
    <3>1. buffer' = After(buffer, offset) /\ parsedOffset' = 0
      BY <1>1, <2>1 DEF Recycle
    <3>2. After(After(buffer, offset), 0) = After(buffer, offset)
      BY <1>6, AfterNone
    <3> QED
      BY <1>3, <1>6, <3>1, <3>2
  <2>2. CASE ~Recycles(offset)
    <3>1. buffer' = buffer /\ parsedOffset' = offset
      BY <1>1, <2>2 DEF Recycle
    <3>2. offset < Len(buffer) /\ offset <= LoadLimit
      BY <1>3, <2>2 DEF Recycles
    <3> QED
      BY <1>3, <3>1, <3>2
  <2> QED
    BY <2>1, <2>2
<1>8. ReceiverTyped'
  <2>1. given_up' = "no" /\ call' \in CallsOfReceiver
    BY <1>1, <1>2, NoCallTyped
  <2>2. got' \in Seq([head : Seq(Nat), body : Seq(Nat)])
    BY <1>5 DEF Entities
  <2> QED
    BY <1>1, <1>2, <1>7, <2>1, <2>2 DEF ReceiverTyped
<1>9. DeliveredAreSent'
  <2> SUFFICES ASSUME NEW k \in DOMAIN got'
               PROVE  got'[k] = SentIn(stream, preserve, k) /\ ~TooLargeIn(stream, k, 0)
    BY <1>1, DeliveredIn
  <2>1. CASE k \in DOMAIN got
    <3>1. got[k] = SentIn(stream, preserve, k) /\ ~TooLargeIn(stream, k, 0)
      BY <2>1, DeliveredIn DEF ReceiverInv
    <3> QED
      BY <1>5, <2>1, <3>1
  <2>2. CASE k = Len(got) + 1
    BY <1>3, <1>5, <2>2 DEF m
  <2> QED
    BY <1>3, <1>5, <2>1, <2>2
<1>10. Refusals'
  BY <1>1, <1>2 DEF Refusals
<1>11. Follows'
  <2>1. NoCall.at = "none" /\ NoCall.source = "buffer"
    BY DEF NoCall
  <2>2. Unread' = After(buffer', parsedOffset')
    BY <1>1, <2>1 DEF Unread, Source
  <2>3. NoCallAt(pos)'
    BY <1>1, <1>3, <1>5, <1>7 DEF NoCallAt
  <2>4. call'.at # "receive"
    BY <1>1, <2>1
  <2> QED
    BY <1>7, <2>2, <2>3, <2>4 DEF Follows, IsAt
<1> QED
  BY <1>8, <1>9, <1>10, <1>11 DEF ReceiverInv

-----------------------------------------------------------------------------
(* What a message is made of *)

\* The kinds of pieces of headers and of bodies.
HeaderKinds == {"head", "blank", "opcode", "length", "extended"}
BodyKinds == {"data", "size", "end", "part", "mark", "close", "epilogue"}

\* Message k: its headers up to p, and its body up to z.
Consists(s, k, f, p, z) ==
    /\ StartsBehind(s, k, f) /\ StartsBehind(s, k + 1, z)
    /\ Are(s, k, HeaderKinds, f, p) /\ Are(s, k, BodyKinds, p, z)
    /\ f <= p /\ p <= z /\ z <= Len(s)

\* Its pieces of some kinds are in the headers or in the body.
LEMMA PiecesOfMessage ==
    ASSUME NEW s, IsStream(s), NEW k \in Nat, NEW f \in Nat, NEW p \in Nat, NEW z \in Nat,
           Consists(s, k, f, p, z), NEW K
    PROVE  /\ K \cap BodyKinds = {} => Picked(s, k, K, 0, Len(s)) = Picked(s, k, K, f, p)
           /\ K \cap HeaderKinds = {} => Picked(s, k, K, 0, Len(s)) = Picked(s, k, K, p, z)
<1>1. /\ StartsBehind(s, k, f) /\ StartsBehind(s, k + 1, z)
      /\ Are(s, k, HeaderKinds, f, p) /\ Are(s, k, BodyKinds, p, z)
      /\ f <= p /\ p <= z /\ z <= Len(s) /\ f <= z
  BY DEF Consists
<1>2. Picked(s, k, K, 0, Len(s)) = Picked(s, k, K, f, z)
  BY <1>1, PickedOfMessage
<1>3. Picked(s, k, K, f, p) \o Picked(s, k, K, p, z) = Picked(s, k, K, f, z)
  BY <1>1, PickedJoin
<1>4. Picked(s, k, K, f, p) \in Seq(Nat) /\ Picked(s, k, K, p, z) \in Seq(Nat)
  BY PickedTyped
<1>5. ASSUME K \cap BodyKinds = {}
      PROVE  Picked(s, k, K, 0, Len(s)) = Picked(s, k, K, f, p)
  <2>1. BodyKinds \cap K = {}
    BY <1>5
  <2>2. Picked(s, k, K, p, z) = <<>>
    BY <1>1, <2>1, PickedNone
  <2> QED
    BY <1>2, <1>3, <1>4, <2>2, ConcatEmptySeq
<1>6. ASSUME K \cap HeaderKinds = {}
      PROVE  Picked(s, k, K, 0, Len(s)) = Picked(s, k, K, p, z)
  <2>1. HeaderKinds \cap K = {}
    BY <1>6
  <2>2. Picked(s, k, K, f, p) = <<>>
    BY <1>1, <2>1, PickedNone
  <2> QED
    BY <1>2, <1>3, <1>4, <2>2, ConcatEmptySeq
<1> QED
  BY <1>5, <1>6

\* What becomes of a body.
KeptOfBody(keeps) ==
    {"data", "part"} \cup IF keeps THEN {"mark", "close", "epilogue"} ELSE {}

\* What was sent is the headers and what is picked from the body.
LEMMA SentPieces ==
    ASSUME NEW s, IsStream(s), NEW k \in Nat, NEW f \in Nat, NEW p \in Nat, NEW z \in Nat,
           Consists(s, k, f, p, z), NEW keeps
    PROVE  SentIn(s, keeps, k) =
              [head |-> Positions(f, p), body |-> Picked(s, k, KeptOfBody(keeps), p, z)]
<1> DEFINE K == KeptOfBody(keeps)
<1>1. HeaderKinds \cap BodyKinds = {} /\ K \cap HeaderKinds = {}
  BY DEF HeaderKinds, BodyKinds, KeptOfBody
<1>2. SentIn(s, keeps, k) =
         [head |-> Picked(s, k, HeaderKinds, 0, Len(s)), body |-> Picked(s, k, K, 0, Len(s))]
  BY DEF SentIn, HeaderKinds, KeptOfBody
<1> HIDE DEF K
<1>3. Picked(s, k, HeaderKinds, 0, Len(s)) = Picked(s, k, HeaderKinds, f, p)
  BY <1>1, PiecesOfMessage
<1>4. Picked(s, k, HeaderKinds, f, p) = Positions(f, p)
  <2>1. Are(s, k, HeaderKinds, f, p)
    BY DEF Consists
  <2> QED
    BY <2>1, PickedAll
<1>5. Picked(s, k, K, 0, Len(s)) = Picked(s, k, K, p, z)
  BY <1>1, PiecesOfMessage
<1>6. SentIn(s, keeps, k) = [head |-> Positions(f, p), body |-> Picked(s, k, K, p, z)]
  BY <1>2, <1>3, <1>4, <1>5
<1> QED
  BY <1>6 DEF K

\* A message within the limits.
LEMMA WithinLimits ==
    ASSUME NEW s, IsStream(s), NEW k \in Nat, NEW f \in Nat, NEW p \in Nat, NEW z \in Nat,
           Consists(s, k, f, p, z),
           Len(Picked(s, k, {"head", "blank"}, f, p)) <= MaxHeaderLength,
           Len(Picked(s, k, {"data", "part", "mark", "close", "epilogue", "junk"}, p, z))
              <= MaxContentLength
    PROVE  ~TooLargeIn(s, k, 0)
<1> DEFINE H == {"head", "blank"}
           K == {"data", "part", "mark", "close", "epilogue", "junk"}
<1>1. H \cap BodyKinds = {} /\ K \cap HeaderKinds = {}
  BY DEF HeaderKinds, BodyKinds
<1>2. /\ Picked(s, k, H, 0, Len(s)) = Picked(s, k, H, f, p)
      /\ Picked(s, k, K, 0, Len(s)) = Picked(s, k, K, p, z)
  <2> HIDE DEF H, K
  <2> QED
    BY <1>1, PiecesOfMessage
<1>3. Len(Picked(s, k, H, f, p)) \in Nat /\ Len(Picked(s, k, K, p, z)) \in Nat
  BY PickedTyped
<1>4. MaxHeaderLength \in Nat /\ MaxContentLength \in Nat
  BY ReceiverAssumption
<1> DEFINE h == Len(Picked(s, k, H, f, p))
           n == Len(Picked(s, k, K, p, z))
<1>5. h \in Nat /\ n \in Nat /\ h <= MaxHeaderLength /\ n <= MaxContentLength
  BY <1>3
<1>6. TooLargeIn(s, k, 0) <=> h + 0 > MaxHeaderLength \/ n > MaxContentLength
  BY <1>2 DEF TooLargeIn
<1> HIDE DEF h, n
<1> QED
  BY <1>4, <1>5, <1>6

-----------------------------------------------------------------------------
(* What is refused *)

\* A piece that is none of any message.
LEMMA JunkThere ==
    ASSUME ReceiverTyped, NEW a \in Nat, Are(stream, NextMessage, {"junk"}, a, a + 1)
    PROVE  Picked(stream, NextMessage, {"junk"}, 0, Len(stream)) # <<>>
<1> DEFINE w == Picked(stream, NextMessage, {"junk"}, 0, Len(stream))
           b == a + 1
<1>1. IsStream(stream)
  BY Context
<1>2. b \in Nat /\ a <= b /\ Are(stream, NextMessage, {"junk"}, a, b) /\ b - a = 1
  OBVIOUS
<1> HIDE DEF b
<1>3. Len(w) \in Nat /\ b - a <= Len(w)
  BY <1>1, <1>2, PiecesAtLeast
<1> HIDE DEF w
<1>4. w # <<>>
  BY <1>2, <1>3
<1> QED
  BY <1>4 DEF w

\* More headers than are allowed.
LEMMA TooManyHeaders ==
    ASSUME ReceiverTyped, NEW a \in Nat, NEW b \in Nat, a <= b,
           Are(stream, NextMessage, {"head", "blank"}, a, b),
           NEW e \in {0, 1}, NEW i \in Nat, e = 1 => IsEmptyLine(stream, Len(got), i),
           (b - a) + e > MaxHeaderLength
    PROVE  TooLargeIn(stream, NextMessage,
                 Len(Picked(stream, NextMessage - 1, {"epilogue"}, 0, Len(stream))))
<1> DEFINE h == Len(Picked(stream, NextMessage, {"head", "blank"}, 0, Len(stream)))
           k == NextMessage - 1
           x == Len(Picked(stream, k, {"epilogue"}, 0, Len(stream)))
<1>1. /\ IsStream(stream) /\ DOMAIN stream = 1..Len(stream) /\ Len(stream) \in Nat
      /\ MaxHeaderLength \in Nat /\ k = Len(got)
  BY Context
<1>2. h \in Nat /\ b - a <= h
  BY <1>1, PiecesAtLeast
<1> HIDE DEF k
<1>3. x \in Nat
  <2> DEFINE n == Len(stream)
  <2>1. n \in Nat /\ 0 \in Nat
    BY <1>1
  <2> HIDE DEF n
  <2>2. Len(Picked(stream, k, {"epilogue"}, 0, n)) \in Nat
    BY <2>1, PickedTyped
  <2> QED
    BY <2>2 DEF n
<1>4. e = 1 => 1 <= x
  <2> SUFFICES ASSUME e = 1 PROVE 1 <= x
    OBVIOUS
  <2>1. i \in DOMAIN stream /\ stream[i].is = "epilogue" /\ stream[i].message = k
    BY <1>1 DEF IsEmptyLine
  <2> DEFINE j == i - 1
  <2>2. j \in Nat /\ j <= i /\ (j + 1)..i = {i} /\ i - j = 1
    BY <1>1, <2>1
  <2> HIDE DEF j
  <2>3. Are(stream, k, {"epilogue"}, j, i)
    BY <2>1, <2>2 DEF Are
  <2>4. i - j <= x
    BY <1>1, <2>2, <2>3, PiecesAtLeast
  <2> QED
    BY <2>2, <2>4
<1>5. h + x > MaxHeaderLength
  <2> HIDE DEF h, x
  <2> QED
    BY <1>1, <1>2, <1>3, <1>4
<1> QED
  BY <1>5 DEF TooLargeIn, k

-----------------------------------------------------------------------------
(* The steps *)

\* The call is somewhere else, or has begun.
IsPut(d, c, at) ==
    /\ d \in CallsOfReceiver
    /\ d.at = at /\ d.offset = c.offset /\ d.source = c.source /\ d.kept = c.kept
    /\ d.headersCompleted = c.headersCompleted /\ d.isChunked = c.isChunked
    /\ d.isMultipart = c.isMultipart /\ d.contentLength = c.contentLength
    /\ d.chunkLength = c.chunkLength /\ d.headerLength = c.headerLength
    /\ d.head = c.head /\ d.body = c.body

\* What does not change of a call that goes somewhere else.
LEMMA PutProperties ==
    ASSUME NEW c \in CallsOfReceiver, NEW at \in Places
    PROVE  IsPut([c EXCEPT !.at = at], c, at)
<1>1. [c EXCEPT !.at = at] \in CallsOfReceiver
  BY DEF CallsOfReceiver
<1> QED
  BY <1>1 DEF CallsOfReceiver, IsPut

\* The call when it begins.
Begun(at, o) == [NoCall EXCEPT !.at = at, !.offset = o]

IsBegun(d, at, o) ==
    /\ d \in CallsOfReceiver
    /\ d.at = at /\ d.offset = o /\ d.source = "buffer"
    /\ d.headersCompleted = FALSE /\ d.headerLength = 0
    /\ d.head = <<>> /\ d.body = <<>>

\* The local variables of a call that begins.
LEMMA BegunProperties ==
    ASSUME NEW at \in Places, NEW o \in Nat
    PROVE  IsBegun(Begun(at, o), at, o)
<1>1. /\ NoCall.source = "buffer" /\ NoCall.headersCompleted = FALSE /\ NoCall.headerLength = 0
      /\ NoCall.head = <<>> /\ NoCall.body = <<>>
  BY DEF NoCall
<1>2. ASSUME NEW c \in CallsOfReceiver
      PROVE  /\ [c EXCEPT !.at = at, !.offset = o] \in CallsOfReceiver
             /\ [c EXCEPT !.at = at, !.offset = o].at = at
             /\ [c EXCEPT !.at = at, !.offset = o].offset = o
             /\ [c EXCEPT !.at = at, !.offset = o].source = c.source
             /\ [c EXCEPT !.at = at, !.offset = o].headersCompleted = c.headersCompleted
             /\ [c EXCEPT !.at = at, !.offset = o].headerLength = c.headerLength
             /\ [c EXCEPT !.at = at, !.offset = o].head = c.head
             /\ [c EXCEPT !.at = at, !.offset = o].body = c.body
  <2>1. [c EXCEPT !.at = at, !.offset = o] \in CallsOfReceiver
    BY DEF CallsOfReceiver
  <2> QED
    BY <2>1 DEF CallsOfReceiver
<1>3. /\ Begun(at, o) \in CallsOfReceiver /\ Begun(at, o).at = at /\ Begun(at, o).offset = o
      /\ Begun(at, o).source = NoCall.source
      /\ Begun(at, o).headersCompleted = NoCall.headersCompleted
      /\ Begun(at, o).headerLength = NoCall.headerLength
      /\ Begun(at, o).head = NoCall.head /\ Begun(at, o).body = NoCall.body
  BY <1>2, NoCallTyped DEF Begun
<1> QED
  BY <1>1, <1>3 DEF IsBegun

\* Between calls.
LEMMA Waiting ==
    ASSUME ReceiverInv, call.at = "none", given_up = "no"
    PROVE  \E pos \in 0..taken :
              After(buffer, parsedOffset) = Positions(pos, taken) /\ NoCallAt(pos)
<1>1. PICK pos \in 0..taken : Unread = Positions(pos, taken) /\ IsAt(pos)
  BY DEF ReceiverInv, Follows
<1>2. ~StartAt(pos) /\ ~HeadAt(pos) /\ ~FrameAt(pos) /\ ~PayloadAt(pos)
  <2>1. [NoCall EXCEPT !.at = "frame", !.offset = parsedOffset].at = "frame"
    BY DEF NoCall
  <2> QED
    BY <2>1 DEF StartAt, HeadAt, ReadsBuffer, FrameAt, PayloadAt
<1>3. \A p : ~LengthAt(p, pos) /\ ~ChunkedAt(p, pos) /\ ~MultipartAt(p, pos)
  BY DEF LengthAt, ChunkedAt, MultipartAt, ReadsBuffer
<1>4. NoCallAt(pos)
  BY <1>1, <1>2, <1>3 DEF IsAt
<1>5. call.source = "buffer"
  BY <1>4 DEF NoCallAt, NoCall
<1> QED
  BY <1>1, <1>4, <1>5 DEF Unread, Source

\* A call of recvMessageEntity().
LEMMA RecvMessageInv ==
    ASSUME ReceiverInv, RecvMessage
    PROVE  ReceiverInv'
<1>1. /\ call.at = "none" /\ given_up = "no" /\ Comes({"head", "junk"})
      /\ call' = [NoCall EXCEPT !.at = IF parsedOffset = Len(buffer) THEN "receive" ELSE "parse",
                                !.offset = parsedOffset]
      /\ stream' = stream /\ preserve' = preserve /\ taken' = taken /\ buffer' = buffer
      /\ parsedOffset' = parsedOffset /\ parser' = parser /\ got' = got
      /\ given_up' = given_up
  BY DEF RecvMessage
<1>2. PICK pos \in 0..taken :
         After(buffer, parsedOffset) = Positions(pos, taken) /\ NoCallAt(pos)
  BY <1>1, Waiting
<1>3. ReceiverTyped /\ parsedOffset \in Nat /\ Len(buffer) \in Nat
  BY Context DEF ReceiverInv
<1>4. /\ call' \in CallsOfReceiver
      /\ call'.at = IF parsedOffset = Len(buffer) THEN "receive" ELSE "parse"
      /\ call'.offset = parsedOffset /\ call'.source = "buffer"
      /\ call'.headersCompleted = FALSE /\ call'.headerLength = 0
      /\ call'.head = <<>> /\ call'.body = <<>>
  <2>1. (IF parsedOffset = Len(buffer) THEN "receive" ELSE "parse") \in Places
    BY DEF Places
  <2> DEFINE at == IF parsedOffset = Len(buffer) THEN "receive" ELSE "parse"
  <2> HIDE DEF at
  <2>2. IsBegun(Begun(at, parsedOffset), at, parsedOffset)
    BY <1>3, <2>1, BegunProperties DEF at
  <2> QED
    BY <1>1, <2>2 DEF Begun, IsBegun, at
<1>5. StartAt(pos)'
  <2>1. ReadsBuffer'
    BY <1>4 DEF ReadsBuffer
  <2>2. Comes({"head", "junk"})'
    BY <1>1 DEF Comes, NextMessage, Kind
  <2>3. /\ parser.state = "start" /\ AreDone(stream, Len(got), pos)
        /\ \/ parsedOffset = 0
           \/ parsedOffset < Len(buffer)
           \/ IsEmptyLine(stream, Len(got), pos)
    BY <1>2 DEF NoCallAt
  <2> QED
    BY <1>1, <1>4, <2>1, <2>2, <2>3 DEF StartAt
<1>6. Follows'
  <2>1. Unread' = Positions(pos, taken')
    BY <1>1, <1>2, <1>4 DEF Unread, Source
  <2>2. call'.at = "receive" => call'.offset <= Len(buffer')
    BY <1>1, <1>3, <1>4
  <2> QED
    BY <1>1, <1>5, <2>1, <2>2 DEF Follows, IsAt
<1>7. ReceiverTyped'
  <2>1. given_up' = "no"
    BY <1>1
  <2> QED
    BY <1>1, <1>3, <1>4, <2>1 DEF ReceiverTyped
<1>8. SentInTime' /\ DeliveredAreSent'
  BY <1>1, StillInTime, DeliveredStay
<1>9. Refusals'
  BY <1>1 DEF Refusals
<1> QED
  BY <1>6, <1>7, <1>8, <1>9 DEF ReceiverInv

\* A call of recvWebSocketFrameEntity().  No frame follows an empty line.
LEMMA RecvFrameInv ==
    ASSUME ReceiverInv, RecvFrame
    PROVE  ReceiverInv'
<1>1. /\ call.at = "none" /\ given_up = "no" /\ Comes({"opcode"})
      /\ call' = [NoCall EXCEPT !.at = "frame", !.offset = parsedOffset]
      /\ stream' = stream /\ preserve' = preserve /\ taken' = taken /\ buffer' = buffer
      /\ parsedOffset' = parsedOffset /\ parser' = parser /\ got' = got
      /\ given_up' = given_up
  BY DEF RecvFrame
<1>2. PICK pos \in 0..taken :
         After(buffer, parsedOffset) = Positions(pos, taken) /\ NoCallAt(pos)
  BY <1>1, Waiting
<1>3. /\ ReceiverTyped /\ parsedOffset \in Nat /\ Len(buffer) \in Nat /\ taken \in Nat
      /\ IsStream(stream) /\ NextMessage \in Nat /\ NextMessage = Len(got) + 1
  BY Context DEF ReceiverInv
<1>4. /\ call' \in CallsOfReceiver /\ call'.at = "frame" /\ call'.offset = parsedOffset
      /\ call'.source = "buffer"
  <2>1. "frame" \in Places
    BY DEF Places
  <2>2. IsBegun(Begun("frame", parsedOffset), "frame", parsedOffset)
    BY <1>3, <2>1, BegunProperties
  <2> QED
    BY <1>1, <2>2 DEF Begun, IsBegun
<1>5. PICK i \in DOMAIN stream : stream[i].message = NextMessage /\ stream[i].is = "opcode"
  BY <1>1 DEF Comes, Kind
<1>6. IsFirst(stream, i)
  BY <1>3, <1>5, FrameOf
<1>7. ASSUME NEW f \in Nat, StartsBehind(stream, NextMessage, f)
      PROVE  i = f + 1 /\ ~IsEmptyLine(stream, Len(got), f)
  <2>1. i = f + 1
    BY <1>3, <1>5, <1>6, <1>7, BeginsOnce
  <2> QED
    BY <1>3, <1>5, <2>1 DEF IsEmptyLine, IsStream
<1>8. /\ parser.state = "start" /\ AreDone(stream, Len(got), pos)
      /\ \/ parsedOffset = 0
         \/ parsedOffset < Len(buffer)
         \/ IsEmptyLine(stream, Len(got), pos)
  BY <1>2 DEF NoCallAt
<1>9. pos \in Nat /\ pos + 1 \in Nat
  BY <1>3
<1>10. StartsBehind(stream, NextMessage, pos)
  BY <1>3, <1>7, <1>8, <1>9 DEF AreDone
<1>11. i = pos + 1 /\ (parsedOffset = 0 \/ parsedOffset < Len(buffer))
  BY <1>7, <1>8, <1>9, <1>10
<1>12. Are(stream, NextMessage, {"opcode"}, pos, pos + 1)
  BY <1>5, <1>9, <1>11, AreOne
<1>13. FrameAt(pos)'
  <2>1. NextMessage' = NextMessage
    BY <1>1 DEF NextMessage
  <2> QED
    BY <1>1, <1>8, <1>10, <1>11, <1>12, <2>1 DEF FrameAt
<1>14. Follows'
  <2>1. Unread' = Positions(pos, taken')
    BY <1>1, <1>2, <1>4 DEF Unread, Source
  <2>2. call'.at # "receive"
    BY <1>4
  <2> QED
    BY <1>1, <1>13, <2>1, <2>2 DEF Follows, IsAt
<1>15. ReceiverTyped'
  <2>1. given_up' = "no"
    BY <1>1
  <2> QED
    BY <1>1, <1>3, <1>4, <2>1 DEF ReceiverTyped
<1>16. SentInTime' /\ DeliveredAreSent'
  BY <1>1, StillInTime, DeliveredStay
<1>17. Refusals'
  BY <1>1 DEF Refusals
<1> QED
  BY <1>14, <1>15, <1>16, <1>17 DEF ReceiverInv

\* The headers of the message stay what they are.
LEMMA HeadersStay ==
    ASSUME NEW f, NEW p, HeadersAt(f, p), stream' = stream, got' = got,
           call'.headersCompleted = call.headersCompleted, call'.head = call.head,
           call'.isChunked = call.isChunked, call'.isMultipart = call.isMultipart,
           call'.headerLength = call.headerLength,
           call'.contentLength <= MaxContentLength
    PROVE  HeadersAt(f, p)'
<1>1. NextMessage' = NextMessage
  BY DEF NextMessage
<1> QED
  BY <1>1 DEF HeadersAt

\* recvData() puts what came behind what is in the buffer.
LEMMA RecvDataInv ==
    ASSUME ReceiverInv, Liberties = {}, NEW n \in 1..BufferSize, RecvData(n)
    PROVE  ReceiverInv'
<1>1. /\ call.at = "receive" /\ HasCome(n)
      /\ buffer' = buffer \o Incoming(n) /\ taken' = taken + n
      /\ call' = [call EXCEPT !.at = "parse"]
      /\ stream' = stream /\ preserve' = preserve /\ parsedOffset' = parsedOffset
      /\ parser' = parser /\ got' = got /\ given_up' = given_up
  BY DEF RecvData, Receive
<1>2. /\ ReceiverTyped /\ given_up = "no" /\ Follows
  BY <1>1, Calling
<1>3. /\ BufferSize \in Nat /\ taken \in Nat /\ taken <= Len(stream) /\ Len(stream) \in Nat
      /\ buffer \in Seq(Nat) /\ Len(buffer) \in Nat /\ call \in CallsOfReceiver
      /\ parsedOffset \in Nat
  BY <1>2, Context
<1>4. call.offset \in Nat /\ n \in Nat
  BY <1>3, CallFields
<1>5. /\ call' \in CallsOfReceiver
      /\ call'.at = "parse" /\ call'.offset = call.offset /\ call'.source = call.source
      /\ call'.kept = call.kept
      /\ call'.headersCompleted = call.headersCompleted /\ call'.isChunked = call.isChunked
      /\ call'.isMultipart = call.isMultipart /\ call'.contentLength = call.contentLength
      /\ call'.chunkLength = call.chunkLength /\ call'.headerLength = call.headerLength
      /\ call'.head = call.head /\ call'.body = call.body
  <2>1. "parse" \in Places
    BY DEF Places
  <2>2. IsPut([call EXCEPT !.at = "parse"], call, "parse")
    BY <1>3, <2>1, PutProperties
  <2> QED
    BY <1>1, <2>2 DEF IsPut
<1>6. SentInTime' /\ taken + n <= Len(stream)
  BY <1>1, <1>4, MoreInTime
<1>7. PICK pos \in 0..taken : Unread = Positions(pos, taken) /\ IsAt(pos)
  BY <1>2 DEF Follows
<1>8. pos \in Nat /\ pos <= taken /\ call.offset <= Len(buffer)
  BY <1>1, <1>2, <1>3 DEF Follows
<1>9. /\ Incoming(n) = Positions(taken, taken + n) /\ Incoming(n) \in Seq(Nat)
      /\ taken + n \in Nat /\ taken <= taken + n /\ Len(Incoming(n)) \in Nat
  <2> DEFINE b == taken + n
  <2>1. b \in Nat /\ taken <= b
    BY <1>3, <1>4
  <2> HIDE DEF b
  <2>2. Positions(taken, b) \in Seq(Nat)
    BY <1>3, <2>1, PositionsProperties
  <2>3. Len(Positions(taken, b)) \in Nat
    BY <2>2
  <2> QED
    BY <2>1, <2>2, <2>3 DEF b, Incoming
<1>10. /\ buffer' \in Seq(Nat) /\ Len(buffer) <= Len(buffer') /\ Len(buffer') \in Nat
       /\ After(buffer', call.offset) = After(buffer, call.offset) \o Incoming(n)
  <2> DEFINE r == Incoming(n)
             o == call.offset
  <2>1. r \in Seq(Nat) /\ Len(r) \in Nat /\ o \in 0..Len(buffer)
    BY <1>4, <1>8, <1>9
  <2> HIDE DEF r, o
  <2>2. buffer \o r \in Seq(Nat) /\ Len(buffer \o r) = Len(buffer) + Len(r)
    BY <1>3, <2>1, ConcatProperties
  <2>3. After(buffer \o r, o) = After(buffer, o) \o r
    BY <1>3, <2>1, AfterConcat
  <2>4. Len(buffer) <= Len(buffer \o r) /\ Len(buffer \o r) \in Nat
    BY <1>3, <2>1, <2>2
  <2> QED
    BY <1>1, <2>2, <2>3, <2>4 DEF r, o
<1>11. NextMessage' = NextMessage
  BY <1>1 DEF NextMessage
<1>12. ~NoCallAt(pos) /\ ~FrameAt(pos) /\ ~PayloadAt(pos)
  <2>1. NoCall.at = "none" /\ [NoCall EXCEPT !.at = "frame", !.offset = parsedOffset].at = "frame"
    BY DEF NoCall
  <2> QED
    BY <1>1, <2>1 DEF NoCallAt, FrameAt, PayloadAt
<1>13. ASSUME StartAt(pos) PROVE call.source = "buffer" /\ IsAt(pos)'
  <2>1. Comes({"head", "junk"})'
    BY <1>1, <1>11, <1>13 DEF StartAt, Comes, Kind
  <2>2. call.source = "buffer" /\ ReadsBuffer'
    BY <1>5, <1>13 DEF StartAt, ReadsBuffer
  <2>3. StartAt(pos)'
    BY <1>1, <1>3, <1>5, <1>10, <1>11, <1>13, <2>1, <2>2 DEF StartAt
  <2> QED
    BY <2>2, <2>3 DEF IsAt
<1>14. ASSUME HeadAt(pos) PROVE call.source = "buffer" /\ IsAt(pos)'
  <2>1. call.source = "buffer" /\ ReadsBuffer'
    BY <1>5, <1>14 DEF HeadAt, ReadsBuffer
  <2>2. HeadAt(pos)'
    BY <1>1, <1>5, <1>11, <1>14, <2>1 DEF HeadAt
  <2> QED
    BY <2>1, <2>2 DEF IsAt
<1>15. ASSUME NEW f \in 0..pos, NEW p \in 0..pos, HeadersAt(f, p),
              LengthAt(p, pos) \/ ChunkedAt(p, pos) \/ MultipartAt(p, pos)
       PROVE  call.source = "buffer" /\ IsAt(pos)'
  <2>1. HeadersAt(f, p)'
    <3>1. call.contentLength <= MaxContentLength
      BY <1>15 DEF HeadersAt
    <3> QED
      BY <1>1, <1>5, <1>15, <3>1, HeadersStay
  <2>2. CASE LengthAt(p, pos)
    <3>1. call.source = "buffer" /\ LengthAt(p, pos)'
      BY <1>1, <1>5, <2>2 DEF LengthAt
    <3> QED
      BY <2>1, <3>1 DEF IsAt
  <2>3. CASE ChunkedAt(p, pos)
    <3>1. call.source = "buffer" /\ ChunkedAt(p, pos)'
      BY <1>1, <1>5, <1>11, <2>3 DEF ChunkedAt
    <3> QED
      BY <2>1, <3>1 DEF IsAt
  <2>4. CASE MultipartAt(p, pos)
    <3>1. ~preserve /\ call.source = "buffer" /\ ReadsBuffer'
      BY <1>1, <1>5, <2>4 DEF MultipartAt, ReadsBuffer
    <3>2. MultipartAt(p, pos)'
      BY <1>1, <1>5, <1>11, <2>4, <3>1 DEF MultipartAt
    <3> QED
      BY <2>1, <3>1, <3>2 DEF IsAt
  <2> QED
    BY <1>15, <2>2, <2>3, <2>4
<1>16. call.source = "buffer" /\ IsAt(pos)'
  BY <1>7, <1>12, <1>13, <1>14, <1>15 DEF IsAt
<1>17. Unread' = Positions(pos, taken')
  <2>1. Unread' = After(buffer', call.offset)
    BY <1>5, <1>16 DEF Unread, Source
  <2>2. After(buffer, call.offset) = Positions(pos, taken)
    BY <1>1, <1>7, <1>16 DEF Unread, Source
  <2> DEFINE b == taken + n
  <2>3. b \in Nat /\ taken <= b
    BY <1>9
  <2> HIDE DEF b
  <2>4. Positions(pos, taken) \o Positions(taken, b) = Positions(pos, b)
    BY <1>3, <1>8, <2>3, PositionsJoin
  <2> QED
    BY <1>1, <1>9, <1>10, <2>1, <2>2, <2>4 DEF b
<1>18. Follows'
  <2>1. pos \in 0..taken' /\ call'.at # "receive"
    BY <1>1, <1>3, <1>5, <1>8, <1>9
  <2> QED
    BY <1>16, <1>17, <2>1 DEF Follows
<1>19. ReceiverTyped'
  <2>1. given_up' = "no" /\ taken' \in 0..Len(stream')
    BY <1>1, <1>2, <1>3, <1>6, <1>9
  <2> QED
    BY <1>1, <1>2, <1>5, <1>10, <2>1 DEF ReceiverTyped
<1> QED
  BY <1>1, <1>6, <1>18, <1>19, GoesOn

\* A timeout that is harmless leaves all as if the call had not been.
LEMMA TimeoutInv ==
    ASSUME ReceiverInv, Liberties = {}, Timeout
    PROVE  ReceiverInv'
<1> DEFINE harmless == \/ call.at = "receive" /\ parser.state = "start" /\ buffer = <<>>
                       \/ call.at = "frame"
<1>1. /\ call.at \in {"receive", "preserve", "body", "chunk", "payload", "frame"}
      /\ given_up' = IF harmless THEN "no" ELSE "timeout"
      /\ call' = NoCall
      /\ stream' = stream /\ preserve' = preserve /\ taken' = taken /\ buffer' = buffer
      /\ parsedOffset' = parsedOffset /\ parser' = parser /\ got' = got
  BY DEF Timeout
<1>2. ReceiverTyped /\ given_up = "no" /\ Follows
  BY <1>1, Calling
<1>3. SentInTime' /\ DeliveredAreSent'
  BY <1>1, StillInTime, DeliveredStay
<1>4. ReceiverTyped'
  BY <1>1, <1>2, NoCallTyped DEF ReceiverTyped
<1>5. Refusals'
  BY <1>1 DEF Refusals
<1>6. ASSUME harmless PROVE Follows'
  <2>1. PICK pos \in 0..taken : Unread = Positions(pos, taken) /\ IsAt(pos)
    BY <1>2 DEF Follows
  <2>2. /\ taken \in Nat /\ buffer \in Seq(Nat) /\ Len(buffer) \in Nat /\ parsedOffset \in Nat
        /\ call \in CallsOfReceiver /\ NextMessage = Len(got) + 1 /\ Len(got) \in Nat
    BY <1>2, Context
  <2>3. NoCall.at = "none" /\ NoCall.source = "buffer"
    BY DEF NoCall
  <2>4. Unread' = After(buffer, parsedOffset)
    BY <1>1, <2>3 DEF Unread, Source
  <2>5. ~NoCallAt(pos) /\ ~PayloadAt(pos)
    BY <1>6, <2>3 DEF NoCallAt, PayloadAt
  <2>6. CASE call.at = "receive" /\ parser.state = "start" /\ buffer = <<>>
    <3>1. ~FrameAt(pos)
      <4>1. [NoCall EXCEPT !.at = "frame", !.offset = parsedOffset].at = "frame"
        BY DEF NoCall
      <4> QED
        BY <2>6, <4>1 DEF FrameAt
    <3>2. ~HeadAt(pos) /\ \A p : ~LengthAt(p, pos) /\ ~ChunkedAt(p, pos) /\ ~MultipartAt(p, pos)
      BY <2>6 DEF HeadAt, LengthAt, ChunkedAt, MultipartAt
    <3>3. StartAt(pos)
      BY <2>1, <2>5, <3>1, <3>2 DEF IsAt
    <3>4. call.source = "buffer" /\ call.offset \in Nat
      BY <2>2, <3>3, CallFields DEF StartAt, ReadsBuffer
    <3>5. After(buffer, call.offset) = <<>> /\ After(buffer, parsedOffset) = <<>>
      <4>1. Len(buffer) = 0
        BY <2>6
      <4>2. Len(buffer) <= call.offset /\ Len(buffer) <= parsedOffset
        BY <2>2, <3>4, <4>1
      <4> QED
        BY <2>2, <3>4, <4>2, AfterAll
    <3>6. Unread = <<>>
      BY <2>6, <3>4, <3>5 DEF Unread, Source
    <3>7. AreDone(stream, Len(got), pos)
      BY <2>2, <3>3 DEF StartAt, AreDone
    <3>8. \/ parsedOffset = 0
          \/ IsEmptyLine(stream, Len(got), pos)
      BY <2>2, <2>6, <3>3 DEF StartAt
    <3>9. NoCallAt(pos)'
      BY <1>1, <2>6, <3>7, <3>8 DEF NoCallAt
    <3>10. Unread' = Positions(pos, taken')
      BY <1>1, <2>1, <2>4, <3>5, <3>6
    <3> QED
      BY <1>1, <2>3, <3>9, <3>10 DEF Follows, IsAt
  <2>7. CASE call.at = "frame"
    <3>1. FrameAt(pos)
      <4>1. ~StartAt(pos) /\ ~HeadAt(pos)
        BY <2>7 DEF StartAt, HeadAt, ReadsBuffer
      <4>2. \A p : ~LengthAt(p, pos) /\ ~ChunkedAt(p, pos) /\ ~MultipartAt(p, pos)
        BY <2>7 DEF LengthAt, ChunkedAt, MultipartAt, ReadsBuffer
      <4> QED
        BY <2>1, <2>5, <4>1, <4>2 DEF IsAt
    <3>2. call.source = "buffer" /\ call.offset = parsedOffset
      <4>1. IsBegun(Begun("frame", parsedOffset), "frame", parsedOffset)
        BY <2>2, BegunProperties DEF Places
      <4> QED
        BY <3>1, <4>1 DEF FrameAt, Begun, IsBegun
    <3>3. Unread' = Positions(pos, taken')
      BY <1>1, <2>1, <2>4, <2>7, <3>2 DEF Unread, Source
    <3>4. AreDone(stream, Len(got), pos)
      BY <2>2, <3>1 DEF FrameAt, AreDone
    <3>5. NoCallAt(pos)'
      BY <1>1, <3>1, <3>4 DEF NoCallAt, FrameAt
    <3> QED
      BY <1>1, <2>3, <3>3, <3>5 DEF Follows, IsAt
  <2> QED
    BY <1>6, <2>6, <2>7
<1>7. given_up' = "no" => Follows'
  BY <1>1, <1>6
<1> QED
  BY <1>3, <1>4, <1>5, <1>7 DEF ReceiverInv

\* What the headers count for, with those that are parsed now.
LEMMA HeadersSoFar ==
    ASSUME ReceiverTyped, NEW pos \in 0..taken, Rest = Positions(pos, taken),
           StartAt(pos) \/ HeadAt(pos)
    PROVE  \E a, b, i \in Nat : \E e \in {0, 1} :
              /\ a <= b /\ Are(stream, NextMessage, {"head", "blank"}, a, b)
              /\ e = 1 => IsEmptyLine(stream, Len(got), i)
              /\ HeaderLength = (b - a) + e
<1>1. taken \in Nat /\ call \in CallsOfReceiver
  BY Context
<1>2. pos \in Nat /\ pos + 1 \in Nat /\ call.headerLength \in Nat
  BY <1>1, CallFields
<1>3. HeaderLength = call.headerLength + Now.parsed
  BY DEF HeaderLength, StartAt, HeadAt
<1>4. \A a \in Nat : Are(stream, NextMessage, {"head", "blank"}, a, a)
  BY AreZero
<1>5. {"head"} \subseteq {"head", "blank"} /\ {"blank"} \subseteq {"head", "blank"}
  OBVIOUS
<1>6. CASE StartAt(pos)
  <2>1. /\ call.headerLength \in {0, 1}
        /\ call.headerLength = 1 => IsEmptyLine(stream, Len(got), pos)
    BY <1>6 DEF StartAt
  <2>2. CASE Now = Report("NONE", 0, "start", parser.left)
    <3>0. Now.parsed = 0
      BY <2>2 DEF Report
    <3>1. HeaderLength = (pos - pos) + call.headerLength
      BY <1>2, <1>3, <3>0
    <3> QED
      BY <1>2, <1>4, <2>1, <3>1
  <2>3. CASE /\ Now = Report("NONE", 1, "start", parser.left)
             /\ call.headerLength = 0 /\ IsEmptyLine(stream, Len(got), pos + 1)
    <3>0. Now.parsed = 1
      BY <2>3 DEF Report
    <3>1. HeaderLength = (pos - pos) + 1
      BY <1>2, <1>3, <2>3, <3>0
    <3> QED
      BY <1>2, <1>4, <2>3, <3>1
  <2>4. ASSUME NEW f \in {pos, pos + 1},
               f = pos + 1 => call.headerLength = 0 /\ IsEmptyLine(stream, Len(got), f),
               \/ /\ Are(stream, NextMessage, {"head"}, f, f + 1)
                  /\ Now = Report("HEADER", f + 1 - pos, "head", 0)
               \/ Now = Report("ERROR", f - pos, "error", 0)
        PROVE  \E a, b, i \in Nat : \E e \in {0, 1} :
                  /\ a <= b /\ Are(stream, NextMessage, {"head", "blank"}, a, b)
                  /\ e = 1 => IsEmptyLine(stream, Len(got), i)
                  /\ HeaderLength = (b - a) + e
    <3>1. \E b \in {f, f + 1} :
             Are(stream, NextMessage, {"head", "blank"}, f, b) /\ Now.parsed = b - pos
      <4>1. CASE Now = Report("ERROR", f - pos, "error", 0)
        <5>1. Now.parsed = f - pos
          BY <4>1 DEF Report
        <5> QED
          BY <1>2, <1>4, <5>1
      <4>2. CASE /\ Are(stream, NextMessage, {"head"}, f, f + 1)
                 /\ Now = Report("HEADER", f + 1 - pos, "head", 0)
        <5>1. Now.parsed = f + 1 - pos
          BY <4>2 DEF Report
        <5>2. Are(stream, NextMessage, {"head", "blank"}, f, f + 1)
          BY <1>5, <4>2, AreMore
        <5> QED
          BY <5>1, <5>2
      <4> QED
        BY <2>4, <4>1, <4>2
    <3>2. PICK b \in {f, f + 1} :
             Are(stream, NextMessage, {"head", "blank"}, f, b) /\ Now.parsed = b - pos
      BY <3>1
    <3>3. f \in Nat /\ b \in Nat /\ f <= b
      BY <1>2
    <3>4. \E e \in {0, 1} : /\ e = 1 => \E i \in Nat : IsEmptyLine(stream, Len(got), i)
                            /\ HeaderLength = (b - f) + e
      <4>1. CASE f = pos
        <5>1. HeaderLength = (b - f) + call.headerLength
          BY <1>2, <1>3, <3>2, <3>3, <4>1
        <5> QED
          BY <1>2, <2>1, <5>1
      <4>2. CASE f = pos + 1
        <5>1. HeaderLength = (b - f) + 1
          BY <1>2, <1>3, <2>4, <3>2, <3>3, <4>2
        <5> QED
          BY <1>2, <2>4, <4>2, <5>1
      <4> QED
        BY <4>1, <4>2
    <3> QED
      BY <1>2, <3>2, <3>3, <3>4
  <2> QED
    BY <1>6, <2>2, <2>3, <2>4, NowStart
<1>7. CASE HeadAt(pos)
  <2>1. PICK f \in 0..(pos - 1) :
           /\ Are(stream, NextMessage, {"head"}, f, pos)
           /\ \/ call.headerLength = pos - f
              \/ call.headerLength = pos - f + 1 /\ IsEmptyLine(stream, Len(got), f)
    BY <1>7 DEF HeadAt
  <2>2. f \in Nat /\ f <= pos
    BY <1>2
  <2>3. Are(stream, NextMessage, {"head", "blank"}, f, pos)
    BY <1>5, <2>1, AreMore
  <2>4. \E b \in {pos, pos + 1} :
           Are(stream, NextMessage, {"head", "blank"}, f, b) /\ Now.parsed = b - pos
    <3>1. CASE Now.parsed = 0
      <4>1. Now.parsed = pos - pos
        BY <1>2, <3>1
      <4> QED
        BY <2>3, <4>1
    <3>2. CASE Now.parsed = 1 /\ Are(stream, NextMessage, {"head", "blank"}, pos, pos + 1)
      <4> DEFINE b == pos + 1
      <4>1. b \in Nat /\ Now.parsed = b - pos
        BY <1>2, <3>2
      <4>2. Are(stream, NextMessage, {"head", "blank"}, pos, b)
        BY <3>2
      <4> HIDE DEF b
      <4>3. Are(stream, NextMessage, {"head", "blank"}, f, b)
        BY <1>2, <2>2, <2>3, <4>1, <4>2, AreJoin
      <4> QED
        BY <4>1, <4>3 DEF b
    <3>3. \/ Now.parsed = 0
          \/ Now.parsed = 1 /\ \/ Are(stream, NextMessage, {"head"}, pos, pos + 1)
                               \/ Are(stream, NextMessage, {"blank"}, pos, pos + 1)
      <4>1. \/ Now = Report("NONE", 0, "head", parser.left)
            \/ /\ Are(stream, NextMessage, {"head"}, pos, pos + 1)
               /\ Now = Report("HEADER", 1, "head", 0)
            \/ /\ Are(stream, NextMessage, {"blank"}, pos, pos + 1)
               /\ Now = Report("HEADERS_COMPLETE", 1, BodyState(stream[pos + 1]), stream[pos + 1].n)
            \/ Now = Report("ERROR", 0, "error", 0)
        BY <1>7, NowHead
      <4> QED
        BY <4>1 DEF Report
    <3> QED
      BY <1>5, <3>1, <3>2, <3>3, AreMore
  <2>5. PICK b \in {pos, pos + 1} :
           Are(stream, NextMessage, {"head", "blank"}, f, b) /\ Now.parsed = b - pos
    BY <2>4
  <2>6. b \in Nat /\ f <= b
    BY <1>2, <2>2
  <2>7. \E e \in {0, 1} : /\ e = 1 => IsEmptyLine(stream, Len(got), f)
                          /\ HeaderLength = (b - f) + e
    <3>1. CASE call.headerLength = pos - f
      <4>1. HeaderLength = (b - f) + 0
        BY <1>2, <1>3, <2>2, <2>5, <2>6, <3>1
      <4> QED
        BY <4>1
    <3>2. CASE call.headerLength = pos - f + 1 /\ IsEmptyLine(stream, Len(got), f)
      <4>1. HeaderLength = (b - f) + 1
        BY <1>2, <1>3, <2>2, <2>5, <2>6, <3>2
      <4> QED
        BY <3>2, <4>1
    <3> QED
      BY <2>1, <3>1, <3>2
  <2> QED
    BY <2>2, <2>5, <2>6, <2>7
<1> QED
  BY <1>6, <1>7

\* Headers are refused that are longer than allowed.
LEMMA HeaderTooLongInv ==
    ASSUME ReceiverInv, HeaderTooLong
    PROVE  ReceiverInv'
<1>1. call.at = "parse" /\ HeaderLength > MaxHeaderLength /\ GiveUp("too large")
  BY DEF HeaderTooLong, HeaderIsTooLong
<1>2. ReceiverTyped
  BY DEF ReceiverInv
<1>3. PICK pos \in 0..taken :
         /\ Rest = Positions(pos, taken)
         /\ \/ StartAt(pos) \/ HeadAt(pos)
            \/ \E f, p \in 0..pos :
                  /\ HeadersAt(f, p)
                  /\ LengthAt(p, pos) \/ ChunkedAt(p, pos) \/ MultipartAt(p, pos)
  BY <1>1, Parsing
<1>4. StartAt(pos) \/ HeadAt(pos)
  <2>1. ASSUME NEW f, NEW p, HeadersAt(f, p) PROVE FALSE
    <3>1. call.headersCompleted /\ call.headerLength <= MaxHeaderLength
      BY <2>1 DEF HeadersAt
    <3>2. MaxHeaderLength \in Nat /\ call.headerLength \in Nat
      BY <1>2, Context, CallFields
    <3>3. HeaderLength = call.headerLength
      BY <3>1, <3>2 DEF HeaderLength
    <3>4. HeaderLength > MaxHeaderLength
      BY <1>1
    <3> QED
      BY <3>1, <3>2, <3>3, <3>4
  <2> QED
    BY <1>3, <2>1
<1>5. PICK a, b, i \in Nat : \E e \in {0, 1} :
         /\ a <= b /\ Are(stream, NextMessage, {"head", "blank"}, a, b)
         /\ e = 1 => IsEmptyLine(stream, Len(got), i)
         /\ HeaderLength = (b - a) + e
  BY <1>2, <1>3, <1>4, HeadersSoFar
<1>6. PICK e \in {0, 1} :
         /\ e = 1 => IsEmptyLine(stream, Len(got), i)
         /\ HeaderLength = (b - a) + e
  BY <1>5
<1>7. TooLargeIn(stream, NextMessage,
             Len(Picked(stream, NextMessage - 1, {"epilogue"}, 0, Len(stream))))
  <2>1. (b - a) + e > MaxHeaderLength
    BY <1>1, <1>6
  <2> QED
    BY <1>2, <1>5, <1>6, <2>1, TooManyHeaders
<1> QED
  BY <1>1, <1>7, GivesUp

\* The last of the headers is an empty line of the message.
LEMMA HeadersEnd ==
    ASSUME ReceiverTyped, NEW f \in Nat, NEW p \in Nat, HeadersAt(f, p)
    PROVE  /\ p \in DOMAIN stream /\ stream[p].message = NextMessage /\ stream[p].is = "blank"
           /\ stream[p].n \in Nat /\ 0 < p /\ f < p
           /\ Are(stream, NextMessage, {"blank"}, p - 1, p)
<1>1. /\ IsStream(stream) /\ DOMAIN stream = 1..Len(stream) /\ Len(stream) \in Nat
      /\ NextMessage \in Nat
  BY Context
<1>2. /\ Are(stream, NextMessage, {"blank"}, p - 1, p) /\ StartsBehind(stream, NextMessage, f)
  BY DEF HeadersAt
<1>3. p \in DOMAIN stream /\ stream[p].message = NextMessage /\ stream[p].is = "blank"
  <2>1. p \in (p - 1 + 1)..p
    OBVIOUS
  <2> QED
    BY <1>2, <2>1 DEF Are
<1>4. 0 < p /\ stream[p].n \in Nat
  BY <1>1, <1>3, StreamTokens
<1>5. f < p
  <2>1. p <= f => stream[p].message < NextMessage
    BY <1>2, <1>3 DEF StartsBehind
  <2> QED
    BY <1>1, <1>3, <2>1
<1> QED
  BY <1>2, <1>3, <1>4, <1>5

\* What was parsed of a multipart body is not all of it.
LEMMA InMultipart ==
    ASSUME ReceiverTyped, NEW pos \in Nat, NEW f \in Nat, NEW p \in Nat, p <= pos,
           HeadersAt(f, p), MultipartAt(p, pos)
    PROVE  pos < p + stream[p].n
<1>1. IsStream(stream)
  BY Context
<1>2. /\ p \in DOMAIN stream /\ stream[p].message = NextMessage /\ stream[p].is = "blank"
      /\ stream[p].n \in Nat
  BY HeadersEnd
<1>3. stream[p].body = "multipart" /\ Are(stream, NextMessage, {"part", "mark"}, p, pos)
  BY DEF MultipartAt
<1> DEFINE end == p + stream[p].n
<1>4. PICK e \in (p + 1)..end :
         \/ Are(stream, NextMessage, {"junk"}, e - 1, end)
         \/ Are(stream, NextMessage, {"close"}, e - 1, e)
  BY <1>1, <1>2, <1>3, MultipartOf
<1>5. e \in Nat /\ e <= end /\ p < e /\ end \in Nat
  BY <1>2, <1>4
<1> HIDE DEF end
<1>6. stream[e].is \in {"junk", "close"}
  <2>1. e \in (e - 1 + 1)..e /\ e \in (e - 1 + 1)..end
    BY <1>5
  <2> QED
    BY <1>4, <2>1 DEF Are
<1>7. ASSUME ~(pos < e) PROVE FALSE
  <2>1. e \in (p + 1)..pos
    BY <1>5, <1>7
  <2>2. stream[e].is \in {"part", "mark"}
    BY <1>3, <2>1 DEF Are
  <2> QED
    BY <1>6, <2>2
<1>8. pos < e
  BY <1>7
<1>9. pos < end
  BY <1>5, <1>8
<1> QED
  BY <1>9 DEF end

\* The parser refuses only what is no piece of a message.
LEMMA ErrorMeansJunk ==
    ASSUME ReceiverTyped, NEW pos \in 0..taken, Rest = Positions(pos, taken),
           call.at = "parse", Now.event = "ERROR",
           \/ StartAt(pos) \/ HeadAt(pos)
           \/ \E f, p \in 0..pos :
                 /\ HeadersAt(f, p)
                 /\ LengthAt(p, pos) \/ ChunkedAt(p, pos) \/ MultipartAt(p, pos)
    PROVE  \E a \in Nat : Are(stream, NextMessage, {"junk"}, a, a + 1)
<1>1. taken \in Nat
  BY Context
<1>2. pos \in Nat /\ pos + 1 \in Nat
  BY <1>1
<1>3. CASE StartAt(pos)
  <2>1. \E f \in {pos, pos + 1} : Are(stream, NextMessage, {"junk"}, f, f + 1)
    BY <1>3, NowStart DEF Report
  <2> QED
    BY <1>2, <2>1
<1>4. CASE HeadAt(pos)
  <2>1. Are(stream, NextMessage, {"junk"}, pos, pos + 1)
    BY <1>4, NowHead DEF Report
  <2> QED
    BY <1>2, <2>1
<1>5. ASSUME NEW f \in 0..pos, NEW p \in 0..pos, HeadersAt(f, p),
             LengthAt(p, pos) \/ ChunkedAt(p, pos) \/ MultipartAt(p, pos)
      PROVE  \E a \in Nat : Are(stream, NextMessage, {"junk"}, a, a + 1)
  <2>0. f \in Nat /\ p \in Nat
    BY <1>2
  <2>1. Are(stream, NextMessage, {"blank"}, p - 1, p) /\ 0 < p
    BY <1>5, <2>0, HeadersEnd
  <2>2. ASSUME LengthAt(p, pos) PROVE FALSE
    <3>1. \/ Now = Report("MESSAGE_COMPLETE", 0, "start", 0)
          \/ Now = Report("NONE", 0, "body", parser.left)
          \/ Now = ParseData(parser.left, taken - pos, "body", "complete")
      BY <2>2, NowLength
    <3> QED
      BY <3>1 DEF Report, ParseData
  <2>3. CASE ChunkedAt(p, pos)
    <3>1. Are(stream, NextMessage, {"junk"}, pos, pos + 1)
      BY <2>1, <2>3, NowChunked DEF Report, ParseData
    <3> QED
      BY <1>2, <3>1
  <2>4. CASE MultipartAt(p, pos)
    <3>1. Are(stream, NextMessage, {"junk"}, pos, pos + 1)
      BY <2>1, <2>4, NowMultipart DEF Report
    <3> QED
      BY <1>2, <3>1
  <2> QED
    BY <1>5, <2>2, <2>3, <2>4
<1> QED
  BY <1>3, <1>4, <1>5

\* EVENT_ERROR: the parser has found what is no piece of a message.
LEMMA ParseErrorInv ==
    ASSUME ReceiverInv, ParseError
    PROVE  ReceiverInv'
<1>1. call.at = "parse" /\ Now.event = "ERROR" /\ GiveUp("error")
  BY DEF ParseError, On
<1>2. ReceiverTyped
  BY DEF ReceiverInv
<1>3. PICK pos \in 0..taken :
         /\ Rest = Positions(pos, taken)
         /\ \/ StartAt(pos) \/ HeadAt(pos)
            \/ \E f, p \in 0..pos :
                  /\ HeadersAt(f, p)
                  /\ LengthAt(p, pos) \/ ChunkedAt(p, pos) \/ MultipartAt(p, pos)
  BY <1>1, Parsing
<1>4. PICK a \in Nat : Are(stream, NextMessage, {"junk"}, a, a + 1)
  BY <1>1, <1>2, <1>3, ErrorMeansJunk
<1>5. Picked(stream, NextMessage, {"junk"}, 0, Len(stream)) # <<>>
  BY <1>2, <1>4, JunkThere
<1> QED
  BY <1>1, <1>5, GivesUp

\* When the parser waits for more there is nothing left but what might be a boundary.
LEMMA NothingLeft ==
    ASSUME ReceiverTyped, NEW pos \in 0..taken, Rest = Positions(pos, taken),
           call.at = "parse", Now.event = "NONE",
           \/ StartAt(pos) \/ HeadAt(pos)
           \/ \E f, p \in 0..pos :
                 /\ HeadersAt(f, p)
                 /\ LengthAt(p, pos) \/ ChunkedAt(p, pos) \/ MultipartAt(p, pos)
    PROVE  \/ /\ pos = taken /\ Now = Report("NONE", 0, parser.state, parser.left)
              /\ call.source = "buffer"
           \/ /\ pos + 1 = taken /\ Now = Report("NONE", 1, "start", parser.left)
              /\ StartAt(pos) /\ call.headerLength = 0
              /\ IsEmptyLine(stream, Len(got), pos + 1)
              /\ StartsBehind(stream, NextMessage, pos + 1)
           \/ /\ pos + 1 = taken /\ Now = Report("NONE", 0, "multipart", 0)
              /\ \E f, p \in 0..pos : HeadersAt(f, p) /\ MultipartAt(p, pos)
              /\ call.source = "buffer"
<1>1. taken \in Nat
  BY Context
<1>2. pos \in Nat /\ pos + 1 \in Nat
  BY <1>1
<1>3. CASE StartAt(pos)
  <2>1. parser.state = "start" /\ call.source = "buffer"
    BY <1>3 DEF StartAt, ReadsBuffer
  <2>2. \/ pos = taken /\ Now = Report("NONE", 0, "start", parser.left)
        \/ /\ pos + 1 = taken /\ Now = Report("NONE", 1, "start", parser.left)
           /\ call.headerLength = 0
           /\ IsEmptyLine(stream, Len(got), pos + 1)
           /\ StartsBehind(stream, NextMessage, pos + 1)
        \/ \E f \in {pos, pos + 1} : \/ Now = Report("HEADER", f + 1 - pos, "head", 0)
                                     \/ Now = Report("ERROR", f - pos, "error", 0)
    BY <1>3, NowStart
  <2>3. ~ \E f \in {pos, pos + 1} : \/ Now = Report("HEADER", f + 1 - pos, "head", 0)
                                    \/ Now = Report("ERROR", f - pos, "error", 0)
    BY DEF Report
  <2> QED
    BY <1>3, <2>1, <2>2, <2>3
<1>4. CASE HeadAt(pos)
  <2>1. parser.state = "head" /\ call.source = "buffer"
    BY <1>4 DEF HeadAt, ReadsBuffer
  <2>2. \/ pos = taken /\ Now = Report("NONE", 0, "head", parser.left)
        \/ Now = Report("HEADER", 1, "head", 0)
        \/ Now = Report("HEADERS_COMPLETE", 1, BodyState(stream[pos + 1]), stream[pos + 1].n)
        \/ Now = Report("ERROR", 0, "error", 0)
    BY <1>4, NowHead
  <2>3. /\ Now # Report("HEADER", 1, "head", 0) /\ Now # Report("ERROR", 0, "error", 0)
        /\ Now # Report("HEADERS_COMPLETE", 1, BodyState(stream[pos + 1]), stream[pos + 1].n)
    BY DEF Report
  <2> QED
    BY <2>1, <2>2, <2>3
<1>5. ASSUME NEW f \in 0..pos, NEW p \in 0..pos, HeadersAt(f, p),
             LengthAt(p, pos) \/ ChunkedAt(p, pos) \/ MultipartAt(p, pos)
      PROVE  \/ /\ pos = taken /\ Now = Report("NONE", 0, parser.state, parser.left)
                /\ call.source = "buffer"
             \/ /\ pos + 1 = taken /\ Now = Report("NONE", 0, "multipart", 0)
                /\ MultipartAt(p, pos) /\ call.source = "buffer"
  <2>0. f \in Nat /\ p \in Nat /\ p <= pos
    BY <1>2
  <2>1. Are(stream, NextMessage, {"blank"}, p - 1, p) /\ 0 < p /\ stream[p].n \in Nat
    BY <1>5, <2>0, HeadersEnd
  <2>2. CASE LengthAt(p, pos)
    <3>1. \/ Now = Report("MESSAGE_COMPLETE", 0, "start", 0)
          \/ /\ parser.state = "body" /\ pos = taken
             /\ Now = Report("NONE", 0, "body", parser.left)
          \/ Now = ParseData(parser.left, taken - pos, "body", "complete")
      BY <2>2, NowLength
    <3>2. call.source = "buffer"
      BY <2>2 DEF LengthAt
    <3>3. /\ Now # Report("MESSAGE_COMPLETE", 0, "start", 0)
          /\ Now # ParseData(parser.left, taken - pos, "body", "complete")
      BY DEF Report, ParseData
    <3> QED
      BY <3>1, <3>2, <3>3
  <2>3. CASE ChunkedAt(p, pos)
    <3>1. \/ pos = taken /\ Now = Report("NONE", 0, parser.state, parser.left)
          \/ Now.event \in {"CHUNK_HEADER", "BODY", "CHUNK_COMPLETE", "ERROR"}
      BY <2>1, <2>3, NowChunked DEF Report, ParseData
    <3>2. call.source = "buffer"
      BY <2>3 DEF ChunkedAt
    <3> QED
      BY <3>1, <3>2
  <2>4. CASE MultipartAt(p, pos)
    <3>1. \/ pos = taken /\ Now = Report("NONE", 0, "multipart", parser.left)
          \/ /\ pos + 1 = taken /\ pos + 1 < p + stream[p].n
             /\ Now = Report("NONE", 0, "multipart", 0)
          \/ Now.event \in {"MULTIPART", "MESSAGE_COMPLETE", "ERROR"}
      BY <2>1, <2>4, NowMultipart DEF Report
    <3>2. pos < p + stream[p].n
      BY <1>2, <1>5, <2>0, <2>4, InMultipart
    <3>3. call.source = "buffer"
      <4>1. taken < p + stream[p].n
        BY <1>1, <2>0, <2>1, <3>1, <3>2
      <4>2. call.source = "buffer" \/ taken >= p + stream[p].n
        BY <2>4 DEF MultipartAt, ReadsBuffer
      <4> QED
        BY <1>1, <2>0, <2>1, <4>1, <4>2
    <3>4. parser.state = "multipart"
      BY <2>4 DEF MultipartAt
    <3> QED
      BY <2>4, <3>1, <3>3, <3>4
  <2> QED
    BY <1>5, <2>2, <2>3, <2>4
<1> QED
  BY <1>3, <1>4, <1>5

\* The call waits for more.
Waits(c, h) == [c EXCEPT !.at = "receive", !.offset = 0, !.headerLength = h]

IsWaiting(d, c, h) ==
    /\ d \in CallsOfReceiver
    /\ d.at = "receive" /\ d.offset = 0 /\ d.source = c.source /\ d.kept = c.kept
    /\ d.headersCompleted = c.headersCompleted /\ d.isChunked = c.isChunked
    /\ d.isMultipart = c.isMultipart /\ d.contentLength = c.contentLength
    /\ d.chunkLength = c.chunkLength /\ d.headerLength = h
    /\ d.head = c.head /\ d.body = c.body

\* What does not change of a call that waits for more.
LEMMA WaitsProperties ==
    ASSUME NEW c \in CallsOfReceiver, NEW h \in Nat
    PROVE  IsWaiting(Waits(c, h), c, h)
<1>1. Waits(c, h) \in CallsOfReceiver
  BY DEF CallsOfReceiver, Waits, Places
<1> QED
  BY <1>1 DEF CallsOfReceiver, Waits, IsWaiting

\* There is a message, so the buffer has room for the header of a frame.
LEMMA RoomForHeaders ==
    ASSUME ReceiverTyped, HeadersFit, NEW i \in DOMAIN stream
    PROVE  BufferSize >= 2
<1>1. /\ stream \in Streams /\ LoadLimit + 2 + stream[i].more <= BufferSize
  BY DEF HeadersFit, ReceiverTyped, HEADER_MIN_SIZE
<1>2. stream[i].more \in Nat /\ LoadLimit \in Nat /\ BufferSize \in Nat
  BY Context, StreamTokens
<1> QED
  BY <1>1, <1>2

\* A call that parses waits for a message that there is.
LEMMA SomethingThere ==
    ASSUME ReceiverTyped, NEW pos \in Nat,
           \/ StartAt(pos) \/ HeadAt(pos)
           \/ \E f, p \in 0..pos : HeadersAt(f, p)
    PROVE  \E i \in DOMAIN stream : TRUE
<1>1. CASE StartAt(pos)
  BY <1>1 DEF StartAt, Comes
<1>2. CASE HeadAt(pos)
  <2>1. PICK f \in 0..(pos - 1) : Are(stream, NextMessage, {"head"}, f, pos)
    BY <1>2 DEF HeadAt
  <2>2. f \in Nat /\ f < pos
    OBVIOUS
  <2> QED
    BY <2>1, <2>2, AreLast
<1>3. ASSUME NEW f \in 0..pos, NEW p \in 0..pos, HeadersAt(f, p)
      PROVE  p \in DOMAIN stream
  <2>1. f \in Nat /\ p \in Nat
    OBVIOUS
  <2> QED
    BY <1>3, <2>1, HeadersEnd
<1> QED
  BY <1>1, <1>2, <1>3

\* EVENT_NONE leaves what was not parsed in the buffer.  There is room for more.
LEMMA NeedMoreInv ==
    ASSUME ReceiverInv, NeedMore
    PROVE  ReceiverInv'
<1> DEFINE rest == After(buffer, call.offset + Now.parsed)
<1>1. /\ call.at = "parse" /\ Now.event = "NONE" /\ ~(HeaderLength > MaxHeaderLength)
      /\ IF call.source = "body" \/ Len(rest) = BufferSize
         THEN GiveUp("error")
         ELSE /\ buffer' = rest
              /\ call' = [call EXCEPT !.at = "receive", !.offset = 0,
                                      !.headerLength = HeaderLength]
              /\ parser' = Now.next
              /\ stream' = stream /\ preserve' = preserve /\ taken' = taken
              /\ parsedOffset' = parsedOffset /\ got' = got /\ given_up' = given_up
  BY DEF NeedMore, On, HeaderIsTooLong
<1>2. ReceiverTyped /\ given_up = "no"
  BY <1>1, Calling
<1>3. /\ taken \in Nat /\ buffer \in Seq(Nat) /\ Len(buffer) \in Nat /\ call \in CallsOfReceiver
      /\ parser.state \in ParserStates /\ parser.left \in Nat /\ BufferSize \in Nat
      /\ Len(got) \in Nat /\ NextMessage = Len(got) + 1 /\ MaxHeaderLength \in Nat
  BY <1>2, Context
<1>4. PICK pos \in 0..taken :
         /\ Rest = Positions(pos, taken)
         /\ \/ StartAt(pos) \/ HeadAt(pos)
            \/ \E f, p \in 0..pos :
                  /\ HeadersAt(f, p)
                  /\ LengthAt(p, pos) \/ ChunkedAt(p, pos) \/ MultipartAt(p, pos)
  BY <1>1, Parsing
<1>5. \/ /\ pos = taken /\ Now = Report("NONE", 0, parser.state, parser.left)
         /\ call.source = "buffer"
      \/ /\ pos + 1 = taken /\ Now = Report("NONE", 1, "start", parser.left)
         /\ StartAt(pos) /\ call.headerLength = 0
         /\ IsEmptyLine(stream, Len(got), pos + 1)
         /\ StartsBehind(stream, NextMessage, pos + 1)
      \/ /\ pos + 1 = taken /\ Now = Report("NONE", 0, "multipart", 0)
         /\ \E f, p \in 0..pos : HeadersAt(f, p) /\ MultipartAt(p, pos)
         /\ call.source = "buffer"
  BY <1>1, <1>2, <1>4, NothingLeft
<1>6. call.source = "buffer"
  BY <1>5 DEF StartAt, ReadsBuffer
<1>7. /\ Now.parsed \in {0, 1} /\ pos + Now.parsed <= taken /\ taken <= pos + Now.parsed + 1
      /\ Now.next.state \in ParserStates /\ Now.next.left \in Nat
      /\ Now.next = [state |-> Now.next.state, left |-> Now.next.left]
  <2>1. "start" \in ParserStates /\ "multipart" \in ParserStates
    BY DEF ParserStates
  <2>2. /\ Now.parsed \in {0, 1}
        /\ (pos = taken /\ Now.parsed = 0) \/ pos + 1 = taken
        /\ Now.next.state \in ParserStates /\ Now.next.left \in Nat
        /\ Now.next = [state |-> Now.next.state, left |-> Now.next.left]
    BY <1>3, <1>5, <2>1 DEF Report
  <2>3. pos \in Nat
    BY <1>3
  <2> QED
    BY <1>3, <2>2, <2>3
<1>8. /\ call.offset \in Nat /\ call.headerLength \in Nat /\ HeaderLength \in Nat
      /\ HeaderLength = call.headerLength + (IF call.headersCompleted THEN 0 ELSE Now.parsed)
  BY <1>3, <1>7, CallFields DEF HeaderLength
<1>9. PICK q \in 0..taken : q = pos + Now.parsed /\ taken <= q + 1
  BY <1>3, <1>7
<1>14. q \in Nat /\ q <= taken
  BY <1>3
<1>10. rest = Positions(q, taken) /\ rest \in Seq(Nat)
  <2> DEFINE n == Now.parsed
  <2>1. n \in Nat /\ pos \in Nat /\ pos <= taken /\ n \in 0..(taken - pos)
    BY <1>3, <1>7
  <2>2. After(buffer, call.offset) = Positions(pos, taken)
    BY <1>4, <1>6 DEF Rest, Source
  <2> DEFINE o == call.offset
  <2>6. o \in Nat
    BY <1>8
  <2> HIDE DEF n, o
  <2>3. After(buffer, o + n) = After(After(buffer, o), n)
    BY <1>3, <2>1, <2>6, AfterAfter
  <2>4. After(Positions(pos, taken), n) = Positions(pos + n, taken)
    BY <1>3, <2>1, PositionsAfter
  <2>5. Positions(pos + n, taken) \in Seq(Nat)
    <3>1. pos + n \in Nat
      BY <2>1
    <3> QED
      BY <1>3, <3>1, PositionsProperties
  <2> QED
    BY <1>9, <2>2, <2>3, <2>4, <2>5 DEF n, o
<1> HIDE DEF rest
<1>11. Len(rest) \in {0, 1}
  <2>1. Len(rest) = taken - q
    BY <1>3, <1>10, <1>14, PositionsProperties
  <2> QED
    BY <1>3, <1>9, <1>14, <2>1
<1>12. CASE Len(rest) = BufferSize
  <2>1. ~HeadersFit
    <3>1. pos \in Nat
      BY <1>3
    <3>2. \E i \in DOMAIN stream : TRUE
      BY <1>2, <1>4, <3>1, SomethingThere
    <3> QED
      BY <1>2, <1>3, <1>11, <1>12, <3>2, RoomForHeaders
  <2>2. GiveUp("error")
    BY <1>1, <1>12
  <2> QED
    BY <2>1, <2>2, GivesUp
<1>13. CASE Len(rest) # BufferSize
  <2>1. /\ buffer' = rest /\ parser' = Now.next
        /\ stream' = stream /\ preserve' = preserve /\ taken' = taken
        /\ parsedOffset' = parsedOffset /\ got' = got /\ given_up' = given_up
        /\ call' = Waits(call, HeaderLength)
    BY <1>1, <1>6, <1>13 DEF Waits
  <2>2. /\ call' \in CallsOfReceiver
        /\ call'.at = "receive" /\ call'.offset = 0 /\ call'.source = "buffer"
        /\ call'.headersCompleted = call.headersCompleted /\ call'.isChunked = call.isChunked
        /\ call'.isMultipart = call.isMultipart /\ call'.contentLength = call.contentLength
        /\ call'.chunkLength = call.chunkLength /\ call'.headerLength = HeaderLength
        /\ call'.head = call.head /\ call'.body = call.body
    <3>1. IsWaiting(Waits(call, HeaderLength), call, HeaderLength)
      BY <1>3, <1>8, WaitsProperties
    <3> QED
      BY <1>6, <2>1, <3>1 DEF IsWaiting
  <2>3. Unread' = Positions(q, taken')
    <3>1. Unread' = After(rest, 0)
      BY <2>1, <2>2 DEF Unread, Source
    <3> QED
      BY <1>10, <2>1, <3>1, AfterNone
  <2>4. NextMessage' = NextMessage /\ ReadsBuffer'
    BY <2>1, <2>2 DEF NextMessage, ReadsBuffer
  <2>5. ASSUME pos = taken, Now = Report("NONE", 0, parser.state, parser.left) PROVE IsAt(q)'
    <3>1. /\ parser'.state = parser.state /\ parser'.left = parser.left /\ q = pos
          /\ call'.headerLength = call.headerLength
      <4>1. Now.parsed = 0 /\ Now.next.state = parser.state /\ Now.next.left = parser.left
        BY <2>5 DEF Report
      <4>2. q = pos /\ HeaderLength = call.headerLength
        BY <1>3, <1>8, <1>9, <4>1
      <4> QED
        BY <2>1, <2>2, <4>1, <4>2
    <3>2. CASE StartAt(pos)
      <4>1. ~(call.offset < Len(buffer))
        <5>1. After(buffer, call.offset) = <<>>
          <6>1. Positions(pos, taken) = <<>>
            BY <1>3, <2>5, PositionsProperties
          <6> QED
            BY <1>4, <1>6, <6>1 DEF Rest, Source
        <5>2. Len(After(buffer, call.offset))
                 = IF call.offset <= Len(buffer) THEN Len(buffer) - call.offset ELSE 0
          BY <1>3, <1>8, AfterProperties
        <5>3. Len(After(buffer, call.offset)) = 0
          BY <5>1
        <5> QED
          BY <1>3, <1>8, <5>2, <5>3
      <4>2. Comes({"head", "junk"})'
        BY <2>1, <2>4, <3>2 DEF StartAt, Comes, Kind
      <4>3. parsedOffset = 0 \/ IsEmptyLine(stream, Len(got), pos)
        BY <3>2, <4>1 DEF StartAt
      <4>4. StartAt(pos)'
        BY <2>1, <2>2, <2>4, <3>1, <3>2, <4>2, <4>3 DEF StartAt
      <4> QED
        BY <3>1, <4>4 DEF IsAt
    <3>3. CASE HeadAt(pos)
      <4>1. HeadAt(pos)'
        BY <2>1, <2>2, <2>4, <3>1, <3>3 DEF HeadAt
      <4> QED
        BY <3>1, <4>1 DEF IsAt
    <3>4. ASSUME NEW f \in 0..pos, NEW p \in 0..pos, HeadersAt(f, p),
                 LengthAt(p, pos) \/ ChunkedAt(p, pos) \/ MultipartAt(p, pos)
          PROVE  IsAt(pos)'
      <4>1. HeadersAt(f, p)'
        <5>1. call'.headerLength = call.headerLength /\ call'.contentLength <= MaxContentLength
          BY <2>2, <3>1, <3>4 DEF HeadersAt
        <5> QED
          BY <2>1, <2>2, <3>4, <5>1, HeadersStay
      <4>2. CASE LengthAt(p, pos)
        <5>1. parser.state = "body"
          <6>1. \/ Now = Report("MESSAGE_COMPLETE", 0, "start", 0)
                \/ parser.state = "body"
            BY <1>1, <1>2, <1>4, <4>2, NowLength
          <6> QED
            BY <1>1, <6>1 DEF Report
        <5>2. LengthAt(p, pos)'
          BY <1>1, <2>1, <2>2, <3>1, <4>2, <5>1 DEF LengthAt
        <5> QED
          BY <4>1, <5>2 DEF IsAt
      <4>3. CASE ChunkedAt(p, pos)
        <5>1. ChunkedAt(p, pos)'
          BY <2>1, <2>2, <2>4, <3>1, <4>3 DEF ChunkedAt
        <5> QED
          BY <4>1, <5>1 DEF IsAt
      <4>4. CASE MultipartAt(p, pos)
        <5>1. ~preserve
          BY <1>6, <4>4 DEF MultipartAt
        <5>2. call.body = Picked(stream, NextMessage, {"part"}, p, pos)
          BY <1>6, <4>4 DEF MultipartAt
        <5>3. MultipartAt(p, pos)'
          BY <2>1, <2>2, <2>4, <3>1, <4>4, <5>1, <5>2 DEF MultipartAt
        <5> QED
          BY <4>1, <5>3 DEF IsAt
      <4> QED
        BY <3>4, <4>2, <4>3, <4>4
    <3> QED
      BY <1>4, <3>1, <3>2, <3>3, <3>4
  <2>6. ASSUME Now = Report("NONE", 1, "start", parser.left),
               StartAt(pos), call.headerLength = 0,
               IsEmptyLine(stream, Len(got), pos + 1),
               StartsBehind(stream, NextMessage, pos + 1)
        PROVE  IsAt(q)'
    <3>1. Now.parsed = 1 /\ Now.next.state = "start"
      BY <2>6 DEF Report
    <3>2. q = pos + 1
      BY <1>9, <3>1
    <3>3. call'.headerLength = 1
      <4>1. ~call.headersCompleted
        BY <2>6 DEF StartAt
      <4> QED
        BY <1>8, <2>2, <2>6, <3>1, <4>1
    <3>4. Comes({"head", "junk"})'
      BY <2>1, <2>4, <2>6 DEF StartAt, Comes, Kind
    <3>5. ~call'.headersCompleted /\ call'.head = <<>> /\ call'.body = <<>>
      BY <2>2, <2>6 DEF StartAt
    <3>6. IsEmptyLine(stream, Len(got), q) /\ StartsBehind(stream, NextMessage, q)
      BY <2>6, <3>2
    <3>7. StartAt(q)'
      BY <2>1, <2>4, <3>1, <3>3, <3>4, <3>5, <3>6 DEF StartAt
    <3> QED
      BY <3>7 DEF IsAt
  <2>7. ASSUME Now = Report("NONE", 0, "multipart", 0),
               \E f, p \in 0..pos : HeadersAt(f, p) /\ MultipartAt(p, pos)
        PROVE  IsAt(q)'
    <3>1. Now.parsed = 0 /\ Now.next.state = "multipart"
      BY <2>7 DEF Report
    <3>2. q = pos /\ call'.headerLength = call.headerLength
      BY <1>3, <1>8, <1>9, <2>2, <3>1
    <3>3. PICK f, p \in 0..pos : HeadersAt(f, p) /\ MultipartAt(p, pos)
      BY <2>7
    <3>4. HeadersAt(f, p)'
      <4>1. call'.contentLength <= MaxContentLength
        BY <2>2, <3>3 DEF HeadersAt
      <4> QED
        BY <2>1, <2>2, <3>2, <3>3, <4>1, HeadersStay
    <3>5. ~preserve /\ call.body = Picked(stream, NextMessage, {"part"}, p, pos)
      BY <1>6, <3>3 DEF MultipartAt
    <3>6. MultipartAt(p, pos)'
      BY <2>1, <2>2, <2>4, <3>1, <3>3, <3>5 DEF MultipartAt
    <3> QED
      BY <3>2, <3>4, <3>6 DEF IsAt
  <2>8. IsAt(q)'
    BY <1>5, <2>5, <2>6, <2>7
  <2>9. Follows'
    <3>1. call'.offset <= Len(buffer')
      BY <1>11, <2>1, <2>2
    <3> QED
      BY <1>9, <2>1, <2>3, <2>8, <3>1 DEF Follows
  <2>10. ReceiverTyped'
    <3>1. parser' \in [state : ParserStates, left : Nat]
      BY <1>7, <2>1
    <3>2. given_up' = "no"
      BY <1>2, <2>1
    <3> QED
      BY <1>2, <1>10, <2>1, <2>2, <3>1, <3>2 DEF ReceiverTyped
  <2>11. SentInTime'
    BY <2>1, StillInTime
  <2> QED
    BY <1>1, <2>1, <2>9, <2>10, <2>11, GoesOn
<1> QED
  BY <1>12, <1>13

\* One piece of the headers was parsed, and perhaps an empty line before.
LEMMA HeaderPiecesAre ==
    ASSUME ReceiverTyped, NEW pos \in 0..taken, Rest = Positions(pos, taken),
           NEW f \in {pos, pos + 1}, f + 1 <= taken, Now.parsed = f + 1 - pos,
           stream[f + 1].is # "epilogue",
           f = pos + 1 => IsEmptyLine(stream, Len(got), f)
    PROVE  HeaderPieces = Positions(f, f + 1)
<1> DEFINE T == {i \in DOMAIN stream : Kind(i) # "epilogue"}
           g == f + 1
<1>1. taken \in Nat /\ taken <= Len(stream) /\ Len(stream) \in Nat /\ DOMAIN stream = 1..Len(stream)
  BY Context
<1>2. pos \in Nat /\ f \in Nat /\ g \in Nat /\ pos <= f /\ f <= g /\ g <= taken
  BY <1>1
<1>3. Taken = Positions(pos, g)
  <2>1. Now.parsed \in Nat /\ pos + Now.parsed <= taken /\ pos + Now.parsed = g
    BY <1>1, <1>2
  <2> QED
    BY <1>1, <1>2, <2>1, TakenPositions
<1>4. \A i \in (f + 1)..g : i \in T
  <2>1. f + 1 \in DOMAIN stream /\ (f + 1)..g = {f + 1}
    BY <1>1, <1>2
  <2> QED
    BY <2>1 DEF Kind
<1>5. \A i \in (pos + 1)..f : i \notin T
  <2>1. CASE f = pos
    <3>1. (pos + 1)..f = {}
      BY <1>2, <2>1
    <3> QED
      BY <3>1
  <2>2. CASE f = pos + 1
    <3>1. (pos + 1)..f = {f} /\ stream[f].is = "epilogue"
      BY <1>2, <2>2 DEF IsEmptyLine
    <3> QED
      BY <3>1 DEF Kind
  <2> QED
    BY <2>1, <2>2
<1>6. HeaderPieces = Keeping(Positions(pos, g), T)
  BY <1>3 DEF HeaderPieces
<1> HIDE DEF T, g
<1>7. Keeping(Positions(f, g), T) = Positions(f, g)
  BY <1>2, <1>4, KeptAll
<1>8. Keeping(Positions(pos, f), T) = <<>>
  BY <1>2, <1>5, KeptNone
<1>9. Keeping(Positions(pos, f), T) \o Keeping(Positions(f, g), T) = Keeping(Positions(pos, g), T)
  BY <1>2, KeptJoin
<1>10. Positions(f, g) \in Seq(Nat)
  BY <1>2, PositionsProperties
<1>11. <<>> \o Positions(f, g) = Positions(f, g)
  BY <1>10, ConcatEmptySeq
<1>12. HeaderPieces = Positions(f, g)
  BY <1>6, <1>7, <1>8, <1>9, <1>11
<1> QED
  BY <1>12 DEF g

\* The headers with one more.
LEMMA HeadJoin ==
    ASSUME NEW f \in Nat, NEW pos \in Nat, f <= pos
    PROVE  Positions(f, pos) \o Positions(pos, pos + 1) = Positions(f, pos + 1)
<1> DEFINE b == pos + 1
<1>1. b \in Nat /\ pos <= b
  OBVIOUS
<1> HIDE DEF b
<1>2. Positions(f, pos) \o Positions(pos, b) = Positions(f, b)
  BY <1>1, PositionsJoin
<1> QED
  BY <1>2 DEF b

\* The call when it has read more headers.
WithHead(c, head) == [c EXCEPT !.head = head]

HasHead(d, c, head) ==
    /\ d \in CallsOfReceiver
    /\ d.at = c.at /\ d.offset = c.offset /\ d.source = c.source /\ d.kept = c.kept
    /\ d.headersCompleted = c.headersCompleted /\ d.isChunked = c.isChunked
    /\ d.isMultipart = c.isMultipart /\ d.contentLength = c.contentLength
    /\ d.chunkLength = c.chunkLength /\ d.headerLength = c.headerLength
    /\ d.head = head /\ d.body = c.body

\* What does not change of a call that has read headers.
LEMMA WithHeadProperties ==
    ASSUME NEW c \in CallsOfReceiver, NEW head \in Seq(Nat)
    PROVE  HasHead(WithHead(c, head), c, head)
<1>1. WithHead(c, head) \in CallsOfReceiver
  BY DEF CallsOfReceiver, WithHead
<1> QED
  BY <1>1 DEF CallsOfReceiver, WithHead, HasHead

\* What the parser reports when it is past the headers.
LEMMA BodyEvents ==
    ASSUME ReceiverTyped, NEW pos \in 0..taken, Rest = Positions(pos, taken), call.at = "parse",
           NEW f \in 0..pos, NEW p \in 0..pos, HeadersAt(f, p)
    PROVE  /\ LengthAt(p, pos) => Now.event \in {"NONE", "BODY", "MESSAGE_COMPLETE"}
           /\ ChunkedAt(p, pos) =>
                 Now.event \in {"NONE", "CHUNK_HEADER", "BODY", "CHUNK_COMPLETE", "ERROR"}
           /\ MultipartAt(p, pos) =>
                 Now.event \in {"NONE", "MULTIPART", "MESSAGE_COMPLETE", "ERROR"}
<1>1. taken \in Nat
  BY Context
<1>2. f \in Nat /\ p \in Nat
  BY <1>1
<1>3. Are(stream, NextMessage, {"blank"}, p - 1, p) /\ 0 < p
  BY <1>2, HeadersEnd
<1>4. ASSUME LengthAt(p, pos) PROVE Now.event \in {"NONE", "BODY", "MESSAGE_COMPLETE"}
  <2>1. \/ Now = Report("MESSAGE_COMPLETE", 0, "start", 0)
        \/ Now = Report("NONE", 0, "body", parser.left)
        \/ Now = ParseData(parser.left, taken - pos, "body", "complete")
    BY <1>4, NowLength
  <2> QED
    BY <2>1 DEF Report, ParseData
<1>5. ASSUME ChunkedAt(p, pos)
      PROVE  Now.event \in {"NONE", "CHUNK_HEADER", "BODY", "CHUNK_COMPLETE", "ERROR"}
  BY <1>3, <1>5, NowChunked DEF Report, ParseData
<1>6. ASSUME MultipartAt(p, pos)
      PROVE  Now.event \in {"NONE", "MULTIPART", "MESSAGE_COMPLETE", "ERROR"}
  BY <1>3, <1>6, NowMultipart DEF Report
<1> QED
  BY <1>4, <1>5, <1>6

\* EVENT_HEADER_FIELD and the like: a piece of the headers.
LEMMA HeaderInv ==
    ASSUME ReceiverInv, Header
    PROVE  ReceiverInv'
<1> DEFINE next == WithHead(call, call.head \o HeaderPieces)
<1>1. /\ call.at = "parse" /\ Now.event = "HEADER" /\ ~(HeaderLength > MaxHeaderLength)
      /\ GoOn(next)
  BY DEF Header, On, HeaderIsTooLong, WithHead
<1>2. ReceiverTyped
  BY DEF ReceiverInv
<1>3. /\ taken \in Nat /\ call \in CallsOfReceiver /\ Len(got) \in Nat
      /\ NextMessage = Len(got) + 1 /\ MaxHeaderLength \in Nat
      /\ IsStream(stream)
  BY <1>2, Context
<1>4. PICK pos \in 0..taken :
         /\ Rest = Positions(pos, taken)
         /\ \/ StartAt(pos) \/ HeadAt(pos)
            \/ \E f, p \in 0..pos :
                  /\ HeadersAt(f, p)
                  /\ LengthAt(p, pos) \/ ChunkedAt(p, pos) \/ MultipartAt(p, pos)
  BY <1>1, Parsing
<1>5. pos \in Nat /\ pos <= taken
  BY <1>3
<1>6. /\ call.headerLength \in Nat /\ call.head \in Seq(Nat)
      /\ HeaderLength = call.headerLength + (IF call.headersCompleted THEN 0 ELSE Now.parsed)
  BY <1>3, CallFields DEF HeaderLength
<1> DEFINE Grown(f, q) ==
              /\ f + 1 <= taken /\ q = f + 1
              /\ Now = Report("HEADER", f + 1 - pos, "head", 0)
              /\ Are(stream, NextMessage, {"head"}, f, f + 1)
              /\ f = pos + 1 => IsEmptyLine(stream, Len(got), f)
<1>7. ASSUME NEW f \in {pos, pos + 1}, NEW q \in Nat, Grown(f, q),
             NEW a \in 0..f, StartsBehind(stream, NextMessage, a),
             Are(stream, NextMessage, {"head"}, a, q),
             call.head \o Positions(f, q) = Positions(a, q),
             \/ HeaderLength = q - a
             \/ HeaderLength = q - a + 1 /\ IsEmptyLine(stream, Len(got), a),
             ReadsBuffer, ~call.headersCompleted, call.body = <<>>
      PROVE  ReceiverInv'
  <2>1. f \in Nat /\ pos <= f /\ a \in Nat /\ a <= q /\ a \in 0..(q - 1)
    BY <1>5, <1>7
  <2>2. /\ Now.parsed = f + 1 - pos /\ Now.next.state = "head" /\ Now.next.left = 0
        /\ Now.next = [state |-> Now.next.state, left |-> Now.next.left]
    BY <1>7 DEF Report
  <2>3. HeaderPieces = Positions(f, q)
    <3>1. stream[f + 1].is # "epilogue"
      BY <1>7, <2>1, AreOne
    <3>2. f + 1 <= taken /\ (f = pos + 1 => IsEmptyLine(stream, Len(got), f)) /\ q = f + 1
      BY <1>7
    <3> QED
      BY <1>2, <1>4, <2>2, <3>1, <3>2, HeaderPiecesAre
  <2>4. call.head \o HeaderPieces = Positions(a, q) /\ Positions(a, q) \in Seq(Nat)
    BY <1>7, <2>1, <2>3, PositionsProperties
  <2> DEFINE head == call.head \o HeaderPieces
  <2> HIDE DEF head
  <2>5. HasHead(WithHead(call, head), call, head)
    BY <1>3, <2>4, WithHeadProperties DEF head
  <2>6. /\ next \in CallsOfReceiver /\ next.at = call.at /\ next.source = call.source
        /\ next.headersCompleted = call.headersCompleted
        /\ next.head = Positions(a, q) /\ next.body = call.body
    BY <2>4, <2>5 DEF HasHead, head
  <2> HIDE DEF next
  <2>7. Now.parsed \in Nat /\ q = pos + Now.parsed /\ q <= taken
    BY <1>5, <1>7, <2>1, <2>2
  <2>8. /\ call'.at = "parse" /\ call'.source = call.source
        /\ call'.headersCompleted = call.headersCompleted
        /\ call'.headerLength = HeaderLength
        /\ call'.head = Positions(a, q) /\ call'.body = call.body
    <3>1. IsAdvanced(call', next, call.offset + Now.parsed, HeaderLength)
      BY <1>1, <1>2, <2>6, <2>7, GoOnMoves
    <3> QED
      BY <1>1, <2>6, <3>1 DEF IsAdvanced
  <2>9. stream' = stream /\ got' = got /\ parser' = Now.next
    BY <1>1 DEF GoOn
  <2>10. HeadAt(q)'
    <3>1. NextMessage' = NextMessage /\ ReadsBuffer'
      BY <1>7, <2>8, <2>9 DEF NextMessage, ReadsBuffer
    <3>2. parser'.state = "head" /\ ~call'.headersCompleted /\ call'.body = <<>>
      BY <1>7, <2>2, <2>8, <2>9
    <3>3. \E b \in 0..(q - 1) :
             /\ StartsBehind(stream, NextMessage, b)
             /\ Are(stream, NextMessage, {"head"}, b, q)
             /\ call'.head = Positions(b, q)
             /\ \/ call'.headerLength = q - b
                \/ call'.headerLength = q - b + 1 /\ IsEmptyLine(stream, Len(got), b)
      BY <1>7, <2>1, <2>8
    <3> QED
      BY <2>9, <3>1, <3>2, <3>3 DEF HeadAt
  <2>11. Now.next.state \in ParserStates /\ Now.next.left \in Nat
    BY <2>2 DEF ParserStates
  <2> QED
    BY <1>1, <1>4, <2>2, <2>6, <2>7, <2>10, <2>11, GoesOnBehind DEF IsAt
<1>8. CASE StartAt(pos)
  <2>1. /\ ReadsBuffer /\ ~call.headersCompleted /\ call.body = <<>> /\ call.head = <<>>
        /\ \/ call.headerLength = 0
           \/ call.headerLength = 1 /\ IsEmptyLine(stream, Len(got), pos)
    BY <1>8 DEF StartAt
  <2>2. PICK f \in {pos, pos + 1} :
           /\ f + 1 <= taken /\ StartsBehind(stream, NextMessage, f)
           /\ f = pos + 1 => call.headerLength = 0 /\ IsEmptyLine(stream, Len(got), f)
           /\ Are(stream, NextMessage, {"head"}, f, f + 1)
           /\ Now = Report("HEADER", f + 1 - pos, "head", 0)
    <3>1. \/ Now = Report("NONE", 0, "start", parser.left)
          \/ Now = Report("NONE", 1, "start", parser.left)
          \/ \E f \in {pos, pos + 1} :
                 /\ f + 1 <= taken /\ StartsBehind(stream, NextMessage, f)
                 /\ f = pos + 1 => call.headerLength = 0 /\ IsEmptyLine(stream, Len(got), f)
                 /\ \/ /\ Are(stream, NextMessage, {"head"}, f, f + 1)
                       /\ Now = Report("HEADER", f + 1 - pos, "head", 0)
                    \/ Now = Report("ERROR", f - pos, "error", 0)
      BY <1>2, <1>4, <1>8, NowStart
    <3>2. /\ Now # Report("NONE", 0, "start", parser.left)
          /\ Now # Report("NONE", 1, "start", parser.left)
          /\ \A n : Now # Report("ERROR", n, "error", 0)
      BY <1>1 DEF Report
    <3> QED
      BY <3>1, <3>2
  <2>3. f \in Nat /\ f + 1 \in Nat /\ f \in 0..f
    BY <1>5
  <2>4. Grown(f, f + 1)
    BY <2>2
  <2>5. Now.parsed = f + 1 - pos
    BY <2>2 DEF Report
  <2>6. \/ HeaderLength = (f + 1) - f
        \/ HeaderLength = (f + 1) - f + 1 /\ IsEmptyLine(stream, Len(got), f)
    <3>1. HeaderLength = call.headerLength + (f + 1 - pos)
      BY <1>6, <2>1, <2>5
    <3>2. CASE f = pos
      BY <1>5, <2>1, <3>1, <3>2
    <3>3. CASE f = pos + 1
      BY <1>5, <2>2, <3>1, <3>3
    <3> QED
      BY <3>2, <3>3
  <2>7. call.head \o Positions(f, f + 1) = Positions(f, f + 1)
    <3>1. Positions(f, f + 1) \in Seq(Nat)
      BY <2>3, PositionsProperties
    <3> QED
      BY <2>1, <3>1, ConcatEmptySeq
  <2> HIDE DEF Grown
  <2> QED
    BY <1>7, <2>1, <2>2, <2>3, <2>4, <2>6, <2>7
<1>9. CASE HeadAt(pos)
  <2>1. ReadsBuffer /\ ~call.headersCompleted /\ call.body = <<>>
    BY <1>9 DEF HeadAt
  <2>2. PICK a \in 0..(pos - 1) :
           /\ StartsBehind(stream, NextMessage, a)
           /\ Are(stream, NextMessage, {"head"}, a, pos)
           /\ call.head = Positions(a, pos)
           /\ \/ call.headerLength = pos - a
              \/ call.headerLength = pos - a + 1 /\ IsEmptyLine(stream, Len(got), a)
    BY <1>9 DEF HeadAt
  <2>3. /\ pos < taken /\ Are(stream, NextMessage, {"head"}, pos, pos + 1)
        /\ Now = Report("HEADER", 1, "head", 0)
    <3>1. \/ Now = Report("NONE", 0, "head", parser.left)
          \/ /\ pos < taken /\ Are(stream, NextMessage, {"head"}, pos, pos + 1)
             /\ Now = Report("HEADER", 1, "head", 0)
          \/ Now = Report("HEADERS_COMPLETE", 1, BodyState(stream[pos + 1]), stream[pos + 1].n)
          \/ Now = Report("ERROR", 0, "error", 0)
      BY <1>2, <1>4, <1>9, NowHead
    <3>2. /\ Now # Report("NONE", 0, "head", parser.left)
          /\ Now # Report("HEADERS_COMPLETE", 1, BodyState(stream[pos + 1]), stream[pos + 1].n)
          /\ Now # Report("ERROR", 0, "error", 0)
      BY <1>1 DEF Report
    <3> QED
      BY <3>1, <3>2
  <2>4. a \in Nat /\ a <= pos /\ a \in 0..pos /\ pos + 1 \in Nat
    BY <1>5
  <2>5. Grown(pos, pos + 1)
    <3>1. pos + 1 <= taken /\ pos + 1 - pos = 1 /\ pos # pos + 1
      BY <1>3, <1>5, <2>3
    <3> QED
      BY <2>3, <3>1
  <2>6. Now.parsed = 1
    BY <2>3 DEF Report
  <2>7. HeaderLength = call.headerLength + 1
    BY <1>6, <2>1, <2>6
  <2>8. \/ HeaderLength = (pos + 1) - a
        \/ HeaderLength = (pos + 1) - a + 1 /\ IsEmptyLine(stream, Len(got), a)
    BY <1>5, <2>2, <2>4, <2>7
  <2>9. call.head \o Positions(pos, pos + 1) = Positions(a, pos + 1)
    BY <1>5, <2>2, <2>4, HeadJoin
  <2> DEFINE b == pos + 1
  <2>10. b \in Nat /\ Are(stream, NextMessage, {"head"}, pos, b)
    BY <2>3, <2>4
  <2>11. Are(stream, NextMessage, {"head"}, a, b)
    <3> HIDE DEF b
    <3> QED
      BY <1>5, <2>2, <2>4, <2>10, AreJoin
  <2>12. Are(stream, NextMessage, {"head"}, a, pos + 1)
    BY <2>11
  <2> HIDE DEF Grown
  <2> QED
    BY <1>7, <2>1, <2>2, <2>4, <2>5, <2>8, <2>9, <2>12
<1>10. ASSUME NEW f \in 0..pos, NEW p \in 0..pos, HeadersAt(f, p),
              LengthAt(p, pos) \/ ChunkedAt(p, pos) \/ MultipartAt(p, pos)
       PROVE  FALSE
  <2>1. Now.event # "HEADER"
    BY <1>1, <1>2, <1>4, <1>10, BodyEvents
  <2> QED
    BY <1>1, <2>1
<1> QED
  BY <1>4, <1>8, <1>9, <1>10

\* What the headers announce, all of it.
LEMMA BodyPieces ==
    ASSUME NEW s, IsStream(s), NEW p \in DOMAIN s, s[p].is = "blank",
           s[p].body # "chunked", NEW k, k = s[p].message
    PROVE  Are(s, k, {"data", "part", "mark", "close", "epilogue", "junk"}, p, p + s[p].n)
<1> DEFINE K == {"data", "part", "mark", "close", "epilogue", "junk"}
           end == p + s[p].n
<1>1. p \in Nat /\ s[p].n \in Nat
  BY StreamTokens
<1>2. CASE s[p].body = "multipart"
  <2>1. PICK e \in (p + 1)..end :
           /\ Are(s, k, {"part", "mark"}, p, e - 1)
           /\ \/ Are(s, k, {"junk"}, e - 1, end)
              \/ /\ Are(s, k, {"close"}, e - 1, e)
                 /\ Are(s, k, {"epilogue"}, e, end)
    BY <1>2, MultipartOf
  <2>2. e \in Nat /\ e - 1 \in Nat /\ end \in Nat
    BY <1>1, <2>1
  <2> DEFINE d == e - 1
  <2>3. d \in Nat
    BY <2>2
  <2> HIDE DEF end, d
  <2>4. Are(s, k, K, p, d)
    BY <2>1, AreMore DEF d
  <2>5. Are(s, k, K, d, end)
    <3>1. CASE Are(s, k, {"junk"}, d, end)
      BY <3>1, AreMore
    <3>2. CASE Are(s, k, {"close"}, d, e) /\ Are(s, k, {"epilogue"}, e, end)
      <4>1. Are(s, k, K, d, e) /\ Are(s, k, K, e, end)
        BY <3>2, AreMore
      <4> HIDE DEF K
      <4> QED
        BY <2>2, <2>3, <4>1, AreJoin
    <3> QED
      BY <2>1, <3>1, <3>2 DEF d
  <2> HIDE DEF K
  <2>6. Are(s, k, K, p, end)
    BY <1>1, <2>2, <2>3, <2>4, <2>5, AreJoin
  <2> QED
    BY <2>6 DEF K, end
<1>3. CASE s[p].body # "multipart"
  <2>1. Are(s, k, {"data"}, p, end)
    BY <1>3, LengthOf
  <2> HIDE DEF end
  <2>2. Are(s, k, K, p, end)
    BY <2>1, AreMore
  <2> QED
    BY <2>2 DEF end
<1> QED
  BY <1>2, <1>3

\* More than is allowed is announced.
LEMMA TooMuchContent ==
    ASSUME NEW s, IsStream(s), NEW k, NEW L, NEW a \in Nat, NEW b \in Nat, a <= b,
           L \subseteq {"data", "part", "mark", "close", "epilogue", "junk"},
           Are(s, k, L, a, b), b - a > MaxContentLength, NEW before
    PROVE  TooLargeIn(s, k, before)
<1> DEFINE K == {"data", "part", "mark", "close", "epilogue", "junk"}
           w == Len(Picked(s, k, K, 0, Len(s)))
<1>1. w \in Nat /\ b - a <= w
  <2> HIDE DEF K
  <2>1. L \subseteq K
    BY DEF K
  <2> QED
    BY <2>1, PiecesAtLeast
<1>2. MaxContentLength \in Nat
  BY ReceiverAssumption
<1>3. w > MaxContentLength
  <2> HIDE DEF w
  <2> QED
    BY <1>1, <1>2
<1> QED
  BY <1>3 DEF TooLargeIn

\* The call when the headers are there, the last of which is t.
Completed(c, head, t) ==
    [c EXCEPT !.headersCompleted = TRUE, !.head = head,
              !.isChunked = t.body = "chunked", !.isMultipart = t.body = "multipart",
              !.contentLength = IF t.body = "chunked" THEN 0 ELSE t.n]

IsCompleted(d, c, head, t) ==
    /\ d \in CallsOfReceiver
    /\ d.at = c.at /\ d.offset = c.offset /\ d.source = c.source /\ d.kept = c.kept
    /\ d.headersCompleted = TRUE /\ d.isChunked = (t.body = "chunked")
    /\ d.isMultipart = (t.body = "multipart")
    /\ d.contentLength = (IF t.body = "chunked" THEN 0 ELSE t.n)
    /\ d.chunkLength = c.chunkLength /\ d.headerLength = c.headerLength
    /\ d.head = head /\ d.body = c.body

\* What changes of a call that has read all headers.
LEMMA CompletedProperties ==
    ASSUME NEW c \in CallsOfReceiver, NEW head \in Seq(Nat), NEW t, t.n \in Nat
    PROVE  IsCompleted(Completed(c, head, t), c, head, t)
<1> DEFINE chunked == t.body = "chunked"
           multipart == t.body = "multipart"
           n == IF t.body = "chunked" THEN 0 ELSE t.n
<1>1. chunked \in BOOLEAN /\ multipart \in BOOLEAN /\ n \in Nat
  OBVIOUS
<1>2. Completed(c, head, t) = [c EXCEPT !.headersCompleted = TRUE, !.head = head,
                 !.isChunked = chunked, !.isMultipart = multipart, !.contentLength = n]
  BY DEF Completed
<1> HIDE DEF chunked, multipart, n
<1>3. Completed(c, head, t) \in CallsOfReceiver
  BY <1>1, <1>2 DEF CallsOfReceiver
<1>4. /\ Completed(c, head, t).at = c.at /\ Completed(c, head, t).offset = c.offset
      /\ Completed(c, head, t).source = c.source /\ Completed(c, head, t).kept = c.kept
      /\ Completed(c, head, t).headersCompleted = TRUE
      /\ Completed(c, head, t).isChunked = chunked
      /\ Completed(c, head, t).isMultipart = multipart
      /\ Completed(c, head, t).contentLength = n
      /\ Completed(c, head, t).chunkLength = c.chunkLength
      /\ Completed(c, head, t).headerLength = c.headerLength
      /\ Completed(c, head, t).head = head /\ Completed(c, head, t).body = c.body
  BY <1>2 DEF CallsOfReceiver
<1> QED
  BY <1>3, <1>4 DEF IsCompleted, chunked, multipart, n

\* The whole body is to be read before it is parsed.
Preserving(c, at, body, kept) ==
    [c EXCEPT !.at = at, !.body = body, !.source = "body", !.kept = kept, !.offset = 0]

IsPreserving(d, c, at, body, kept) ==
    /\ d \in CallsOfReceiver
    /\ d.at = at /\ d.offset = 0 /\ d.source = "body" /\ d.kept = kept
    /\ d.headersCompleted = c.headersCompleted /\ d.isChunked = c.isChunked
    /\ d.isMultipart = c.isMultipart /\ d.contentLength = c.contentLength
    /\ d.chunkLength = c.chunkLength /\ d.headerLength = c.headerLength
    /\ d.head = c.head /\ d.body = body

\* What changes of a call that is to read a multipart body first.
LEMMA PreservingProperties ==
    ASSUME NEW c \in CallsOfReceiver, NEW at \in Places, NEW body \in Seq(Nat), NEW kept \in Nat
    PROVE  IsPreserving(Preserving(c, at, body, kept), c, at, body, kept)
<1>1. Preserving(c, at, body, kept) \in CallsOfReceiver
  BY DEF CallsOfReceiver, Preserving
<1> QED
  BY <1>1 DEF CallsOfReceiver, Preserving, IsPreserving

\* Nothing is picked from nothing.
LEMMA PickedEmpty ==
    ASSUME NEW s, NEW k, NEW K, NEW a \in Nat
    PROVE  Picked(s, k, K, a, a) = <<>>
<1>1. Are(s, k, {}, a, a)
  BY AreZero
<1> QED
  BY <1>1, PickedNone

\* The headers end with what was parsed now.
LEMMA HeadersEnding ==
    ASSUME ReceiverInv, On("HEADERS_COMPLETE")
    PROVE  \E pos \in 0..taken, p \in 1..taken, f \in 0..taken :
              /\ f <= pos /\ Rest = Positions(pos, taken) /\ HeadAt(pos) /\ p = pos + 1
              /\ Now = Report("HEADERS_COMPLETE", 1, BodyState(stream[p]), stream[p].n)
              /\ Last(Taken) = p
              /\ StartsBehind(stream, NextMessage, f)
              /\ Are(stream, NextMessage, {"head"}, f, p - 1)
              /\ Are(stream, NextMessage, {"blank"}, p - 1, p)
              /\ call.head \o HeaderPieces = Positions(f, p)
              /\ p - f <= MaxHeaderLength /\ HeaderLength <= MaxHeaderLength
              /\ call.headerLength <= MaxHeaderLength
<1>1. call.at = "parse" /\ Now.event = "HEADERS_COMPLETE" /\ ~(HeaderLength > MaxHeaderLength)
  BY DEF On, HeaderIsTooLong
<1>2. ReceiverTyped
  BY DEF ReceiverInv
<1>3. /\ taken \in Nat /\ call \in CallsOfReceiver /\ MaxHeaderLength \in Nat
  BY <1>2, Context
<1>4. PICK pos \in 0..taken :
         /\ Rest = Positions(pos, taken)
         /\ \/ StartAt(pos) \/ HeadAt(pos)
            \/ \E f, p \in 0..pos :
                  /\ HeadersAt(f, p)
                  /\ LengthAt(p, pos) \/ ChunkedAt(p, pos) \/ MultipartAt(p, pos)
  BY <1>1, Parsing
<1>5. pos \in Nat /\ pos <= taken
  BY <1>3
<1>6. ~StartAt(pos)
  <2>1. ASSUME StartAt(pos) PROVE FALSE
    <3>1. \/ Now = Report("NONE", 0, "start", parser.left)
          \/ Now = Report("NONE", 1, "start", parser.left)
          \/ \E f \in {pos, pos + 1} :
                 \/ Now = Report("HEADER", f + 1 - pos, "head", 0)
                 \/ Now = Report("ERROR", f - pos, "error", 0)
      BY <1>2, <1>4, <2>1, NowStart
    <3> QED
      BY <1>1, <3>1 DEF Report
  <2> QED
    BY <2>1
<1>7. ASSUME NEW f \in 0..pos, NEW p \in 0..pos, HeadersAt(f, p),
             LengthAt(p, pos) \/ ChunkedAt(p, pos) \/ MultipartAt(p, pos)
      PROVE  FALSE
  <2>1. Now.event # "HEADERS_COMPLETE"
    BY <1>1, <1>2, <1>4, <1>7, BodyEvents
  <2> QED
    BY <1>1, <2>1
<1>8. HeadAt(pos)
  BY <1>4, <1>6, <1>7
<1>9. /\ pos < taken /\ Are(stream, NextMessage, {"blank"}, pos, pos + 1)
      /\ Now = Report("HEADERS_COMPLETE", 1, BodyState(stream[pos + 1]), stream[pos + 1].n)
  <2>1. \/ Now = Report("NONE", 0, "head", parser.left)
        \/ Now = Report("HEADER", 1, "head", 0)
        \/ /\ pos < taken /\ Are(stream, NextMessage, {"blank"}, pos, pos + 1)
           /\ Now = Report("HEADERS_COMPLETE", 1, BodyState(stream[pos + 1]), stream[pos + 1].n)
        \/ Now = Report("ERROR", 0, "error", 0)
    BY <1>2, <1>4, <1>8, NowHead
  <2>2. /\ Now # Report("NONE", 0, "head", parser.left)
        /\ Now # Report("HEADER", 1, "head", 0)
        /\ Now # Report("ERROR", 0, "error", 0)
    BY <1>1 DEF Report
  <2> QED
    BY <2>1, <2>2
<1>10. PICK f \in 0..(pos - 1) :
          /\ StartsBehind(stream, NextMessage, f)
          /\ Are(stream, NextMessage, {"head"}, f, pos)
          /\ call.head = Positions(f, pos)
          /\ call.headerLength = pos - f \/ call.headerLength = pos - f + 1
  BY <1>8 DEF HeadAt
<1>11. f \in Nat /\ f <= pos /\ f \in 0..taken
  BY <1>3, <1>5
<1>12. Now.parsed = 1
  BY <1>9 DEF Report
<1>13. Taken = Positions(pos, pos + 1)
  <2>1. Now.parsed \in Nat /\ pos + Now.parsed <= taken /\ pos + Now.parsed = pos + 1
    BY <1>3, <1>5, <1>9, <1>12
  <2> QED
    BY <1>3, <1>4, <1>5, <2>1, TakenPositions
<1>14. Last(Taken) = pos + 1
  <2> DEFINE b == pos + 1
  <2>1. b \in Nat /\ b - pos = 1 /\ pos <= b
    BY <1>5
  <2> HIDE DEF b
  <2>2. /\ Len(Positions(pos, b)) = 1
        /\ \A i \in 1..(b - pos) : Positions(pos, b)[i] = pos + i
    BY <1>5, <2>1, PositionsProperties
  <2>3. Positions(pos, b)[1] = pos + 1
    BY <2>1, <2>2
  <2>4. Last(Positions(pos, b)) = pos + 1
    BY <2>2, <2>3 DEF Last
  <2> QED
    BY <1>13, <2>4 DEF b
<1>15. HeaderPieces = Positions(pos, pos + 1)
  <2>1. /\ pos \in {pos, pos + 1} /\ pos + 1 <= taken /\ Now.parsed = pos + 1 - pos
        /\ pos # pos + 1
    BY <1>3, <1>5, <1>9, <1>12
  <2>2. stream[pos + 1].is # "epilogue"
    BY <1>5, <1>9, AreOne
  <2> QED
    BY <1>2, <1>4, <2>1, <2>2, HeaderPiecesAre
<1>16. call.head \o HeaderPieces = Positions(f, pos + 1)
  BY <1>5, <1>10, <1>11, <1>15, HeadJoin
<1>17. call.headerLength \in Nat /\ HeaderLength = call.headerLength + 1
  BY <1>3, <1>8, <1>12, CallFields DEF HeaderLength, HeadAt
<1>18. /\ (pos + 1) - f <= MaxHeaderLength /\ HeaderLength <= MaxHeaderLength
       /\ call.headerLength <= MaxHeaderLength
  BY <1>1, <1>3, <1>5, <1>10, <1>11, <1>17
<1> DEFINE p == pos + 1
<1>19. p \in 1..taken /\ p - 1 = pos
  BY <1>3, <1>5, <1>9
<1>20. /\ Now = Report("HEADERS_COMPLETE", 1, BodyState(stream[p]), stream[p].n)
       /\ Last(Taken) = p /\ call.head \o HeaderPieces = Positions(f, p)
       /\ Are(stream, NextMessage, {"blank"}, pos, p)
       /\ p - f <= MaxHeaderLength /\ p = pos + 1
  BY <1>9, <1>14, <1>16, <1>18
<1> HIDE DEF p
<1> QED
  BY <1>4, <1>8, <1>10, <1>11, <1>18, <1>19, <1>20

\* EVENT_HEADERS_COMPLETE: the body is parsed as it comes, or read first.
LEMMA HeadersCompleteInv ==
    ASSUME ReceiverInv, HeadersComplete
    PROVE  ReceiverInv'
<1>1. On("HEADERS_COMPLETE") /\ call.at = "parse"
  BY DEF HeadersComplete, On
<1>2. ReceiverTyped /\ given_up = "no"
  BY <1>1, Calling
<1>3. /\ IsStream(stream) /\ taken \in Nat /\ call \in CallsOfReceiver /\ Len(got) \in Nat
      /\ NextMessage = Len(got) + 1 /\ buffer \in Seq(Nat) /\ Len(buffer) \in Nat
      /\ MaxContentLength \in Nat /\ preserve \in BOOLEAN
      /\ DOMAIN stream = 1..Len(stream) /\ Len(stream) \in Nat /\ taken <= Len(stream)
  BY <1>2, Context
<1>4. PICK pos \in 0..taken, p \in 1..taken, f \in 0..taken :
         /\ f <= pos /\ Rest = Positions(pos, taken) /\ HeadAt(pos) /\ p = pos + 1
         /\ Now = Report("HEADERS_COMPLETE", 1, BodyState(stream[p]), stream[p].n)
         /\ Last(Taken) = p
         /\ StartsBehind(stream, NextMessage, f)
         /\ Are(stream, NextMessage, {"head"}, f, p - 1)
         /\ Are(stream, NextMessage, {"blank"}, p - 1, p)
         /\ call.head \o HeaderPieces = Positions(f, p)
         /\ p - f <= MaxHeaderLength /\ HeaderLength <= MaxHeaderLength
         /\ call.headerLength <= MaxHeaderLength
  BY <1>1, HeadersEnding
<1>5. /\ pos \in Nat /\ p \in Nat /\ f \in Nat /\ p <= taken /\ pos <= taken /\ f <= p
      /\ p \in 0..taken /\ f \in 0..p /\ p \in 0..p
  BY <1>3, <1>4
<1>6. p \in DOMAIN stream /\ stream[p].message = NextMessage /\ stream[p].is = "blank"
  <2>1. p \in (p - 1 + 1)..p
    BY <1>5
  <2> QED
    BY <1>4, <2>1 DEF Are
<1>7. stream[p].n \in Nat /\ HasBody(stream, p)
  BY <1>3, <1>6, StreamTokens DEF IsStream
<1>8. Now.parsed = 1 /\ Now.next = [state |-> BodyState(stream[p]), left |-> stream[p].n]
  BY <1>4 DEF Report
<1>9. call.source = "buffer" /\ call.body = <<>>
  BY <1>4 DEF HeadAt, ReadsBuffer
<1> DEFINE t == stream[p]
           c == Completed(call, Positions(f, p), t)
<1>10. IsCompleted(c, call, Positions(f, p), t)
  <2>1. Positions(f, p) \in Seq(Nat)
    BY <1>5, PositionsProperties
  <2> HIDE DEF c
  <2> QED
    BY <1>3, <1>7, <2>1, CompletedProperties DEF c
<1>11. /\ c \in CallsOfReceiver
       /\ c.at = "parse" /\ c.source = "buffer"
       /\ c.headersCompleted = TRUE /\ c.isChunked = (t.body = "chunked")
       /\ c.isMultipart = (t.body = "multipart")
       /\ c.contentLength = (IF t.body = "chunked" THEN 0 ELSE t.n)
       /\ c.headerLength = call.headerLength
       /\ c.head = Positions(f, p) /\ c.body = <<>>
  BY <1>1, <1>9, <1>10 DEF IsCompleted
<1> DEFINE unparsed == After(buffer, call.offset + Now.parsed)
<1>12. /\ c.contentLength > MaxContentLength => GiveUp("too large")
       /\ c.contentLength <= MaxContentLength =>
            IF c.isMultipart /\ preserve
            THEN /\ call' = Preserving(c, IF Len(unparsed) < c.contentLength
                                          THEN "preserve" ELSE "parse", unparsed, Len(buffer))
                 /\ parser' = Now.next
                 /\ stream' = stream /\ preserve' = preserve /\ taken' = taken
                 /\ buffer' = buffer /\ parsedOffset' = parsedOffset /\ got' = got
                 /\ given_up' = given_up
            ELSE GoOn(c)
  <2>1. c = [call EXCEPT !.headersCompleted = TRUE,
                          !.head = call.head \o HeaderPieces,
                          !.isChunked = stream[Last(Taken)].body = "chunked",
                          !.isMultipart = stream[Last(Taken)].body = "multipart",
                          !.contentLength = IF stream[Last(Taken)].body = "chunked" THEN 0
                                            ELSE stream[Last(Taken)].n]
    BY <1>4 DEF Completed
  <2> HIDE DEF c
  <2>2. (CASE c.contentLength > MaxContentLength -> GiveUp("too large")
           [] c.contentLength <= MaxContentLength /\ ~(c.isMultipart /\ preserve) -> GoOn(c)
           [] c.contentLength <= MaxContentLength /\ c.isMultipart /\ preserve ->
                 /\ call' = Preserving(c, IF Len(unparsed) < c.contentLength
                                          THEN "preserve" ELSE "parse", unparsed, Len(buffer))
                 /\ parser' = Now.next
                 /\ stream' = stream /\ preserve' = preserve /\ taken' = taken
                 /\ buffer' = buffer /\ parsedOffset' = parsedOffset /\ got' = got
                 /\ given_up' = given_up)
    BY <2>1 DEF HeadersComplete, Preserving
  <2> DEFINE over == c.contentLength > MaxContentLength
             within == c.contentLength <= MaxContentLength
             first == c.isMultipart /\ preserve
             preserving ==
                 /\ call' = Preserving(c, IF Len(unparsed) < c.contentLength
                                          THEN "preserve" ELSE "parse", unparsed, Len(buffer))
                 /\ parser' = Now.next
                 /\ stream' = stream /\ preserve' = preserve /\ taken' = taken
                 /\ buffer' = buffer /\ parsedOffset' = parsedOffset /\ got' = got
                 /\ given_up' = given_up
  <2>3. (CASE over -> GiveUp("too large")
           [] within /\ ~first -> GoOn(c)
           [] within /\ c.isMultipart /\ preserve -> preserving)
    BY <2>2
  <2>4. within /\ first <=> within /\ c.isMultipart /\ preserve
    OBVIOUS
  <2>5. ~(over /\ within)
    BY <1>3, <1>7, <1>11
  <2> HIDE DEF over, within, preserving
  <2>6. /\ over => GiveUp("too large")
        /\ within => IF first THEN preserving ELSE GoOn(c)
    BY <2>3, <2>5
  <2> QED
    BY <2>6 DEF over, within, preserving
<1> HIDE DEF c
<1>13. c.contentLength \in Nat
  BY <1>7, <1>11
\* The headers stay what they are.
<1>14. ASSUME stream' = stream, got' = got, c.contentLength <= MaxContentLength,
              call'.headersCompleted = TRUE, call'.isChunked = c.isChunked,
              call'.isMultipart = c.isMultipart, call'.contentLength = c.contentLength,
              call'.headerLength <= MaxHeaderLength, call'.head = c.head
       PROVE  HeadersAt(f, p)'
  <2>1. NextMessage' = NextMessage
    BY <1>14 DEF NextMessage
  <2> QED
    BY <1>4, <1>11, <1>14, <2>1 DEF HeadersAt
<1>15. CASE c.contentLength > MaxContentLength
  <2>1. GiveUp("too large")
    BY <1>12, <1>13, <1>15, <1>3
  <2>2. t.body # "chunked" /\ t.n > MaxContentLength
    BY <1>3, <1>11, <1>15
  <2> DEFINE end == p + t.n
             before == Len(Picked(stream, NextMessage - 1, {"epilogue"}, 0, Len(stream)))
             K == {"data", "part", "mark", "close", "epilogue", "junk"}
  <2>3. Are(stream, NextMessage, K, p, end)
    BY <1>3, <1>6, <2>2, BodyPieces
  <2>4. end \in Nat /\ p <= end /\ end - p > MaxContentLength
    BY <1>3, <1>5, <1>7, <2>2
  <2> HIDE DEF end, before
  <2>5. TooLargeIn(stream, NextMessage, before)
    BY <1>3, <1>5, <2>3, <2>4, TooMuchContent
  <2> QED
    BY <2>1, <2>5, GivesUp DEF before
<1>16. CASE c.contentLength <= MaxContentLength /\ ~(c.isMultipart /\ preserve)
  <2>1. GoOn(c)
    BY <1>12, <1>16
  <2>2. stream' = stream /\ preserve' = preserve /\ got' = got /\ taken' = taken
        /\ buffer' = buffer /\ parser' = Now.next
    BY <2>1 DEF GoOn
  <2>3. /\ call'.at = "parse" /\ call'.source = "buffer" /\ call'.headersCompleted = TRUE
        /\ call'.isChunked = c.isChunked /\ call'.isMultipart = c.isMultipart
        /\ call'.contentLength = c.contentLength /\ call'.headerLength = HeaderLength
        /\ call'.head = c.head /\ call'.body = <<>>
    <3>1. IsAdvanced(call', c, call.offset + Now.parsed, HeaderLength)
      BY <1>2, <1>8, <1>11, <2>1, GoOnMoves
    <3> QED
      BY <1>11, <3>1 DEF IsAdvanced
  <2>4. HeadersAt(f, p)'
    BY <1>4, <1>14, <1>16, <2>2, <2>3
  <2>5. parser'.state = BodyState(t) /\ parser'.left = t.n
    BY <1>8, <2>2
  <2>6. NextMessage' = NextMessage /\ ReadsBuffer'
    BY <2>2, <2>3 DEF NextMessage, ReadsBuffer
  <2>7. BodyState(t) \in ParserStates
    BY DEF BodyState, ParserStates
  <2>11. ASSUME IsAt(p)' PROVE ReceiverInv'
    <3>1. /\ Now.parsed \in Nat /\ p = pos + Now.parsed
          /\ Now.next.state \in ParserStates /\ Now.next.left \in Nat
          /\ Now.next = [state |-> Now.next.state, left |-> Now.next.left]
          /\ c.source = call.source /\ c.source # "body" /\ c.at = "parse"
      BY <1>4, <1>7, <1>8, <1>9, <1>11, <2>7
    <3> QED
      BY <1>1, <1>4, <1>5, <1>11, <2>1, <2>11, <3>1, GoesOnBehind
  <2>8. CASE t.body = "chunked"
    <3>1. Are(stream, NextMessage, {"size", "data", "end"}, p, p)
      BY <1>5, AreZero
    <3>2. Picked(stream, NextMessage, {"data"}, p, p) = <<>>
      BY <1>5, PickedEmpty
    <3>3. Are(stream, NextMessage, {"size", "junk"}, p, p + 1)
      BY <1>6, <1>7, <2>8 DEF HasBody
    <3>4. parser'.state = "size"
      BY <2>5, <2>8 DEF BodyState
    <3>5. call'.contentLength = 0 /\ Len(<<>>) = 0
      BY <1>11, <2>3, <2>8
    <3>6. ChunkedAt(p, p)'
      BY <2>2, <2>3, <2>6, <2>8, <3>1, <3>2, <3>3, <3>4, <3>5 DEF ChunkedAt
    <3> QED
      BY <1>5, <2>4, <2>11, <3>6 DEF IsAt
  <2>9. CASE t.body = "multipart"
    <3>1. Are(stream, NextMessage, {"part", "mark"}, p, p)
      BY <1>5, AreZero
    <3>2. Picked(stream, NextMessage, {"part"}, p, p) = <<>>
      BY <1>5, PickedEmpty
    <3>3. parser'.state = "multipart" /\ ~preserve
      BY <1>11, <1>16, <2>5, <2>9 DEF BodyState
    <3>4. call'.contentLength = t.n
      BY <1>11, <2>3, <2>9
    <3>5. MultipartAt(p, p)'
      BY <2>2, <2>3, <2>6, <2>9, <3>1, <3>2, <3>3, <3>4 DEF MultipartAt
    <3> QED
      BY <1>5, <2>4, <2>11, <3>5 DEF IsAt
  <2>10. CASE t.body \notin {"chunked", "multipart"}
    <3>1. call'.contentLength = t.n
      BY <1>11, <2>3, <2>10
    <3>2. parser'.state = IF t.n = 0 THEN "complete" ELSE "body"
      BY <2>5, <2>10 DEF BodyState
    <3>3. t.n = 0 \/ t.n > 0
      BY <1>7
    <3>4. LengthAt(p, p)'
      BY <2>2, <2>3, <2>5, <2>10, <3>1, <3>2, <3>3 DEF LengthAt
    <3> QED
      BY <1>5, <2>4, <2>11, <3>4 DEF IsAt
  <2> QED
    BY <2>8, <2>9, <2>10
<1>17. CASE c.contentLength <= MaxContentLength /\ c.isMultipart /\ preserve
  <2> DEFINE at == IF Len(unparsed) < c.contentLength THEN "preserve" ELSE "parse"
  <2>1. /\ call' = Preserving(c, at, unparsed, Len(buffer))
        /\ parser' = Now.next
        /\ stream' = stream /\ preserve' = preserve /\ taken' = taken
        /\ buffer' = buffer /\ parsedOffset' = parsedOffset /\ got' = got
        /\ given_up' = given_up
    BY <1>12, <1>17
  <2>2. unparsed = Positions(p, taken) /\ unparsed \in Seq(Nat)
    <3> DEFINE o == call.offset
    <3>1. o \in Nat /\ 1 \in 0..(taken - pos)
      BY <1>3, <1>4, <1>5, CallFields
    <3>2. After(buffer, o) = Positions(pos, taken)
      BY <1>4, <1>9 DEF Rest, Source
    <3> DEFINE n == 1
    <3>3. n \in Nat /\ n \in 0..(taken - pos) /\ pos + n = p
      BY <1>4, <1>5, <3>1
    <3> HIDE DEF o, n
    <3>4. After(buffer, o + n) = After(After(buffer, o), n)
      BY <1>3, <3>1, <3>3, AfterAfter
    <3>5. After(Positions(pos, taken), n) = Positions(pos + n, taken)
      BY <1>3, <1>5, <3>3, PositionsAfter
    <3>6. Positions(p, taken) \in Seq(Nat)
      BY <1>3, <1>5, PositionsProperties
    <3> QED
      BY <1>8, <3>2, <3>3, <3>4, <3>5, <3>6 DEF o, n
  <2>3. at \in Places /\ at \in {"preserve", "parse"}
    BY DEF Places
  <2> HIDE DEF unparsed
  <2>4. Len(unparsed) = taken - p
    BY <1>3, <1>5, <2>2, PositionsProperties
  <2>5. at = IF taken < p + c.contentLength THEN "preserve" ELSE "parse"
    <3>1. Len(unparsed) < c.contentLength <=> taken < p + c.contentLength
      BY <1>3, <1>5, <1>13, <2>4
    <3> QED
      BY <3>1
  <2> HIDE DEF at
  <2>6. /\ call' \in CallsOfReceiver /\ call'.at = at /\ call'.offset = 0
        /\ call'.source = "body" /\ call'.kept = Len(buffer)
        /\ call'.headersCompleted = TRUE
        /\ call'.isChunked = c.isChunked /\ call'.isMultipart = c.isMultipart
        /\ call'.contentLength = c.contentLength /\ call'.headerLength = call.headerLength
        /\ call'.head = c.head /\ call'.body = unparsed
    <3>1. IsPreserving(Preserving(c, at, unparsed, Len(buffer)), c, at, unparsed, Len(buffer))
      BY <1>3, <1>11, <2>2, <2>3, PreservingProperties
    <3> QED
      BY <1>11, <2>1, <3>1 DEF IsPreserving
  <2>7. HeadersAt(f, p)'
    BY <1>4, <1>14, <1>17, <2>1, <2>6
  <2>8. t.body = "multipart" /\ c.contentLength = t.n
    BY <1>11, <1>17
  <2>9. parser'.state = "multipart" /\ parser' \in [state : ParserStates, left : Nat]
    <3>1. BodyState(t) = "multipart" /\ "multipart" \in ParserStates
      BY <2>8 DEF BodyState, ParserStates
    <3> QED
      BY <1>7, <1>8, <2>1, <3>1
  <2>10. NextMessage' = NextMessage
    BY <2>1 DEF NextMessage
  <2>11. MultipartAt(p, p)'
    <3>1. Are(stream, NextMessage, {"part", "mark"}, p, p)
      BY <1>5, AreZero
    <3>2. \/ at = "preserve" /\ taken < p + c.contentLength
          \/ at = "parse" /\ taken >= p + c.contentLength
      BY <1>3, <1>5, <1>13, <2>5
    <3> QED
      BY <1>17, <2>1, <2>2, <2>6, <2>8, <2>9, <2>10, <3>1, <3>2 DEF MultipartAt
  <2>12. Unread' = Positions(p, taken')
    <3>1. Unread' = After(unparsed, 0)
      BY <2>3, <2>6 DEF Unread, Source
    <3> QED
      BY <2>1, <2>2, <3>1, AfterNone
  <2>13. Follows'
    <3>1. call'.at # "receive"
      BY <2>3, <2>6
    <3>2. IsAt(p)'
      BY <1>5, <2>7, <2>11 DEF IsAt
    <3> QED
      BY <1>5, <2>1, <2>12, <3>1, <3>2 DEF Follows
  <2>14. ReceiverTyped'
    <3>1. given_up' = "no"
      BY <1>2, <2>1
    <3> QED
      BY <1>2, <2>1, <2>6, <2>9, <3>1 DEF ReceiverTyped
  <2>15. SentInTime'
    BY <2>1, StillInTime
  <2> QED
    BY <1>1, <2>1, <2>13, <2>14, <2>15, GoesOn
<1> QED
  BY <1>3, <1>13, <1>15, <1>16, <1>17

\* More of the body is there.
Filled(c, at, body) == [c EXCEPT !.at = at, !.body = body]
WithBody(c, body) == [c EXCEPT !.body = body]
WithBodyAt(c, body, at) == [WithBody(c, body) EXCEPT !.at = at]

IsFilled(d, c, at, body) ==
    /\ d \in CallsOfReceiver
    /\ d.at = at /\ d.offset = c.offset /\ d.source = c.source /\ d.kept = c.kept
    /\ d.headersCompleted = c.headersCompleted /\ d.isChunked = c.isChunked
    /\ d.isMultipart = c.isMultipart /\ d.contentLength = c.contentLength
    /\ d.chunkLength = c.chunkLength /\ d.headerLength = c.headerLength
    /\ d.head = c.head /\ d.body = body

\* What does not change of a call that has read more of a body.
LEMMA FilledProperties ==
    ASSUME NEW c \in CallsOfReceiver, NEW at \in Places, NEW body \in Seq(Nat)
    PROVE  /\ IsFilled(Filled(c, at, body), c, at, body)
           /\ IsFilled(WithBody(c, body), c, c.at, body)
           /\ IsFilled(WithBodyAt(c, body, at), c, at, body)
<1>1. IsFilled(Filled(c, at, body), c, at, body)
  <2>1. Filled(c, at, body) \in CallsOfReceiver
    BY DEF CallsOfReceiver, Filled
  <2> QED
    BY <2>1 DEF CallsOfReceiver, Filled, IsFilled
<1>2. IsFilled(WithBody(c, body), c, c.at, body)
  <2>1. WithBody(c, body) \in CallsOfReceiver
    BY DEF CallsOfReceiver, WithBody
  <2> QED
    BY <2>1 DEF CallsOfReceiver, WithBody, IsFilled
<1>3. IsFilled(WithBodyAt(c, body, at), c, at, body)
  <2> DEFINE d == WithBody(c, body)
  <2>1. d \in CallsOfReceiver
    BY <1>2 DEF IsFilled
  <2> HIDE DEF d
  <2>2. IsPut([d EXCEPT !.at = at], d, at)
    BY <2>1, PutProperties
  <2> QED
    BY <1>2, <2>2 DEF d, IsFilled, IsPut, WithBodyAt
<1> QED
  BY <1>1, <1>2, <1>3

\* What comes from the socket, behind what was taken.
LEMMA IncomingPositions ==
    ASSUME ReceiverTyped, NEW n \in Nat, NEW a \in Nat, a <= taken
    PROVE  /\ Incoming(n) = Positions(taken, taken + n)
           /\ Positions(a, taken) \o Incoming(n) = Positions(a, taken + n)
           /\ Positions(a, taken + n) \in Seq(Nat)
<1> DEFINE b == taken + n
<1>1. taken \in Nat
  BY Context
<1>2. b \in Nat /\ taken <= b
  BY <1>1
<1>3. Incoming(n) = Positions(taken, b)
  BY DEF Incoming
<1> HIDE DEF b
<1>4. Positions(a, taken) \o Positions(taken, b) = Positions(a, b)
  BY <1>1, <1>2, PositionsJoin
<1>5. Positions(a, b) \in Seq(Nat)
  BY <1>2, PositionsProperties
<1> QED
  BY <1>3, <1>4, <1>5 DEF b

\* read() of what is missing of a multipart body.
LEMMA ReadPreservedInv ==
    ASSUME ReceiverInv, Liberties = {}, ReadPreserved
    PROVE  ReceiverInv'
<1> DEFINE needed == call.contentLength - Len(call.body)
<1>1. /\ call.at = "preserve" /\ HasCome(needed) /\ taken' = taken + needed
      /\ call' = Filled(call, "parse", call.body \o Incoming(needed))
      /\ stream' = stream /\ preserve' = preserve /\ buffer' = buffer
      /\ parsedOffset' = parsedOffset /\ parser' = parser /\ got' = got
      /\ given_up' = given_up
  BY DEF ReadPreserved, Filled
<1>2. ReceiverTyped /\ given_up = "no" /\ Follows
  BY <1>1, Calling
<1>3. /\ taken \in Nat /\ call \in CallsOfReceiver /\ taken <= Len(stream) /\ Len(stream) \in Nat
  BY <1>2, Context
<1>4. PICK pos \in 0..taken : Unread = Positions(pos, taken) /\ IsAt(pos)
  BY <1>2 DEF Follows
<1>5. PICK f, p \in 0..pos : HeadersAt(f, p) /\ MultipartAt(p, pos)
  <2>1. ~NoCallAt(pos) /\ ~FrameAt(pos) /\ ~PayloadAt(pos)
    <3>1. NoCall.at = "none" /\ [NoCall EXCEPT !.at = "frame", !.offset = parsedOffset].at = "frame"
      BY DEF NoCall
    <3> QED
      BY <1>1, <3>1 DEF NoCallAt, FrameAt, PayloadAt
  <2>2. ~StartAt(pos) /\ ~HeadAt(pos) /\ \A p : ~LengthAt(p, pos) /\ ~ChunkedAt(p, pos)
    BY <1>1 DEF StartAt, HeadAt, LengthAt, ChunkedAt, ReadsBuffer
  <2> QED
    BY <1>4, <2>1, <2>2 DEF IsAt
<1>6. /\ preserve /\ call.source = "body" /\ call.offset = 0 /\ pos = p
      /\ call.kept = Len(buffer)
      /\ call.body = Positions(p, taken) /\ taken < p + call.contentLength
  BY <1>1, <1>5 DEF MultipartAt, ReadsBuffer
<1>7. p \in Nat /\ p <= taken /\ call.contentLength \in Nat
  BY <1>3, <1>6, CallFields
<1>8. Len(call.body) = taken - p
  BY <1>3, <1>6, <1>7, PositionsProperties
<1>9. needed \in Nat /\ taken + needed = p + call.contentLength /\ needed > 0
  BY <1>3, <1>6, <1>7, <1>8
<1> HIDE DEF needed
<1>10. SentInTime' /\ taken + needed <= Len(stream)
  BY <1>1, <1>9, MoreInTime
<1> DEFINE body == call.body \o Incoming(needed)
<1>11. body = Positions(p, taken') /\ body \in Seq(Nat)
  BY <1>1, <1>2, <1>6, <1>7, <1>9, IncomingPositions
<1> HIDE DEF body
<1>12. /\ call' \in CallsOfReceiver
       /\ call'.at = "parse" /\ call'.offset = 0 /\ call'.source = "body"
       /\ call'.kept = call.kept
       /\ call'.headersCompleted = call.headersCompleted /\ call'.isChunked = call.isChunked
       /\ call'.isMultipart = call.isMultipart /\ call'.contentLength = call.contentLength
       /\ call'.headerLength = call.headerLength
       /\ call'.head = call.head /\ call'.body = body
  <2>1. "parse" \in Places
    BY DEF Places
  <2>2. IsFilled(Filled(call, "parse", body), call, "parse", body)
    BY <1>3, <1>11, <2>1, FilledProperties
  <2> QED
    BY <1>1, <1>6, <2>2 DEF IsFilled, body
<1>13. HeadersAt(f, p)'
  <2>1. call.contentLength <= MaxContentLength
    BY <1>5 DEF HeadersAt
  <2> QED
    BY <1>1, <1>5, <1>12, <2>1, HeadersStay
<1>14. MultipartAt(p, pos)'
  <2>1. NextMessage' = NextMessage
    BY <1>1 DEF NextMessage
  <2>2. taken' >= p + call'.contentLength
    BY <1>1, <1>7, <1>9, <1>12
  <2> QED
    BY <1>1, <1>5, <1>6, <1>11, <1>12, <2>1, <2>2 DEF MultipartAt
<1>15. Unread' = Positions(pos, taken')
  <2>1. Unread' = After(body, 0)
    BY <1>12 DEF Unread, Source
  <2> QED
    BY <1>6, <1>11, <2>1, AfterNone
<1>16. Follows'
  <2>1. IsAt(pos)'
    BY <1>13, <1>14 DEF IsAt
  <2>2. pos \in 0..taken' /\ call'.at # "receive"
    BY <1>1, <1>3, <1>9, <1>12
  <2> QED
    BY <1>15, <2>1, <2>2 DEF Follows
<1>17. ReceiverTyped'
  <2>1. given_up' = "no" /\ taken' \in 0..Len(stream')
    BY <1>1, <1>2, <1>3, <1>9, <1>10
  <2> QED
    BY <1>1, <1>2, <1>12, <2>1 DEF ReceiverTyped
<1> QED
  BY <1>1, <1>10, <1>16, <1>17, GoesOn

\* What was picked, and one piece more.
LEMMA PickedOneMore ==
    ASSUME NEW s, NEW k, NEW K, NEW a \in Nat, NEW b \in Nat, a <= b
    PROVE  Picked(s, k, K, a, b) \o Picked(s, k, K, b, b + 1) = Picked(s, k, K, a, b + 1)
<1> DEFINE c == b + 1
<1>1. c \in Nat /\ b <= c
  OBVIOUS
<1> HIDE DEF c
<1>2. Picked(s, k, K, a, b) \o Picked(s, k, K, b, c) = Picked(s, k, K, a, c)
  BY <1>1, PickedJoin
<1> QED
  BY <1>2 DEF c

\* One more piece of the message.
LEMMA AreOneMore ==
    ASSUME NEW s, NEW k, NEW K, NEW a \in Nat, NEW b \in Nat,
           Are(s, k, K, a, b), Are(s, k, K, b, b + 1)
    PROVE  Are(s, k, K, a, b + 1)
<1> DEFINE c == b + 1
<1>1. c \in Nat /\ Are(s, k, K, b, c)
  OBVIOUS
<1> HIDE DEF c
<1>2. Are(s, k, K, a, c)
  BY <1>1, AreJoin
<1> QED
  BY <1>2 DEF c

\* The parser is past the headers.
LEMMA PastTheHeaders ==
    ASSUME ReceiverInv, NEW event, On(event),
           event \in {"MULTIPART", "BODY", "CHUNK_HEADER", "CHUNK_COMPLETE", "MESSAGE_COMPLETE"}
    PROVE  /\ call.at = "parse" /\ Now.event = event /\ ReceiverTyped /\ given_up = "no"
           /\ HeaderLength = call.headerLength
           /\ \E pos \in 0..taken : \E f, p \in 0..pos :
                 /\ Rest = Positions(pos, taken) /\ HeadersAt(f, p)
                 /\ LengthAt(p, pos) \/ ChunkedAt(p, pos) \/ MultipartAt(p, pos)
<1>1. call.at = "parse" /\ Now.event = event
  BY DEF On
<1>2. ReceiverTyped /\ given_up = "no"
  BY <1>1, Calling
<1>3. PICK pos \in 0..taken :
         /\ Rest = Positions(pos, taken)
         /\ \/ StartAt(pos) \/ HeadAt(pos)
            \/ \E f, p \in 0..pos :
                  /\ HeadersAt(f, p)
                  /\ LengthAt(p, pos) \/ ChunkedAt(p, pos) \/ MultipartAt(p, pos)
  BY <1>1, Parsing
<1>4. ASSUME StartAt(pos) PROVE FALSE
  <2>1. \/ Now = Report("NONE", 0, "start", parser.left)
        \/ Now = Report("NONE", 1, "start", parser.left)
        \/ \E f \in {pos, pos + 1} : \/ Now = Report("HEADER", f + 1 - pos, "head", 0)
                                     \/ Now = Report("ERROR", f - pos, "error", 0)
    BY <1>2, <1>3, <1>4, NowStart
  <2> QED
    BY <1>1, <2>1 DEF Report
<1>5. ASSUME HeadAt(pos) PROVE FALSE
  <2>1. \/ Now = Report("NONE", 0, "head", parser.left)
        \/ Now = Report("HEADER", 1, "head", 0)
        \/ Now = Report("HEADERS_COMPLETE", 1, BodyState(stream[pos + 1]), stream[pos + 1].n)
        \/ Now = Report("ERROR", 0, "error", 0)
    BY <1>2, <1>3, <1>5, NowHead
  <2> QED
    BY <1>1, <2>1 DEF Report
<1>6. PICK f, p \in 0..pos :
         HeadersAt(f, p) /\ (LengthAt(p, pos) \/ ChunkedAt(p, pos) \/ MultipartAt(p, pos))
  BY <1>3, <1>4, <1>5
<1>7. HeaderLength = call.headerLength
  <2>1. call.headersCompleted
    BY <1>6 DEF HeadersAt
  <2>2. call.headerLength \in Nat
    BY <1>2, Context, CallFields
  <2>3. HeaderLength = call.headerLength + 0
    BY <2>1 DEF HeaderLength
  <2> QED
    BY <2>2, <2>3
<1> QED
  BY <1>1, <1>2, <1>3, <1>6, <1>7

\* A part of a multipart body, or what looked like a boundary.
LEMMA MultipartInv ==
    ASSUME ReceiverInv, Multipart
    PROVE  ReceiverInv'
<1> DEFINE parts == Keeping(Taken, {i \in DOMAIN stream : Kind(i) = "part"})
           body == IF call.source = "body" THEN call.body ELSE call.body \o parts
           next == WithBody(call, body)
<1>1. On("MULTIPART") /\ GoOn(next)
  BY DEF Multipart, WithBody
<1>2. /\ call.at = "parse" /\ Now.event = "MULTIPART" /\ ReceiverTyped /\ given_up = "no"
      /\ HeaderLength = call.headerLength
      /\ \E pos \in 0..taken : \E f, p \in 0..pos :
            /\ Rest = Positions(pos, taken) /\ HeadersAt(f, p)
            /\ LengthAt(p, pos) \/ ChunkedAt(p, pos) \/ MultipartAt(p, pos)
  BY <1>1, PastTheHeaders
<1>3. PICK pos \in 0..taken : \E f, p \in 0..pos :
         /\ Rest = Positions(pos, taken) /\ HeadersAt(f, p)
         /\ LengthAt(p, pos) \/ ChunkedAt(p, pos) \/ MultipartAt(p, pos)
  BY <1>2
<1>4. PICK f, p \in 0..pos :
         /\ Rest = Positions(pos, taken) /\ HeadersAt(f, p)
         /\ LengthAt(p, pos) \/ ChunkedAt(p, pos) \/ MultipartAt(p, pos)
  BY <1>3
<1>5. /\ taken \in Nat /\ call \in CallsOfReceiver /\ NextMessage \in Nat
      /\ DOMAIN stream = 1..Len(stream)
  BY <1>2, Context
<1>6. pos \in Nat /\ f \in Nat /\ p \in Nat /\ p <= pos /\ pos <= taken
  BY <1>5
<1>7. Are(stream, NextMessage, {"blank"}, p - 1, p) /\ 0 < p
  BY <1>2, <1>4, <1>6, HeadersEnd
<1>8. MultipartAt(p, pos)
  BY <1>2, <1>4, BodyEvents
<1>9. /\ pos < taken /\ Are(stream, NextMessage, {"part", "mark"}, pos, pos + 1)
      /\ Now = Report("MULTIPART", 1, "multipart", 0)
  <2>1. \/ Now = Report("NONE", 0, "multipart", parser.left)
        \/ Now = Report("NONE", 0, "multipart", 0)
        \/ /\ pos < taken /\ Are(stream, NextMessage, {"part", "mark"}, pos, pos + 1)
           /\ Now = Report("MULTIPART", 1, "multipart", 0)
        \/ Now = Report("MESSAGE_COMPLETE", taken - pos, "start", 0)
        \/ Now = Report("ERROR", 0, "error", 0)
    BY <1>2, <1>4, <1>7, <1>8, NowMultipart
  <2>2. /\ Now # Report("NONE", 0, "multipart", parser.left)
        /\ Now # Report("NONE", 0, "multipart", 0)
        /\ Now # Report("MESSAGE_COMPLETE", taken - pos, "start", 0)
        /\ Now # Report("ERROR", 0, "error", 0)
    BY <1>2 DEF Report
  <2> QED
    BY <2>1, <2>2
<1>10. PICK q \in 0..taken : q = pos + 1
  BY <1>5, <1>6, <1>9
<1>11. /\ Now.parsed = 1 /\ Now.next.state = "multipart" /\ Now.next.left = 0
       /\ Now.next = [state |-> Now.next.state, left |-> Now.next.left]
  BY <1>9 DEF Report
<1>12. parts = Picked(stream, NextMessage, {"part"}, pos, q)
  <2>1. Taken = Positions(pos, q)
    <3>1. Now.parsed \in Nat /\ pos + Now.parsed <= taken /\ pos + Now.parsed = q
      BY <1>5, <1>6, <1>10, <1>11
    <3> QED
      BY <1>4, <1>5, <1>6, <3>1, TakenPositions
  <2> DEFINE T == {i \in DOMAIN stream : Kind(i) = "part"}
             V == {i \in DOMAIN stream : stream[i].message = NextMessage /\ stream[i].is \in {"part"}}
  <2>2. \A i \in (pos + 1)..q : i \in T <=> i \in V
    BY <1>9, <1>10 DEF Are, Kind
  <2>3. parts = Keeping(Positions(pos, q), T)
    BY <2>1
  <2> HIDE DEF T, V, parts
  <2>4. q \in Nat
    BY <1>5, <1>10
  <2>5. Keeping(Positions(pos, q), T) = Keeping(Positions(pos, q), V)
    BY <1>6, <2>2, <2>4, KeptSame
  <2> QED
    BY <2>3, <2>5 DEF Picked, V
<1>13. parts \in Seq(Nat) /\ call.body \in Seq(Nat) /\ q \in Nat
  <2>1. q \in Nat /\ call.body \in Seq(Nat)
    BY <1>5, <1>10, CallFields
  <2> HIDE DEF parts
  <2>2. parts \in Seq(Nat)
    BY <1>6, <1>12, <2>1, PickedTyped
  <2> QED
    BY <2>1, <2>2
<1> HIDE DEF parts
<1>14. body \in Seq(Nat)
  BY <1>13
<1> HIDE DEF body
<1>15. /\ next \in CallsOfReceiver /\ next.at = "parse" /\ next.source = call.source
       /\ next.kept = call.kept
       /\ next.headersCompleted = call.headersCompleted /\ next.isChunked = call.isChunked
       /\ next.isMultipart = call.isMultipart /\ next.contentLength = call.contentLength
       /\ next.head = call.head /\ next.body = body
  <2>1. "parse" \in Places
    BY DEF Places
  <2>2. IsFilled(WithBody(call, body), call, call.at, body)
    BY <1>5, <1>14, <2>1, FilledProperties
  <2> QED
    BY <1>2, <2>2 DEF IsFilled
<1> HIDE DEF next
<1>16. /\ call'.at = "parse" /\ call'.source = call.source /\ call'.kept = call.kept
       /\ call'.headersCompleted = call.headersCompleted /\ call'.isChunked = call.isChunked
       /\ call'.isMultipart = call.isMultipart /\ call'.contentLength = call.contentLength
       /\ call'.headerLength = call.headerLength
       /\ call'.head = call.head /\ call'.body = body
  <2>1. IsAdvanced(call', next, call.offset + Now.parsed, HeaderLength)
    BY <1>1, <1>2, <1>11, <1>15, GoOnMoves
  <2> QED
    BY <1>2, <1>15, <2>1 DEF IsAdvanced
<1>17. /\ stream' = stream /\ preserve' = preserve /\ got' = got /\ taken' = taken
       /\ buffer' = buffer /\ parser' = Now.next
  BY <1>1 DEF GoOn
<1>18. HeadersAt(f, p)'
  <2>1. call'.contentLength <= MaxContentLength
    BY <1>4, <1>16 DEF HeadersAt
  <2> QED
    BY <1>4, <1>16, <1>17, <2>1, HeadersStay
<1>19. MultipartAt(p, q)'
  <2>1. Are(stream, NextMessage, {"part", "mark"}, p, q)
    BY <1>6, <1>8, <1>9, <1>10, AreOneMore DEF MultipartAt
  <2>2. NextMessage' = NextMessage
    BY <1>17 DEF NextMessage
  <2>3. /\ stream[p].body = "multipart" /\ parser'.state = "multipart"
        /\ call'.contentLength = stream[p].n
    BY <1>8, <1>11, <1>16, <1>17 DEF MultipartAt
  <2>4. CASE ~preserve
    <3>1. /\ call.source = "buffer"
          /\ call.body = Picked(stream, NextMessage, {"part"}, p, pos)
      BY <1>8, <2>4 DEF MultipartAt, ReadsBuffer
    <3>2. body = call.body \o parts
      BY <3>1 DEF body
    <3>3. body = Picked(stream, NextMessage, {"part"}, p, q)
      <4>1. Picked(stream, NextMessage, {"part"}, p, pos)
              \o Picked(stream, NextMessage, {"part"}, pos, pos + 1)
                = Picked(stream, NextMessage, {"part"}, p, pos + 1)
        BY <1>6, PickedOneMore
      <4>2. Picked(stream, NextMessage, {"part"}, p, pos)
              \o Picked(stream, NextMessage, {"part"}, pos, q)
                = Picked(stream, NextMessage, {"part"}, p, q)
        BY <1>10, <4>1
      <4> QED
        BY <1>12, <3>1, <3>2, <4>2
    <3>4. ReadsBuffer'
      BY <1>16, <3>1 DEF ReadsBuffer
    <3> QED
      BY <1>16, <1>17, <2>1, <2>2, <2>3, <2>4, <3>3, <3>4 DEF MultipartAt
  <2>5. CASE preserve
    <3>1. /\ call.source = "body" /\ call.kept = Len(buffer)
          /\ call.body = Positions(p, taken) /\ taken >= p + call.contentLength
      BY <1>2, <1>8, <2>5 DEF MultipartAt
    <3>2. body = call.body
      BY <3>1 DEF body
    <3> QED
      BY <1>16, <1>17, <2>1, <2>2, <2>3, <2>5, <3>1, <3>2 DEF MultipartAt
  <2> QED
    BY <2>4, <2>5
<1>20. IsAt(q)'
  <2>1. f \in 0..q /\ p \in 0..q
    BY <1>6, <1>10
  <2> QED
    BY <1>18, <1>19, <2>1 DEF IsAt
<1>21. /\ Now.parsed \in Nat /\ q = pos + Now.parsed /\ q <= taken
       /\ Now.next.state \in ParserStates /\ Now.next.left \in Nat
       /\ next.source = "body" => next.body = call.body
  <2>1. "multipart" \in ParserStates
    BY DEF ParserStates
  <2>2. next.source = "body" => next.body = call.body
    BY <1>15 DEF body
  <2> QED
    BY <1>5, <1>6, <1>10, <1>11, <2>1, <2>2
<1> QED
  BY <1>1, <1>2, <1>4, <1>11, <1>13, <1>15, <1>20, <1>21, GoesOnBehind

\* The bytes of a body, as far as there are any.
LEMMA DataReport ==
    ASSUME NEW left \in Nat, NEW n \in Nat, NEW state, NEW after
    PROVE  /\ left <= n => ParseData(left, n, state, after) = Report("BODY", left, after, 0)
           /\ n < left => ParseData(left, n, state, after) = Report("BODY", n, state, left - n)
<1>1. ASSUME left <= n
      PROVE  ParseData(left, n, state, after) = Report("BODY", left, after, 0)
  <2>1. CASE left < n
    <3>1. Least(left, n) = left
      BY <2>1 DEF Least
    <3>2. left - left = 0
      OBVIOUS
    <3>3. ParseData(left, n, state, after) = Report("BODY", Least(left, n), after, left - Least(left, n))
      BY <1>1 DEF ParseData
    <3> QED
      BY <3>1, <3>2, <3>3
  <2>2. CASE ~(left < n)
    <3>1. left = n /\ Least(left, n) = left
      BY <1>1, <2>2 DEF Least
    <3>2. left - left = 0
      OBVIOUS
    <3>3. ParseData(left, n, state, after) = Report("BODY", Least(left, n), after, left - Least(left, n))
      BY <1>1 DEF ParseData
    <3> QED
      BY <3>1, <3>2, <3>3
  <2> QED
    BY <2>1, <2>2
<1>2. ASSUME n < left
      PROVE  ParseData(left, n, state, after) = Report("BODY", n, state, left - n)
  <2>1. Least(left, n) = n
    BY <1>2 DEF Least
  <2>2. ~(left <= n)
    BY <1>2
  <2>3. ParseData(left, n, state, after) = Report("BODY", Least(left, n), state, left - Least(left, n))
    BY <2>2 DEF ParseData
  <2> QED
    BY <2>1, <2>3
<1> QED
  BY <1>1, <1>2

\* Where the call is when the parser is past the headers.
LEMMA InTheBody ==
    ASSUME ReceiverInv, NEW event, On(event),
           event \in {"MULTIPART", "BODY", "CHUNK_HEADER", "CHUNK_COMPLETE", "MESSAGE_COMPLETE"}
    PROVE  /\ call.at = "parse" /\ Now.event = event /\ ReceiverTyped /\ given_up = "no"
           /\ HeaderLength = call.headerLength /\ call.headerLength \in Nat
           /\ taken \in Nat /\ call \in CallsOfReceiver /\ NextMessage \in Nat
           /\ taken <= Len(stream) /\ Len(stream) \in Nat
           /\ \E pos \in 0..taken : \E f, p \in 0..taken :
                 /\ Rest = Positions(pos, taken) /\ HeadersAt(f, p)
                 /\ f < p /\ p <= pos
                 /\ Are(stream, NextMessage, {"blank"}, p - 1, p)
                 /\ p \in DOMAIN stream /\ stream[p].n \in Nat
                 /\ \/ LengthAt(p, pos) /\ event \in {"BODY", "MESSAGE_COMPLETE"}
                    \/ ChunkedAt(p, pos) /\ event \in {"CHUNK_HEADER", "BODY", "CHUNK_COMPLETE"}
                    \/ MultipartAt(p, pos) /\ event \in {"MULTIPART", "MESSAGE_COMPLETE"}
<1>1. /\ call.at = "parse" /\ Now.event = event /\ ReceiverTyped /\ given_up = "no"
      /\ HeaderLength = call.headerLength
      /\ \E pos \in 0..taken : \E f, p \in 0..pos :
            /\ Rest = Positions(pos, taken) /\ HeadersAt(f, p)
            /\ LengthAt(p, pos) \/ ChunkedAt(p, pos) \/ MultipartAt(p, pos)
  BY PastTheHeaders
<1>2. PICK pos \in 0..taken : \E f, p \in 0..pos :
         /\ Rest = Positions(pos, taken) /\ HeadersAt(f, p)
         /\ LengthAt(p, pos) \/ ChunkedAt(p, pos) \/ MultipartAt(p, pos)
  BY <1>1
<1>3. PICK f, p \in 0..pos :
         /\ Rest = Positions(pos, taken) /\ HeadersAt(f, p)
         /\ LengthAt(p, pos) \/ ChunkedAt(p, pos) \/ MultipartAt(p, pos)
  BY <1>2
<1>4. /\ taken \in Nat /\ call \in CallsOfReceiver /\ NextMessage \in Nat
      /\ taken <= Len(stream) /\ Len(stream) \in Nat
  BY <1>1, Context
<1>5. pos \in Nat /\ f \in Nat /\ p \in Nat /\ p <= pos /\ f \in 0..taken /\ p \in 0..taken
  BY <1>4
<1>6. /\ Are(stream, NextMessage, {"blank"}, p - 1, p) /\ f < p
      /\ p \in DOMAIN stream /\ stream[p].n \in Nat
  BY <1>1, <1>3, <1>5, HeadersEnd
<1>7. /\ LengthAt(p, pos) => Now.event \in {"NONE", "BODY", "MESSAGE_COMPLETE"}
      /\ ChunkedAt(p, pos) =>
            Now.event \in {"NONE", "CHUNK_HEADER", "BODY", "CHUNK_COMPLETE", "ERROR"}
      /\ MultipartAt(p, pos) =>
            Now.event \in {"NONE", "MULTIPART", "MESSAGE_COMPLETE", "ERROR"}
  BY <1>1, <1>3, BodyEvents
<1>8. \/ LengthAt(p, pos) /\ event \in {"BODY", "MESSAGE_COMPLETE"}
      \/ ChunkedAt(p, pos) /\ event \in {"CHUNK_HEADER", "BODY", "CHUNK_COMPLETE"}
      \/ MultipartAt(p, pos) /\ event \in {"MULTIPART", "MESSAGE_COMPLETE"}
  BY <1>1, <1>3, <1>7
<1>9. call.headerLength \in Nat
  BY <1>4, CallFields
<1> QED
  BY <1>1, <1>3, <1>4, <1>5, <1>6, <1>8, <1>9

\* The message whose headers are there and whose body ends at z.
LEMMA MessageRead ==
    ASSUME ReceiverTyped, NEW f \in Nat, NEW p \in Nat, NEW z \in Nat, HeadersAt(f, p),
           p <= z, z <= Len(stream), StartsBehind(stream, NextMessage + 1, z),
           Are(stream, NextMessage, BodyKinds, p, z),
           Len(Picked(stream, NextMessage, {"data", "part", "mark", "close", "epilogue", "junk"}, p, z))
              <= MaxContentLength
    PROVE  /\ SentIn(stream, preserve, NextMessage) =
                 [head |-> call.head,
                  body |-> Picked(stream, NextMessage, KeptOfBody(preserve), p, z)]
           /\ ~TooLargeIn(stream, NextMessage, 0)
           /\ AreDone(stream, NextMessage, z)
<1>1. IsStream(stream) /\ NextMessage \in Nat /\ MaxHeaderLength \in Nat
  BY Context
<1>2. f < p /\ 0 < p /\ Are(stream, NextMessage, {"blank"}, p - 1, p)
  BY HeadersEnd
<1>3. /\ StartsBehind(stream, NextMessage, f) /\ call.head = Positions(f, p)
      /\ Are(stream, NextMessage, {"head"}, f, p - 1) /\ p - f <= MaxHeaderLength
  BY DEF HeadersAt
<1>4. Are(stream, NextMessage, {"head", "blank"}, f, p)
  <2> DEFINE a == p - 1
  <2>1. a \in Nat /\ Are(stream, NextMessage, {"head"}, f, a) /\ Are(stream, NextMessage, {"blank"}, a, p)
    BY <1>2, <1>3
  <2> HIDE DEF a
  <2>2. Are(stream, NextMessage, {"head", "blank"}, f, a) /\ Are(stream, NextMessage, {"head", "blank"}, a, p)
    BY <2>1, AreMore
  <2> QED
    BY <2>1, <2>2, AreJoin
<1>5. Are(stream, NextMessage, HeaderKinds, f, p)
  <2>1. {"head", "blank"} \subseteq HeaderKinds
    BY DEF HeaderKinds
  <2> QED
    BY <1>4, <2>1, AreMore
<1>6. Consists(stream, NextMessage, f, p, z)
  BY <1>2, <1>3, <1>5 DEF Consists
<1>7. Len(Picked(stream, NextMessage, {"head", "blank"}, f, p)) <= MaxHeaderLength
  <2>1. Picked(stream, NextMessage, {"head", "blank"}, f, p) = Positions(f, p)
    BY <1>4, PickedAll
  <2>2. Len(Positions(f, p)) = p - f
    BY <1>2, PositionsProperties
  <2> QED
    BY <1>3, <2>1, <2>2
<1>8. ~TooLargeIn(stream, NextMessage, 0)
  BY <1>1, <1>6, <1>7, WithinLimits
<1>9. SentIn(stream, preserve, NextMessage) =
         [head |-> Positions(f, p),
          body |-> Picked(stream, NextMessage, KeptOfBody(preserve), p, z)]
  BY <1>1, <1>6, SentPieces
<1> QED
  BY <1>3, <1>8, <1>9 DEF AreDone

\* The message whose body has a length.
LEMMA LengthRead ==
    ASSUME ReceiverTyped, NEW f \in Nat, NEW p \in Nat, HeadersAt(f, p),
           stream[p].body \notin {"chunked", "multipart"}, call.contentLength = stream[p].n,
           NEW z \in Nat, z = p + call.contentLength
    PROVE  /\ SentIn(stream, preserve, NextMessage) =
                 [head |-> call.head, body |-> Positions(p, z)]
           /\ ~TooLargeIn(stream, NextMessage, 0)
           /\ AreDone(stream, NextMessage, z)
           /\ z <= Len(stream)
<1>1. /\ IsStream(stream) /\ NextMessage \in Nat /\ MaxContentLength \in Nat
      /\ DOMAIN stream = 1..Len(stream) /\ Len(stream) \in Nat /\ call \in CallsOfReceiver
  BY Context
<1>2. call.contentLength \in Nat /\ call.contentLength <= MaxContentLength
  BY <1>1, CallFields DEF HeadersAt
<1>3. p \in DOMAIN stream /\ stream[p].message = NextMessage /\ stream[p].is = "blank"
  BY HeadersEnd
<1>4. /\ Are(stream, NextMessage, {"data"}, p, p + stream[p].n)
      /\ p + stream[p].n \in DOMAIN stream
      /\ StartsBehind(stream, NextMessage + 1, p + stream[p].n)
  BY <1>1, <1>3, LengthOf
<1>5. /\ Are(stream, NextMessage, {"data"}, p, z) /\ z <= Len(stream) /\ p <= z
      /\ StartsBehind(stream, NextMessage + 1, z)
  <2>1. z = p + stream[p].n
    OBVIOUS
  <2>2. z \in DOMAIN stream /\ p <= z
    BY <1>2, <1>4, <2>1
  <2> QED
    BY <1>1, <1>4, <2>1, <2>2
<1>6. Are(stream, NextMessage, BodyKinds, p, z)
  <2>1. {"data"} \subseteq BodyKinds
    BY DEF BodyKinds
  <2> QED
    BY <1>5, <2>1, AreMore
<1>7. Len(Picked(stream, NextMessage, {"data", "part", "mark", "close", "epilogue", "junk"}, p, z))
         <= MaxContentLength
  <2>1. Picked(stream, NextMessage, {"data", "part", "mark", "close", "epilogue", "junk"}, p, z)
           = Positions(p, z)
    BY <1>5, PickedAll
  <2>2. Len(Positions(p, z)) = IF p <= z THEN z - p ELSE 0
    BY PositionsProperties
  <2>3. z - p <= MaxContentLength /\ p <= z
    BY <1>2, <1>5
  <2> QED
    BY <2>1, <2>2, <2>3
<1>8. Picked(stream, NextMessage, KeptOfBody(preserve), p, z) = Positions(p, z)
  <2> DEFINE K == KeptOfBody(preserve)
  <2>1. {"data"} \subseteq K
    BY DEF KeptOfBody
  <2> HIDE DEF K
  <2>2. Picked(stream, NextMessage, K, p, z) = Positions(p, z)
    BY <1>5, <2>1, PickedAll
  <2> QED
    BY <2>2 DEF K
<1> QED
  BY <1>5, <1>6, <1>7, <1>8, MessageRead

\* How long the buffer is, when it ends with what was taken.
LEMMA BufferEnds ==
    ASSUME ReceiverTyped, NEW offset \in Nat, NEW pos \in Nat,
           After(buffer, offset) = Positions(pos, taken)
    PROVE  /\ pos < taken => Len(buffer) = offset + taken - pos
           /\ taken <= pos => Len(buffer) <= offset
<1>1. taken \in Nat /\ buffer \in Seq(Nat) /\ Len(buffer) \in Nat
  BY Context
<1>2. Len(Positions(pos, taken)) = IF pos <= taken THEN taken - pos ELSE 0
  BY <1>1, PositionsProperties
<1>3. Len(After(buffer, offset)) = IF offset <= Len(buffer) THEN Len(buffer) - offset ELSE 0
  BY <1>1, AfterProperties
<1> QED
  BY <1>1, <1>2, <1>3

\* What was not parsed yet of the buffer, when n more bytes of it were.
LEMMA LeftBehind ==
    ASSUME ReceiverTyped, NEW pos \in Nat, Rest = Positions(pos, taken),
           call.source = "buffer", NEW n \in Nat, NEW q \in Nat, q = pos + n, q <= taken
    PROVE  /\ call.offset + n \in Nat
           /\ After(buffer, call.offset + n) = Positions(q, taken)
<1>1. taken \in Nat /\ buffer \in Seq(Nat) /\ call \in CallsOfReceiver
  BY Context
<1> DEFINE o == call.offset
<1>2. o \in Nat
  BY <1>1, CallFields
<1>3. Rest = After(buffer, o)
  BY DEF Rest, Source
<1> HIDE DEF o
<1>4. After(After(buffer, o), n) = After(buffer, o + n)
  BY <1>1, <1>2, AfterAfter
<1>5. After(Positions(pos, taken), n) = Positions(pos + n, taken)
  <2>1. pos <= taken /\ n \in 0..(taken - pos)
    BY <1>1
  <2> QED
    BY <1>1, <2>1, PositionsAfter
<1>6. After(buffer, o + n) = Positions(q, taken) /\ o + n \in Nat
  BY <1>2, <1>3, <1>4, <1>5
<1> QED
  BY <1>6 DEF o

\* Bytes of a body with a length: all of it, or all that is in the buffer.
LEMMA BodyInv ==
    ASSUME ReceiverInv, Body
    PROVE  ReceiverInv'
<1>1. /\ On("BODY") /\ ~call.isChunked
      /\ IF Now.parsed < call.contentLength
         THEN GoOn(WithBodyAt(call, Taken, "body"))
         ELSE /\ Deliver(call.head, Taken, call.offset + Now.parsed)
              /\ parser' = Reset /\ taken' = taken
  BY DEF Body, WithBodyAt, WithBody
<1>2. /\ call.at = "parse" /\ Now.event = "BODY" /\ ReceiverTyped /\ given_up = "no"
      /\ HeaderLength = call.headerLength /\ call.headerLength \in Nat
      /\ taken \in Nat /\ call \in CallsOfReceiver /\ NextMessage \in Nat
      /\ taken <= Len(stream) /\ Len(stream) \in Nat
      /\ \E pos \in 0..taken : \E f, p \in 0..taken :
            /\ Rest = Positions(pos, taken) /\ HeadersAt(f, p)
            /\ f < p /\ p <= pos
            /\ Are(stream, NextMessage, {"blank"}, p - 1, p)
            /\ p \in DOMAIN stream /\ stream[p].n \in Nat
            /\ LengthAt(p, pos) \/ ChunkedAt(p, pos)
  <2>1. "BODY" \in {"MULTIPART", "BODY", "CHUNK_HEADER", "CHUNK_COMPLETE", "MESSAGE_COMPLETE"}
    OBVIOUS
  <2> QED
    BY <1>1, <2>1, InTheBody
<1>3. PICK pos \in 0..taken : \E f, p \in 0..taken :
         /\ Rest = Positions(pos, taken) /\ HeadersAt(f, p)
         /\ f < p /\ p <= pos
         /\ Are(stream, NextMessage, {"blank"}, p - 1, p)
         /\ p \in DOMAIN stream /\ stream[p].n \in Nat
         /\ LengthAt(p, pos) \/ ChunkedAt(p, pos)
  BY <1>2
<1>4. PICK f, p \in 0..taken :
         /\ Rest = Positions(pos, taken) /\ HeadersAt(f, p)
         /\ f < p /\ p <= pos
         /\ Are(stream, NextMessage, {"blank"}, p - 1, p)
         /\ p \in DOMAIN stream /\ stream[p].n \in Nat
         /\ LengthAt(p, pos) \/ ChunkedAt(p, pos)
  BY <1>3
<1>5. LengthAt(p, pos)
  <2>1. ~ChunkedAt(p, pos)
    BY <1>1, <1>4 DEF HeadersAt, ChunkedAt
  <2> QED
    BY <1>4, <2>1
<1>6. /\ parser.state = "body" /\ parser.left = call.contentLength /\ parser.left > 0
      /\ pos = p /\ pos < taken
      /\ Now = ParseData(parser.left, taken - pos, "body", "complete")
  <2>1. \/ /\ parser.state = "complete" /\ call.contentLength = 0
           /\ pos = p /\ call.body = <<>>
           /\ Now = Report("MESSAGE_COMPLETE", 0, "start", 0)
        \/ /\ parser.state = "body" /\ parser.left = call.contentLength /\ parser.left > 0
           /\ pos = p /\ call.body = <<>>
           /\ \/ pos = taken /\ Now = Report("NONE", 0, "body", parser.left)
              \/ /\ pos < taken
                 /\ Now = ParseData(parser.left, taken - pos, "body", "complete")
    BY <1>2, <1>4, <1>5, NowLength
  <2>2. /\ Now # Report("MESSAGE_COMPLETE", 0, "start", 0)
        /\ Now # Report("NONE", 0, "body", parser.left)
    BY <1>2 DEF Report
  <2> QED
    BY <2>1, <2>2
<1> DEFINE total == call.contentLength
           n == taken - p
<1>7. /\ total \in Nat /\ total > 0 /\ n \in Nat /\ n > 0 /\ p \in Nat /\ f \in Nat
      /\ taken = p + n
  <2>1. total \in Nat
    BY <1>2, CallFields
  <2>2. total > 0 /\ p < taken
    BY <1>6
  <2> HIDE DEF total
  <2> QED
    BY <1>2, <2>1, <2>2
<1>8. Now = ParseData(total, n, "body", "complete")
  BY <1>6
<1>9. /\ stream[p].body \notin {"chunked", "multipart"} /\ call.source = "buffer"
      /\ total = stream[p].n
  BY <1>5 DEF LengthAt
<1>10. Rest = Positions(p, taken)
  BY <1>4, <1>6
<1> HIDE DEF n
<1>11. CASE n < total
  <2> DEFINE left == total - n
             next == WithBodyAt(call, Taken, "body")
  <2>1. Now = Report("BODY", n, "body", left)
    <3> HIDE DEF total
    <3> QED
      BY <1>7, <1>8, <1>11, DataReport
  <2>2. left \in Nat /\ left = p + total - taken
    BY <1>7, <1>11
  <2> HIDE DEF left
  <2>3. /\ Now.parsed = n /\ Now.next.state = "body" /\ Now.next.left = left
        /\ Now.next = [state |-> Now.next.state, left |-> Now.next.left]
    BY <2>1 DEF Report
  <2>4. GoOn(next)
    BY <1>1, <1>11, <2>3
  <2>5. Taken = Positions(p, taken) /\ Positions(p, taken) \in Seq(Nat)
    <3>1. Now.parsed \in Nat /\ p + Now.parsed <= taken /\ p + Now.parsed = taken
      BY <1>2, <1>7, <2>3
    <3>2. Taken = Positions(p, p + Now.parsed)
      BY <1>2, <1>7, <1>10, <3>1, TakenPositions
    <3> QED
      BY <1>2, <1>7, <3>1, <3>2, PositionsProperties
  <2>6. IsFilled(next, call, "body", Positions(p, taken))
    <3>1. "body" \in Places
      BY DEF Places
    <3> DEFINE body == Positions(p, taken)
    <3>2. body \in Seq(Nat) /\ next = WithBodyAt(call, body, "body")
      BY <2>5
    <3> HIDE DEF body, next
    <3>3. IsFilled(WithBodyAt(call, body, "body"), call, "body", body)
      BY <1>2, <3>1, <3>2, FilledProperties
    <3> QED
      BY <3>2, <3>3 DEF body
  <2> HIDE DEF next
  <2>7. /\ next \in CallsOfReceiver /\ next.at = "body" /\ next.source = call.source
    BY <2>6 DEF IsFilled
  <2>8. /\ call'.at = "body" /\ call'.source = call.source
        /\ call'.offset = call.offset + n
        /\ call'.headersCompleted = call.headersCompleted /\ call'.isChunked = call.isChunked
        /\ call'.isMultipart = call.isMultipart /\ call'.contentLength = total
        /\ call'.headerLength = call.headerLength
        /\ call'.head = call.head /\ call'.body = Positions(p, taken)
    <3>1. IsAdvanced(call', next, call.offset + Now.parsed, HeaderLength)
      BY <1>2, <1>7, <2>3, <2>4, <2>7, GoOnMoves
    <3> QED
      BY <1>2, <2>3, <2>6, <3>1 DEF IsAdvanced, IsFilled
  <2>9. /\ stream' = stream /\ preserve' = preserve /\ got' = got /\ taken' = taken
        /\ buffer' = buffer /\ parser' = Now.next
    BY <2>4 DEF GoOn
  <2>10. HeadersAt(f, p)'
    <3>1. call'.contentLength <= MaxContentLength
      BY <1>4, <2>8 DEF HeadersAt
    <3> QED
      BY <1>4, <2>8, <2>9, <3>1, HeadersStay
  <2>11. PICK q \in 0..taken : q = taken
    BY <1>2
  <2>12. LengthAt(p, q)'
    <3>1. Len(buffer) = call.offset + n
      <4> DEFINE o == call.offset
      <4>1. o \in Nat
        BY <1>2, CallFields
      <4>2. After(buffer, o) = Positions(p, taken)
        BY <1>9, <1>10 DEF Rest, Source
      <4> HIDE DEF o
      <4>3. p < taken
        BY <1>7
      <4>4. Len(buffer) = o + taken - p
        BY <1>2, <1>7, <4>1, <4>2, <4>3, BufferEnds
      <4>5. Len(buffer) = o + n
        BY <1>2, <1>7, <4>1, <4>4
      <4> QED
        BY <4>5 DEF o
    <3>2. Len(buffer') <= call'.offset
      <4>1. Len(buffer) \in Nat
        BY <1>2, Context
      <4> QED
        BY <2>8, <2>9, <3>1, <4>1
    <3>3. /\ q = taken' /\ p <= q /\ q < p + call'.contentLength
          /\ parser'.left = p + call'.contentLength - q
      BY <1>7, <1>11, <2>2, <2>3, <2>8, <2>9, <2>11
    <3>4. /\ stream'[p].body \notin {"chunked", "multipart"} /\ call'.source = "buffer"
          /\ call'.contentLength = stream'[p].n
          /\ parser'.state = "body" /\ call'.at = "body" /\ call'.body = Positions(p, q)
      BY <1>9, <2>3, <2>8, <2>9, <2>11
    <3> QED
      BY <3>2, <3>3, <3>4 DEF LengthAt
  <2>13. IsAt(q)'
    <3>1. f \in 0..q /\ p \in 0..q
      BY <1>4, <2>11
    <3> QED
      BY <2>10, <2>12, <3>1 DEF IsAt
  <2>14. /\ Now.parsed \in Nat /\ q \in Nat /\ q = pos + Now.parsed /\ q <= taken
         /\ Now.next.state \in ParserStates /\ Now.next.left \in Nat
         /\ next.source = "body" => next.body = call.body
         /\ next.at \in {"parse", "body", "chunk"}
    <3>1. "body" \in ParserStates
      BY DEF ParserStates
    <3>2. next.source # "body"
      BY <1>9, <2>7
    <3>3. Now.parsed \in Nat /\ q \in Nat /\ q = pos + Now.parsed /\ q <= taken
      BY <1>2, <1>6, <1>7, <2>3, <2>11
    <3> QED
      BY <2>2, <2>3, <2>7, <3>1, <3>2, <3>3
  <2> QED
    BY <1>2, <1>4, <2>3, <2>4, <2>7, <2>13, <2>14, GoesOnBehind
<1>12. CASE ~(n < total)
  <2>1. Now = Report("BODY", total, "complete", 0)
    <3>1. total <= n
      BY <1>7, <1>12
    <3> HIDE DEF total
    <3> QED
      BY <1>7, <1>8, <3>1, DataReport
  <2>2. Now.parsed = total
    BY <2>1 DEF Report
  <2>3. /\ Deliver(call.head, Taken, call.offset + total)
        /\ parser' = Reset /\ taken' = taken
    <3>1. ~(total < total)
      BY <1>7
    <3> QED
      BY <1>1, <2>2, <3>1
  <2>4. PICK z \in 0..taken : z = p + total
    BY <1>7, <1>12
  <2>5. Taken = Positions(p, z)
    <3>1. Now.parsed \in Nat /\ p + Now.parsed <= taken /\ p + Now.parsed = z
      BY <1>2, <1>7, <2>2, <2>4
    <3> QED
      BY <1>2, <1>7, <1>10, <3>1, TakenPositions
  <2>6. z \in Nat /\ z <= taken
    BY <1>2, <2>4
  <2>7. /\ SentIn(stream, preserve, NextMessage) =
              [head |-> call.head, body |-> Positions(p, z)]
        /\ ~TooLargeIn(stream, NextMessage, 0)
        /\ AreDone(stream, NextMessage, z)
    BY <1>2, <1>4, <1>7, <1>9, <2>4, <2>6, LengthRead
  <2>8. /\ call.offset + total \in Nat
        /\ After(buffer, call.offset + total) = Positions(z, taken)
    <3>1. call.source = "buffer" /\ total \in Nat /\ p \in Nat
      BY <1>7, <1>9
    <3> HIDE DEF total
    <3> QED
      BY <1>2, <1>10, <2>4, <2>6, <3>1, LeftBehind
  <2>9. SentInTime'
    <3>1. stream' = stream /\ Len(got') = Len(got) + 1
      <4> DEFINE e == [head |-> call.head, body |-> Taken]
      <4>1. got' = Append(got, e) /\ stream' = stream
        BY <2>3 DEF Deliver
      <4> HIDE DEF e
      <4>2. got \in Seq([head : Seq(Nat), body : Seq(Nat)])
        BY <1>2 DEF ReceiverTyped
      <4> QED
        BY <4>1, <4>2
    <3> QED
      BY <2>3, <3>1, StillInTime
  <2>10. /\ parser' \in [state : ParserStates, left : Nat] /\ parser'.state = "start"
         /\ taken' \in 0..Len(stream) /\ z \in 0..taken'
    <3>1. Reset \in [state : ParserStates, left : Nat] /\ Reset.state = "start"
      BY DEF Reset, ParserStates
    <3> QED
      BY <1>2, <2>3, <2>4, <3>1
  <2>11. call.head \in Seq(Nat) /\ Taken \in Seq(Nat)
    BY <1>2, <1>7, <2>5, <2>6, CallFields, PositionsProperties
  <2> DEFINE o == call.offset + total
  <2>12. o \in Nat /\ Deliver(call.head, Taken, o) /\ After(buffer, o) = Positions(z, taken')
    BY <2>3, <2>8
  <2>13. [head |-> call.head, body |-> Taken] = SentIn(stream, preserve, NextMessage)
    BY <2>5, <2>7
  <2> HIDE DEF o
  <2> QED
    BY <1>2, <2>7, <2>9, <2>10, <2>11, <2>12, <2>13, Delivers
<1> QED
  BY <1>11, <1>12

\* One message more was returned.
LEMMA DeliversOne ==
    ASSUME ReceiverTyped, NEW head, NEW body, NEW offset, Deliver(head, body, offset)
    PROVE  stream' = stream /\ preserve' = preserve /\ Len(got') = Len(got) + 1
<1> DEFINE e == [head |-> head, body |-> body]
<1>1. got' = Append(got, e) /\ stream' = stream /\ preserve' = preserve
  BY DEF Deliver
<1> HIDE DEF e
<1>2. got \in Seq([head : Seq(Nat), body : Seq(Nat)])
  BY DEF ReceiverTyped
<1> QED
  BY <1>1, <1>2

\* The message of the call is returned, and the parser is reset.
LEMMA HandsOver ==
    ASSUME ReceiverInv, call.at # "none",
           NEW body \in Seq(Nat), NEW offset \in Nat, Deliver(call.head, body, offset),
           parser' = Reset, SentInTime', taken' \in 0..Len(stream),
           NEW z \in 0..taken', After(buffer, offset) = Positions(z, taken'),
           SentIn(stream, preserve, NextMessage) = [head |-> call.head, body |-> body],
           ~TooLargeIn(stream, NextMessage, 0), AreDone(stream, NextMessage, z)
    PROVE  ReceiverInv'
<1>1. ReceiverTyped
  BY Calling
<1>2. parser' \in [state : ParserStates, left : Nat] /\ parser'.state = "start"
  BY DEF Reset, ParserStates
<1>3. call.head \in Seq(Nat)
  BY <1>1, Context, CallFields
<1> DEFINE head == call.head
<1>4. /\ head \in Seq(Nat) /\ Deliver(head, body, offset)
      /\ [head |-> head, body |-> body] = SentIn(stream, preserve, NextMessage)
  BY <1>3
<1> HIDE DEF head
<1> QED
  BY <1>2, <1>4, Delivers

\* Where the call is when it reads the rest of a body or of a chunk.
LEMMA ReadingOn ==
    ASSUME ReceiverInv, call.at \in {"body", "chunk"}
    PROVE  /\ ReceiverTyped /\ given_up = "no"
           /\ taken \in Nat /\ call \in CallsOfReceiver /\ NextMessage \in Nat
           /\ taken <= Len(stream) /\ Len(stream) \in Nat
           /\ After(buffer, call.offset) = <<>> /\ call.source = "buffer"
           /\ \E f, p \in 0..taken :
                 /\ HeadersAt(f, p) /\ f < p
                 /\ Are(stream, NextMessage, {"blank"}, p - 1, p)
                 /\ p \in DOMAIN stream /\ stream[p].n \in Nat
                 /\ call.at = "body" => LengthAt(p, taken)
                 /\ call.at = "chunk" => ChunkedAt(p, taken)
<1>1. ReceiverTyped /\ given_up = "no" /\ Follows
  BY Calling
<1>2. /\ taken \in Nat /\ call \in CallsOfReceiver /\ NextMessage \in Nat
      /\ taken <= Len(stream) /\ Len(stream) \in Nat /\ buffer \in Seq(Nat)
  BY <1>1, Context
<1>3. PICK pos \in 0..taken : Unread = Positions(pos, taken) /\ IsAt(pos)
  BY <1>1 DEF Follows
<1>4. PICK f, p \in 0..pos :
         HeadersAt(f, p) /\ (LengthAt(p, pos) \/ ChunkedAt(p, pos) \/ MultipartAt(p, pos))
  <2>1. ~NoCallAt(pos) /\ ~FrameAt(pos) /\ ~PayloadAt(pos)
    <3>1. NoCall.at = "none" /\ [NoCall EXCEPT !.at = "frame", !.offset = parsedOffset].at = "frame"
      BY DEF NoCall
    <3> QED
      BY <3>1 DEF NoCallAt, FrameAt, PayloadAt
  <2>2. ~StartAt(pos) /\ ~HeadAt(pos)
    BY DEF StartAt, HeadAt, ReadsBuffer
  <2> QED
    BY <1>3, <2>1, <2>2 DEF IsAt
<1>5. /\ call.at = "body" => LengthAt(p, pos) /\ pos = taken /\ Len(buffer) <= call.offset
      /\ call.at = "chunk" => ChunkedAt(p, pos) /\ pos = taken /\ Len(buffer) <= call.offset
  <2>1. ~MultipartAt(p, pos)
    BY DEF MultipartAt, ReadsBuffer
  <2>2. LengthAt(p, pos) => call.at = "body" /\ pos = taken /\ Len(buffer) <= call.offset
    BY DEF LengthAt
  <2>3. ChunkedAt(p, pos) => call.at = "chunk" /\ pos = taken /\ Len(buffer) <= call.offset
    BY DEF ChunkedAt
  <2> QED
    BY <1>4, <2>1, <2>2, <2>3
<1>6. pos = taken /\ Len(buffer) <= call.offset /\ call.source = "buffer"
  BY <1>5 DEF LengthAt, ChunkedAt
<1>7. f \in Nat /\ p \in Nat /\ f \in 0..taken /\ p \in 0..taken
  BY <1>2, <1>6
<1>8. /\ Are(stream, NextMessage, {"blank"}, p - 1, p) /\ f < p
      /\ p \in DOMAIN stream /\ stream[p].n \in Nat
  BY <1>1, <1>4, <1>7, HeadersEnd
<1>9. After(buffer, call.offset) = <<>>
  <2> DEFINE o == call.offset
  <2>1. o \in Nat /\ Len(buffer) <= o
    BY <1>2, <1>6, CallFields
  <2> HIDE DEF o
  <2>2. After(buffer, o) = <<>>
    BY <1>2, <2>1, AfterAll
  <2> QED
    BY <2>2 DEF o
<1> QED
  BY <1>1, <1>2, <1>4, <1>5, <1>6, <1>7, <1>8, <1>9

\* What the parser says of the rest of a body or of a chunk, all of it.
LEMMA ParseRest ==
    ASSUME ReceiverTyped, NEW n \in Nat, n > 0, parser.left = n
    PROVE  /\ parser.state = "body" =>
                 Parse(parser, Incoming(n)) = Report("BODY", n, "complete", 0)
           /\ parser.state = "chunk" =>
                 Parse(parser, Incoming(n)) = Report("BODY", n, "end", 0)
<1> DEFINE b == taken + n
           p == parser
<1>1. taken \in Nat
  BY Context
<1>2. b \in Nat /\ taken < b /\ Incoming(n) = Positions(taken, b) /\ b - taken = n
  BY <1>1 DEF Incoming
<1>3. p.left = n /\ p.left \in Nat
  OBVIOUS
<1> HIDE DEF b, p
<1>4. /\ ParseData(p.left, n, "body", "complete") = Report("BODY", n, "complete", 0)
      /\ ParseData(p.left, n, "chunk", "end") = Report("BODY", n, "end", 0)
  BY <1>3, DataReport
<1>5. p.state = "body" => Parse(p, Positions(taken, b)) = ParseData(p.left, b - taken, "body", "complete")
  BY <1>1, <1>2, <1>3, ParseToken
<1>6. p.state = "chunk" => Parse(p, Positions(taken, b)) = ParseData(p.left, b - taken, "chunk", "end")
  BY <1>1, <1>2, <1>3, ParseToken
<1>7. /\ p.state = "body" => Parse(p, Incoming(n)) = Report("BODY", n, "complete", 0)
      /\ p.state = "chunk" => Parse(p, Incoming(n)) = Report("BODY", n, "end", 0)
  BY <1>2, <1>4, <1>5, <1>6
<1> QED
  BY <1>7 DEF p

\* read() of the rest of a body with a length.
LEMMA ReadBodyInv ==
    ASSUME ReceiverInv, Liberties = {}, ReadBody
    PROVE  ReceiverInv'
<1> DEFINE needed == call.contentLength - Len(call.body)
           r == Parse(parser, Incoming(needed))
<1>1. /\ call.at = "body" /\ HasCome(needed)
      /\ IF r.event # "BODY" \/ r.parsed # needed \/ r.next.state # "complete"
         THEN GiveUp("error")
         ELSE /\ Deliver(call.head, call.body \o Incoming(needed), call.offset)
              /\ parser' = Reset /\ taken' = taken + needed
  BY DEF ReadBody
<1>2. /\ ReceiverTyped /\ given_up = "no"
      /\ taken \in Nat /\ call \in CallsOfReceiver /\ NextMessage \in Nat
      /\ taken <= Len(stream) /\ Len(stream) \in Nat
      /\ After(buffer, call.offset) = <<>> /\ call.source = "buffer"
      /\ \E f, p \in 0..taken : HeadersAt(f, p) /\ f < p /\ LengthAt(p, taken)
  BY <1>1, ReadingOn
<1>3. PICK f, p \in 0..taken : HeadersAt(f, p) /\ f < p /\ LengthAt(p, taken)
  BY <1>2
<1> DEFINE total == call.contentLength
<1>4. /\ stream[p].body \notin {"chunked", "multipart"} /\ total = stream[p].n
      /\ parser.state = "body" /\ taken < p + total /\ parser.left = p + total - taken
      /\ call.body = Positions(p, taken)
  BY <1>1, <1>3 DEF LengthAt
<1>5. f \in Nat /\ p \in Nat /\ total \in Nat /\ call.offset \in Nat /\ p <= taken
  BY <1>2, <1>3, CallFields
<1>6. Len(call.body) = taken - p
  BY <1>2, <1>4, <1>5, PositionsProperties
<1>7. needed \in Nat /\ needed > 0 /\ parser.left = needed /\ taken + needed = p + total
  <2>1. needed = total - (taken - p)
    BY <1>6
  <2> DEFINE left == parser.left
  <2>2. left = p + total - taken /\ taken < p + total
    BY <1>4
  <2> HIDE DEF needed, total, left
  <2>3. needed \in Nat /\ needed > 0 /\ left = needed /\ taken + needed = p + total
    BY <1>2, <1>5, <2>1, <2>2
  <2> QED
    BY <2>3 DEF left
<1> HIDE DEF needed, total
<1>8. r = Report("BODY", needed, "complete", 0)
  BY <1>2, <1>4, <1>7, ParseRest
<1>9. /\ Deliver(call.head, call.body \o Incoming(needed), call.offset)
      /\ parser' = Reset /\ taken' = taken + needed
  BY <1>1, <1>8 DEF Report
<1>10. stream' = stream /\ Len(got') = Len(got) + 1
  BY <1>2, <1>9, DeliversOne
<1>11. SentInTime' /\ taken + needed <= Len(stream)
  BY <1>1, <1>7, <1>9, <1>10, MoreInTime
<1>12. PICK z \in Nat : z = p + total
  BY <1>5
<1>13. taken' = z /\ z <= Len(stream)
  BY <1>7, <1>9, <1>11, <1>12
<1> DEFINE body == call.body \o Incoming(needed)
<1>14. body = Positions(p, z) /\ body \in Seq(Nat)
  <2>1. /\ Positions(p, taken) \o Incoming(needed) = Positions(p, taken + needed)
        /\ Positions(p, taken + needed) \in Seq(Nat)
    BY <1>2, <1>5, <1>7, IncomingPositions
  <2> QED
    BY <1>4, <1>7, <1>12, <2>1
<1>15. /\ SentIn(stream, preserve, NextMessage) =
             [head |-> call.head, body |-> Positions(p, z)]
       /\ ~TooLargeIn(stream, NextMessage, 0)
       /\ AreDone(stream, NextMessage, z)
  BY <1>2, <1>3, <1>4, <1>5, <1>12, LengthRead DEF total
<1>16. After(buffer, call.offset) = Positions(z, taken')
  BY <1>2, <1>12, <1>13, PositionsProperties
<1>17. taken' \in 0..Len(stream) /\ z \in 0..taken' /\ call.at # "none"
  BY <1>1, <1>2, <1>12, <1>13
<1> DEFINE o == call.offset
<1>18. /\ o \in Nat /\ Deliver(call.head, body, o) /\ After(buffer, o) = Positions(z, taken')
       /\ SentIn(stream, preserve, NextMessage) = [head |-> call.head, body |-> body]
  BY <1>5, <1>9, <1>14, <1>15, <1>16
<1> HIDE DEF body, o
<1> QED
  BY <1>9, <1>11, <1>14, <1>15, <1>17, <1>18, HandsOver

\* A chunk is there as its header says.
LEMMA ChunkOf ==
    ASSUME NEW s, IsStream(s), NEW i \in DOMAIN s, s[i].is = "size", NEW k, k = s[i].message
    PROVE  /\ Are(s, k, {"data"}, i, i + s[i].n)
           /\ i + s[i].n \in DOMAIN s
<1>1. /\ HasChunk(s, i)
  BY DEF IsStream
<1>2. /\ i \in Nat /\ s[i].n \in Nat /\ DOMAIN s = 1..Len(s) /\ Len(s) \in Nat
  BY StreamTokens
<1> DEFINE n == s[i].n
           b == i + n
           end == i + n + 1
<1>3. Are(s, k, {"data"}, i, end - 1) /\ Are(s, k, {"end", "junk"}, end - 1, end)
  BY <1>1 DEF HasChunk
<1>4. b \in Nat /\ end - 1 = b /\ end = b + 1 /\ 1 <= b /\ n \in Nat /\ b = i + n
  BY <1>2
<1> HIDE DEF b, end, n
<1>5. Are(s, k, {"data"}, i, b) /\ Are(s, k, {"end", "junk"}, b, b + 1)
  BY <1>3, <1>4
<1>6. b + 1 \in DOMAIN s
  BY <1>4, <1>5, AreOne
<1>7. b \in DOMAIN s
  BY <1>2, <1>4, <1>6
<1> QED
  BY <1>5, <1>7 DEF b, n

\* The kinds of pieces of a body of chunks, and those that count for the limit.
ChunkKinds == {"size", "data", "end"}
ContentKinds == {"data", "part", "mark", "close", "epilogue", "junk"}

\* The content of a body that comes in chunks is its data.
LEMMA ChunkContent ==
    ASSUME NEW s, NEW k, NEW a \in Nat, NEW b \in Nat, Are(s, k, ChunkKinds, a, b), NEW keeps
    PROVE  /\ Picked(s, k, KeptOfBody(keeps), a, b) = Picked(s, k, {"data"}, a, b)
           /\ Picked(s, k, ContentKinds, a, b) = Picked(s, k, {"data"}, a, b)
<1> DEFINE K == KeptOfBody(keeps)
           D == {"data"}
<1>1. ChunkKinds \cap K = ChunkKinds \cap D /\ ChunkKinds \cap ContentKinds = ChunkKinds \cap D
  BY DEF ChunkKinds, ContentKinds, KeptOfBody
<1> HIDE DEF K, D
<1>2. Picked(s, k, K, a, b) = Picked(s, k, D, a, b)
  BY <1>1, PickedSame
<1>3. Picked(s, k, ContentKinds, a, b) = Picked(s, k, D, a, b)
  BY <1>1, PickedSame
<1> QED
  BY <1>2, <1>3 DEF K, D

\* The header or the end of a chunk adds nothing to the body.
LEMMA NoContent ==
    ASSUME NEW s, NEW k, NEW p \in Nat, NEW pos \in Nat, p <= pos, NEW q \in Nat, q = pos + 1,
           Are(s, k, ChunkKinds, p, pos), NEW L, L \subseteq {"size", "end"}, Are(s, k, L, pos, q)
    PROVE  /\ Are(s, k, ChunkKinds, p, q)
           /\ Picked(s, k, {"data"}, p, q) = Picked(s, k, {"data"}, p, pos)
<1>1. L \subseteq ChunkKinds /\ L \cap {"data"} = {}
  BY DEF ChunkKinds
<1>2. Are(s, k, ChunkKinds, p, q)
  <2>1. Are(s, k, ChunkKinds, pos, q)
    BY <1>1, AreMore
  <2> QED
    BY <2>1, AreJoin
<1> DEFINE D == {"data"}
<1>3. Picked(s, k, D, pos, q) = <<>>
  <2>1. L \cap D = {}
    BY <1>1
  <2> HIDE DEF D
  <2> QED
    BY <2>1, PickedNone
<1> HIDE DEF D
<1>4. Picked(s, k, D, p, pos) \o Picked(s, k, D, pos, q) = Picked(s, k, D, p, q)
  BY PickedOneMore
<1>5. Picked(s, k, D, p, pos) \in Seq(Nat)
  BY PickedTyped
<1>6. Picked(s, k, D, p, q) = Picked(s, k, D, p, pos)
  BY <1>3, <1>4, <1>5, ConcatEmptySeq
<1> QED
  BY <1>2, <1>6 DEF D

\* Bytes of a chunk are added to the body.
LEMMA MoreContent ==
    ASSUME NEW s, NEW k, NEW p \in Nat, NEW pos \in Nat, NEW q \in Nat, p <= pos, pos <= q,
           Are(s, k, ChunkKinds, p, pos), Are(s, k, {"data"}, pos, q)
    PROVE  /\ Are(s, k, ChunkKinds, p, q)
           /\ Picked(s, k, {"data"}, p, pos) \o Positions(pos, q) = Picked(s, k, {"data"}, p, q)
           /\ Len(Picked(s, k, {"data"}, p, q)) = Len(Picked(s, k, {"data"}, p, pos)) + (q - pos)
           /\ Len(Picked(s, k, {"data"}, p, pos)) \in Nat
<1> DEFINE D == {"data"}
<1>1. Are(s, k, ChunkKinds, p, q)
  <2>1. {"data"} \subseteq ChunkKinds
    BY DEF ChunkKinds
  <2>2. Are(s, k, ChunkKinds, pos, q)
    BY <2>1, AreMore
  <2> QED
    BY <2>2, AreJoin
<1>2. Are(s, k, D, pos, q)
  OBVIOUS
<1> HIDE DEF D
<1>3. Picked(s, k, D, pos, q) = Positions(pos, q)
  BY <1>2, PickedAll
<1>4. Picked(s, k, D, p, pos) \o Picked(s, k, D, pos, q) = Picked(s, k, D, p, q)
  BY PickedJoin
<1>5. Len(Picked(s, k, D, p, q)) = Len(Picked(s, k, D, p, pos)) + Len(Picked(s, k, D, pos, q))
  BY PickedLengths
<1>6. Len(Positions(pos, q)) = q - pos
  BY PositionsProperties
<1>7. Len(Picked(s, k, D, p, pos)) \in Nat
  BY PickedTyped
<1>8. Len(Picked(s, k, D, p, q)) = Len(Picked(s, k, D, p, pos)) + (q - pos)
  BY <1>3, <1>5, <1>6
<1>9. Picked(s, k, D, p, pos) \o Positions(pos, q) = Picked(s, k, D, p, q)
  BY <1>3, <1>4
<1> QED
  BY <1>1, <1>7, <1>8, <1>9 DEF D

\* The content of the message is over the limit as soon as a part of it is.
LEMMA ContentTooLarge ==
    ASSUME ReceiverTyped, NEW a \in Nat, NEW b \in Nat, a <= b, b <= Len(stream),
           Are(stream, NextMessage, ChunkKinds, a, b),
           Len(Picked(stream, NextMessage, {"data"}, a, b)) > MaxContentLength, NEW before
    PROVE  TooLargeIn(stream, NextMessage, before)
<1>1. Len(stream) \in Nat /\ MaxContentLength \in Nat
  BY Context
<1>2. Picked(stream, NextMessage, ContentKinds, a, b) = Picked(stream, NextMessage, {"data"}, a, b)
  BY ChunkContent
<1> DEFINE m == Len(Picked(stream, NextMessage, ContentKinds, a, b))
           n == Len(Picked(stream, NextMessage, ContentKinds, 0, Len(stream)))
<1>3. m \in Nat /\ n \in Nat /\ m <= n
  BY <1>1, PickedWithin
<1>4. m > MaxContentLength
  BY <1>2
<1>5. n > MaxContentLength => TooLargeIn(stream, NextMessage, before)
  BY DEF TooLargeIn, ContentKinds
<1> HIDE DEF m, n
<1> QED
  BY <1>1, <1>3, <1>4, <1>5

\* A call in the middle of a body that comes in chunks.
Sized(c, total, content) == [c EXCEPT !.chunkLength = total, !.contentLength = content]
Chunk(c, at, total, body) == [c EXCEPT !.at = at, !.chunkLength = total, !.body = body]

IsChunk(d, c, at, total, content, body) ==
    /\ d \in CallsOfReceiver
    /\ d.at = at /\ d.offset = c.offset /\ d.source = c.source
    /\ d.headersCompleted = c.headersCompleted /\ d.isChunked = c.isChunked
    /\ d.isMultipart = c.isMultipart /\ d.contentLength = content
    /\ d.chunkLength = total /\ d.headerLength = c.headerLength
    /\ d.head = c.head /\ d.body = body

\* What does not change of a call that goes on with chunks.
LEMMA ChunkProperties ==
    ASSUME NEW c \in CallsOfReceiver, NEW at \in Places, NEW total \in Nat, NEW content \in Nat,
           NEW body \in Seq(Nat)
    PROVE  /\ IsChunk(Sized(c, total, content), c, c.at, total, content, c.body)
           /\ IsChunk(Chunk(c, at, total, body), c, at, total, c.contentLength, body)
           /\ IsChunk(c, c, c.at, c.chunkLength, c.contentLength, c.body)
<1>1. IsChunk(Sized(c, total, content), c, c.at, total, content, c.body)
  <2>1. Sized(c, total, content) \in CallsOfReceiver
    BY DEF CallsOfReceiver, Sized
  <2> QED
    BY <2>1 DEF CallsOfReceiver, Sized, IsChunk
<1>2. IsChunk(Chunk(c, at, total, body), c, at, total, c.contentLength, body)
  <2>1. Chunk(c, at, total, body) \in CallsOfReceiver
    BY DEF CallsOfReceiver, Chunk
  <2> QED
    BY <2>1 DEF CallsOfReceiver, Chunk, IsChunk
<1>3. IsChunk(c, c, c.at, c.chunkLength, c.contentLength, c.body)
  BY DEF IsChunk
<1> QED
  BY <1>1, <1>2, <1>3

\* What a call knows of its chunks when it goes on.
LEMMA ChunkMoves ==
    ASSUME ReceiverTyped, NEW next, NEW at, NEW total, NEW content, NEW body,
           IsChunk(next, call, at, total, content, body), GoOn(next), Now.parsed \in Nat,
           HeaderLength = call.headerLength, content <= MaxContentLength,
           NEW f, NEW p, HeadersAt(f, p)
    PROVE  /\ call'.at = at /\ call'.offset = call.offset + Now.parsed
           /\ call'.source = call.source
           /\ call'.chunkLength = total /\ call'.contentLength = content /\ call'.body = body
           /\ HeadersAt(f, p)'
           /\ stream' = stream /\ preserve' = preserve /\ taken' = taken /\ buffer' = buffer
           /\ NextMessage' = NextMessage /\ parser' = Now.next
<1>1. next \in CallsOfReceiver
  BY DEF IsChunk
<1>2. IsAdvanced(call', next, call.offset + Now.parsed, HeaderLength)
  BY <1>1, GoOnMoves
<1>3. /\ stream' = stream /\ preserve' = preserve /\ taken' = taken /\ buffer' = buffer
      /\ got' = got /\ parser' = Now.next
  BY DEF GoOn
<1>4. /\ call'.at = at /\ call'.offset = call.offset + Now.parsed
      /\ call'.source = call.source
      /\ call'.chunkLength = total /\ call'.contentLength = content /\ call'.body = body
      /\ call'.headersCompleted = call.headersCompleted /\ call'.isChunked = call.isChunked
      /\ call'.isMultipart = call.isMultipart /\ call'.headerLength = call.headerLength
      /\ call'.head = call.head
  BY <1>2 DEF IsAdvanced, IsChunk
<1>5. HeadersAt(f, p)'
  <2>1. call'.contentLength <= MaxContentLength
    BY <1>4
  <2> QED
    BY <1>3, <1>4, <2>1, HeadersStay
<1>6. NextMessage' = NextMessage
  BY <1>3 DEF NextMessage
<1> QED
  BY <1>3, <1>4, <1>5, <1>6

\* The call goes on with the chunks.
LEMMA ChunksGoOn ==
    ASSUME ReceiverInv, call.at = "parse", call.source = "buffer",
           NEW next, NEW at \in {"parse", "chunk"}, NEW total, NEW content, NEW body,
           IsChunk(next, call, at, total, content, body), GoOn(next),
           NEW pos \in 0..taken, Rest = Positions(pos, taken), NEW m \in Nat,
           NEW state \in ParserStates, NEW left \in Nat,
           NEW event, Now = Report(event, m, state, left),
           NEW q \in Nat, q = pos + m, q <= taken,
           NEW f \in 0..q, NEW p \in 0..q, HeadersAt(f, p)', ChunkedAt(p, q)'
    PROVE  ReceiverInv'
<1>1. /\ Now.parsed = m /\ Now.next.state = state /\ Now.next.left = left
      /\ Now.next = [state |-> Now.next.state, left |-> Now.next.left]
  BY DEF Report
<1>2. next \in CallsOfReceiver /\ next.at = at /\ next.source = "buffer"
  BY DEF IsChunk
<1>3. next.source = call.source /\ (next.source = "body" => next.body = call.body)
  BY <1>2
<1>4. next.at \in {"parse", "body", "chunk"}
  BY <1>2
<1>5. IsAt(q)'
  BY DEF IsAt
<1>6. Now.parsed \in Nat /\ q = pos + Now.parsed /\ Now.next.state \in ParserStates /\ Now.next.left \in Nat
  BY <1>1
<1> QED
  BY <1>1, <1>2, <1>3, <1>4, <1>5, <1>6, GoesOnBehind

\* Where the call is, and what the parser says, in a body that comes in chunks.
LEMMA InTheChunks ==
    ASSUME ReceiverInv, NEW event, On(event), event \in {"CHUNK_HEADER", "BODY", "CHUNK_COMPLETE"},
           event = "BODY" => call.isChunked
    PROVE  /\ call.at = "parse" /\ ReceiverTyped /\ given_up = "no"
           /\ HeaderLength = call.headerLength /\ call.source = "buffer"
           /\ taken \in Nat /\ call \in CallsOfReceiver /\ NextMessage \in Nat
           /\ taken <= Len(stream) /\ Len(stream) \in Nat
           /\ \E pos \in 0..taken : \E f, p \in 0..taken :
                 /\ Rest = Positions(pos, taken) /\ HeadersAt(f, p) /\ ChunkedAt(p, pos)
                 /\ f < p /\ p <= pos /\ pos < taken
                 /\ \/ /\ event = "CHUNK_HEADER" /\ parser.state = "size"
                       /\ Are(stream, NextMessage, {"size"}, pos, pos + 1)
                       /\ Now = Report("CHUNK_HEADER", 1,
                                       IF stream[pos + 1].n = 0 THEN "last" ELSE "chunk",
                                       stream[pos + 1].n)
                    \/ /\ event = "BODY" /\ parser.state = "chunk"
                       /\ Now = ParseData(parser.left, taken - pos, "chunk", "end")
                    \/ /\ event = "CHUNK_COMPLETE" /\ parser.state \in {"end", "last"}
                       /\ Are(stream, NextMessage, {"end"}, pos, pos + 1)
                       /\ IF parser.state = "last"
                          THEN /\ StartsBehind(stream, NextMessage + 1, pos + 1)
                               /\ Now = Report("CHUNK_COMPLETE", 1, "complete", 0)
                          ELSE /\ Are(stream, NextMessage, {"size", "junk"}, pos + 1, pos + 2)
                               /\ Now = Report("CHUNK_COMPLETE", 1, "size", 0)
<1>1. event \in {"MULTIPART", "BODY", "CHUNK_HEADER", "CHUNK_COMPLETE", "MESSAGE_COMPLETE"}
  OBVIOUS
<1>2. /\ call.at = "parse" /\ Now.event = event /\ ReceiverTyped /\ given_up = "no"
      /\ HeaderLength = call.headerLength
      /\ taken \in Nat /\ call \in CallsOfReceiver /\ NextMessage \in Nat
      /\ taken <= Len(stream) /\ Len(stream) \in Nat
      /\ \E pos \in 0..taken : \E f, p \in 0..taken :
            /\ Rest = Positions(pos, taken) /\ HeadersAt(f, p)
            /\ f < p /\ p <= pos
            /\ Are(stream, NextMessage, {"blank"}, p - 1, p)
            /\ (LengthAt(p, pos) /\ event = "BODY") \/ ChunkedAt(p, pos)
  BY <1>1, InTheBody
<1>3. PICK pos \in 0..taken : \E f, p \in 0..taken :
         /\ Rest = Positions(pos, taken) /\ HeadersAt(f, p)
         /\ f < p /\ p <= pos
         /\ Are(stream, NextMessage, {"blank"}, p - 1, p)
         /\ (LengthAt(p, pos) /\ event = "BODY") \/ ChunkedAt(p, pos)
  BY <1>2
<1>4. PICK f, p \in 0..taken :
         /\ Rest = Positions(pos, taken) /\ HeadersAt(f, p)
         /\ f < p /\ p <= pos
         /\ Are(stream, NextMessage, {"blank"}, p - 1, p)
         /\ (LengthAt(p, pos) /\ event = "BODY") \/ ChunkedAt(p, pos)
  BY <1>3
<1>5. ChunkedAt(p, pos)
  <2>1. LengthAt(p, pos) /\ event = "BODY" => FALSE
    BY <1>4 DEF HeadersAt, LengthAt
  <2> QED
    BY <1>4, <2>1
<1>6. p \in 0..pos /\ 0 < p
  BY <1>2, <1>4
<1>7. \/ pos = taken /\ Now = Report("NONE", 0, parser.state, parser.left)
      \/ /\ pos < taken /\ parser.state = "size"
         /\ Are(stream, NextMessage, {"size"}, pos, pos + 1)
         /\ Now = Report("CHUNK_HEADER", 1,
                         IF stream[pos + 1].n = 0 THEN "last" ELSE "chunk", stream[pos + 1].n)
      \/ /\ pos < taken /\ parser.state = "chunk"
         /\ Now = ParseData(parser.left, taken - pos, "chunk", "end")
      \/ /\ pos < taken /\ parser.state \in {"end", "last"}
         /\ Are(stream, NextMessage, {"end"}, pos, pos + 1)
         /\ IF parser.state = "last"
            THEN /\ StartsBehind(stream, NextMessage + 1, pos + 1)
                 /\ Now = Report("CHUNK_COMPLETE", 1, "complete", 0)
            ELSE /\ Are(stream, NextMessage, {"size", "junk"}, pos + 1, pos + 2)
                 /\ Now = Report("CHUNK_COMPLETE", 1, "size", 0)
      \/ /\ pos < taken /\ Are(stream, NextMessage, {"junk"}, pos, pos + 1)
         /\ Now = Report("ERROR", 0, "error", 0)
  BY <1>2, <1>4, <1>5, <1>6, NowChunked
<1>8. /\ Now # Report("NONE", 0, parser.state, parser.left)
      /\ Now # Report("ERROR", 0, "error", 0)
      /\ \A state, left : Now = Report("CHUNK_HEADER", 1, state, left) => event = "CHUNK_HEADER"
      /\ \A state, left : Now = Report("CHUNK_COMPLETE", 1, state, left) => event = "CHUNK_COMPLETE"
      /\ Now = ParseData(parser.left, taken - pos, "chunk", "end") => event = "BODY"
  BY <1>2 DEF Report, ParseData
<1>9. call.source = "buffer"
  BY <1>5 DEF ChunkedAt
<1>10. \/ /\ pos < taken /\ event = "CHUNK_HEADER" /\ parser.state = "size"
          /\ Are(stream, NextMessage, {"size"}, pos, pos + 1)
          /\ Now = Report("CHUNK_HEADER", 1,
                          IF stream[pos + 1].n = 0 THEN "last" ELSE "chunk", stream[pos + 1].n)
       \/ /\ pos < taken /\ event = "BODY" /\ parser.state = "chunk"
          /\ Now = ParseData(parser.left, taken - pos, "chunk", "end")
       \/ /\ pos < taken /\ event = "CHUNK_COMPLETE" /\ parser.state \in {"end", "last"}
          /\ Are(stream, NextMessage, {"end"}, pos, pos + 1)
          /\ IF parser.state = "last"
             THEN /\ StartsBehind(stream, NextMessage + 1, pos + 1)
                  /\ Now = Report("CHUNK_COMPLETE", 1, "complete", 0)
             ELSE /\ Are(stream, NextMessage, {"size", "junk"}, pos + 1, pos + 2)
                  /\ Now = Report("CHUNK_COMPLETE", 1, "size", 0)
  BY <1>7, <1>8
<1> QED
  BY <1>2, <1>4, <1>5, <1>9, <1>10

\* The header of a chunk.
LEMMA ChunkHeaderInv ==
    ASSUME ReceiverInv, ChunkHeader
    PROVE  ReceiverInv'
<1> DEFINE content == call.contentLength + Now.next.left
<1>1. /\ On("CHUNK_HEADER")
      /\ IF content > MaxContentLength THEN GiveUp("too large")
         ELSE GoOn(Sized(call, Now.next.left, content))
  BY DEF ChunkHeader, Sized
<1>2. /\ call.at = "parse" /\ ReceiverTyped /\ given_up = "no"
      /\ HeaderLength = call.headerLength /\ call.source = "buffer"
      /\ taken \in Nat /\ call \in CallsOfReceiver /\ NextMessage \in Nat
      /\ taken <= Len(stream) /\ Len(stream) \in Nat
      /\ \E pos \in 0..taken : \E f, p \in 0..taken :
            /\ Rest = Positions(pos, taken) /\ HeadersAt(f, p) /\ ChunkedAt(p, pos)
            /\ f < p /\ p <= pos /\ pos < taken
            /\ parser.state = "size" /\ Are(stream, NextMessage, {"size"}, pos, pos + 1)
            /\ Now = Report("CHUNK_HEADER", 1,
                            IF stream[pos + 1].n = 0 THEN "last" ELSE "chunk", stream[pos + 1].n)
  <2>1. /\ "CHUNK_HEADER" \in {"CHUNK_HEADER", "BODY", "CHUNK_COMPLETE"}
        /\ "CHUNK_HEADER" # "BODY" /\ "CHUNK_HEADER" # "CHUNK_COMPLETE"
    OBVIOUS
  <2> QED
    BY <1>1, <2>1, InTheChunks
<1>3. PICK pos \in 0..taken : \E f, p \in 0..taken :
         /\ Rest = Positions(pos, taken) /\ HeadersAt(f, p) /\ ChunkedAt(p, pos)
         /\ f < p /\ p <= pos /\ pos < taken
         /\ parser.state = "size" /\ Are(stream, NextMessage, {"size"}, pos, pos + 1)
         /\ Now = Report("CHUNK_HEADER", 1,
                         IF stream[pos + 1].n = 0 THEN "last" ELSE "chunk", stream[pos + 1].n)
  BY <1>2
<1>4. PICK f, p \in 0..taken :
         /\ Rest = Positions(pos, taken) /\ HeadersAt(f, p) /\ ChunkedAt(p, pos)
         /\ f < p /\ p <= pos /\ pos < taken
         /\ parser.state = "size" /\ Are(stream, NextMessage, {"size"}, pos, pos + 1)
         /\ Now = Report("CHUNK_HEADER", 1,
                         IF stream[pos + 1].n = 0 THEN "last" ELSE "chunk", stream[pos + 1].n)
  BY <1>3
<1>5. PICK q \in Nat : q = pos + 1
  BY <1>2
<1>6. /\ pos \in Nat /\ f \in Nat /\ p \in Nat /\ p <= pos /\ q <= taken /\ p <= q /\ f <= q
      /\ pos < taken /\ pos <= q
  BY <1>2, <1>4, <1>5
<1> DEFINE n == stream[q].n
           state == IF n = 0 THEN "last" ELSE "chunk"
<1>7. /\ Are(stream, NextMessage, {"size"}, pos, q)
      /\ Now = Report("CHUNK_HEADER", 1, state, n)
  BY <1>4, <1>5
<1>8. /\ q \in DOMAIN stream /\ stream[q].message = NextMessage /\ stream[q].is = "size"
      /\ n \in Nat
  <2>1. q \in DOMAIN stream /\ stream[q].message = NextMessage /\ stream[q].is \in {"size"}
    <3>1. pos < q
      BY <1>5, <1>6
    <3> QED
      BY <1>6, <1>7, <3>1, AreLast
  <2>2. IsStream(stream)
    BY <1>2, Context
  <2> QED
    BY <2>1, <2>2, StreamTokens
<1>9. /\ Now.parsed = 1 /\ Now.next.left = n /\ Now.next.state = state
  BY <1>7 DEF Report
<1>10. /\ Are(stream, NextMessage, ChunkKinds, p, pos)
       /\ call.body = Picked(stream, NextMessage, {"data"}, p, pos)
       /\ call.contentLength = Len(call.body) + 0
  BY <1>4 DEF ChunkedAt, ChunkKinds
<1>11. /\ Are(stream, NextMessage, ChunkKinds, p, q)
       /\ Picked(stream, NextMessage, {"data"}, p, q) = call.body
  <2>1. {"size"} \subseteq {"size", "end"}
    OBVIOUS
  <2> QED
    BY <1>5, <1>6, <1>7, <1>10, <2>1, NoContent
<1>12. call.body \in Seq(Nat) /\ Len(call.body) \in Nat /\ call.contentLength = Len(call.body)
  <2>1. call.body \in Seq(Nat)
    BY <1>2, CallFields
  <2>2. Len(call.body) \in Nat
    BY <2>1
  <2> QED
    BY <1>10, <2>1, <2>2
<1>13. content = Len(call.body) + n /\ content \in Nat
  BY <1>8, <1>9, <1>12
<1> HIDE DEF content
<1>14. CASE content > MaxContentLength
  <2>1. GiveUp("too large")
    BY <1>1, <1>14
  <2>2. PICK b \in Nat : b = q + n
    BY <1>6, <1>8
  <2>3. Are(stream, NextMessage, {"data"}, q, b) /\ b <= Len(stream) /\ q <= b
    <3>1. IsStream(stream) /\ DOMAIN stream = 1..Len(stream)
      BY <1>2, Context
    <3>2. Are(stream, NextMessage, {"data"}, q, q + stream[q].n) /\ q + stream[q].n \in DOMAIN stream
      BY <1>8, <3>1, ChunkOf
    <3> QED
      BY <1>6, <1>8, <2>2, <3>1, <3>2
  <2>4. /\ Are(stream, NextMessage, ChunkKinds, p, b)
        /\ Len(Picked(stream, NextMessage, {"data"}, p, b))
              = Len(Picked(stream, NextMessage, {"data"}, p, q)) + (b - q)
    BY <1>6, <1>11, <2>3, MoreContent
  <2>5. Len(Picked(stream, NextMessage, {"data"}, p, b)) = content
    <3> DEFINE u == Len(Picked(stream, NextMessage, {"data"}, p, b))
               v == Len(call.body)
    <3>1. u = v + (b - q) /\ v \in Nat /\ content = v + n
      BY <1>11, <1>12, <1>13, <2>4
    <3> HIDE DEF u, v
    <3>2. u = content
      BY <1>6, <1>8, <2>2, <3>1
    <3> QED
      BY <3>2 DEF u
  <2>6. p <= b
    BY <1>6, <2>3
  <2>7. \A before : TooLargeIn(stream, NextMessage, before)
    <3>1. Len(Picked(stream, NextMessage, {"data"}, p, b)) > MaxContentLength
      BY <1>14, <2>5
    <3> QED
      BY <1>2, <1>6, <2>3, <2>4, <2>6, <3>1, ContentTooLarge
  <2>8. "too large" # "no" /\ "too large" # "error"
    OBVIOUS
  <2> QED
    BY <2>1, <2>7, <2>8, GivesUp
<1>15. CASE ~(content > MaxContentLength)
  <2> DEFINE next == Sized(call, n, content)
  <2>1. content <= MaxContentLength /\ GoOn(next)
    <3>1. MaxContentLength \in Nat
      BY <1>2, Context
    <3>2. GoOn(next)
      BY <1>1, <1>9, <1>15
    <3> QED
      BY <1>13, <1>15, <3>1, <3>2
  <2>2. IsChunk(next, call, "parse", n, content, call.body)
    <3>1. "parse" \in Places
      BY DEF Places
    <3> HIDE DEF n
    <3>2. IsChunk(Sized(call, n, content), call, call.at, n, content, call.body)
      BY <1>2, <1>8, <1>12, <1>13, <3>1, ChunkProperties
    <3> QED
      BY <1>2, <3>2
  <2> HIDE DEF next, n
  <2>3. /\ call'.at = "parse" /\ call'.source = call.source
        /\ call'.chunkLength = n /\ call'.contentLength = content /\ call'.body = call.body
        /\ HeadersAt(f, p)' /\ stream' = stream /\ taken' = taken
        /\ NextMessage' = NextMessage /\ parser' = Now.next
    BY <1>2, <1>4, <1>9, <2>1, <2>2, ChunkMoves
  <2>4. ChunkedAt(p, q)'
    <3>1. stream[p].body = "chunked" /\ call'.source = "buffer"
      BY <1>2, <1>4, <2>3 DEF ChunkedAt
    <3>2. parser'.state = state /\ parser'.left = n
      BY <1>9, <2>3
    <3>3. call'.contentLength = Len(call'.body) + IF parser'.state = "chunk" THEN parser'.left ELSE 0
      <4>1. n = IF state = "chunk" THEN n ELSE 0
        BY <1>8
      <4> QED
        BY <1>12, <1>13, <2>3, <3>2, <4>1
    <3>4. /\ Are(stream', NextMessage', {"size", "data", "end"}, p, q)
          /\ call'.body = Picked(stream', NextMessage', {"data"}, p, q)
      BY <1>11, <2>3 DEF ChunkKinds
    <3>5. CASE n = 0
      <4>1. q \in (p + 1)..q /\ stream'[q].is = "size" /\ q = q + stream'[q].n
            /\ stream'[q].n = 0
        BY <1>5, <1>6, <1>8, <2>3, <3>5 DEF n
      <4>2. parser'.state = "last" /\ call'.at = "parse"
        BY <2>3, <3>2, <3>5
      <4> QED
        BY <2>3, <3>1, <3>3, <3>4, <4>1, <4>2 DEF ChunkedAt
    <3>6. CASE n # 0
      <4>1. /\ q \in (p + 1)..q /\ stream'[q].is = "size"
            /\ parser'.left \in 1..stream'[q].n /\ q = q + stream'[q].n - parser'.left
        <5>1. stream'[q].n = n /\ n \in 1..n /\ q = q + n - n
          BY <1>6, <1>8, <2>3, <3>6 DEF n
        <5>2. q \in (p + 1)..q
          BY <1>5, <1>6
        <5> QED
          BY <1>8, <2>3, <3>2, <5>1, <5>2
      <4>2. parser'.state = "chunk" /\ call'.at = "parse" /\ call'.chunkLength = parser'.left
        BY <2>3, <3>2, <3>6
      <4> QED
        BY <2>3, <3>1, <3>3, <3>4, <4>1, <4>2 DEF ChunkedAt
    <3> QED
      BY <3>5, <3>6
  <2>5. state \in ParserStates /\ 1 \in Nat /\ q = pos + 1 /\ f \in 0..q /\ p \in 0..q
    BY <1>5, <1>6 DEF ParserStates
  <2> DEFINE m == 1
  <2>6. /\ state \in ParserStates /\ m \in Nat /\ q = pos + m /\ f \in 0..q /\ p \in 0..q
        /\ Now = Report("CHUNK_HEADER", m, state, n)
    BY <1>7, <2>5 DEF n
  <2> HIDE DEF m, state
  <2>7. "parse" \in {"parse", "chunk"} /\ n \in Nat
    BY <1>8 DEF n
  <2> QED
    BY <1>2, <1>4, <1>6, <2>1, <2>2, <2>3, <2>4, <2>6, <2>7, ChunksGoOn
<1> QED
  BY <1>14, <1>15

\* The end of a chunk, and with the last one that of the message.
LEMMA ChunkCompleteInv ==
    ASSUME ReceiverInv, ChunkComplete
    PROVE  ReceiverInv'
<1>1. /\ On("CHUNK_COMPLETE")
      /\ IF Now.next.state = "complete"
         THEN /\ Deliver(call.head, call.body, call.offset + Now.parsed)
              /\ parser' = Reset /\ taken' = taken
         ELSE GoOn(call)
  BY DEF ChunkComplete
<1>2. /\ call.at = "parse" /\ ReceiverTyped /\ given_up = "no"
      /\ HeaderLength = call.headerLength /\ call.source = "buffer"
      /\ taken \in Nat /\ call \in CallsOfReceiver /\ NextMessage \in Nat
      /\ taken <= Len(stream) /\ Len(stream) \in Nat
      /\ \E pos \in 0..taken : \E f, p \in 0..taken :
            /\ Rest = Positions(pos, taken) /\ HeadersAt(f, p) /\ ChunkedAt(p, pos)
            /\ f < p /\ p <= pos /\ pos < taken
            /\ parser.state \in {"end", "last"}
            /\ Are(stream, NextMessage, {"end"}, pos, pos + 1)
            /\ IF parser.state = "last"
               THEN /\ StartsBehind(stream, NextMessage + 1, pos + 1)
                    /\ Now = Report("CHUNK_COMPLETE", 1, "complete", 0)
               ELSE /\ Are(stream, NextMessage, {"size", "junk"}, pos + 1, pos + 2)
                    /\ Now = Report("CHUNK_COMPLETE", 1, "size", 0)
  <2>1. /\ "CHUNK_COMPLETE" \in {"CHUNK_HEADER", "BODY", "CHUNK_COMPLETE"}
        /\ "CHUNK_COMPLETE" # "BODY" /\ "CHUNK_HEADER" # "CHUNK_COMPLETE"
    OBVIOUS
  <2> QED
    BY <1>1, <2>1, InTheChunks
<1>3. PICK pos \in 0..taken : \E f, p \in 0..taken :
         /\ Rest = Positions(pos, taken) /\ HeadersAt(f, p) /\ ChunkedAt(p, pos)
         /\ f < p /\ p <= pos /\ pos < taken
         /\ parser.state \in {"end", "last"}
         /\ Are(stream, NextMessage, {"end"}, pos, pos + 1)
         /\ IF parser.state = "last"
            THEN /\ StartsBehind(stream, NextMessage + 1, pos + 1)
                 /\ Now = Report("CHUNK_COMPLETE", 1, "complete", 0)
            ELSE /\ Are(stream, NextMessage, {"size", "junk"}, pos + 1, pos + 2)
                 /\ Now = Report("CHUNK_COMPLETE", 1, "size", 0)
  BY <1>2
<1>4. PICK f, p \in 0..taken :
         /\ Rest = Positions(pos, taken) /\ HeadersAt(f, p) /\ ChunkedAt(p, pos)
         /\ f < p /\ p <= pos /\ pos < taken
         /\ parser.state \in {"end", "last"}
         /\ Are(stream, NextMessage, {"end"}, pos, pos + 1)
         /\ IF parser.state = "last"
            THEN /\ StartsBehind(stream, NextMessage + 1, pos + 1)
                 /\ Now = Report("CHUNK_COMPLETE", 1, "complete", 0)
            ELSE /\ Are(stream, NextMessage, {"size", "junk"}, pos + 1, pos + 2)
                 /\ Now = Report("CHUNK_COMPLETE", 1, "size", 0)
  BY <1>3
<1>5. PICK q \in Nat : q = pos + 1
  BY <1>2
<1>6. /\ pos \in Nat /\ f \in Nat /\ p \in Nat /\ p <= pos /\ q <= taken /\ p <= q /\ f <= q
      /\ pos < taken /\ pos <= q /\ pos + 2 = q + 1 /\ q <= Len(stream)
  BY <1>2, <1>4, <1>5
<1>7. /\ Are(stream, NextMessage, ChunkKinds, p, pos)
      /\ call.body = Picked(stream, NextMessage, {"data"}, p, pos)
      /\ call.contentLength = Len(call.body) + 0
  BY <1>4 DEF ChunkedAt, ChunkKinds
<1>8. Are(stream, NextMessage, {"end"}, pos, q)
  BY <1>4, <1>5
<1>9. /\ Are(stream, NextMessage, ChunkKinds, p, q)
      /\ Picked(stream, NextMessage, {"data"}, p, q) = call.body
  <2>1. {"end"} \subseteq {"size", "end"}
    OBVIOUS
  <2> QED
    BY <1>5, <1>6, <1>7, <1>8, <2>1, NoContent
<1>10. /\ call.body \in Seq(Nat) /\ Len(call.body) \in Nat
       /\ call.contentLength = Len(call.body) /\ call.contentLength <= MaxContentLength
  <2>1. call.body \in Seq(Nat)
    BY <1>2, CallFields
  <2>2. Len(call.body) \in Nat
    BY <2>1
  <2>3. call.contentLength <= MaxContentLength
    BY <1>4 DEF HeadersAt
  <2> QED
    BY <1>7, <2>1, <2>2, <2>3
<1>11. CASE parser.state = "last"
  <2>1. StartsBehind(stream, NextMessage + 1, q) /\ Now = Report("CHUNK_COMPLETE", 1, "complete", 0)
    BY <1>4, <1>5, <1>11
  <2>2. Now.parsed = 1 /\ Now.next.state = "complete"
    BY <2>1 DEF Report
  <2>3. /\ Deliver(call.head, call.body, call.offset + 1)
        /\ parser' = Reset /\ taken' = taken
    BY <1>1, <2>2
  <2>4. /\ Picked(stream, NextMessage, KeptOfBody(preserve), p, q) = call.body
        /\ Picked(stream, NextMessage, ContentKinds, p, q) = call.body
    BY <1>6, <1>9, ChunkContent
  <2>5. Are(stream, NextMessage, BodyKinds, p, q)
    <3>1. ChunkKinds \subseteq BodyKinds
      BY DEF ChunkKinds, BodyKinds
    <3> QED
      BY <1>9, <3>1, AreMore
  <2>6. /\ SentIn(stream, preserve, NextMessage) =
              [head |-> call.head, body |-> Picked(stream, NextMessage, KeptOfBody(preserve), p, q)]
        /\ ~TooLargeIn(stream, NextMessage, 0)
        /\ AreDone(stream, NextMessage, q)
    <3>1. Len(Picked(stream, NextMessage, {"data", "part", "mark", "close", "epilogue", "junk"}, p, q))
             <= MaxContentLength
      BY <1>10, <2>4 DEF ContentKinds
    <3> QED
      BY <1>2, <1>4, <1>6, <2>1, <2>5, <3>1, MessageRead
  <2>7. /\ call.offset + 1 \in Nat /\ After(buffer, call.offset + 1) = Positions(q, taken)
    <3> DEFINE m == 1
    <3>1. m \in Nat /\ q = pos + m
      BY <1>5
    <3> HIDE DEF m
    <3>2. call.offset + m \in Nat /\ After(buffer, call.offset + m) = Positions(q, taken)
      BY <1>2, <1>4, <1>6, <3>1, LeftBehind
    <3> QED
      BY <3>2 DEF m
  <2>8. SentInTime'
    <3>1. stream' = stream /\ Len(got') = Len(got) + 1
      BY <1>2, <2>3, DeliversOne
    <3> QED
      BY <2>3, <3>1, StillInTime
  <2> DEFINE o == call.offset + 1
             body == call.body
  <2>9. /\ o \in Nat /\ body \in Seq(Nat) /\ Deliver(call.head, body, o)
        /\ After(buffer, o) = Positions(q, taken')
        /\ SentIn(stream, preserve, NextMessage) = [head |-> call.head, body |-> body]
    BY <1>10, <2>3, <2>4, <2>6, <2>7
  <2>10. taken' \in 0..Len(stream) /\ q \in 0..taken' /\ call.at # "none"
    BY <1>2, <1>6, <2>3
  <2> HIDE DEF o, body
  <2> QED
    BY <2>3, <2>6, <2>8, <2>9, <2>10, HandsOver
<1>12. CASE parser.state # "last"
  <2>1. /\ Are(stream, NextMessage, {"size", "junk"}, q, q + 1)
        /\ Now = Report("CHUNK_COMPLETE", 1, "size", 0)
    BY <1>4, <1>5, <1>6, <1>12
  <2>2. Now.parsed = 1 /\ Now.next.state = "size" /\ Now.next.left = 0
    BY <2>1 DEF Report
  <2>3. GoOn(call)
    BY <1>1, <2>2
  <2>4. IsChunk(call, call, "parse", call.chunkLength, call.contentLength, call.body)
    BY <1>2 DEF IsChunk
  <2> DEFINE total == call.chunkLength
             content == call.contentLength
             body == call.body
  <2>5. /\ IsChunk(call, call, "parse", total, content, body) /\ content <= MaxContentLength
        /\ Now.parsed \in Nat
    BY <1>10, <2>2, <2>4
  <2> HIDE DEF total, content, body
  <2>6. /\ call'.at = "parse" /\ call'.source = call.source
        /\ call'.contentLength = content /\ call'.body = body
        /\ HeadersAt(f, p)' /\ stream' = stream /\ taken' = taken
        /\ NextMessage' = NextMessage /\ parser' = Now.next
    BY <1>2, <1>4, <2>3, <2>5, ChunkMoves
  <2>7. ChunkedAt(p, q)'
    <3>1. stream[p].body = "chunked" /\ call'.source = "buffer" /\ parser'.state = "size"
      BY <1>2, <1>4, <2>2, <2>6 DEF ChunkedAt
    <3>2. call'.contentLength = Len(call'.body) + IF parser'.state = "chunk" THEN parser'.left ELSE 0
      BY <1>10, <2>6, <3>1 DEF content, body
    <3>3. /\ Are(stream', NextMessage', {"size", "data", "end"}, p, q)
          /\ call'.body = Picked(stream', NextMessage', {"data"}, p, q)
          /\ Are(stream', NextMessage', {"size", "junk"}, q, q + 1)
      BY <1>9, <2>1, <2>6 DEF ChunkKinds, body
    <3> QED
      BY <2>6, <3>1, <3>2, <3>3 DEF ChunkedAt
  <2> DEFINE m == 1
             left == 0
             state == "size"
  <2>8. /\ state \in ParserStates /\ left \in Nat /\ m \in Nat /\ q = pos + m
        /\ f \in 0..q /\ p \in 0..q
        /\ Now = Report("CHUNK_COMPLETE", m, state, left)
    BY <1>5, <1>6, <2>1 DEF ParserStates
  <2> HIDE DEF m, left, state
  <2>9. "parse" \in {"parse", "chunk"}
    OBVIOUS
  <2> QED
    BY <1>2, <1>4, <1>6, <2>3, <2>5, <2>6, <2>7, <2>8, <2>9, ChunksGoOn
<1> QED
  BY <1>11, <1>12

\* What comes up to q belongs to the chunk that the call is in, and there is more.
ChunkUpTo(p, pos, q, more) ==
    /\ call.chunkLength = parser.left /\ parser.left > 0 /\ parser.left \in Nat
    /\ Are(stream, NextMessage, ChunkKinds, p, q)
    /\ call.body \o Positions(pos, q) = Picked(stream, NextMessage, {"data"}, p, q)
    /\ Len(Picked(stream, NextMessage, {"data"}, p, q)) + more = call.contentLength
    /\ Positions(pos, q) \in Seq(Nat)
    /\ \E i \in (p + 1)..pos :
          /\ stream[i].is = "size" /\ stream[i].n \in Nat /\ i \in DOMAIN stream
          /\ parser.left \in 1..stream[i].n
          /\ q + more = i + stream[i].n

\* Bytes of a chunk, up to q.
LEMMA InTheChunk ==
    ASSUME ReceiverTyped, NEW p \in Nat, NEW pos \in Nat, p <= pos, ChunkedAt(p, pos),
           parser.state = "chunk", NEW q \in Nat, pos <= q,
           NEW more \in Nat, q + more = pos + parser.left
    PROVE  ChunkUpTo(p, pos, q, more)
<1>1. /\ Are(stream, NextMessage, ChunkKinds, p, pos)
      /\ call.body = Picked(stream, NextMessage, {"data"}, p, pos)
      /\ call.contentLength = Len(call.body) + parser.left
      /\ call.chunkLength = parser.left
  BY DEF ChunkedAt, ChunkKinds
<1>2. PICK i \in (p + 1)..pos :
         /\ stream[i].is = "size"
         /\ parser.left \in 1..stream[i].n
         /\ pos = i + stream[i].n - parser.left
  BY DEF ChunkedAt
<1>3. IsStream(stream) /\ parser.left \in Nat /\ NextMessage \in Nat
  BY Context
<1>4. i \in DOMAIN stream /\ stream[i].message = NextMessage
  BY <1>1, <1>2 DEF Are
<1>5. i \in Nat /\ stream[i].n \in Nat
  BY <1>2, <1>3, <1>4, StreamTokens
<1>6. Are(stream, NextMessage, {"data"}, i, i + stream[i].n)
  BY <1>2, <1>3, <1>4, ChunkOf
<1>7. Are(stream, NextMessage, {"data"}, pos, q)
  <2> DEFINE b == i + stream[i].n
             left == parser.left
  <2>1. b \in Nat /\ left \in Nat /\ pos + left = b /\ i <= pos /\ q + more = pos + left
    BY <1>2, <1>3, <1>5
  <2>2. Are(stream, NextMessage, {"data"}, i, b)
    BY <1>6
  <2> HIDE DEF b, left
  <2>3. q <= b
    BY <2>1
  <2> QED
    BY <1>5, <2>1, <2>2, <2>3, AreWithin
<1>8. /\ Are(stream, NextMessage, ChunkKinds, p, q)
      /\ Picked(stream, NextMessage, {"data"}, p, pos) \o Positions(pos, q)
            = Picked(stream, NextMessage, {"data"}, p, q)
      /\ Len(Picked(stream, NextMessage, {"data"}, p, q))
            = Len(Picked(stream, NextMessage, {"data"}, p, pos)) + (q - pos)
      /\ Len(Picked(stream, NextMessage, {"data"}, p, pos)) \in Nat
  BY <1>1, <1>7, MoreContent
<1>9. Len(Picked(stream, NextMessage, {"data"}, p, q)) + more = call.contentLength
  <2> DEFINE u == Len(Picked(stream, NextMessage, {"data"}, p, q))
             v == Len(Picked(stream, NextMessage, {"data"}, p, pos))
             left == parser.left
  <2>1. u = v + (q - pos) /\ v \in Nat /\ call.contentLength = v + left /\ left \in Nat
        /\ q + more = pos + left
    BY <1>1, <1>3, <1>8
  <2> HIDE DEF u, v, left
  <2>2. u + more = v + left
    BY <2>1
  <2> QED
    BY <2>1, <2>2 DEF u, left
<1>10. q + more = i + stream[i].n /\ parser.left > 0
  BY <1>2, <1>3, <1>5
<1>11. Positions(pos, q) \in Seq(Nat)
  BY PositionsProperties
<1> QED
  BY <1>1, <1>2, <1>3, <1>4, <1>5, <1>8, <1>9, <1>10, <1>11 DEF ChunkUpTo

\* Bytes of a chunk: all of it, or all that is in the buffer.
LEMMA ChunkBodyInv ==
    ASSUME ReceiverInv, ChunkBody
    PROVE  ReceiverInv'
<1> DEFINE at == IF Now.parsed < call.chunkLength THEN "chunk" ELSE "parse"
           total == call.chunkLength - Now.parsed
           body == call.body \o Taken
           next == Chunk(call, at, total, body)
<1>1. On("BODY") /\ call.isChunked /\ GoOn(next)
  BY DEF ChunkBody, Chunk
<1>2. /\ call.at = "parse" /\ ReceiverTyped /\ given_up = "no"
      /\ HeaderLength = call.headerLength /\ call.source = "buffer"
      /\ taken \in Nat /\ call \in CallsOfReceiver /\ NextMessage \in Nat
      /\ taken <= Len(stream) /\ Len(stream) \in Nat
      /\ \E pos \in 0..taken : \E f, p \in 0..taken :
            /\ Rest = Positions(pos, taken) /\ HeadersAt(f, p) /\ ChunkedAt(p, pos)
            /\ f < p /\ p <= pos /\ pos < taken
            /\ parser.state = "chunk"
            /\ Now = ParseData(parser.left, taken - pos, "chunk", "end")
  <2>1. /\ "BODY" \in {"CHUNK_HEADER", "BODY", "CHUNK_COMPLETE"}
        /\ "CHUNK_HEADER" # "BODY" /\ "CHUNK_COMPLETE" # "BODY"
    OBVIOUS
  <2> QED
    BY <1>1, <2>1, InTheChunks
<1>3. PICK pos \in 0..taken : \E f, p \in 0..taken :
         /\ Rest = Positions(pos, taken) /\ HeadersAt(f, p) /\ ChunkedAt(p, pos)
         /\ f < p /\ p <= pos /\ pos < taken
         /\ parser.state = "chunk"
         /\ Now = ParseData(parser.left, taken - pos, "chunk", "end")
  BY <1>2
<1>4. PICK f, p \in 0..taken :
         /\ Rest = Positions(pos, taken) /\ HeadersAt(f, p) /\ ChunkedAt(p, pos)
         /\ f < p /\ p <= pos /\ pos < taken
         /\ parser.state = "chunk"
         /\ Now = ParseData(parser.left, taken - pos, "chunk", "end")
  BY <1>3
<1> DEFINE left == parser.left
           n == taken - pos
           m == IF left <= n THEN left ELSE n
           more == left - m
           state == IF left <= n THEN "end" ELSE "chunk"
<1>5. left \in Nat /\ n \in Nat /\ taken = pos + n /\ n > 0 /\ pos \in Nat /\ p \in Nat /\ f \in Nat
  <2>1. left \in Nat
    BY <1>2, Context
  <2> HIDE DEF left
  <2> QED
    BY <1>2, <1>4, <2>1
<1>6. m \in Nat /\ m <= left /\ more \in Nat /\ pos + m <= taken
  <2> HIDE DEF left, n
  <2> QED
    BY <1>2, <1>5
<1>7. Now = Report("BODY", m, state, more)
  <2>1. Now = ParseData(left, n, "chunk", "end")
    BY <1>4
  <2>2. left - left = 0
    BY <1>5
  <2> HIDE DEF left, n
  <2>3. left <= n => Now = Report("BODY", left, "end", 0)
    BY <1>5, <2>1, DataReport
  <2>4. n < left => Now = Report("BODY", n, "chunk", left - n)
    BY <1>5, <2>1, DataReport
  <2>5. left <= n \/ n < left
    BY <1>5
  <2>6. n < left => ~(left <= n)
    BY <1>5
  <2> QED
    BY <2>2, <2>3, <2>4, <2>5, <2>6
<1>8. PICK q \in Nat : q = pos + m
  BY <1>5, <1>6
<1>9. /\ q <= taken /\ p <= pos /\ pos <= q /\ p <= q /\ f <= q
  BY <1>2, <1>4, <1>5, <1>6, <1>8
<1> HIDE DEF left, n, m, more, state
<1>10. /\ call.chunkLength = left /\ left > 0
       /\ Are(stream, NextMessage, ChunkKinds, p, q)
       /\ call.body \o Positions(pos, q) = Picked(stream, NextMessage, {"data"}, p, q)
       /\ Len(Picked(stream, NextMessage, {"data"}, p, q)) + more = call.contentLength
       /\ \E i \in (p + 1)..pos :
             /\ stream[i].is = "size" /\ stream[i].n \in Nat /\ i \in DOMAIN stream
             /\ left \in 1..stream[i].n
             /\ q + more = i + stream[i].n
  <2>1. q + more = pos + left
    BY <1>5, <1>6, <1>8 DEF more
  <2>2. q + more = pos + parser.left /\ parser.state = "chunk" /\ ChunkedAt(p, pos)
    BY <1>4, <2>1 DEF left
  <2>3. /\ pos \in Nat /\ p \in Nat /\ p <= pos /\ pos <= q /\ more \in Nat /\ ReceiverTyped
    BY <1>2, <1>5, <1>6, <1>9
  <2>4. ChunkUpTo(p, pos, q, more)
    BY <2>2, <2>3, InTheChunk
  <2> QED
    BY <2>4 DEF left, ChunkUpTo
<1>11. Now.parsed = m /\ Now.next.state = state /\ Now.next.left = more
  BY <1>7 DEF Report
<1>12. Taken = Positions(pos, q)
  <2>1. Now.parsed \in Nat /\ pos + Now.parsed <= taken /\ pos + Now.parsed = q
    BY <1>6, <1>8, <1>11
  <2> QED
    BY <1>2, <1>4, <1>5, <2>1, TakenPositions
<1>13. body = Picked(stream, NextMessage, {"data"}, p, q) /\ body \in Seq(Nat)
  <2>1. Picked(stream, NextMessage, {"data"}, p, q) \in Seq(Nat)
    BY <1>5, PickedTyped
  <2> QED
    BY <1>10, <1>12, <2>1
<1>14. total = more /\ at = IF m < left THEN "chunk" ELSE "parse"
  BY <1>10, <1>11 DEF more
<1>15. call.contentLength \in Nat /\ call.contentLength <= MaxContentLength
  BY <1>2, <1>4, CallFields DEF HeadersAt
<1> DEFINE content == call.contentLength
<1>16. content \in Nat /\ content <= MaxContentLength /\ Len(body) + more = content
  BY <1>10, <1>13, <1>15
<1>17. IsChunk(next, call, at, more, content, body) /\ at \in {"parse", "chunk"}
  <2>1. at \in Places /\ at \in {"parse", "chunk"}
    BY <1>14 DEF Places
  <2>2. next = Chunk(call, at, more, body)
    BY <1>14
  <2> HIDE DEF at, total, body, next
  <2> QED
    BY <1>2, <1>6, <1>13, <2>1, <2>2, ChunkProperties
<1> HIDE DEF at, total, body, next, content
<1>18. /\ call'.at = at /\ call'.offset = call.offset + m /\ call'.source = "buffer"
       /\ call'.chunkLength = more /\ call'.contentLength = content /\ call'.body = body
       /\ HeadersAt(f, p)' /\ stream' = stream /\ taken' = taken /\ buffer' = buffer
       /\ NextMessage' = NextMessage /\ parser' = Now.next
  <2>1. Now.parsed \in Nat
    BY <1>6, <1>11
  <2> QED
    BY <1>1, <1>2, <1>4, <1>11, <1>16, <1>17, <2>1, ChunkMoves
<1>19. ChunkedAt(p, q)'
  <2>1. stream[p].body = "chunked" /\ parser'.state = state /\ parser'.left = more
    BY <1>4, <1>11, <1>18 DEF ChunkedAt
  <2>2. /\ Are(stream', NextMessage', {"size", "data", "end"}, p, q)
        /\ call'.body = Picked(stream', NextMessage', {"data"}, p, q)
    BY <1>10, <1>13, <1>18 DEF ChunkKinds
  <2>3. PICK i \in (p + 1)..pos :
           /\ stream[i].is = "size" /\ stream[i].n \in Nat /\ i \in DOMAIN stream
           /\ left \in 1..stream[i].n
           /\ q + more = i + stream[i].n
    BY <1>10
  <2>4. i \in (p + 1)..q /\ i \in Nat
    BY <1>5, <1>9
  <2>5. CASE left <= n
    <3>1. m = left /\ state = "end" /\ more = 0 /\ at = "parse"
      <4>1. m = left /\ state = "end"
        BY <2>5 DEF m, state
      <4>2. more = 0 /\ ~(m < left)
        BY <1>5, <4>1 DEF more
      <4> QED
        BY <1>14, <4>1, <4>2 DEF at, total
    <3>2. call'.contentLength = Len(call'.body) + IF parser'.state = "chunk" THEN parser'.left ELSE 0
      <4>1. call'.contentLength = Len(call'.body) + more
        BY <1>16, <1>18
      <4> QED
        BY <2>1, <3>1, <4>1
    <3>3. /\ parser'.state \in {"end", "last"} /\ call'.at \in {"receive", "parse"}
          /\ stream'[i].is = "size" /\ q = i + stream'[i].n
          /\ parser'.state = IF stream'[i].n = 0 THEN "last" ELSE "end"
      <4>1. q = i + stream[i].n /\ stream[i].n # 0
        BY <1>5, <2>3, <2>4, <3>1
      <4> QED
        BY <1>18, <2>1, <2>3, <3>1, <4>1
    <3> QED
      BY <1>18, <2>1, <2>2, <2>4, <3>2, <3>3 DEF ChunkedAt
  <2>6. CASE ~(left <= n)
    <3>1. m = n /\ state = "chunk" /\ more = left - n /\ more > 0 /\ at = "chunk" /\ q = taken
      <4>1. m = n /\ state = "chunk"
        BY <2>6 DEF m, state
      <4>2. more = left - n /\ more > 0 /\ m < left /\ q = taken
        BY <1>5, <1>8, <2>6, <4>1 DEF more
      <4> QED
        BY <1>14, <4>1, <4>2 DEF at, total
    <3>2. call'.contentLength = Len(call'.body) + IF parser'.state = "chunk" THEN parser'.left ELSE 0
      <4>1. call'.contentLength = Len(call'.body) + more
        BY <1>16, <1>18
      <4> QED
        BY <2>1, <3>1, <4>1
    <3>3. Len(buffer') <= call'.offset /\ q = taken'
      <4> DEFINE o == call.offset
      <4>1. o \in Nat
        BY <1>2, CallFields
      <4>2. After(buffer, o) = Positions(pos, taken)
        BY <1>2, <1>4 DEF Rest, Source
      <4>3. call'.offset = o + m
        BY <1>18
      <4> HIDE DEF o
      <4>4. Len(buffer) = o + taken - pos
        BY <1>2, <1>4, <1>5, <4>1, <4>2, BufferEnds
      <4>5. o + m = o + taken - pos /\ o + m \in Nat
        BY <1>5, <1>6, <3>1, <4>1
      <4>6. Len(buffer) <= o + m
        BY <4>4, <4>5
      <4> QED
        BY <1>18, <3>1, <4>3, <4>6
    <3>4. /\ stream'[i].is = "size" /\ parser'.left \in 1..stream'[i].n
          /\ q = i + stream'[i].n - parser'.left
      <4>1. more \in 1..stream[i].n /\ q = i + stream[i].n - more
        BY <1>5, <1>6, <2>3, <2>4, <3>1
      <4> QED
        BY <1>18, <2>1, <2>3, <4>1
    <3>5. call'.at \in {"receive", "parse", "chunk"} /\ call'.chunkLength = parser'.left
      BY <1>18, <2>1, <3>1
    <3> QED
      BY <1>18, <2>1, <2>2, <2>4, <3>1, <3>2, <3>3, <3>4, <3>5 DEF ChunkedAt
  <2> QED
    BY <2>5, <2>6
<1>20. state \in ParserStates /\ f \in 0..q /\ p \in 0..q
  BY <1>5, <1>9 DEF state, ParserStates
<1> QED
  BY <1>1, <1>2, <1>4, <1>6, <1>7, <1>8, <1>9, <1>17, <1>18, <1>19, <1>20, ChunksGoOn

\* read() of the rest of a chunk.
LEMMA ReadChunkInv ==
    ASSUME ReceiverInv, Liberties = {}, ReadChunk
    PROVE  ReceiverInv'
<1> DEFINE needed == call.chunkLength
           r == Parse(parser, Incoming(needed))
           body == call.body \o Incoming(needed)
<1>1. /\ call.at = "chunk" /\ HasCome(needed)
      /\ IF r.event # "BODY" \/ r.parsed # needed
         THEN GiveUp("error")
         ELSE /\ call' = Filled(call, "parse", body)
              /\ parser' = r.next /\ taken' = taken + needed
              /\ UNCHANGED <<stream, preserve, buffer, parsedOffset, got, given_up>>
  BY DEF ReadChunk, Filled
<1>2. /\ ReceiverTyped /\ given_up = "no"
      /\ taken \in Nat /\ call \in CallsOfReceiver /\ NextMessage \in Nat
      /\ taken <= Len(stream) /\ Len(stream) \in Nat
      /\ After(buffer, call.offset) = <<>> /\ call.source = "buffer"
      /\ \E f, p \in 0..taken : HeadersAt(f, p) /\ f < p /\ ChunkedAt(p, taken)
  BY <1>1, ReadingOn
<1>3. PICK f, p \in 0..taken : HeadersAt(f, p) /\ f < p /\ ChunkedAt(p, taken)
  BY <1>2
<1>4. parser.state = "chunk" /\ needed = parser.left
  BY <1>1, <1>3 DEF ChunkedAt
<1>5. needed \in Nat /\ p \in Nat /\ f \in Nat /\ p <= taken /\ f <= taken
  BY <1>2, <1>3, CallFields
<1> HIDE DEF needed
<1>6. PICK q \in Nat : q = taken + needed
  BY <1>2, <1>5
<1>7. ChunkUpTo(p, taken, q, 0)
  <2> DEFINE more == 0
  <2>1. taken <= q /\ more \in Nat /\ q + more = taken + parser.left
    BY <1>2, <1>4, <1>5, <1>6
  <2> HIDE DEF more
  <2>2. ChunkUpTo(p, taken, q, more)
    BY <1>2, <1>3, <1>4, <1>5, <2>1, InTheChunk
  <2> QED
    BY <2>2 DEF more
<1>8. /\ needed > 0 /\ Are(stream, NextMessage, ChunkKinds, p, q)
      /\ call.body \o Positions(taken, q) = Picked(stream, NextMessage, {"data"}, p, q)
      /\ Len(Picked(stream, NextMessage, {"data"}, p, q)) + 0 = call.contentLength
      /\ \E i \in (p + 1)..taken :
            /\ stream[i].is = "size" /\ stream[i].n \in Nat /\ i \in DOMAIN stream
            /\ parser.left \in 1..stream[i].n
            /\ q + 0 = i + stream[i].n
  BY <1>4, <1>7 DEF ChunkUpTo
<1>9. r = Report("BODY", needed, "end", 0)
  BY <1>2, <1>4, <1>5, <1>8, ParseRest
<1>10. /\ r.event = "BODY" /\ r.parsed = needed /\ r.next = [state |-> "end", left |-> 0]
  BY <1>9 DEF Report
<1>11. /\ call' = Filled(call, "parse", body)
       /\ parser' = [state |-> "end", left |-> 0] /\ taken' = taken + needed
       /\ stream' = stream /\ preserve' = preserve /\ buffer' = buffer
       /\ parsedOffset' = parsedOffset /\ got' = got /\ given_up' = given_up
  BY <1>1, <1>10
<1>12. SentInTime' /\ taken + needed <= Len(stream)
  BY <1>1, <1>5, <1>11, MoreInTime
<1>13. /\ body = Picked(stream, NextMessage, {"data"}, p, q) /\ body \in Seq(Nat)
       /\ Len(body) \in Nat /\ Len(body) = call.contentLength
  <2>1. Incoming(needed) = Positions(taken, q)
    BY <1>6 DEF Incoming
  <2>2. /\ Picked(stream, NextMessage, {"data"}, p, q) \in Seq(Nat)
        /\ Len(Picked(stream, NextMessage, {"data"}, p, q)) \in Nat
    BY <1>5, PickedTyped
  <2>3. body = Picked(stream, NextMessage, {"data"}, p, q)
    BY <1>8, <2>1
  <2> QED
    BY <1>8, <2>2, <2>3
<1> HIDE DEF body, r
<1>14. /\ call' \in CallsOfReceiver
       /\ call'.at = "parse" /\ call'.offset = call.offset /\ call'.source = "buffer"
       /\ call'.headersCompleted = call.headersCompleted /\ call'.isChunked = call.isChunked
       /\ call'.isMultipart = call.isMultipart /\ call'.contentLength = call.contentLength
       /\ call'.headerLength = call.headerLength
       /\ call'.head = call.head /\ call'.body = body
  <2>1. "parse" \in Places
    BY DEF Places
  <2>2. IsFilled(Filled(call, "parse", body), call, "parse", body)
    BY <1>2, <1>13, <2>1, FilledProperties
  <2> QED
    BY <1>2, <1>11, <2>2 DEF IsFilled
<1>15. HeadersAt(f, p)'
  <2>1. call.contentLength <= MaxContentLength
    BY <1>3 DEF HeadersAt
  <2> QED
    BY <1>3, <1>11, <1>14, <2>1, HeadersStay
<1>16. ChunkedAt(p, q)'
  <2>1. NextMessage' = NextMessage /\ parser'.state = "end"
    BY <1>11 DEF NextMessage
  <2>2. stream'[p].body = "chunked"
    BY <1>3, <1>11 DEF ChunkedAt
  <2>3. /\ Are(stream', NextMessage', {"size", "data", "end"}, p, q)
        /\ call'.body = Picked(stream', NextMessage', {"data"}, p, q)
    BY <1>8, <1>11, <1>13, <1>14, <2>1 DEF ChunkKinds
  <2>4. call'.contentLength = Len(call'.body) + IF parser'.state = "chunk" THEN parser'.left ELSE 0
    <3>1. Len(body) = Len(body) + 0
      BY <1>13
    <3> QED
      BY <1>13, <1>14, <2>1, <3>1
  <2>5. \E i \in (p + 1)..q :
           /\ stream'[i].is = "size" /\ q = i + stream'[i].n
           /\ parser'.state = IF stream'[i].n = 0 THEN "last" ELSE "end"
    <3>1. PICK i \in (p + 1)..taken :
             /\ stream[i].is = "size" /\ stream[i].n \in Nat
             /\ parser.left \in 1..stream[i].n
             /\ q + 0 = i + stream[i].n
      BY <1>8
    <3>2. i \in (p + 1)..q /\ q = i + stream[i].n /\ stream[i].n # 0
      BY <1>2, <1>5, <1>6, <3>1
    <3> QED
      BY <1>11, <2>1, <3>1, <3>2
  <2> QED
    BY <1>14, <2>1, <2>2, <2>3, <2>4, <2>5 DEF ChunkedAt
<1>17. q = taken' /\ q \in 0..taken' /\ f \in 0..q /\ p \in 0..q
  BY <1>2, <1>5, <1>6, <1>11
<1>18. Unread' = Positions(q, taken')
  <2>1. Unread' = After(buffer, call.offset)
    BY <1>11, <1>14 DEF Unread, Source
  <2>2. Positions(q, q) = <<>>
    BY PositionsProperties
  <2> QED
    BY <1>2, <1>17, <2>1, <2>2
<1>19. Follows'
  <2>1. IsAt(q)'
    BY <1>15, <1>16, <1>17 DEF IsAt
  <2> QED
    BY <1>14, <1>17, <1>18, <2>1 DEF Follows
<1>20. ReceiverTyped'
  <2>1. given_up' = "no" /\ taken' \in 0..Len(stream')
    BY <1>2, <1>5, <1>11, <1>12
  <2>2. parser' \in [state : ParserStates, left : Nat]
    BY <1>11 DEF ParserStates
  <2> QED
    BY <1>2, <1>11, <1>14, <2>1, <2>2 DEF ReceiverTyped
<1> QED
  BY <1>1, <1>11, <1>12, <1>19, <1>20, GoesOn

\* What was read behind the last boundary of a multipart body belongs to its message.
LEMMA NothingBehind ==
    ASSUME ReceiverTyped, SentInTime, NEW pos \in Nat, NEW q \in Nat, q = pos + 1, q <= taken,
           Are(stream, NextMessage, {"close"}, pos, q),
           NEW end \in Nat, q <= end, StartsBehind(stream, NextMessage + 1, end)
    PROVE  taken <= end
<1>1. /\ taken \in Nat /\ taken <= Len(stream) /\ DOMAIN stream = 1..Len(stream)
      /\ Len(stream) \in Nat /\ Len(got) \in Nat /\ NextMessage = Len(got) + 1
      /\ IsStream(stream) /\ NextMessage \in Nat
  BY Context
<1>2. q \in DOMAIN stream /\ stream[q].message = NextMessage /\ stream[q].is \in {"close"}
  <2>1. pos < q
    OBVIOUS
  <2> QED
    BY <2>1, AreLast
<1>3. SUFFICES ASSUME taken > end PROVE FALSE
  BY <1>1
<1>4. taken \in DOMAIN stream /\ taken \in 1..taken /\ q \in 1..(taken - 1)
  BY <1>1, <1>2, <1>3
<1>5. stream[taken].message >= NextMessage + 1 /\ stream[taken].message \in Nat
  <2>1. ~(taken <= end)
    BY <1>1, <1>3
  <2>2. stream[taken].message \in Nat
    BY <1>1, <1>4, StreamTokens
  <2> QED
    BY <1>4, <2>1, <2>2 DEF StartsBehind
<1>6. Kind(q) = "close" /\ stream[q].message < stream[taken].message
  BY <1>1, <1>2, <1>5 DEF Kind
<1>7. Len(got) >= stream[q].message
  BY <1>4, <1>6 DEF SentInTime
<1> QED
  BY <1>1, <1>2, <1>7

\* Behind the last boundary there is no part.
LEMMA PartsEnd ==
    ASSUME NEW s, NEW k, NEW D, NEW p \in Nat, NEW pos \in Nat, NEW end \in Nat,
           p <= pos, pos <= end
    PROVE  Picked(s, k, D, pos, end) = <<>> =>
              Picked(s, k, D, p, end) = Picked(s, k, D, p, pos)
<1>1. Picked(s, k, D, p, pos) \o Picked(s, k, D, pos, end) = Picked(s, k, D, p, end)
  BY PickedJoin
<1>2. Picked(s, k, D, p, pos) \in Seq(Nat)
  BY PickedTyped
<1> QED
  BY <1>1, <1>2, ConcatEmptySeq

\* The kinds of pieces of a proper multipart body.
MultipartKinds == {"part", "mark", "close", "epilogue"}

\* A multipart body, from the blank line at p to its end, that has its last boundary
\* right behind pos.
LEMMA MultipartRead ==
    ASSUME ReceiverTyped, NEW f \in Nat, NEW p \in Nat, NEW pos \in Nat, NEW q \in Nat,
           q = pos + 1, p <= pos, HeadersAt(f, p),
           NEW end \in Nat, end = p + call.contentLength, q <= end, end <= Len(stream),
           Are(stream, NextMessage, {"part", "mark"}, p, pos),
           Are(stream, NextMessage, {"close"}, pos, q),
           Are(stream, NextMessage, {"epilogue"}, q, end),
           StartsBehind(stream, NextMessage + 1, end)
    PROVE  /\ SentIn(stream, preserve, NextMessage) =
                 [head |-> call.head,
                  body |-> IF preserve THEN Positions(p, end)
                           ELSE Picked(stream, NextMessage, {"part"}, p, pos)]
           /\ ~TooLargeIn(stream, NextMessage, 0)
<1>1. Are(stream, NextMessage, {"close", "epilogue"}, pos, end)
  <2> DEFINE L == {"close", "epilogue"}
  <2>1. {"close"} \subseteq L /\ {"epilogue"} \subseteq L
    OBVIOUS
  <2> HIDE DEF L
  <2>2. Are(stream, NextMessage, L, pos, q) /\ Are(stream, NextMessage, L, q, end)
    BY <2>1, AreMore
  <2>3. Are(stream, NextMessage, L, pos, end)
    BY <2>2, AreJoin
  <2> QED
    BY <2>3 DEF L
<1>2. Are(stream, NextMessage, MultipartKinds, p, end)
  <2>1. {"part", "mark"} \subseteq MultipartKinds /\ {"close", "epilogue"} \subseteq MultipartKinds
    BY DEF MultipartKinds
  <2>2. /\ Are(stream, NextMessage, MultipartKinds, p, pos)
        /\ Are(stream, NextMessage, MultipartKinds, pos, end)
    BY <1>1, <2>1, AreMore
  <2> QED
    BY <2>2, AreJoin
<1>3. Are(stream, NextMessage, BodyKinds, p, end)
  <2>1. MultipartKinds \subseteq BodyKinds
    BY DEF MultipartKinds, BodyKinds
  <2> QED
    BY <1>2, <2>1, AreMore
<1>4. p <= end /\ pos <= end
  OBVIOUS
<1>5. call.contentLength \in Nat /\ call.contentLength <= MaxContentLength
  <2>1. call \in CallsOfReceiver
    BY Context
  <2> QED
    BY <2>1, CallFields DEF HeadersAt
<1>6. Len(Picked(stream, NextMessage, {"data", "part", "mark", "close", "epilogue", "junk"}, p, end))
         <= MaxContentLength
  <2>1. MultipartKinds \subseteq ContentKinds
    BY DEF MultipartKinds, ContentKinds
  <2>2. Picked(stream, NextMessage, ContentKinds, p, end) = Positions(p, end)
    BY <1>2, <2>1, PickedAll
  <2>3. Len(Positions(p, end)) = IF p <= end THEN end - p ELSE 0
    BY PositionsProperties
  <2>4. end - p = call.contentLength
    BY <1>5
  <2> QED
    BY <1>4, <1>5, <2>2, <2>3, <2>4 DEF ContentKinds
<1>7. /\ SentIn(stream, preserve, NextMessage) =
            [head |-> call.head, body |-> Picked(stream, NextMessage, KeptOfBody(preserve), p, end)]
      /\ ~TooLargeIn(stream, NextMessage, 0)
  BY <1>3, <1>4, <1>6, MessageRead
<1>8. CASE preserve
  <2>1. MultipartKinds \subseteq KeptOfBody(preserve)
    BY <1>8 DEF MultipartKinds, KeptOfBody
  <2> DEFINE K == KeptOfBody(preserve)
  <2> HIDE DEF K
  <2>2. Picked(stream, NextMessage, K, p, end) = Positions(p, end)
    BY <1>2, <2>1, PickedAll DEF K
  <2> QED
    BY <1>7, <1>8, <2>2 DEF K
<1>9. CASE ~preserve
  <2> DEFINE K == KeptOfBody(preserve)
             D == {"part"}
  <2>1. MultipartKinds \cap K = MultipartKinds \cap D
    BY <1>9 DEF MultipartKinds, KeptOfBody
  <2>2. {"close", "epilogue"} \cap D = {}
    OBVIOUS
  <2> HIDE DEF K, D
  <2>3. Picked(stream, NextMessage, K, p, end) = Picked(stream, NextMessage, D, p, end)
    BY <1>2, <2>1, PickedSame
  <2>4. Picked(stream, NextMessage, D, p, end) = Picked(stream, NextMessage, D, p, pos)
    <3>1. Picked(stream, NextMessage, D, pos, end) = <<>>
      BY <1>1, <2>2, PickedNone
    <3> QED
      BY <1>4, <3>1, PartsEnd
  <2>7. Picked(stream, NextMessage, K, p, end) = Picked(stream, NextMessage, D, p, pos)
    BY <2>3, <2>4
  <2> QED
    BY <1>7, <1>9, <2>7 DEF K, D
<1> QED
  BY <1>7, <1>8, <1>9

\* The end of a message that has no body, or a multipart one.
LEMMA MessageCompleteInv ==
    ASSUME ReceiverInv, MessageComplete
    PROVE  ReceiverInv'
<1> DEFINE body == call.body
           o == IF call.source = "body" THEN call.kept ELSE call.offset + Now.parsed
<1>1. /\ On("MESSAGE_COMPLETE") /\ Deliver(call.head, body, o)
      /\ parser' = Reset /\ taken' = taken
  BY DEF MessageComplete
<1>2. /\ call.at = "parse" /\ Now.event = "MESSAGE_COMPLETE" /\ ReceiverTyped /\ given_up = "no"
      /\ taken \in Nat /\ call \in CallsOfReceiver /\ NextMessage \in Nat
      /\ taken <= Len(stream) /\ Len(stream) \in Nat
      /\ \E pos \in 0..taken : \E f, p \in 0..taken :
            /\ Rest = Positions(pos, taken) /\ HeadersAt(f, p)
            /\ f < p /\ p <= pos
            /\ Are(stream, NextMessage, {"blank"}, p - 1, p)
            /\ p \in DOMAIN stream /\ stream[p].n \in Nat
            /\ LengthAt(p, pos) \/ MultipartAt(p, pos)
  <2>1. /\ "MESSAGE_COMPLETE" \in {"MULTIPART", "BODY", "CHUNK_HEADER", "CHUNK_COMPLETE",
                                   "MESSAGE_COMPLETE"}
        /\ "MESSAGE_COMPLETE" \notin {"CHUNK_HEADER", "BODY", "CHUNK_COMPLETE"}
    OBVIOUS
  <2> QED
    BY <1>1, <2>1, InTheBody
<1>3. PICK pos \in 0..taken : \E f, p \in 0..taken :
         /\ Rest = Positions(pos, taken) /\ HeadersAt(f, p)
         /\ f < p /\ p <= pos
         /\ Are(stream, NextMessage, {"blank"}, p - 1, p)
         /\ p \in DOMAIN stream /\ stream[p].n \in Nat
         /\ LengthAt(p, pos) \/ MultipartAt(p, pos)
  BY <1>2
<1>4. PICK f, p \in 0..taken :
         /\ Rest = Positions(pos, taken) /\ HeadersAt(f, p)
         /\ f < p /\ p <= pos
         /\ Are(stream, NextMessage, {"blank"}, p - 1, p)
         /\ p \in DOMAIN stream /\ stream[p].n \in Nat
         /\ LengthAt(p, pos) \/ MultipartAt(p, pos)
  BY <1>3
<1>5. /\ pos \in Nat /\ f \in Nat /\ p \in Nat /\ p <= pos /\ pos <= taken
      /\ p \in 0..pos /\ 0 < p
  BY <1>2, <1>4
<1>6. body \in Seq(Nat) /\ call.offset \in Nat /\ call.kept \in Nat /\ call.contentLength \in Nat
  BY <1>2, CallFields
<1>7. SentInTime'
  <2>1. stream' = stream /\ Len(got') = Len(got) + 1
    BY <1>1, <1>2, DeliversOne
  <2> QED
    BY <1>1, <2>1, StillInTime
<1>8. taken' \in 0..Len(stream) /\ call.at # "none" /\ taken \in 0..taken' /\ pos \in 0..taken'
  BY <1>1, <1>2, <1>5
<1>9. CASE LengthAt(p, pos)
  <2>1. /\ call.contentLength = 0 /\ pos = p /\ body = <<>>
        /\ Now = Report("MESSAGE_COMPLETE", 0, "start", 0)
    <3>1. \/ /\ parser.state = "complete" /\ call.contentLength = 0
             /\ pos = p /\ call.body = <<>>
             /\ Now = Report("MESSAGE_COMPLETE", 0, "start", 0)
          \/ /\ parser.state = "body" /\ parser.left = call.contentLength /\ parser.left > 0
             /\ pos = p /\ call.body = <<>>
             /\ \/ pos = taken /\ Now = Report("NONE", 0, "body", parser.left)
                \/ /\ pos < taken
                   /\ Now = ParseData(parser.left, taken - pos, "body", "complete")
      BY <1>2, <1>4, <1>9, NowLength
    <3>2. /\ Now # Report("NONE", 0, "body", parser.left)
          /\ Now # ParseData(parser.left, taken - pos, "body", "complete")
      BY <1>2 DEF Report, ParseData
    <3> QED
      BY <3>1, <3>2
  <2>2. Now.parsed = 0
    BY <2>1 DEF Report
  <2>3. /\ stream[p].body \notin {"chunked", "multipart"} /\ call.source = "buffer"
        /\ call.contentLength = stream[p].n
    BY <1>9 DEF LengthAt
  <2>4. pos = p + call.contentLength
    BY <1>5, <2>1
  <2>5. /\ SentIn(stream, preserve, NextMessage) =
              [head |-> call.head, body |-> Positions(p, pos)]
        /\ ~TooLargeIn(stream, NextMessage, 0)
        /\ AreDone(stream, NextMessage, pos)
    BY <1>2, <1>4, <1>5, <2>3, <2>4, LengthRead
  <2>6. Positions(p, pos) = <<>>
    BY <1>5, <2>1, PositionsProperties
  <2>7. o \in Nat /\ After(buffer, o) = Positions(pos, taken)
    <3>1. o = call.offset + 0 /\ call.offset + 0 = call.offset
      BY <1>6, <2>2, <2>3
    <3>2. Rest = After(buffer, call.offset)
      BY <2>3 DEF Rest, Source
    <3> QED
      BY <1>4, <1>6, <3>1, <3>2
  <2>8. SentIn(stream, preserve, NextMessage) = [head |-> call.head, body |-> body]
    BY <2>1, <2>5, <2>6
  <2> HIDE DEF body, o
  <2> QED
    BY <1>1, <1>6, <1>7, <1>8, <2>5, <2>7, <2>8, HandsOver
<1>10. CASE MultipartAt(p, pos)
  <2> DEFINE end == p + stream[p].n
             q == pos + 1
  <2>1. /\ pos < taken /\ Are(stream, NextMessage, {"close"}, pos, q)
        /\ Are(stream, NextMessage, {"epilogue"}, q, end)
        /\ q <= end /\ end <= pos + 2
        /\ end \in DOMAIN stream
        /\ StartsBehind(stream, NextMessage + 1, end)
        /\ Now = Report("MESSAGE_COMPLETE", taken - pos, "start", 0)
    <3>1. \/ Now = Report("NONE", 0, "multipart", parser.left)
          \/ Now = Report("NONE", 0, "multipart", 0)
          \/ Now = Report("MULTIPART", 1, "multipart", 0)
          \/ /\ pos < taken /\ Are(stream, NextMessage, {"close"}, pos, pos + 1)
             /\ Are(stream, NextMessage, {"epilogue"}, pos + 1, p + stream[p].n)
             /\ pos + 1 <= p + stream[p].n /\ p + stream[p].n <= pos + 2
             /\ p + stream[p].n \in DOMAIN stream
             /\ StartsBehind(stream, NextMessage + 1, p + stream[p].n)
             /\ Now = Report("MESSAGE_COMPLETE", taken - pos, "start", 0)
          \/ Now = Report("ERROR", 0, "error", 0)
      BY <1>2, <1>4, <1>5, <1>10, NowMultipart
    <3>2. /\ Now # Report("NONE", 0, "multipart", parser.left)
          /\ Now # Report("NONE", 0, "multipart", 0)
          /\ Now # Report("MULTIPART", 1, "multipart", 0)
          /\ Now # Report("ERROR", 0, "error", 0)
      BY <1>2 DEF Report
    <3> QED
      BY <3>1, <3>2
  <2>2. Now.parsed = taken - pos
    BY <2>1 DEF Report
  <2>3. /\ call.contentLength = stream[p].n
        /\ Are(stream, NextMessage, {"part", "mark"}, p, pos)
    BY <1>10 DEF MultipartAt
  <2>4. DOMAIN stream = 1..Len(stream)
    BY <1>2, Context
  <2>5. /\ end \in Nat /\ q \in Nat /\ end = p + call.contentLength /\ end <= Len(stream)
        /\ q = pos + 1 /\ q <= taken
    <3>1. /\ end = p + call.contentLength /\ end \in 1..Len(stream)
      BY <2>1, <2>3, <2>4
    <3>2. pos \in Nat /\ taken \in Nat /\ pos < taken /\ Len(stream) \in Nat
      BY <1>2, <1>5, <2>1
    <3>3. q \in Nat /\ q = pos + 1 /\ q <= taken
      BY <3>2
    <3>4. end \in Nat /\ end <= Len(stream)
      <4> HIDE DEF end
      <4> QED
        BY <3>1, <3>2
    <3> QED
      BY <3>1, <3>3, <3>4
  <2> HIDE DEF end, q
  <2>6. taken <= end
    <3>1. SentInTime
      BY DEF ReceiverInv
    <3> QED
      BY <1>2, <1>5, <2>1, <2>5, <3>1, NothingBehind
  <2>7. AreDone(stream, NextMessage, taken)
    <3>1. CASE taken = end
      BY <2>1, <3>1 DEF AreDone
    <3>2. CASE taken # end
      <4>1. taken = q /\ taken + 1 = end /\ q + 1 = end
        <5>1. /\ q \in Nat /\ end \in Nat /\ taken \in Nat /\ pos \in Nat
              /\ q = pos + 1 /\ q <= taken /\ end <= pos + 2
          BY <1>2, <1>5, <2>1, <2>5
        <5> QED
          BY <2>6, <3>2, <5>1
      <4>2. IsEmptyLine(stream, NextMessage, end)
        <5>1. Are(stream, NextMessage, {"epilogue"}, q, end) /\ q < end
          BY <2>1, <2>5, <4>1
        <5>2. end \in DOMAIN stream /\ stream[end].message = NextMessage /\ stream[end].is \in {"epilogue"}
          BY <2>5, <5>1, AreLast
        <5> QED
          BY <5>2 DEF IsEmptyLine
      <4> QED
        BY <2>1, <4>1, <4>2 DEF AreDone
    <3> QED
      BY <3>1, <3>2
  <2>8. /\ SentIn(stream, preserve, NextMessage) =
              [head |-> call.head,
               body |-> IF preserve THEN Positions(p, end)
                        ELSE Picked(stream, NextMessage, {"part"}, p, pos)]
        /\ ~TooLargeIn(stream, NextMessage, 0)
    <3>1. /\ f \in Nat /\ p \in Nat /\ pos \in Nat /\ p <= pos /\ HeadersAt(f, p)
          /\ q \in Nat /\ q = pos + 1 /\ end \in Nat /\ end = p + call.contentLength
          /\ q <= end /\ end <= Len(stream)
      BY <1>4, <1>5, <2>1, <2>5
    <3>2. /\ Are(stream, NextMessage, {"part", "mark"}, p, pos)
          /\ Are(stream, NextMessage, {"close"}, pos, q)
          /\ Are(stream, NextMessage, {"epilogue"}, q, end)
          /\ StartsBehind(stream, NextMessage + 1, end)
      BY <2>1, <2>3
    <3> QED
      BY <1>2, <3>1, <3>2, MultipartRead
  <2>9. CASE preserve
    <3>1. /\ call.source = "body" /\ call.kept = Len(buffer)
          /\ body = Positions(p, taken) /\ taken >= p + call.contentLength
      BY <1>2, <1>10, <2>9 DEF MultipartAt, ReadsBuffer
    <3>2. taken = end
      BY <1>2, <2>5, <2>6, <3>1
    <3>3. SentIn(stream, preserve, NextMessage) = [head |-> call.head, body |-> body]
      BY <2>8, <2>9, <3>1, <3>2
    <3>4. o \in Nat /\ After(buffer, o) = Positions(taken, taken')
      <4>1. o = Len(buffer)
        BY <3>1
      <4> HIDE DEF o
      <4>2. buffer \in Seq(Nat) /\ Len(buffer) \in Nat
        BY <1>2, Context
      <4>3. o \in Nat /\ Len(buffer) <= o
        BY <4>1, <4>2
      <4>4. After(buffer, o) = <<>>
        BY <4>2, <4>3, AfterAll
      <4>5. Positions(taken, taken) = <<>>
        BY <1>2, PositionsProperties
      <4> QED
        BY <1>1, <4>3, <4>4, <4>5
    <3> HIDE DEF body, o
    <3> QED
      BY <1>1, <1>6, <1>7, <1>8, <2>7, <2>8, <3>3, <3>4, HandsOver
  <2>10. CASE ~preserve
    <3>1. /\ call.source = "buffer"
          /\ body = Picked(stream, NextMessage, {"part"}, p, pos)
      BY <1>10, <2>10 DEF MultipartAt, ReadsBuffer
    <3>2. SentIn(stream, preserve, NextMessage) = [head |-> call.head, body |-> body]
      BY <2>8, <2>10, <3>1
    <3>3. o \in Nat /\ After(buffer, o) = Positions(taken, taken')
      <4> DEFINE n == taken - pos
      <4>1. n \in Nat /\ taken = pos + n
        BY <1>2, <1>5
      <4>2. o = call.offset + n
        BY <2>2, <3>1
      <4> HIDE DEF n, o
      <4>3. /\ call.offset + n \in Nat
            /\ After(buffer, call.offset + n) = Positions(taken, taken)
        <5>1. taken <= taken
          BY <1>2
        <5> QED
          BY <1>2, <1>4, <1>5, <3>1, <4>1, <5>1, LeftBehind
      <4> QED
        BY <1>1, <4>2, <4>3
    <3> HIDE DEF body, o
    <3> QED
      BY <1>1, <1>6, <1>7, <1>8, <2>7, <2>8, <3>2, <3>3, HandsOver
  <2> QED
    BY <2>9, <2>10
<1> QED
  BY <1>4, <1>9, <1>10

\* Bytes from the socket at the end of the buffer.
LEMMA BufferGrows ==
    ASSUME ReceiverTyped, NEW n \in Nat, NEW o \in 0..Len(buffer), NEW pos \in 0..taken,
           After(buffer, o) = Positions(pos, taken),
           buffer' = buffer \o Incoming(n), taken' = taken + n
    PROVE  /\ buffer' \in Seq(Nat) /\ Len(buffer') \in Nat /\ Len(buffer) <= Len(buffer')
           /\ After(buffer', o) = Positions(pos, taken')
<1>1. taken \in Nat /\ buffer \in Seq(Nat) /\ Len(buffer) \in Nat /\ pos \in Nat /\ pos <= taken
  BY Context
<1> DEFINE r == Incoming(n)
           b == taken + n
<1>2. b \in Nat /\ taken <= b
  BY <1>1
<1>3. r = Positions(taken, b)
  BY DEF Incoming
<1> HIDE DEF r, b
<1>4. r \in Seq(Nat)
  BY <1>1, <1>2, <1>3, PositionsProperties
<1>5. Len(r) \in Nat
  BY <1>4
<1>6. buffer \o r \in Seq(Nat) /\ Len(buffer \o r) = Len(buffer) + Len(r)
  BY <1>1, <1>4, ConcatProperties
<1>7. After(buffer \o r, o) = After(buffer, o) \o r
  BY <1>1, <1>4, AfterConcat
<1>8. Positions(pos, taken) \o Positions(taken, b) = Positions(pos, b)
  BY <1>1, <1>2, PositionsJoin
<1>9. After(buffer \o r, o) = Positions(pos, b)
  BY <1>3, <1>7, <1>8
<1>10. Len(buffer) <= Len(buffer \o r) /\ Len(buffer \o r) \in Nat
  BY <1>1, <1>5, <1>6
<1> QED
  BY <1>6, <1>9, <1>10 DEF r, b

\* Where the call is when it reads or parses the header of a frame.
LEMMA InTheFrame ==
    ASSUME ReceiverInv, call.at = "frame"
    PROVE  /\ ReceiverTyped /\ given_up = "no" /\ IsStream(stream)
           /\ taken \in Nat /\ taken <= Len(stream) /\ Len(stream) \in Nat
           /\ DOMAIN stream = 1..Len(stream)
           /\ buffer \in Seq(Nat) /\ Len(buffer) \in Nat
           /\ call \in CallsOfReceiver /\ NextMessage \in Nat
           /\ call.offset = parsedOffset /\ call.source = "buffer"
           /\ call.offset \in 0..Len(buffer) /\ parsedOffset <= LoadLimit
           /\ LoadLimit \in Nat /\ BufferSize \in Nat
           /\ \E pos \in 0..taken :
                 /\ After(buffer, call.offset) = Positions(pos, taken)
                 /\ FrameAt(pos)
                 /\ Len(buffer) = call.offset + taken - pos
<1>1. ReceiverTyped /\ given_up = "no" /\ Follows
  BY Calling
<1>2. /\ taken \in Nat /\ taken <= Len(stream) /\ Len(stream) \in Nat
      /\ DOMAIN stream = 1..Len(stream) /\ IsStream(stream)
      /\ buffer \in Seq(Nat) /\ Len(buffer) \in Nat
      /\ call \in CallsOfReceiver /\ NextMessage \in Nat
      /\ LoadLimit \in Nat /\ BufferSize \in Nat /\ parsedOffset \in Nat
  BY <1>1, Context
<1>3. parsedOffset <= LoadLimit
  BY <1>1, <1>2 DEF ReceiverTyped
<1>4. PICK pos \in 0..taken : Unread = Positions(pos, taken) /\ IsAt(pos)
  BY <1>1 DEF Follows
<1>5. FrameAt(pos)
  <2>1. ~NoCallAt(pos) /\ ~StartAt(pos) /\ ~HeadAt(pos) /\ ~PayloadAt(pos)
    <3>1. NoCall.at = "none"
      BY DEF NoCall
    <3> QED
      BY <3>1 DEF NoCallAt, StartAt, HeadAt, PayloadAt, ReadsBuffer
  <2>2. \A p : ~LengthAt(p, pos) /\ ~ChunkedAt(p, pos) /\ ~MultipartAt(p, pos)
    BY DEF LengthAt, ChunkedAt, MultipartAt, ReadsBuffer
  <2> QED
    BY <1>4, <2>1, <2>2 DEF IsAt
<1>6. call.offset = parsedOffset /\ call.source = "buffer"
  <2>1. "frame" \in Places
    BY DEF Places
  <2>2. IsBegun(Begun("frame", parsedOffset), "frame", parsedOffset)
    BY <1>2, <2>1, BegunProperties
  <2>3. call = Begun("frame", parsedOffset)
    BY <1>5 DEF FrameAt, Begun
  <2> QED
    BY <2>2, <2>3 DEF IsBegun
<1>7. call.offset \in 0..Len(buffer)
  BY <1>2, <1>5, <1>6 DEF FrameAt
<1>8. After(buffer, call.offset) = Positions(pos, taken)
  BY <1>4, <1>6 DEF Unread, Source
<1>9. Len(buffer) = call.offset + taken - pos
  <2> DEFINE o == call.offset
  <2>1. o \in Nat /\ o <= Len(buffer) /\ After(buffer, o) = Positions(pos, taken)
        /\ pos \in Nat /\ pos <= taken
    BY <1>2, <1>7, <1>8
  <2> HIDE DEF o
  <2>2. /\ pos < taken => Len(buffer) = o + taken - pos
        /\ taken <= pos => Len(buffer) <= o
    BY <1>1, <2>1, BufferEnds
  <2>3. Len(buffer) = o + taken - pos
    BY <1>2, <2>1, <2>2
  <2> QED
    BY <2>3 DEF o
<1> QED
  BY <1>1, <1>2, <1>3, <1>5, <1>6, <1>7, <1>8, <1>9

\* The second byte of a frame.
LEMMA SecondByte ==
    ASSUME NEW q \in Seq(Nat), NEW o \in Nat, NEW a \in Nat, NEW b \in Nat, a + 2 <= b,
           After(q, o) = Positions(a, b)
    PROVE  q[o + 2] = a + 2
<1>1. 2 \in 1..(b - a) /\ a <= b
  OBVIOUS
<1>2. Positions(a, b)[2] = a + 2
  BY <1>1 DEF Positions
<1>3. Len(Positions(a, b)) = b - a
  BY <1>1, PositionsProperties
<1>4. \A i \in 1..Len(After(q, o)) : After(q, o)[i] = q[o + i]
  BY AfterProperties
<1> QED
  BY <1>1, <1>2, <1>3, <1>4

\* recvData() for the header of a frame, which there is room for.
LEMMA RecvHeaderInv ==
    ASSUME ReceiverInv, Liberties = {}, NEW n \in 1..BufferSize, RecvHeader(n)
    PROVE  ReceiverInv'
<1>1. /\ call.at = "frame" /\ Unparsed < HeaderSize
      /\ IF Len(buffer) = BufferSize
         THEN GiveUp("error")
         ELSE /\ HasCome(n) /\ buffer' = buffer \o Incoming(n) /\ taken' = taken + n
              /\ UNCHANGED <<stream, preserve, parsedOffset, parser, call, got, given_up>>
  BY DEF RecvHeader, Receive
<1>2. /\ ReceiverTyped /\ given_up = "no" /\ IsStream(stream)
      /\ taken \in Nat /\ taken <= Len(stream) /\ Len(stream) \in Nat
      /\ DOMAIN stream = 1..Len(stream)
      /\ buffer \in Seq(Nat) /\ Len(buffer) \in Nat
      /\ call \in CallsOfReceiver /\ NextMessage \in Nat
      /\ call.offset = parsedOffset /\ call.source = "buffer"
      /\ call.offset \in 0..Len(buffer) /\ parsedOffset <= LoadLimit
      /\ LoadLimit \in Nat /\ BufferSize \in Nat
      /\ \E pos \in 0..taken :
            /\ After(buffer, call.offset) = Positions(pos, taken)
            /\ FrameAt(pos)
            /\ Len(buffer) = call.offset + taken - pos
  BY <1>1, InTheFrame
<1>3. PICK pos \in 0..taken :
         /\ After(buffer, call.offset) = Positions(pos, taken)
         /\ FrameAt(pos)
         /\ Len(buffer) = call.offset + taken - pos
  BY <1>2
<1>4. pos \in Nat /\ pos <= taken /\ call.offset \in Nat
  BY <1>2
<1>5. CASE Len(buffer) = BufferSize
  <2>1. GiveUp("error")
    BY <1>1, <1>5
  <2>2. ASSUME HeadersFit PROVE FALSE
    <3>1. \A i \in DOMAIN stream : LoadLimit + 2 + stream[i].more <= BufferSize
      BY <1>2, <2>2 DEF HeadersFit, ReceiverTyped, HEADER_MIN_SIZE
    <3>2. pos + 1 \in DOMAIN stream
      BY <1>3, <1>4, AreOne DEF FrameAt
    <3>3. \A i \in DOMAIN stream : stream[i].more \in Nat
      BY <1>2, StreamTokens
    <3> DEFINE m == stream[pos + 1].more
               o == call.offset
    <3>4. m \in Nat /\ LoadLimit + 2 + m <= BufferSize /\ o <= LoadLimit /\ o \in Nat
      BY <1>2, <1>4, <3>1, <3>2, <3>3
    <3>5. Unparsed = BufferSize - o
      BY <1>5 DEF Unparsed
    <3> HIDE DEF m, o
    <3>6. Unparsed >= 2
      BY <1>2, <3>4, <3>5
    <3>7. HeaderSize = 2 + stream[buffer[call.offset + 2]].more
      <4>1. ~(Unparsed < 2)
        BY <1>2, <3>4, <3>5, <3>6
      <4> QED
        BY <4>1 DEF HeaderSize, HEADER_MIN_SIZE
    <3>8. buffer[call.offset + 2] = pos + 2 /\ pos + 2 \in DOMAIN stream
      <4>1. Len(buffer) >= o + 2 /\ taken >= pos + 2
        <5>1. Len(buffer) = o + taken - pos
          BY <1>3 DEF o
        <5> QED
          BY <1>2, <1>4, <1>5, <3>4, <3>5, <3>6, <5>1
      <4>2. After(buffer, o) = Positions(pos, taken)
        BY <1>3 DEF o
      <4>3. buffer[o + 2] = pos + 2
        BY <1>2, <1>4, <3>4, <4>1, <4>2, SecondByte
      <4>6. pos + 2 \in DOMAIN stream
        BY <1>2, <1>4, <4>1
      <4> QED
        BY <4>3, <4>6 DEF o
    <3> DEFINE w == stream[pos + 2].more
    <3>9. HeaderSize = 2 + w /\ w \in Nat /\ LoadLimit + 2 + w <= BufferSize
      BY <3>1, <3>3, <3>7, <3>8
    <3> HIDE DEF w
    <3> QED
      BY <1>1, <1>2, <3>4, <3>5, <3>9
  <2>3. "error" # "no" /\ "error" # "too large"
    OBVIOUS
  <2> QED
    BY <2>1, <2>2, <2>3, GivesUp
<1>6. CASE Len(buffer) # BufferSize
  <2>1. /\ HasCome(n) /\ buffer' = buffer \o Incoming(n) /\ taken' = taken + n
        /\ stream' = stream /\ preserve' = preserve /\ parsedOffset' = parsedOffset
        /\ parser' = parser /\ call' = call /\ got' = got /\ given_up' = given_up
    BY <1>1, <1>6
  <2>2. n \in Nat
    BY <1>2
  <2>3. SentInTime' /\ taken + n <= Len(stream)
    BY <2>1, <2>2, MoreInTime
  <2>4. /\ buffer' \in Seq(Nat) /\ Len(buffer') \in Nat /\ Len(buffer) <= Len(buffer')
        /\ After(buffer', call.offset) = Positions(pos, taken')
    <3> DEFINE o == call.offset
    <3>1. o \in 0..Len(buffer) /\ After(buffer, o) = Positions(pos, taken)
      BY <1>2, <1>3
    <3> HIDE DEF o
    <3>2. /\ buffer' \in Seq(Nat) /\ Len(buffer') \in Nat /\ Len(buffer) <= Len(buffer')
          /\ After(buffer', o) = Positions(pos, taken')
      BY <1>2, <2>1, <2>2, <3>1, BufferGrows
    <3> QED
      BY <3>2 DEF o
  <2>5. FrameAt(pos)'
    <3>1. NextMessage' = NextMessage
      BY <2>1 DEF NextMessage
    <3>2. parsedOffset = 0 \/ parsedOffset < Len(buffer')
      <4>1. parsedOffset = 0 \/ parsedOffset < Len(buffer)
        BY <1>3 DEF FrameAt
      <4> QED
        BY <1>2, <1>4, <2>4, <4>1
    <3> QED
      BY <1>3, <2>1, <3>1, <3>2 DEF FrameAt
  <2>6. Follows'
    <3>1. Unread' = After(buffer', call.offset)
      BY <1>1, <1>2, <2>1 DEF Unread, Source
    <3>2. pos \in 0..taken' /\ call'.at # "receive"
      BY <1>1, <1>2, <1>4, <2>1, <2>2
    <3> QED
      BY <2>4, <2>5, <3>1, <3>2 DEF Follows, IsAt
  <2>7. ReceiverTyped'
    <3>1. given_up' = "no" /\ taken' \in 0..Len(stream')
      BY <1>2, <2>1, <2>2, <2>3
    <3> QED
      BY <1>2, <2>1, <2>4, <3>1 DEF ReceiverTyped
  <2> QED
    BY <1>1, <2>1, <2>3, <2>6, <2>7, GoesOn
<1> QED
  BY <1>5, <1>6

\* A part of what is behind o, which is what comes after position a.
PartIs(q, o, m, n, a) == SubSeq(q, (o + m) + 1, o + n) = Positions(a + m, a + n)

\* Such a part is there.
LEMMA SubSeqAfter ==
    ASSUME NEW q \in Seq(Nat), NEW o \in Nat, NEW a \in Nat, NEW b \in Nat,
           After(q, o) = Positions(a, b), NEW m \in Nat, NEW n \in Nat, m <= n, a + n <= b
    PROVE  PartIs(q, o, m, n, a)
<1>1. a <= b /\ Len(q) \in Nat /\ a + m \in Nat /\ a + n \in Nat
  OBVIOUS
<1>2. /\ Len(Positions(a, b)) = b - a
      /\ \A i \in 1..(b - a) : Positions(a, b)[i] = a + i
  BY <1>1, PositionsProperties
<1>3. /\ Len(After(q, o)) = IF o <= Len(q) THEN Len(q) - o ELSE 0
      /\ \A i \in 1..Len(After(q, o)) : After(q, o)[i] = q[o + i]
  BY AfterProperties
<1>4. \A i \in 1..(b - a) : q[o + i] = a + i
  BY <1>2, <1>3
<1> DEFINE u == (o + m) + 1
           v == o + n
<1>5. u \in Int /\ v \in Int /\ v - u + 1 = n - m /\ u + 0 = (o + m) + 1
  OBVIOUS
<1>6. \A i \in u..v : q[i] = a + (i - o) /\ q[i] \in Nat
  <2>1. SUFFICES ASSUME NEW i \in u..v PROVE q[i] = a + (i - o) /\ q[i] \in Nat
    OBVIOUS
  <2>2. i - o \in 1..(b - a) /\ o + (i - o) = i /\ a + (i - o) \in Nat
    BY <1>1
  <2> QED
    BY <1>4, <2>2
<1>7. /\ SubSeq(q, u, v) \in Seq(Nat)
      /\ Len(SubSeq(q, u, v)) = IF u <= v THEN v - u + 1 ELSE 0
      /\ \A i \in 1..(v - u + 1) : SubSeq(q, u, v)[i] = q[u + i - 1]
  <2>1. u \in Int /\ v \in Int /\ \A i \in u..v : q[i] \in Nat
    BY <1>5, <1>6
  <2> HIDE DEF u, v
  <2> QED
    BY <2>1, SubSeqProperties
<1> DEFINE c == a + m
           d == a + n
<1>8. c \in Nat /\ d \in Nat /\ c <= d /\ d - c = n - m
  OBVIOUS
<1>9. /\ Positions(c, d) \in Seq(Nat) /\ Len(Positions(c, d)) = n - m
      /\ \A i \in 1..(n - m) : Positions(c, d)[i] = c + i
  <2> HIDE DEF c, d
  <2> QED
    BY <1>8, PositionsProperties
<1>10. Len(SubSeq(q, u, v)) = n - m
  <2>1. u <= v \/ n - m = 0
    OBVIOUS
  <2>2. u <= v => v - u + 1 = n - m
    BY <1>5
  <2>3. ~(u <= v) => n - m = 0
    BY <2>1
  <2> HIDE DEF u, v
  <2> QED
    BY <1>7, <2>2, <2>3
<1>11. ASSUME NEW i \in 1..(n - m) PROVE SubSeq(q, u, v)[i] = Positions(c, d)[i]
  <2>1. SubSeq(q, u, v)[i] = q[u + i - 1]
    BY <1>5, <1>7
  <2>2. u + i - 1 \in u..v /\ a + ((u + i - 1) - o) = c + i
    BY <1>5
  <2>3. q[u + i - 1] = c + i
    <3> HIDE DEF u, v, c
    <3> QED
      BY <1>6, <2>2
  <2> QED
    BY <1>9, <2>1, <2>3
<1>12. SubSeq(q, u, v) = Positions(c, d)
  <2> HIDE DEF u, v, c, d
  <2> QED
    BY <1>7, <1>9, <1>10, <1>11, SeqEqual
<1> QED
  BY <1>12 DEF PartIs

\* A frame from f on, whose payload is that from s to z.
FrameIs(f, s, z) ==
    /\ s \in Nat /\ z \in Nat /\ f < s /\ s <= z /\ z <= Len(stream)
    /\ Are(stream, NextMessage, {"opcode", "length", "extended"}, f, s)
    /\ Are(stream, NextMessage, {"data"}, s, z)
    /\ StartsBehind(stream, NextMessage + 1, z)

\* A frame is there, where its first byte is.
LEMMA FrameThere ==
    ASSUME ReceiverTyped, NEW f \in Nat, Are(stream, NextMessage, {"opcode"}, f, f + 1)
    PROVE  /\ f + 2 \in DOMAIN stream /\ stream[f + 2].more \in Nat /\ stream[f + 2].n \in Nat
           /\ \E s, z \in Nat : /\ s = f + 2 + stream[f + 2].more
                                /\ z = s + stream[f + 2].n
                                /\ FrameIs(f, s, z)
<1>1. /\ IsStream(stream) /\ NextMessage \in Nat /\ DOMAIN stream = 1..Len(stream)
      /\ Len(stream) \in Nat
  BY Context
<1>2. PICK i \in Nat : i = f + 1
  OBVIOUS
<1>3. i \in DOMAIN stream /\ stream[i].message = NextMessage /\ stream[i].is \in {"opcode"}
  <2>1. Are(stream, NextMessage, {"opcode"}, f, i) /\ f < i
    BY <1>2
  <2> QED
    BY <2>1, AreLast
<1> DEFINE j == i + 1
           more == stream[j].more
           n == stream[j].n
           s == j + more
           z == s + n
<1>4. /\ j \in DOMAIN stream /\ more \in Nat /\ n \in Nat
      /\ Are(stream, NextMessage, {"length"}, i, j)
      /\ Are(stream, NextMessage, {"extended"}, j, s)
      /\ Are(stream, NextMessage, {"data"}, s, z)
      /\ z \in DOMAIN stream
      /\ StartsBehind(stream, NextMessage + 1, z)
  BY <1>1, <1>3, FrameOf
<1>5. j = f + 2 /\ j \in Nat /\ s \in Nat /\ z \in Nat /\ f < s /\ s <= z /\ z <= Len(stream)
  <2>1. j = f + 2 /\ j \in Nat
    BY <1>2
  <2> HIDE DEF j
  <2>2. s \in Nat /\ s >= j
    BY <1>4, <2>1
  <2> HIDE DEF s
  <2>3. z \in Nat /\ s <= z
    BY <1>4, <2>2
  <2> QED
    BY <1>1, <1>4, <2>1, <2>2, <2>3
<1> HIDE DEF j, more, n, s, z
<1>6. Are(stream, NextMessage, {"opcode", "length", "extended"}, f, s)
  <2> DEFINE L == {"opcode", "length", "extended"}
  <2>1. {"opcode"} \subseteq L /\ {"length"} \subseteq L /\ {"extended"} \subseteq L
    OBVIOUS
  <2> HIDE DEF L
  <2>2. Are(stream, NextMessage, {"opcode"}, f, i)
    BY <1>2
  <2>3. /\ Are(stream, NextMessage, L, f, i) /\ Are(stream, NextMessage, L, i, j)
        /\ Are(stream, NextMessage, L, j, s)
    BY <1>4, <2>1, <2>2, AreMore
  <2>4. Are(stream, NextMessage, L, f, j)
    BY <1>5, <2>3, AreJoin
  <2>5. Are(stream, NextMessage, L, f, s)
    BY <1>5, <2>3, <2>4, AreJoin
  <2> QED
    BY <2>5 DEF L
<1>7. FrameIs(f, s, z)
  BY <1>4, <1>5, <1>6 DEF FrameIs
<1>8. s = f + 2 + stream[f + 2].more /\ z = s + stream[f + 2].n
  BY <1>5 DEF s, z, more, n
<1> QED
  BY <1>4, <1>5, <1>7, <1>8 DEF more, n

\* The frame is what is to be returned.
LEMMA FrameRead ==
    ASSUME ReceiverTyped, NEW f \in Nat, NEW s \in Nat, NEW z \in Nat, FrameIs(f, s, z),
           StartsBehind(stream, NextMessage, f), z - s <= MaxContentLength
    PROVE  /\ SentIn(stream, preserve, NextMessage)
                 = [head |-> Positions(f, s), body |-> Positions(s, z)]
           /\ ~TooLargeIn(stream, NextMessage, 0)
           /\ AreDone(stream, NextMessage, z)
<1>1. IsStream(stream) /\ NextMessage \in Nat /\ MaxHeaderLength \in Nat
  BY Context
<1> DEFINE L == {"opcode", "length", "extended"}
           D == {"data"}
           H == {"head", "blank"}
<1>2. /\ f < s /\ s <= z /\ z <= Len(stream) /\ Are(stream, NextMessage, L, f, s)
      /\ Are(stream, NextMessage, D, s, z) /\ StartsBehind(stream, NextMessage + 1, z)
  BY DEF FrameIs
<1>3. /\ L \subseteq HeaderKinds /\ D \subseteq BodyKinds /\ D \subseteq ContentKinds
      /\ D \subseteq KeptOfBody(preserve) /\ L \cap H = {}
  BY DEF HeaderKinds, BodyKinds, ContentKinds, KeptOfBody
<1>4. H = {"head", "blank"}
  OBVIOUS
<1> HIDE DEF L, D, H
<1>5. Consists(stream, NextMessage, f, s, z)
  <2>1. Are(stream, NextMessage, HeaderKinds, f, s) /\ Are(stream, NextMessage, BodyKinds, s, z)
    BY <1>2, <1>3, AreMore
  <2>2. f <= s
    BY <1>2
  <2> QED
    BY <1>2, <2>1, <2>2 DEF Consists
<1> DEFINE K == KeptOfBody(preserve)
<1>6. Picked(stream, NextMessage, K, s, z) = Positions(s, z)
  <2> HIDE DEF K
  <2>1. D \subseteq K
    BY <1>3 DEF K
  <2> QED
    BY <1>2, <2>1, PickedAll
<1>7. SentIn(stream, preserve, NextMessage)
         = [head |-> Positions(f, s), body |-> Picked(stream, NextMessage, K, s, z)]
  BY <1>1, <1>5, SentPieces
<1>8. Len(Picked(stream, NextMessage, H, f, s)) <= MaxHeaderLength
  <2>1. Picked(stream, NextMessage, H, f, s) = <<>>
    BY <1>2, <1>3, PickedNone
  <2> QED
    BY <1>1, <2>1
<1>9. Len(Picked(stream, NextMessage, ContentKinds, s, z)) <= MaxContentLength
  <2>1. Picked(stream, NextMessage, ContentKinds, s, z) = Positions(s, z)
    BY <1>2, <1>3, PickedAll
  <2>2. Len(Positions(s, z)) = z - s
    BY <1>2, PositionsProperties
  <2> QED
    BY <2>1, <2>2
<1>10. ~TooLargeIn(stream, NextMessage, 0)
  BY <1>1, <1>4, <1>5, <1>8, <1>9, WithinLimits DEF ContentKinds
<1> QED
  BY <1>2, <1>6, <1>7, <1>10 DEF AreDone

\* What is behind n more than o.
LEMMA AfterMore ==
    ASSUME NEW q \in Seq(Nat), NEW o \in Nat, NEW a \in Nat, NEW b \in Nat,
           After(q, o) = Positions(a, b), NEW n \in Nat, a + n <= b
    PROVE  After(q, o + n) = Positions(a + n, b)
<1>1. a <= b /\ n \in 0..(b - a)
  OBVIOUS
<1>2. After(After(q, o), n) = After(q, o + n)
  BY AfterAfter
<1>3. After(Positions(a, b), n) = Positions(a + n, b)
  BY <1>1, PositionsAfter
<1> QED
  BY <1>2, <1>3

\* The length that the header of a frame announces.
PayloadSize == stream[buffer[call.offset + 2]].n

\* The header is there of the frame at f, whose payload is that from s to z.
FrameOpen(f, s, z) ==
    /\ FrameIs(f, s, z) /\ s <= taken
    /\ StartsBehind(stream, NextMessage, f)
    /\ Are(stream, NextMessage, {"opcode"}, f, f + 1)
    /\ HeaderSize \in Nat /\ s = f + HeaderSize /\ HeaderSize = 2 + stream[f + 2].more
    /\ PayloadSize \in Nat /\ z = s + PayloadSize /\ PayloadSize = stream[f + 2].n
    /\ SubSeq(buffer, call.offset + 1, call.offset + HeaderSize) = Positions(f, s)
    /\ After(buffer, call.offset + HeaderSize) = Positions(s, taken)
    /\ Len(buffer) = (call.offset + HeaderSize) + (taken - s)
    /\ z <= taken =>
          /\ SubSeq(buffer, (call.offset + HeaderSize) + 1,
                    (call.offset + HeaderSize) + PayloadSize) = Positions(s, z)
          /\ After(buffer, (call.offset + HeaderSize) + PayloadSize) = Positions(z, taken)

\* Where the call is when the header of a frame is there.
LEMMA FrameOpens ==
    ASSUME ReceiverInv, call.at = "frame",
           Unparsed >= HEADER_MIN_SIZE, Unparsed >= HeaderSize
    PROVE  \E f \in 0..taken : \E s, z \in Nat : FrameOpen(f, s, z)
<1>1. /\ ReceiverTyped
      /\ taken \in Nat /\ Len(stream) \in Nat
      /\ buffer \in Seq(Nat) /\ Len(buffer) \in Nat
      /\ NextMessage \in Nat /\ call.offset \in 0..Len(buffer)
      /\ \E pos \in 0..taken :
            /\ After(buffer, call.offset) = Positions(pos, taken)
            /\ FrameAt(pos)
            /\ Len(buffer) = call.offset + taken - pos
  BY InTheFrame
<1>2. PICK f \in 0..taken :
         /\ After(buffer, call.offset) = Positions(f, taken)
         /\ FrameAt(f)
         /\ Len(buffer) = call.offset + taken - f
  BY <1>1
<1>3. /\ StartsBehind(stream, NextMessage, f)
      /\ Are(stream, NextMessage, {"opcode"}, f, f + 1)
  BY <1>2 DEF FrameAt
<1>4. f \in Nat
  BY <1>1
<1>5. /\ f + 2 \in DOMAIN stream /\ stream[f + 2].more \in Nat /\ stream[f + 2].n \in Nat
      /\ \E s, z \in Nat : /\ s = f + 2 + stream[f + 2].more
                           /\ z = s + stream[f + 2].n
                           /\ FrameIs(f, s, z)
  BY <1>1, <1>3, <1>4, FrameThere
<1>6. PICK s, z \in Nat : /\ s = f + 2 + stream[f + 2].more
                          /\ z = s + stream[f + 2].n
                          /\ FrameIs(f, s, z)
  BY <1>5
<1> DEFINE o == call.offset
           more == stream[f + 2].more
           n == stream[f + 2].n
<1>7. /\ o \in Nat /\ After(buffer, o) = Positions(f, taken) /\ Len(buffer) = o + taken - f
      /\ more \in Nat /\ n \in Nat /\ s = f + 2 + more /\ z = s + n
      /\ Len(buffer) - o >= 2 /\ ~(Unparsed < 2)
  <2>1. /\ o \in Nat /\ After(buffer, o) = Positions(f, taken) /\ Len(buffer) = o + taken - f
        /\ Unparsed = Len(buffer) - o
    BY <1>1, <1>2 DEF Unparsed
  <2>2. more \in Nat /\ n \in Nat /\ s = f + 2 + more /\ z = s + n
    BY <1>5, <1>6
  <2>3. Unparsed >= 2
    BY DEF HEADER_MIN_SIZE
  <2> HIDE DEF o, more, n
  <2>4. Len(buffer) - o >= 2 /\ ~(Unparsed < 2)
    <3>1. Unparsed \in Int
      BY <1>1, <2>1
    <3> QED
      BY <2>1, <2>3, <3>1
  <2> QED
    BY <2>1, <2>2, <2>4
<1> HIDE DEF o
<1>8. f + 2 <= taken
  <2> HIDE DEF more, n
  <2> QED
    BY <1>1, <1>4, <1>7
<1> DEFINE behind == After(buffer, o) = Positions(f, taken)
<1>a. o \in Nat /\ behind
  BY <1>7
<1>9. buffer[o + 2] = f + 2
  BY <1>1, <1>4, <1>8, <1>a, SecondByte
<1>10. HeaderSize = 2 + more /\ PayloadSize = n
  BY <1>7, <1>9 DEF HeaderSize, PayloadSize, HEADER_MIN_SIZE, o
<1> DEFINE h == HeaderSize
           start == o + h
<1>11. Len(buffer) - o >= h /\ h \in Nat /\ h = 2 + more
  <2>1. Unparsed = Len(buffer) - o /\ Unparsed >= h
    BY DEF Unparsed, o
  <2> HIDE DEF h, more
  <2> QED
    BY <1>7, <1>10, <2>1 DEF h
<1> HIDE DEF h, more, n
<1>12. /\ f + h = s /\ f + h <= taken /\ start \in Nat /\ s <= taken
       /\ Len(buffer) = start + (taken - s)
  <2> DEFINE l == Len(buffer)
  <2>1. /\ l = o + taken - f /\ l - o >= h /\ h \in Nat /\ h = 2 + more /\ s = f + 2 + more
        /\ o \in Nat /\ more \in Nat
    BY <1>7, <1>11
  <2> HIDE DEF l
  <2>2. f + h = s /\ f + h <= taken /\ start \in Nat /\ l = start + (taken - s)
    BY <1>1, <1>4, <2>1
  <2> QED
    BY <2>2 DEF l
<1>b. h \in Nat /\ f + h <= taken
  BY <1>11, <1>12
<1>c. n \in Nat /\ start \in Nat
  BY <1>7, <1>12
<1>13. SubSeq(buffer, o + 1, o + h) = Positions(f, s)
  <2> DEFINE m == 0
  <2>1. m \in Nat /\ m <= h /\ o + m = o /\ f + m = f
    BY <1>4, <1>a, <1>b
  <2>a. m \in Nat /\ m <= h
    BY <2>1
  <2> HIDE DEF m
  <2>2. PartIs(buffer, o, m, h, f)
    BY <1>1, <1>4, <1>a, <1>b, <2>a, SubSeqAfter
  <2> QED
    <3>1. SubSeq(buffer, (o + m) + 1, o + h) = Positions(f + m, f + h)
      BY <2>2 DEF PartIs
    <3> QED
      BY <1>12, <2>1, <3>1
<1>14. After(buffer, start) = Positions(s, taken)
  <2>1. After(buffer, o + h) = Positions(f + h, taken)
    BY <1>1, <1>4, <1>a, <1>b, AfterMore
  <2> QED
    BY <1>12, <2>1
<1> HIDE DEF start
<1>15. ASSUME z <= taken
       PROVE  /\ SubSeq(buffer, start + 1, start + n) = Positions(s, z)
              /\ After(buffer, start + n) = Positions(z, taken)
  <2>1. s + n <= taken /\ z = s + n
    BY <1>7, <1>15
  <2> DEFINE m == 0
  <2>2. m \in Nat /\ m <= n /\ start + m = start /\ s + m = s
    BY <1>7, <1>12
  <2>a. m \in Nat /\ m <= n /\ s + n <= taken
    BY <2>1, <2>2
  <2> HIDE DEF m
  <2>b. PartIs(buffer, start, m, n, s)
    BY <1>1, <1>c, <1>14, <2>a, SubSeqAfter
  <2>3. SubSeq(buffer, (start + m) + 1, start + n) = Positions(s + m, s + n)
    BY <2>b DEF PartIs
  <2>4. After(buffer, start + n) = Positions(s + n, taken)
    BY <1>1, <1>c, <1>14, <2>a, AfterMore
  <2> QED
    BY <2>1, <2>2, <2>3, <2>4
<1>16. start = call.offset + HeaderSize /\ PayloadSize = n /\ PayloadSize \in Nat
  BY <1>7, <1>10 DEF start, o, h
<1>17. FrameOpen(f, s, z)
  <2>1. HeaderSize \in Nat /\ s = f + HeaderSize /\ HeaderSize = 2 + stream[f + 2].more
    BY <1>10, <1>11, <1>12 DEF h, more
  <2>2. z = s + PayloadSize /\ PayloadSize = stream[f + 2].n
    BY <1>7, <1>16 DEF n
  <2>3. SubSeq(buffer, call.offset + 1, call.offset + HeaderSize) = Positions(f, s)
    BY <1>13 DEF o, h
  <2> QED
    BY <1>3, <1>6, <1>12, <1>14, <1>15, <1>16, <2>1, <2>2, <2>3 DEF FrameOpen
<1> QED
  BY <1>17

\* The call goes on with the payload of a frame.
Framed(c, head, body, o, n) ==
    [c EXCEPT !.at = "payload", !.head = head, !.body = body, !.offset = o, !.contentLength = n]

IsFramed(d, c, head, body, o, n) ==
    /\ d \in CallsOfReceiver
    /\ d.at = "payload" /\ d.source = c.source /\ d.offset = o
    /\ d.head = head /\ d.body = body /\ d.contentLength = n

\* What changes of a call that is to read the rest of a payload.
LEMMA FramedProperties ==
    ASSUME NEW c \in CallsOfReceiver, NEW head \in Seq(Nat), NEW body \in Seq(Nat),
           NEW o \in Nat, NEW n \in Nat
    PROVE  IsFramed(Framed(c, head, body, o, n), c, head, body, o, n)
<1>1. "payload" \in Places
  BY DEF Places
<1>2. Framed(c, head, body, o, n) \in CallsOfReceiver
  BY <1>1 DEF CallsOfReceiver, Framed
<1> QED
  BY <1>2 DEF CallsOfReceiver, Framed, IsFramed

\* The header of a frame is there: the frame is too large, or it is returned, or the rest
\* of its payload is read.
LEMMA FrameHeaderInv ==
    ASSUME ReceiverInv, FrameHeader
    PROVE  ReceiverInv'
<1> DEFINE n == PayloadSize
           start == call.offset + HeaderSize
           head == SubSeq(buffer, call.offset + 1, start)
           payload == SubSeq(buffer, start + 1, start + n)
           part == After(buffer, start)
<1>1. /\ call.at = "frame" /\ Unparsed >= HEADER_MIN_SIZE /\ Unparsed >= HeaderSize
      /\ IF n > MaxContentLength
         THEN GiveUp("too large")
         ELSE IF Len(buffer) - start >= n
         THEN Deliver(head, payload, start + n) /\ taken' = taken /\ parser' = parser
         ELSE /\ call' = Framed(call, head, part, start, n)
              /\ UNCHANGED <<stream, preserve, taken, buffer, parsedOffset, parser, got, given_up>>
  BY DEF FrameHeader, PayloadSize, Framed
<1>2. /\ ReceiverTyped /\ given_up = "no" /\ IsStream(stream)
      /\ taken \in Nat /\ taken <= Len(stream) /\ Len(stream) \in Nat
      /\ buffer \in Seq(Nat) /\ Len(buffer) \in Nat
      /\ call \in CallsOfReceiver /\ NextMessage \in Nat
      /\ call.offset \in Nat /\ call.source = "buffer" /\ MaxContentLength \in Nat
  BY <1>1, InTheFrame, Context
<1>3. parser.state = "start" /\ parser \in [state : ParserStates, left : Nat]
  <2>1. \E pos \in 0..taken : FrameAt(pos)
    BY <1>1, InTheFrame
  <2> QED
    BY <1>2, <2>1 DEF FrameAt, ReceiverTyped
<1>4. PICK f \in 0..taken : \E s, z \in Nat : FrameOpen(f, s, z)
  BY <1>1, FrameOpens
<1>5. PICK s, z \in Nat : FrameOpen(f, s, z)
  BY <1>4
<1>6. /\ FrameIs(f, s, z) /\ s <= taken
      /\ StartsBehind(stream, NextMessage, f)
      /\ Are(stream, NextMessage, {"opcode"}, f, f + 1)
      /\ HeaderSize \in Nat /\ s = f + HeaderSize /\ HeaderSize = 2 + stream[f + 2].more
      /\ n \in Nat /\ z = s + n /\ n = stream[f + 2].n
      /\ head = Positions(f, s) /\ part = Positions(s, taken)
      /\ Len(buffer) = start + (taken - s)
      /\ z <= taken => payload = Positions(s, z) /\ After(buffer, start + n) = Positions(z, taken)
  BY <1>5 DEF FrameOpen
<1>7. f \in Nat /\ f < s /\ s <= z /\ z <= Len(stream) /\ Are(stream, NextMessage, {"data"}, s, z)
  BY <1>2, <1>6 DEF FrameIs
<1>8. start \in Nat
  <2> DEFINE o == call.offset
             h == HeaderSize
  <2>1. o \in Nat /\ h \in Nat
    BY <1>2, <1>6
  <2> HIDE DEF o, h
  <2>2. o + h \in Nat
    BY <2>1
  <2> QED
    BY <2>2 DEF o, h
<1>9. head \in Seq(Nat) /\ part \in Seq(Nat)
  <2>1. Positions(f, s) \in Seq(Nat)
    BY <1>7, PositionsProperties
  <2>2. Positions(s, taken) \in Seq(Nat)
    BY <1>2, <1>6, PositionsProperties
  <2> QED
    BY <1>6, <2>1, <2>2
<1>a. n \in Nat /\ z = s + n
  BY <1>6
<1>b. f \in Nat /\ s \in Nat /\ z \in Nat /\ s <= taken /\ z <= Len(stream)
  BY <1>6, <1>7
<1> HIDE DEF n, start, head, payload, part
<1>10. CASE n > MaxContentLength
  <2>1. GiveUp("too large")
    BY <1>1, <1>10
  <2> DEFINE D == {"data"}
             before == Len(Picked(stream, NextMessage - 1, {"epilogue"}, 0, Len(stream)))
  <2>2. D \subseteq {"data", "part", "mark", "close", "epilogue", "junk"}
        /\ Are(stream, NextMessage, D, s, z)
    BY <1>7
  <2>3. z - s > MaxContentLength
    BY <1>2, <1>a, <1>b, <1>10
  <2> HIDE DEF D, before
  <2>4. TooLargeIn(stream, NextMessage, before)
    BY <1>2, <1>7, <2>2, <2>3, TooMuchContent
  <2>5. "too large" # "no" /\ "too large" # "error"
    OBVIOUS
  <2> QED
    BY <2>1, <2>4, <2>5, GivesUp DEF before
<1>11. CASE n <= MaxContentLength /\ Len(buffer) - start >= n
  <2>1. Deliver(head, payload, start + n) /\ taken' = taken /\ parser' = parser
    <3>1. ~(n > MaxContentLength)
      BY <1>2, <1>a, <1>11
    <3> QED
      BY <1>1, <1>11, <3>1
  <2>2. z <= taken /\ z - s <= MaxContentLength
    <3> DEFINE l == Len(buffer)
    <3>1. l = start + (taken - s) /\ l - start >= n /\ z = s + n /\ n \in Nat /\ n <= MaxContentLength
      BY <1>6, <1>11
    <3> HIDE DEF l
    <3> QED
      BY <1>2, <1>8, <1>b, <3>1
  <2>3. /\ SentIn(stream, preserve, NextMessage)
             = [head |-> Positions(f, s), body |-> Positions(s, z)]
        /\ ~TooLargeIn(stream, NextMessage, 0)
        /\ AreDone(stream, NextMessage, z)
    <3>1. FrameIs(f, s, z) /\ StartsBehind(stream, NextMessage, f)
      BY <1>6
    <3> QED
      BY <1>2, <1>b, <2>2, <3>1, FrameRead
  <2>4. payload = Positions(s, z) /\ After(buffer, start + n) = Positions(z, taken)
    BY <1>6, <2>2
  <2>5. payload \in Seq(Nat)
    <3>1. Positions(s, z) \in Seq(Nat)
      BY <1>7, PositionsProperties
    <3> QED
      BY <2>4, <3>1
  <2> DEFINE o == start + n
  <2>6. o \in Nat
    BY <1>8, <1>a
  <2>7. /\ Deliver(head, payload, o) /\ After(buffer, o) = Positions(z, taken')
        /\ [head |-> head, body |-> payload] = SentIn(stream, preserve, NextMessage)
    BY <1>6, <2>1, <2>3, <2>4
  <2> HIDE DEF o
  <2>8. stream' = stream /\ Len(got') = Len(got) + 1
    BY <1>2, <2>7, DeliversOne
  <2>9. SentInTime'
    BY <2>1, <2>8, StillInTime
  <2>10. taken' \in 0..Len(stream) /\ z \in 0..taken' /\ call.at # "none"
    <3>1. taken' = taken /\ call.at # "none"
      BY <1>1, <2>1
    <3> QED
      BY <1>2, <1>b, <2>2, <3>1
  <2>11. parser' \in [state : ParserStates, left : Nat] /\ parser'.state = "start"
    BY <1>3, <2>1
  <2> QED
    BY <1>9, <2>3, <2>5, <2>6, <2>7, <2>9, <2>10, <2>11, Delivers
<1>12. CASE n <= MaxContentLength /\ ~(Len(buffer) - start >= n)
  <2>1. /\ call' = Framed(call, head, part, start, n)
        /\ stream' = stream /\ preserve' = preserve /\ taken' = taken /\ buffer' = buffer
        /\ parsedOffset' = parsedOffset /\ parser' = parser /\ got' = got
        /\ given_up' = given_up
    <3>1. ~(n > MaxContentLength)
      BY <1>2, <1>a, <1>12
    <3> QED
      BY <1>1, <1>12, <3>1
  <2>2. taken < s + n /\ Len(buffer) = start + taken - s
    <3> DEFINE l == Len(buffer)
    <3>1. l = start + (taken - s) /\ ~(l - start >= n) /\ n \in Nat
      BY <1>6, <1>12
    <3> HIDE DEF l
    <3>2. taken < s + n /\ l = start + taken - s
      BY <1>2, <1>8, <1>b, <3>1
    <3> QED
      BY <3>2 DEF l
  <2>3. IsFramed(Framed(call, head, part, start, n), call, head, part, start, n)
    BY <1>2, <1>6, <1>8, <1>9, FramedProperties
  <2>4. /\ call' \in CallsOfReceiver /\ call'.at = "payload" /\ call'.source = "buffer"
        /\ call'.offset = start /\ call'.head = head /\ call'.body = part
        /\ call'.contentLength = n
    BY <1>2, <2>1, <2>3 DEF IsFramed
  <2>5. PayloadAt(s)'
    <3>1. NextMessage' = NextMessage
      BY <2>1 DEF NextMessage
    <3>2. f \in 0..s /\ s = f + 2 + stream[f + 2].more
      <4> DEFINE more == stream[f + 2].more
      <4>1. s = f + (2 + more) /\ 2 + more \in Nat
        BY <1>6
      <4>2. more \in Nat
        <5>1. ReceiverTyped /\ f \in Nat /\ Are(stream, NextMessage, {"opcode"}, f, f + 1)
          BY <1>2, <1>6, <1>7
        <5> QED
          BY <5>1, FrameThere
      <4> HIDE DEF more
      <4>3. f \in 0..s /\ s = f + 2 + more
        BY <1>7, <4>1, <4>2
      <4> QED
        BY <4>3 DEF more
    <3>3. \E g \in 0..s :
             /\ StartsBehind(stream', NextMessage', g)
             /\ Are(stream', NextMessage', {"opcode"}, g, g + 1)
             /\ s = g + 2 + stream'[g + 2].more
             /\ call'.head = Positions(g, s)
             /\ call'.contentLength = stream'[g + 2].n
      BY <1>6, <2>1, <2>4, <3>1, <3>2
    <3>4. /\ call'.contentLength <= MaxContentLength /\ call'.body = Positions(s, taken')
          /\ taken' < s + call'.contentLength
          /\ Len(buffer') = call'.offset + taken' - s /\ parser'.state = "start"
      BY <1>3, <1>6, <1>12, <2>1, <2>2, <2>4
    <3> QED
      BY <2>4, <3>3, <3>4 DEF PayloadAt
  <2>6. s \in 0..taken'
    BY <1>2, <1>6, <2>1
  <2>7. Unread' = Positions(s, taken')
    <3>1. Unread' = After(buffer', start)
      BY <2>4 DEF Unread, Source
    <3> QED
      BY <1>6, <2>1, <3>1 DEF part
  <2>8. Follows'
    BY <2>4, <2>5, <2>6, <2>7 DEF Follows, IsAt
  <2>9. ReceiverTyped'
    <3>1. given_up' = "no"
      BY <1>2, <2>1
    <3> QED
      BY <1>2, <2>1, <2>4, <3>1 DEF ReceiverTyped
  <2>10. SentInTime'
    BY <2>1, StillInTime
  <2>11. call.at # "none"
    BY <1>1
  <2> QED
    BY <2>1, <2>8, <2>9, <2>10, <2>11, GoesOn
<1>13. n <= MaxContentLength \/ n > MaxContentLength
  <2>1. n \in Nat /\ MaxContentLength \in Nat
    BY <1>2, <1>6
  <2> HIDE DEF n
  <2> QED
    BY <2>1
<1> QED
  BY <1>10, <1>11, <1>12, <1>13

\* Where the call is when it reads the rest of the payload of a frame.
LEMMA InThePayload ==
    ASSUME ReceiverInv, call.at = "payload"
    PROVE  /\ ReceiverTyped /\ given_up = "no"
           /\ taken \in Nat /\ taken <= Len(stream) /\ Len(stream) \in Nat
           /\ buffer \in Seq(Nat) /\ Len(buffer) \in Nat
           /\ call \in CallsOfReceiver /\ NextMessage \in Nat
           /\ call.offset \in Nat /\ call.contentLength \in Nat /\ MaxContentLength \in Nat
           /\ parser.state = "start" /\ parser \in [state : ParserStates, left : Nat]
           /\ \E pos \in 0..taken : PayloadAt(pos)
<1>1. ReceiverTyped /\ given_up = "no" /\ Follows
  BY Calling
<1>2. /\ taken \in Nat /\ taken <= Len(stream) /\ Len(stream) \in Nat
      /\ buffer \in Seq(Nat) /\ Len(buffer) \in Nat
      /\ call \in CallsOfReceiver /\ NextMessage \in Nat /\ MaxContentLength \in Nat
  BY <1>1, Context
<1>3. call.offset \in Nat /\ call.contentLength \in Nat
  BY <1>2, CallFields
<1>4. PICK pos \in 0..taken : IsAt(pos)
  BY <1>1 DEF Follows
<1>5. PayloadAt(pos)
  <2>1. ~NoCallAt(pos) /\ ~StartAt(pos) /\ ~HeadAt(pos) /\ ~FrameAt(pos)
    <3>1. NoCall.at = "none" /\ [NoCall EXCEPT !.at = "frame", !.offset = parsedOffset].at = "frame"
      BY DEF NoCall
    <3> QED
      BY <3>1 DEF NoCallAt, StartAt, HeadAt, FrameAt, ReadsBuffer
  <2>2. \A p : ~LengthAt(p, pos) /\ ~ChunkedAt(p, pos) /\ ~MultipartAt(p, pos)
    BY DEF LengthAt, ChunkedAt, MultipartAt, ReadsBuffer
  <2> QED
    BY <1>4, <2>1, <2>2 DEF IsAt
<1>6. parser.state = "start" /\ parser \in [state : ParserStates, left : Nat]
  BY <1>1, <1>5 DEF PayloadAt, ReceiverTyped
<1> QED
  BY <1>1, <1>2, <1>3, <1>5, <1>6

\* read() of the rest of the payload of a frame.
LEMMA ReadPayloadInv ==
    ASSUME ReceiverInv, Liberties = {}, ReadPayload
    PROVE  ReceiverInv'
<1> DEFINE needed == call.contentLength - Len(call.body)
           n == call.contentLength
           o == call.offset
           head == call.head
           body == call.body \o Incoming(needed)
<1>1. /\ call.at = "payload" /\ HasCome(needed) /\ taken' = taken + needed
      /\ Deliver(head, body, o + n) /\ parser' = parser
  BY DEF ReadPayload
<1>2. /\ ReceiverTyped /\ given_up = "no"
      /\ taken \in Nat /\ taken <= Len(stream) /\ Len(stream) \in Nat
      /\ buffer \in Seq(Nat) /\ Len(buffer) \in Nat
      /\ call \in CallsOfReceiver /\ NextMessage \in Nat
      /\ o \in Nat /\ n \in Nat /\ MaxContentLength \in Nat
      /\ parser.state = "start" /\ parser \in [state : ParserStates, left : Nat]
      /\ \E pos \in 0..taken : PayloadAt(pos)
  BY <1>1, InThePayload
<1>3. PICK s \in 0..taken : PayloadAt(s)
  BY <1>2
<1>4. /\ n <= MaxContentLength /\ call.body = Positions(s, taken) /\ taken < s + n
      /\ Len(buffer) = o + taken - s
      /\ \E f \in 0..s :
            /\ StartsBehind(stream, NextMessage, f)
            /\ Are(stream, NextMessage, {"opcode"}, f, f + 1)
            /\ s = f + 2 + stream[f + 2].more
            /\ head = Positions(f, s) /\ n = stream[f + 2].n
  BY <1>3 DEF PayloadAt
<1>5. PICK f \in 0..s :
         /\ StartsBehind(stream, NextMessage, f)
         /\ Are(stream, NextMessage, {"opcode"}, f, f + 1)
         /\ s = f + 2 + stream[f + 2].more
         /\ head = Positions(f, s) /\ n = stream[f + 2].n
  BY <1>4
<1>6. f \in Nat /\ s \in Nat /\ s <= taken
  BY <1>2
<1>7. PICK z \in Nat : z = s + n
  BY <1>2, <1>6
<1>8. FrameIs(f, s, z) /\ z - s = n
  <2>1. \E t, y \in Nat : t = f + 2 + stream[f + 2].more /\ y = t + stream[f + 2].n /\ FrameIs(f, t, y)
    BY <1>2, <1>5, <1>6, FrameThere
  <2>2. FrameIs(f, s, z)
    BY <1>5, <1>7, <2>1
  <2> QED
    BY <1>2, <1>6, <1>7, <2>2
<1>9. Len(call.body) = taken - s
  BY <1>2, <1>4, <1>6, PositionsProperties
<1>a. n \in Nat /\ o \in Nat /\ taken \in Nat /\ taken < s + n
  BY <1>2, <1>4
<1> HIDE DEF n, o
<1>10. needed \in Nat /\ taken + needed = z
  <2>1. needed = n - (taken - s)
    BY <1>9 DEF n
  <2> HIDE DEF needed
  <2> QED
    BY <1>6, <1>7, <1>a, <2>1
<1> HIDE DEF needed
<1>11. stream' = stream /\ Len(got') = Len(got) + 1
  <2> HIDE DEF head, body
  <2> QED
    BY <1>1, <1>2, DeliversOne
<1>12. SentInTime' /\ taken + needed <= Len(stream)
  BY <1>1, <1>10, <1>11, MoreInTime
<1>13. taken' = z /\ z <= Len(stream)
  BY <1>1, <1>10, <1>12
<1>14. body = Positions(s, z) /\ body \in Seq(Nat)
  <2>1. /\ Positions(s, taken) \o Incoming(needed) = Positions(s, taken + needed)
        /\ Positions(s, taken + needed) \in Seq(Nat)
    BY <1>2, <1>6, <1>10, IncomingPositions
  <2> QED
    BY <1>4, <1>10, <2>1
<1>15. /\ SentIn(stream, preserve, NextMessage)
             = [head |-> Positions(f, s), body |-> Positions(s, z)]
       /\ ~TooLargeIn(stream, NextMessage, 0)
       /\ AreDone(stream, NextMessage, z)
  <2>1. z - s <= MaxContentLength
    BY <1>4, <1>8
  <2> QED
    BY <1>2, <1>5, <1>6, <1>8, <2>1, FrameRead
<1>16. head \in Seq(Nat)
  <2>1. Positions(f, s) \in Seq(Nat)
    BY <1>5, <1>6, PositionsProperties
  <2> QED
    BY <1>5, <2>1
<1> DEFINE e == o + n
<1>17. e \in Nat /\ Len(buffer) <= e
  <2> DEFINE l == Len(buffer)
  <2>1. l = o + taken - s
    BY <1>4
  <2> HIDE DEF l
  <2>2. e \in Nat /\ l <= e
    BY <1>6, <1>a, <2>1
  <2> QED
    BY <2>2 DEF l
<1> HIDE DEF e
<1>18. After(buffer, e) = Positions(z, taken')
  <2>1. After(buffer, e) = <<>>
    BY <1>2, <1>17, AfterAll
  <2>2. Positions(z, z) = <<>>
    BY PositionsProperties
  <2> QED
    BY <1>13, <2>1, <2>2
<1>19. taken' \in 0..Len(stream) /\ z \in 0..taken' /\ call.at # "none"
  BY <1>1, <1>2, <1>13
<1>20. /\ Deliver(head, body, e)
       /\ [head |-> head, body |-> body] = SentIn(stream, preserve, NextMessage)
       /\ parser' \in [state : ParserStates, left : Nat] /\ parser'.state = "start"
  BY <1>1, <1>2, <1>5, <1>14, <1>15 DEF e
<1> HIDE DEF head, body
<1> QED
  BY <1>12, <1>14, <1>15, <1>16, <1>17, <1>18, <1>19, <1>20, Delivers

-----------------------------------------------------------------------------
(* Every step *)

\* Before the first call.
LEMMA ReceiverInitInv == ReceiverInit => ReceiverInv
<1> SUFFICES ASSUME ReceiverInit PROVE ReceiverInv
  OBVIOUS
<1>1. /\ stream \in Streams /\ preserve \in BOOLEAN /\ taken = 0 /\ buffer = <<>>
      /\ parsedOffset = 0 /\ parser = Reset /\ call = NoCall /\ got = <<>>
      /\ given_up = "no"
  BY ReceiverAssumption DEF ReceiverInit
<1>2. IsStream(stream) /\ LoadLimit \in Nat
  BY <1>1, ReceiverAssumption
<1>3. /\ DOMAIN stream = 1..Len(stream) /\ Len(stream) \in Nat
      /\ \A i \in DOMAIN stream : stream[i].message \in Nat \ {0}
  BY <1>2, StreamTokens
<1>4. ReceiverTyped
  <2>1. NoCall \in CallsOfReceiver
    BY DEF NoCall, CallsOfReceiver, Places
  <2>2. Reset \in [state : ParserStates, left : Nat]
    BY DEF Reset, ParserStates
  <2>3. taken \in 0..Len(stream) /\ parsedOffset \in 0..LoadLimit
    BY <1>1, <1>2, <1>3
  <2>4. buffer \in Seq(Nat) /\ got \in Seq([head : Seq(Nat), body : Seq(Nat)])
    BY <1>1
  <2> QED
    BY <1>1, <2>1, <2>2, <2>3, <2>4 DEF ReceiverTyped
<1>5. SentInTime
  BY <1>1 DEF SentInTime
<1>6. DeliveredAreSent
  BY <1>1 DEF DeliveredAreSent
<1>7. Refusals
  BY <1>1 DEF Refusals
<1>8. Follows
  <2> DEFINE z == 0
  <2>1. z \in Nat /\ z \in 0..taken /\ taken = z /\ Len(got) = 0
    BY <1>1
  <2>2. AreDone(stream, Len(got), z)
    <3>1. \A i \in DOMAIN stream : ~(i <= 0) /\ stream[i].message >= 0 + 1
      BY <1>3
    <3> QED
      BY <2>1, <3>1 DEF AreDone, StartsBehind
  <2>3. NoCallAt(z)
    BY <1>1, <2>2 DEF NoCallAt, Reset
  <2>4. Unread = <<>>
    <3>1. Source = buffer
      BY <1>1 DEF Source, NoCall
    <3>2. After(buffer, 0) = <<>>
      BY <1>1 DEF After
    <3> QED
      BY <1>1, <3>1, <3>2 DEF Unread, NoCall
  <2>5. Positions(z, z) = <<>>
    BY <2>1, PositionsProperties
  <2>6. call.at # "receive"
    BY <1>1 DEF NoCall
  <2> HIDE DEF z
  <2>7. Unread = Positions(z, taken) /\ IsAt(z)
    BY <2>1, <2>3, <2>4, <2>5 DEF IsAt
  <2> QED
    BY <2>1, <2>6, <2>7 DEF Follows
<1> QED
  BY <1>4, <1>5, <1>6, <1>7, <1>8 DEF ReceiverInv

\* Nothing happens.
LEMMA ReceiverStutters ==
    ASSUME ReceiverInv, UNCHANGED receiverVars
    PROVE  ReceiverInv'
<1>1. /\ stream' = stream /\ preserve' = preserve /\ taken' = taken /\ buffer' = buffer
      /\ parsedOffset' = parsedOffset /\ parser' = parser /\ call' = call /\ got' = got
      /\ given_up' = given_up
  BY DEF receiverVars
<1>2. ReceiverTyped'
  BY <1>1 DEF ReceiverInv, ReceiverTyped
<1>3. SentInTime'
  BY <1>1, StillInTime
<1>4. DeliveredAreSent' /\ Refusals'
  <2>1. DeliveredAreSent' = DeliveredAreSent
    BY <1>1 DEF DeliveredAreSent, Sent, IsTooLarge, Pieces, Kind
  <2>2. Refusals' = Refusals
    BY <1>1 DEF Refusals, IsTooLarge, Pieces, Kind, NextMessage
  <2> QED
    BY <2>1, <2>2 DEF ReceiverInv
<1>5. Follows = Follows'
  <2>1. \A pos : IsAt(pos) = IsAt(pos)'
    BY <1>1 DEF IsAt, NoCallAt, StartAt, HeadAt, FrameAt, PayloadAt, HeadersAt, LengthAt,
                ChunkedAt, MultipartAt, ReadsBuffer, Comes, Kind, NextMessage
  <2>2. Unread' = Unread
    BY <1>1 DEF Unread, Source
  <2> QED
    BY <1>1, <2>1, <2>2 DEF Follows
<1> QED
  BY <1>1, <1>2, <1>3, <1>4, <1>5 DEF ReceiverInv

\* A step of the receiver or of the socket.
LEMMA ReceiverStep ==
    ASSUME ReceiverInv, Liberties = {}, [ReceiverNext]_receiverVars
    PROVE  ReceiverInv'
<1>1. CASE Arrival
  <2>1. ASSUME NEW n \in 1..BufferSize, RecvData(n) \/ RecvHeader(n)
        PROVE  ReceiverInv'
    BY <2>1, RecvDataInv, RecvHeaderInv
  <2> QED
    BY <1>1, <2>1, ReadPreservedInv, ReadBodyInv, ReadChunkInv, ReadPayloadInv DEF Arrival
<1>2. CASE Progress
  BY <1>2, RecvMessageInv, NeedMoreInv, ParseErrorInv, HeaderTooLongInv, HeaderInv,
     HeadersCompleteInv, MultipartInv, BodyInv, ChunkHeaderInv, ChunkBodyInv,
     ChunkCompleteInv, MessageCompleteInv, RecvFrameInv, FrameHeaderInv DEF Progress
<1>3. CASE Timeout
  BY <1>3, TimeoutInv
<1>4. CASE UNCHANGED receiverVars
  BY <1>4, ReceiverStutters
<1> QED
  BY <1>1, <1>2, <1>3, <1>4 DEF ReceiverNext

-----------------------------------------------------------------------------
(* The theorems on the receiver *)

\* Whatever a call of recvMessageEntity() or recvWebSocketFrameEntity() does, and however
\* the stream is cut into pieces, it knows where in the stream it is: the buffer holds
\* what is behind that position, and the parser and the local variables tell what was
\* read of the message before it.
THEOREM ReceiverInvariant ==
    ASSUME Liberties = {}
    PROVE  ReceiverSpec => []ReceiverInv
<1>1. ReceiverInv /\ [ReceiverNext]_receiverVars => ReceiverInv'
  BY ReceiverStep
<1> QED
  BY <1>1, ReceiverInitInv, PTL DEF ReceiverSpec

\* The messages that recvMessageEntity() and recvWebSocketFrameEntity() return are those
\* that were sent, in order, each with its own headers and its own body, and none is over
\* the limits.
THEOREM DeliveredMessagesAreSent ==
    ASSUME Liberties = {}
    PROVE  ReceiverSpec => []DeliveredAreSent
<1>1. ReceiverInv => DeliveredAreSent
  BY DEF ReceiverInv
<1> QED
  BY <1>1, ReceiverInvariant, PTL

\* Where the buffer has room for the header of any frame behind the load limit, the
\* exceptions of recvMessageEntity() and recvWebSocketFrameEntity() are thrown for no
\* message but one that is no proper one or that is over the limits.
THEOREM OnlyBadMessagesAreRefused ==
    ASSUME Liberties = {}, HeadersFit
    PROVE  ReceiverSpec => []OnlyTheBadAreRefused
<1>1. ReceiverInv => OnlyTheBadAreRefused
  BY DEF ReceiverInv, Refusals, OnlyTheBadAreRefused
<1> QED
  BY <1>1, ReceiverInvariant, PTL
===============================================================================
