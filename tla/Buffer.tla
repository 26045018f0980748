-------------------------------- MODULE Buffer --------------------------------
(***************************************************************************)
(* Swow\Buffer (swow_buffer.c on cat_buffer.c): growable byte buffers      *)
(* whose memory is a PHP string, shared with PHP variables, other buffers  *)
(* and socket writes in flight, and copied before it is changed.           *)
(*                                                                         *)
(* A string is free when it has no owner.  A PHP string only counts its    *)
(* owners; here they are named, and a count of one is a set of one owner.  *)
(* Literals stand for interned strings, which are not counted and never    *)
(* freed.  Nothing is stored beyond the length of a string: the bytes      *)
(* between the length and the size of a buffer are not modelled.           *)
(*                                                                         *)
(* Only socket calls give up control, between Start and Finish.            *)
(*                                                                         *)
(* The operations do what the code does for any caller.  What the callers  *)
(* keep from is said apart, before Next.                                   *)
(***************************************************************************)
EXTENDS Naturals, Sequences, FiniteSets

CONSTANTS Buffers,      \* Swow\Buffer objects
          Variables,    \* PHP variables that hold a string
          Coroutines,   \* the coroutines that use sockets and locks
          Strings,      \* the strings that can be allocated: a bound
          Literals,     \* interned strings
          Content,      \* the bytes of each literal
          Bytes,        \* what peers send
          Junk,         \* a byte of memory nobody wrote
          Null,         \* no string, no buffer
          NoCo,         \* no coroutine
          MaxSize,      \* a bound on the size of a buffer
          Alignment,    \* CAT_MEMORY_DEFAULT_ALIGNED_SIZE
          Callers       \* the kinds of program, each the misuses it commits

\* Four uses go wrong, which the code does not refuse.
Misuses == {"read into shared", "share while reading", "serialize counted",
            "unserialize used"}

AllStrings == Strings \cup Literals
Holders == Buffers \cup Variables \cup Coroutines

ASSUME BufferAssumption ==
    /\ Strings \cap Literals = {}
    /\ Null \notin AllStrings \cup Holders
    /\ NoCo \notin Coroutines
    /\ Buffers \cap Variables = {}
    /\ Coroutines \cap (Buffers \cup Variables) = {}
    /\ Junk \notin Bytes
    /\ Content \in [Literals -> Seq(Bytes)]
    /\ MaxSize \in Nat
    /\ Alignment \in Nat \ {0}
    /\ Callers \subseteq SUBSET Misuses

VARIABLES
    data,      \* ZSTR_VAL up to ZSTR_LEN of each string
    owners,    \* who holds a reference to a counted string
    value,     \* buffer->value, as the string it points into, or Null
    size,      \* buffer->size
    length,    \* buffer->length
    locker,    \* s_buffer->locker
    variable,  \* the string a PHP variable holds, or Null
    seen,      \* the bytes that string had when the variable got it
    io,        \* the socket call each coroutine waits in
    allowed    \* the misuses that this program commits

buffers == <<value, size, length, locker>>
variables == <<variable, seen>>
vars == <<data, owners, value, size, length, locker, variable, seen, io, allowed>>

\* A coroutine that is in no socket call.
Idle == [op |-> "none", buffer |-> Null, string |-> Null, offset |-> 0,
         size |-> 0, sent |-> <<>>]

\* swow_buffer_create_object() of every buffer.
Init ==
    /\ data = [s \in AllStrings |-> IF s \in Literals THEN Content[s] ELSE <<>>]
    /\ owners = [s \in AllStrings |-> {}]
    /\ value = [b \in Buffers |-> Null]
    /\ size = [b \in Buffers |-> 0]
    /\ length = [b \in Buffers |-> 0]
    /\ locker = [b \in Buffers |-> NoCo]
    /\ variable = [v \in Variables |-> Null]
    /\ seen = [v \in Variables |-> <<>>]
    /\ io = [c \in Coroutines |-> Idle]
    /\ allowed \in Callers

-----------------------------------------------------------------------------
\* Helpers.

Larger(m, n) == IF m > n THEN m ELSE n
Smaller(m, n) == IF m < n THEN m ELSE n

\* new is the least multiple of Alignment that has room for n bytes.
IsAligned(new, n) ==
    /\ new % Alignment = 0
    /\ Larger(n, 1) <= new /\ new < Larger(n, 1) + Alignment

\* new is the size that a buffer of size old grows to when want bytes are needed:
\* aligned, then doubled until it is enough, but at least once.
IsGrown(old, want, new) ==
    /\ new >= want
    /\ \/ old = 0 /\ IsAligned(new, want)
       \/ /\ old > 0
          /\ \E start \in 1..MaxSize, k \in 1..MaxSize :
                /\ IsAligned(start, old)
                /\ new = start * 2^k
                /\ k > 1 => start * 2^(k-1) < want

\* The first n bytes of bytes, or all of them.
Take(bytes, n) == SubSeq(bytes, 1, Smaller(n, Len(bytes)))

\* n bytes of bytes after the first start.
Slice(bytes, start, n) == SubSeq(bytes, start + 1, start + n)

\* The first n bytes of the memory that starts with bytes.
Memory(bytes, n) ==
    [i \in 1..n |-> IF i <= Len(bytes) THEN bytes[i] ELSE Junk]

\* What memmove() of new to old + offset leaves.
Overlay(old, offset, new) ==
    [i \in 1..Larger(Len(old), offset + Len(new)) |->
        IF i > offset /\ i <= offset + Len(new) THEN new[i - offset]
        ELSE IF i <= Len(old) THEN old[i] ELSE Junk]

\* zend_string_copy(); interned strings are not counted.
AddRef(refs, h, s) ==
    IF s \in Strings THEN [refs EXCEPT ![s] = @ \cup {h}] ELSE refs

\* zend_string_release(): the count falls, though it be for a reference of h that was
\* never counted, and then somebody else loses his.
DelRef(refs, h, s) ==
    IF s \notin Strings THEN refs
    ELSE IF h \in refs[s] \/ refs[s] = {} THEN [refs EXCEPT ![s] = @ \ {h}]
    ELSE [refs EXCEPT ![s] = @ \ {CHOOSE o \in @ : TRUE}]

\* The reference of h is forgotten: nobody will ever release it.
Leak(refs, h, s) ==
    IF s \in Strings THEN [refs EXCEPT ![s] = (@ \ {h}) \cup {Null}] ELSE refs

\* The references after holder h let go of from and took to.
Moved(refs, h, from, to) == AddRef(DelRef(refs, h, from), h, to)

\* The references and the bytes after a step: a freed string has no bytes.
Settle(refs, bytes) ==
    /\ owners' = refs
    /\ data' = [s \in AllStrings |->
                   IF s \in Strings /\ refs[s] = {} THEN <<>> ELSE bytes[s]]

\* The bytes of the string of a buffer, and those that the buffer counts as its own.
Shown(b) == IF value[b] = Null THEN <<>> ELSE data[value[b]]
Readable(b) == Memory(Shown(b), length[b])

SetValue(b, s, n, len) ==
    /\ value' = [value EXCEPT ![b] = s]
    /\ size' = [size EXCEPT ![b] = n]
    /\ length' = [length EXCEPT ![b] = len]

\* A wrong Exclusive that does not look at the count, kept to show that
\* CopyOnWrite and CarefulStringsNeverChange can fail.
Counted(b) == value[b] \in Strings

\* The string is counted and its count is one: it need not be copied before it is
\* changed.
Exclusive(b) ==
    value[b] \in Strings /\ \E h \in Holders \cup {Null} : owners[value[b]] = {h}

\* The bytes of the string of b after swow_buffer_cow(), which copies the length.
Own(b) == IF Exclusive(b) THEN Shown(b) ELSE Readable(b)

\* Buffer b gets size n and length len, and its string has bytes: the string it has when
\* that is its own, a new one when it is not (swow_buffer_cow() and
\* swow_buffer_realloc_standard()).
Store(b, bytes, n, len) ==
    \/ /\ Exclusive(b)
       /\ Settle(owners, [data EXCEPT ![value[b]] = bytes])
       /\ SetValue(b, value[b], n, len)
    \/ /\ ~Exclusive(b) /\ n > 0
       /\ \E s \in Strings :
             /\ owners[s] = {}
             /\ Settle(Moved(owners, b, value[b], s), [data EXCEPT ![s] = bytes])
             /\ SetValue(b, s, n, len)
    \/ /\ ~Exclusive(b) /\ n = 0
       /\ Settle(DelRef(owners, b, value[b]), data)
       /\ SetValue(b, Null, 0, 0)

\* Variable v gets string s, whose bytes are bytes[s], and lets go of what it had.
SetVariable(v, s, refs, bytes) ==
    /\ variable' = [variable EXCEPT ![v] = s]
    /\ seen' = [seen EXCEPT ![v] = bytes[s]]
    /\ Settle(Moved(refs, v, variable[v], s), bytes)

\* SWOW_BUFFER_CHECK_LOCK().
Unlocked(b) == locker[b] = NoCo

-----------------------------------------------------------------------------
\* PHP code outside the buffers.

\* A variable gets a literal, or the string of another variable.
Assign(v, s) ==
    /\ s \in Literals \cup {variable[w] : w \in Variables \ {v}}
    /\ s # Null
    /\ SetVariable(v, s, owners, data)
    /\ UNCHANGED <<buffers, io>>

\* A variable gets a new string.
NewString(v, bytes) ==
    /\ \E s \in Strings :
          /\ owners[s] = {}
          /\ SetVariable(v, s, owners, [data EXCEPT ![s] = bytes])
    /\ UNCHANGED <<buffers, io>>

Unset(v) ==
    /\ variable[v] # Null
    /\ variable' = [variable EXCEPT ![v] = Null]
    /\ seen' = [seen EXCEPT ![v] = <<>>]
    /\ Settle(DelRef(owners, v, variable[v]), data)
    /\ UNCHANGED <<buffers, io>>

-----------------------------------------------------------------------------
\* Size.

\* create(): __construct() and alloc(), of a buffer without memory.  They do not
\* look at the lock.
Alloc(b, n) ==
    /\ value[b] = Null
    /\ n > 0
    /\ Store(b, <<>>, n, 0)
    /\ UNCHANGED <<locker, variables, io>>

\* cat_buffer_close(): nothing is left.
Drop(b) ==
    /\ Settle(DelRef(owners, b, value[b]), data)
    /\ SetValue(b, Null, 0, 0)

\* cat_buffer_realloc().
Resize(b, n) ==
    IF n = 0 THEN Drop(b) ELSE Store(b, Take(Shown(b), n), n, Smaller(length[b], n))

\* realloc()
Realloc(b, n) ==
    /\ Unlocked(b)
    /\ n # size[b]
    /\ Resize(b, n)
    /\ UNCHANGED <<locker, variables, io>>

\* cat_buffer_extend() of a buffer to a size of at least want.
GrowTo(b, want) ==
    \E n \in 1..MaxSize : IsGrown(size[b], want, n) /\ Resize(b, n)

\* extend()
Extend(b, want) ==
    /\ Unlocked(b)
    /\ want > size[b]
    /\ GrowTo(b, want)
    /\ UNCHANGED <<locker, variables, io>>

\* prepare(), when there is not room for n more bytes.
Prepare(b, n) ==
    /\ Unlocked(b)
    /\ length[b] + n > size[b]
    /\ GrowTo(b, length[b] + n)
    /\ UNCHANGED <<locker, variables, io>>

MallocTrim(b) ==
    /\ Unlocked(b)
    /\ length[b] # size[b]
    /\ Resize(b, length[b])
    /\ UNCHANGED <<locker, variables, io>>

-----------------------------------------------------------------------------
\* Contents.

\* The strings a call can be given: literals, variables, buffers.
Given == (Literals \cup {variable[v] : v \in Variables}
                   \cup {value[b] : b \in Buffers}) \ {Null}

\* The whole of a string that fills the buffer is not copied but shared.
Adopts(b, s, offset, start, n) ==
    offset = 0 /\ start = 0 /\ n = Len(data[s]) /\ n >= size[b]

\* The size after writing up to byte end.
Roomy(b, end, n) == IF end <= size[b] THEN n = size[b] ELSE IsGrown(size[b], end, n)

\* write(), and append() with offset = length[b]: n bytes of string s after start.
Write(b, s, offset, start, n) ==
    /\ Unlocked(b)
    /\ n > 0 /\ start + n <= Len(data[s])
    /\ offset <= length[b]
    /\ IF Adopts(b, s, offset, start, n)
       THEN /\ n <= MaxSize
            /\ Settle(Moved(owners, b, value[b], s), data)
            /\ SetValue(b, s, n, n)
       ELSE LET end == offset + n
                bytes == Overlay(Own(b), offset, Slice(data[s], start, n))
            IN  \E m \in 1..MaxSize :
                   /\ Roomy(b, end, m)
                   /\ Store(b, IF end > length[b] THEN Take(bytes, end) ELSE bytes, m,
                               Larger(length[b], end))
    /\ UNCHANGED <<locker, variables, io>>

\* How much truncate_from leaves: what is after offset, at most n.
Kept(b, offset, n) ==
    IF offset >= length[b] THEN 0 ELSE Smaller(n, length[b] - offset)

\* truncate() is truncateFrom() with offset = 0; clear() is truncate(0).
TruncateFrom(b, offset, n) ==
    /\ Unlocked(b)
    /\ value[b] # Null
    /\ LET len == Kept(b, offset, n) IN
       Store(b, IF offset = 0 /\ len = length[b] /\ n > 0 THEN Own(b)
                ELSE Slice(Readable(b), offset, len), size[b], len)
    /\ UNCHANGED <<locker, variables, io>>

\* close()
Close(b) ==
    /\ Unlocked(b)
    /\ value[b] # Null
    /\ Drop(b)
    /\ UNCHANGED <<locker, variables, io>>

\* read() of n bytes after start, and dupString(), which reads all: a new string.
Read(b, start, n, v) ==
    /\ start + n <= length[b]
    /\ NewString(v, Slice(Readable(b), start, n))

\* A wrong ShareString without zend_string_copy(), kept to show that OwnersAreExact
\* can fail.
ShareUncounted(b, v) ==
    /\ value[b] # Null
    /\ variable' = [variable EXCEPT ![v] = value[b]]
    /\ seen' = [seen EXCEPT ![v] = data[value[b]]]
    /\ Settle(DelRef(owners, v, variable[v]), data)
    /\ UNCHANGED <<buffers, io>>

\* toString(): the variable shares the string of the buffer.
ShareString(b, v) ==
    /\ value[b] # Null
    /\ SetVariable(v, value[b], owners, data)
    /\ UNCHANGED <<buffers, io>>

\* fetchString(): the variable gets the string and the buffer is empty.
FetchString(b, v) ==
    /\ Unlocked(b)
    /\ value[b] # Null
    /\ SetVariable(v, value[b], DelRef(owners, b, value[b]), data)
    /\ SetValue(b, Null, 0, 0)
    /\ UNCHANGED <<locker, io>>

\* __serialize(): the string gets another holder but is not counted again.
Serialize(b, v) ==
    /\ value[b] # Null
    /\ variable' = [variable EXCEPT ![v] = value[b]]
    /\ seen' = [seen EXCEPT ![v] = data[value[b]]]
    /\ Settle(DelRef(owners, v, variable[v]), data)
    /\ UNCHANGED <<buffers, io>>

\* __unserialize(): it looks neither at the lock nor at what the buffer has.
Unserialize(b, v) ==
    /\ variable[v] # Null
    /\ Len(data[variable[v]]) <= MaxSize
    /\ Settle(AddRef(Leak(owners, b, value[b]), b, variable[v]), data)
    /\ SetValue(b, variable[v], Len(data[variable[v]]), Len(data[variable[v]]))
    /\ UNCHANGED <<locker, variables, io>>

\* swow_buffer_clone_object() into the new object copy: all of it is copied, the
\* locker too, and the string is shared.
Clone(b, copy) ==
    /\ value[copy] = Null /\ locker[copy] = NoCo
    /\ Settle(AddRef(owners, copy, value[b]), data)
    /\ SetValue(copy, value[b], size[b], length[b])
    /\ locker' = [locker EXCEPT ![copy] = locker[b]]
    /\ UNCHANGED <<variables, io>>

\* swow_buffer_free_object(): a socket call holds its buffer, so not during one.
FreeObject(b) ==
    /\ \A c \in Coroutines : io[c].buffer # b
    /\ Drop(b)
    /\ locker' = [locker EXCEPT ![b] = NoCo]
    /\ UNCHANGED <<variables, io>>

-----------------------------------------------------------------------------
\* The lock.

\* lock() and tryLock()
Lock(c, b) ==
    /\ io[c] = Idle
    /\ Unlocked(b)
    /\ locker' = [locker EXCEPT ![b] = c]
    /\ UNCHANGED <<data, owners, value, size, length, variables, io>>

\* A wrong Unlock that any coroutine may do, kept to show that ReadsKeepTheirBuffer
\* can fail.
UnlockAny(c, b) ==
    /\ io[c] = Idle
    /\ locker[b] # NoCo
    /\ locker' = [locker EXCEPT ![b] = NoCo]
    /\ UNCHANGED <<data, owners, value, size, length, variables, io>>

\* unlock(): of the coroutine that locked it.
Unlock(c, b) ==
    /\ io[c] = Idle
    /\ locker[b] = c
    /\ locker' = [locker EXCEPT ![b] = NoCo]
    /\ UNCHANGED <<data, owners, value, size, length, variables, io>>

-----------------------------------------------------------------------------
\* Sockets.

\* Socket::_read() until it waits: n bytes at offset.  It locks the buffer and
\* copies a shared string, but reads to where the buffer was before the copy.
StartRead(c, b, offset, n) ==
    /\ io[c] = Idle
    /\ value[b] # Null
    /\ offset <= length[b]
    /\ n > 0 /\ offset + n <= size[b]
    /\ Unlocked(b)
    /\ locker' = [locker EXCEPT ![b] = c]
    /\ io' = [io EXCEPT ![c] = [op |-> "read", buffer |-> b, string |-> value[b],
                                offset |-> offset, size |-> n, sent |-> <<>>]]
    /\ Store(b, Own(b), size[b], length[b])
    /\ UNCHANGED variables

\* A wrong FinishRead that forgets the virtual write, kept to show that BufferIsSound
\* can fail.
FinishReadUnwritten(c, bytes) ==
    LET b == io[c].buffer  s == io[c].string  offset == io[c].offset IN
    /\ io[c].op = "read"
    /\ Len(bytes) <= io[c].size
    /\ locker' = [locker EXCEPT ![b] = NoCo]
    /\ io' = [io EXCEPT ![c] = Idle]
    /\ Settle(owners, [data EXCEPT ![s] = Overlay(data[s], offset, bytes)])
    /\ UNCHANGED <<value, size, length, variables>>

\* The rest of _read(): unlock, then the virtual write of what came, which makes the
\* string of the buffer longer, wherever the bytes are and whoever shares it; nothing
\* on a timeout, an error or a cancellation.
FinishRead(c, bytes) ==
    LET b == io[c].buffer
        s == io[c].string
        end == io[c].offset + Len(bytes)
        landed == Overlay(data[s], io[c].offset, bytes)
        mine == IF value[b] = s THEN landed ELSE data[value[b]]
    IN  /\ io[c].op = "read"
        /\ Len(bytes) <= io[c].size
        /\ locker' = [locker EXCEPT ![b] = NoCo]
        /\ io' = [io EXCEPT ![c] = Idle]
        /\ IF bytes = <<>>
           THEN UNCHANGED <<data, owners, value, size, length>>
           ELSE /\ Settle(owners,
                      [data EXCEPT ![s] = Memory(landed, Len(data[s])),
                                   ![value[b]] = Memory(mine,
                                       IF end > length[b] THEN end
                                       ELSE Len(data[value[b]]))])
                /\ SetValue(b, value[b], size[b], Larger(length[b], end))
        /\ UNCHANGED variables

\* Socket::_write() until it waits: its string gets a reference and is not locked.
StartWrite(c, s) ==
    /\ io[c] = Idle
    /\ Len(data[s]) > 0
    /\ Settle(AddRef(owners, c, s), data)
    /\ io' = [io EXCEPT ![c] = [op |-> "write", buffer |-> Null, string |-> s,
                                offset |-> 0, size |-> 0, sent |-> data[s]]]
    /\ UNCHANGED <<buffers, variables>>

FinishWrite(c) ==
    /\ io[c].op = "write"
    /\ Settle(DelRef(owners, c, io[c].string), data)
    /\ io' = [io EXCEPT ![c] = Idle]
    /\ UNCHANGED <<buffers, variables>>

-----------------------------------------------------------------------------
\* What the callers keep from, unless they are of a kind that commits the misuse.

BeingRead(s) == \E c \in Coroutines : io[c].op = "read" /\ io[c].string = s

\* A read goes to a buffer whose string nobody shares.
MayRead(b) == Exclusive(b) \/ "read into shared" \in allowed

\* The string s gets no further holder while a read into it is under way.
MayShare(s) == ~BeingRead(s) \/ "share while reading" \in allowed

\* Only interned strings are serialized.
MaySerialize(b) == value[b] \in Literals \/ "serialize counted" \in allowed

\* Only new buffers are unserialized.
MayUnserialize(b) == value[b] = Null \/ "unserialize used" \in allowed

-----------------------------------------------------------------------------
\* What a peer sends at once: some copies of one byte, at most MaxSize.
Chunks == UNION {[1..n -> {x}] : n \in 0..MaxSize, x \in Bytes}

Php ==
    \E v \in Variables :
       \/ \E s \in AllStrings : Assign(v, s)
       \/ \E bytes \in Chunks : NewString(v, bytes)
       \/ Unset(v)

Sizes == 0..MaxSize

Resizing(b) ==
    \E n \in Sizes :
       \/ Alloc(b, n)
       \/ Realloc(b, n)
       \/ Extend(b, n)
       \/ Prepare(b, n)
       \/ MallocTrim(b)

Writing(b) ==
    \E offset, n \in Sizes :
       \/ \E s \in Given, start \in Sizes :
             /\ Adopts(b, s, offset, start, n) => MayShare(s)
             /\ Write(b, s, offset, start, n)
       \/ TruncateFrom(b, offset, n)
       \/ Close(b)

Sharing(b) ==
    \/ \E v \in Variables :
          \/ \E start, n \in Sizes : Read(b, start, n, v)
          \/ MayShare(value[b]) /\ ShareString(b, v)
          \/ FetchString(b, v)
          \/ MayShare(value[b]) /\ MaySerialize(b) /\ Serialize(b, v)
          \/ MayShare(variable[v]) /\ MayUnserialize(b) /\ Unserialize(b, v)
    \/ \E copy \in Buffers \ {b} : MayShare(value[b]) /\ Clone(b, copy)
    \/ FreeObject(b)

Socket(c) ==
    \/ \E b \in Buffers :
          \/ Lock(c, b)
          \/ Unlock(c, b)
          \/ \E offset, n \in Sizes : MayRead(b) /\ StartRead(c, b, offset, n)
    \/ \E bytes \in Chunks : FinishRead(c, bytes)
    \/ \E s \in Given : MayShare(s) /\ StartWrite(c, s)
    \/ FinishWrite(c)

Operation ==
    \/ Php
    \/ \E b \in Buffers : Resizing(b) \/ Writing(b) \/ Sharing(b)
    \/ \E c \in Coroutines : Socket(c)

Next == Operation /\ UNCHANGED allowed

Spec == Init /\ [][Next]_vars

-----------------------------------------------------------------------------
\* Properties.

\* The variables have values of their types.
TypeOK ==
    /\ data \in [AllStrings -> Seq(Bytes \cup {Junk})]
    /\ owners \in [AllStrings -> SUBSET (Holders \cup {Null})]
    /\ value \in [Buffers -> AllStrings \cup {Null}]
    /\ size \in [Buffers -> Nat]
    /\ length \in [Buffers -> Nat]
    /\ locker \in [Buffers -> Coroutines \cup {NoCo}]
    /\ variable \in [Variables -> AllStrings \cup {Null}]
    /\ seen \in [Variables -> Seq(Bytes \cup {Junk})]
    /\ io \in [Coroutines -> [op : {"none", "read", "write"},
                              buffer : Buffers \cup {Null},
                              string : AllStrings \cup {Null},
                              offset : Nat, size : Nat,
                              sent : Seq(Bytes \cup {Junk})]]
    /\ allowed \in Callers

\* Holder h points to string s.
Holds(h, s) ==
    \/ h \in Buffers /\ value[h] = s
    \/ h \in Variables /\ variable[h] = s
    \/ h \in Coroutines /\ io[h].op = "write" /\ io[h].string = s

\* A counted string is owned by those who point to it and by nobody else: it is not
\* freed while it is used, and it does not leak ("string maybe interned, so we must use
\* zend_string_copy()", swow_buffer.c).
OwnersAreExact ==
    \A s \in Strings : owners[s] = {h \in Holders : Holds(h, s)}

\* Somebody counts on the bytes of s whatever is done to one buffer that has it: it is
\* interned, a variable or a write in flight has it, or two buffers share it.
IsShared(s) ==
    \/ s \in Literals
    \/ \E h \in Variables \cup Coroutines : Holds(h, s)
    \/ \E b, d \in Buffers : b # d /\ Holds(b, s) /\ Holds(d, s)

\* A read into the string s, or into a buffer that has it, ends.
ReadEnds(s) ==
    \E c \in Coroutines :
       /\ io[c].op = "read" /\ io'[c].op = "none"
       /\ s \in {io[c].string, value[io[c].buffer]}

\* No string is changed while it is shared but by the end of a read.
SharedStringsAreCopied ==
    \A s \in AllStrings :
       IsShared(s) /\ IsShared(s)' /\ data'[s] # data[s] => ReadEnds(s)

\* The program serializes interned strings and unserializes new buffers only.
Counting == allowed \cap {"serialize counted", "unserialize used"} = {}

\* The program unserializes new buffers only.
Fresh == "unserialize used" \notin allowed

\* The program commits no misuse.
Careful == allowed = {}

\* While strings are counted, a string that is shared is copied before it is changed, by
\* every operation but one: the end of a read may change it under those who share it
\* (swow_buffer_cow(), and _read() that calls it too late).
CopyOnWrite == [][Counting => SharedStringsAreCopied]_vars

\* "refcount + COW will make sure that string will always be dupped when writing by
\* someone else" (swow_buffer.h): a string that a PHP variable holds, or that a socket
\* write is sending, keeps the bytes it had when it was shared, whatever is done to the
\* buffers that have the same string.
HeldStringsNeverChange ==
    /\ \A v \in Variables : variable[v] # Null => data[variable[v]] = seen[v]
    /\ \A c \in Coroutines : io[c].op = "write" => data[io[c].string] = io[c].sent

\* In a careful program no string changes under its holders: the sole owner of a string
\* that is read into stays the sole owner until the read ends.
CarefulStringsNeverChange == Careful => HeldStringsNeverChange

\* A buffer without memory has no size, and the length fits the size.  In a careful
\* program what a buffer believes of its string is so: the length of the buffer is that
\* of the string (swow_buffer_update_standard(), swow_buffer_virtual_write()), and no
\* byte of it is memory that nobody wrote.
BufferIsSound ==
    \A b \in Buffers :
       /\ value[b] = Null => size[b] = 0
       /\ Fresh => length[b] <= size[b]
       /\ Careful => /\ length[b] = Len(Shown(b))
                     /\ \A i \in DOMAIN Shown(b) : Shown(b)[i] # Junk

\* While a coroutine waits in a read, its buffer stays locked by it, so that the
\* unlock after the read does not abort(), and has memory.  It keeps the room for all
\* that was asked for unless it is unserialized meanwhile, and then the memory that is
\* read to stays that of the buffer too unless that was shared when the read began.
ReadsKeepTheirBuffer ==
    \A c \in Coroutines : io[c].op = "read" =>
       /\ locker[io[c].buffer] = c
       /\ value[io[c].buffer] # Null
       /\ Fresh =>
             /\ io[c].offset <= length[io[c].buffer]
             /\ io[c].offset + io[c].size <= size[io[c].buffer]
             /\ "read into shared" \in allowed \/ value[io[c].buffer] = io[c].string
=============================================================================
