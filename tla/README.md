# Swow: TLA+ models and proofs

This directory holds TLA+ modules for the concurrency core of Swow: the C library
libcat (`ext/deps/libcat`), its PHP binding (`ext/src`), the receive loop of the PHP
library (`lib/swow-library`), and what programs can do with them.  TLC checks the
modules on small instances, and TLAPS proves the safety properties of all of them
for every value of the constants.  Paths below are relative to the repository; C
files without a directory lie in `ext/deps/libcat/src` (`cat_*.c`) or `ext/src`
(`swow_*.c`).

## 1. The system

Swow gives PHP stackful coroutines.  All coroutines of a thread share one
processor; one of them is current, and control changes hands only where code asks
for it: resume, yield, the end of a coroutine, or a call that waits, which is a
yield to be resumed by a timer, an event or another coroutine.  So there are no
data races inside a thread.  The difficulty is elsewhere: a resume runs *at once*,
in the middle of the operation of the resumer, and any coroutine may resume any
waiting coroutine at any time, whatever that one waits for.

### 1.1 Inventory

| Component | State | Operations | Hard behaviour | What makes it correct |
|---|---|---|---|---|
| Coroutine switching core, `cat_coroutine.c` | current, scheduler, count, state, previous/next/from, flags | create, close, resume, yield, end, switch deny/allow, scheduler run/close | cross resume of a coroutine that lies below; the dead freed by whoever runs next; the scheduler as fallback | one running coroutine, one list, exact count, control is a call stack |
| Scheduler, wait_all, deadlock detection, `cat_coroutine.c`, `cat_event.c`, `swow_event.c`, `swow_sync.c` | queue of waiters, from, place in the loop | wait_all, notify_all, scheduler_close, deadlock callback | waiters change the queue that notify_all walks; the close request is a flag of `from` | success of wait_all and reported deadlocks are true; sleepers wake; the scheduler ends only when closed |
| Channel, `cat_channel.c`, `swow_channel.c` | length, storage, two queues of waiters, the offer of a rendezvous | push, pop, close, cleanup | cancel, timeout and close while waiting; wakeups that run at once | bounded first in first out buffer, no missed wakeup, nobody waits after close |
| Select, `cat_channel.c`, `Selector` in `swow_channel.c` | one dummy waiter per request | select, commit, fetch | several queues hold nodes of one coroutine; close of one channel | nodes live as long as their select; a woken select can go on |
| Time, `cat_time.c` | timers | sleep, wait, delay | timer against resume by hand; delay 0 through a defer task | fires once, truthful answer |
| Events, `cat_event.c` | defer queues, shutdown tasks | schedule, defer, close of a task | tasks closed while running | each task runs at most once |
| WaitGroup, WaitReference, `cat_sync.c`, `swow_sync.c` | counter, one waiter | add, done, wait | misuse, cancellation, timeout | wait succeeds exactly at zero |
| Async, `cat_async.c`; Work, `cat_work.c`; DNS | done, closing, waiting coroutine | notify, wait and close; queue, cancel | a thread against a timeout | closed and cleaned up once |
| OS wait and signals, `cat_os_wait.c`, `cat_signal.c` | waiters by pid, unclaimed states | wait, waitpid, dispatch | dispatch resumes waiters that free its task | each child state is delivered once |
| Poll and select, `cat_poll.c` | handles of one call | poll, select | many callbacks, one coroutine | resumed once, all handles closed |
| Watchdog, `cat_watchdog.c` | stop, mutex, condition | run, stop, loop | a second thread | stop ends the thread |
| Buffer, `cat_buffer.c`, `swow_buffer.c` | memory, size, length, locker | alloc, realloc, extend, write, truncate, close, toString, fetchString, clone, serialize, lock; socket reads and writes into it | memory shared with PHP strings and with calls that wait | copy on write, exact references, length <= size, a read keeps its memory |
| PHP binding of coroutines, `swow_coroutine.c`, `swow_defer.c` | map of coroutines, executors, PHP frames, cross exception, pending calls | start, resume, yield, throw, kill, killAll, exit, end of the script; eval and call | kill of a victim that ends, is freed and replaced; destructors and defer tasks that run meanwhile; cross resume | kill hits its victim and returns, nobody outlives the script, traces follow the stack |
| Sockets and TLS, `cat_socket.c`, `cat_ssl.c`, `swow_socket.c` | shared internal socket, io flags, waiters, write requests | open, bind, listen, accept, connect, read, write, close | a close wakes coroutines that use the socket again; a write cut short; shared objects | a close finds all waiters, no use after close, nothing follows a torn write |
| HTTP and WebSocket parsing, `cat_http.c`, `swow_http.c`, `cat_websocket.c` | parser state, event | execute | pieces cut anywhere | each event once, all bytes accounted for |
| PHP library, `ReceiverTrait.php`, PSR-7, server, client, debugger | buffer, parsed offset, limits, timeouts | recvMessageEntity, recvWebSocketFrameEntity | bodies larger than the buffer, pipelined messages, timeouts | each message once, whole and in order |
| File system, processes, cURL, PostgreSQL, streams and hooks, set-up, debugger and closures of the extension | | | I/O around the waits above, or the PHP engine's own interfaces | |

Vendored code (`ext/deps/libcat/deps`: libuv, llhttp, context switching;
`ext/deps/ipv6-parse`), examples, benchmarks and tooling are not modelled.

### 1.2 How the parts interact

Every call that waits queues a node of its coroutine somewhere, calls
`cat_time_wait()`, and looks afterwards at what woke it.  `cat_time_wait()` arms a
timer and yields.  A yield uncovers the coroutine below, or the scheduler if there
is none.  The scheduler runs the event loop, whose callbacks resume coroutines;
when no event is left it compares the number of coroutines with the number of
callers of wait_all, and either notifies all of those or reports a deadlock.

A socket read or write of PHP takes a pointer into a Buffer, locks the Buffer (a
read) or takes a reference to its string (a write), and waits in the internal
socket; whoever closes the socket resumes those who wait on it one by one.  The
receive loop of the library reads into one Buffer, has the parser run over it, and
moves or cuts its contents.  On the PHP side every switch also exchanges the
executors of the two coroutines and links their frames; a kill is such a switch with
an exception, in a loop until the victim is gone.

## 2. The modules

    CallStack   <--implements--  Coroutine      <-- CoroutineProofs
        ^------ control of ----  Scheduler      <-- SchedulerProofs
    FifoChannel <--implements--  Channel        <-- ChannelProofs
                                 ChannelSelect  <-- ChannelSelectProofs
                                 PhpCoroutine   <-- PhpCoroutineProofs
                                 Socket         <-- SocketProofs
                                 Buffer         <-- ReadingProofs
                      Streams -- Receiver       <-- ReadingProofs
    Queues: what the above take out of a queue  <-- QueueProofs, with Streams

`MCCoroutine`, `MCChannel`, `MCChannelSelect`, `MCScheduler`, `MCPhpCoroutine`,
`MCSocket`, `MCBuffer` and `MCReceiver` instantiate them for TLC.  An action is
everything a coroutine does up to the next point where it can lose control, so it
is atomic in the program too.  Definitions whose comment begins with "A wrong" are
not used: each is what a plausible bug would make of the definition it is named
after, and shows that a property notices it.

The action of an operation does what the code does, for any caller and in any state.
Some of what callers can do goes wrong.  Where that is so, the modules say it apart from
the operations, as the kind of program that runs: what a program keeps from is a
conjunct of the next-state relation (`MayRead`, `MayShare`, `MaySerialize`,
`MayUnserialize` in Buffer, for the program's `allowed` out of `Callers`), the fields of
`program` in Scheduler, or a constant (`Allowed` in Socket, `Liberties` in Receiver,
`MutualKills` and `LateStarts` in PhpCoroutine).  A property that holds only of some
programs names them in its formula, or the run and the theorem name the restriction of
the constant.  Where the text of the repository promises what those programs break, there
is a run that is expected to violate it; section 3 lists these and the rest.

### Coroutine (`cat_coroutine.c`)

The variables carry the names of the fields and globals.  State `none` stands for
a structure that is not in use, or freed.  `Jump` is `cat_coroutine_jump_standard()`
together with the code that runs after the switch in the coroutine that gets
control: the clearing of its accept-data flag, or, in a new one, the counting in
`cat_coroutine_context_function()`.  `JumpDead` is the same for a coroutine that
has ended, which the target frees.  `Resume` and `Yield` rearrange the list
(`Link`, `Unlink`) and jump; `Finish` is the last yield.  `SchedulerRun` and
`SchedulerClose` make and remove the scheduler; what it does in between is in
Scheduler.  `count` leaves out the scheduler, as in the code.  Identifiers, times,
peak and switch counters, stacks and contexts are left out.

`awaiting` has no counterpart in the code: it records who will take the data of
the switch to it, which the code knows from the C stack of the yield.

`SchedulerExposed`: the scheduler is a coroutine object like others, and
`getPrevious()` of a coroutine that was woken by an event returns it.  Kill and
throw on it are refused (`ext/tests/swow_coroutine/scheduler`), a resume is not.
With TRUE, as in the run, the program may resume it; with FALSE it leaves it alone,
and then nobody ever lies below it (SchedulerAtBottom, proved).

CallStack is what the core promises: resuming puts a coroutine on top wherever it
was, leaving uncovers the one below or the scheduler.  The refinement maps the
stack to the list read from the current coroutine down.

### Channel (`cat_channel.c`)

One module for both kinds of channel, told apart by `capacity = 0`; the channel is made
with one of `Capacities` and keeps it.  A call that
does not wait is one action; a call that waits is an action that queues, and one
(`ProducerRuns`, `ConsumerRuns`) that runs when the coroutine has been resumed.
`resumed` is the waiter that has control but has not run yet: between a resume and
the code of the waiter there is no other code, so everything else waits for it.
For an unbuffered channel the caller that finds a partner stays in its call
(`partner`) until the partner has copied the data.  `Cancel` and `Timeout` resume a
waiter from outside.  `Close` and `CloseGoesOn` wake one waiter per step, and
whatever that waiter does next comes in between.

FifoChannel is the promise: an item is accepted when there is room, delivered in
order, or handed over in a rendezvous; a call that fails moves nothing.

### ChannelSelect (`cat_channel_select()`)

Several channels, items left out.  Queues hold nodes: of a plain call (index 0) or
the dummy for the i-th request of a select.  `named` is the dummy whose coroutine
pointer was cleared by `cat_channel_resume_waiter()`.  `SelectEnds` is the loop
after the wait, including its early `break` when the channel has been closed.

### Scheduler (`cat_coroutine.c`, `cat_event.c`, `cat_time.c`, `swow_event.c`)

Control is a stack, as Coroutine implements it.  `call` says which call a coroutine
is in, `armed` which ones a timer or an event will resume, `phase` where the
scheduler is in `cat_coroutine_scheduler_function()`, `from` who gave it control
last.  `uv_crun()` is a choice of armed coroutines until none is left.  `SeenFlags`
is what `coroutine->from->flags` may read as: if that coroutine has been freed, it
is either value.

`program`, one of `Programs`, is what the program may do, because some properties hold
only for some programs: who calls wait_all (`waiters`), whether coroutines that
wait are resumed by hand (`interrupts`), whether coroutines that lie below are resumed
(`crossResume`), and whether a deadlock handler is installed (`handlers`).  A program
is `Orderly` when only main waits for all and there are neither handlers nor cross
resumes.

### PhpCoroutine (`swow_coroutine.c`, `swow_defer.c`)

The PHP side of a coroutine, on top of the call stack that Coroutine implements.
`status` is the life of the object: created, alive (started, and in
`SWOW_COROUTINE_G(map)`), dead but still referenced, or none, when its memory may be
used for a new one.  `id` and `last_id` are the ids, which are never given out
again.  `below` is where the PHP frames of a coroutine continue
(`root_execute_data->prev_execute_data`); `Relink` changes it as
`swow_coroutine_switch_executor()` and its neighbours do, for the two coroutines of
a switch only.  `phase` is how far `swow_coroutine_function()` has come, which ends
the function, the destructor, the callable and the properties one after another, and
each of them may run PHP code.  `exception` is what is on its way, `aside` what
`swow_call_function_anyway()` puts aside for a destructor or a defer task.  `call`
says which switching function a coroutine is in and, for a kill, its victim and the
victim's id.  `KillAgain`, `KillDone`, `KillNext` and `KilledAll` are the loops of
`swow_coroutine_kill()` and `swow_coroutine_kill_all()`; `EndScript`, `Destruct` and
`Close` the end of the main script.

### Socket (`cat_socket.c`, `swow_socket.c`)

`internal` binds socket objects to internal sockets, which they share after an
`open()` of a socket.  An internal socket has its stage, the io flags, the one
waiter of all calls but writes (a union in the code), the queue of writers, the
write requests that libuv has, and whether there is a cached request.  `Entered`,
`ReadEntered`, `WriteEntered` and their counterparts are what the functions do
before and after their wait.  `Interrupt` is a timeout or a resume from outside: a
write or a connect that is interrupted leaves a request with libuv
(`Abandoned`), which breaks the socket for all who share it (`Break`).  `CloseStep`
is one round of the loop in `cat_socket_internal_close_impl()`: it resumes one
waiter, who acts before the loop goes on (`CloseGoesOn`), or gives the socket to
libuv, whose `CloseCallback` frees it.  connect() tries one address.

While bind() or connect() resolves a name, the check for datagram sockets lets a send
pass, and so does `Write`.  The end of the resolution then clears the flag of the
writers along with its own.  `early` has no counterpart in the code; it records that
something was sent on an internal socket during a resolution, so that the properties can
say what is lost then and what is not.

### Buffer (`swow_buffer.c`, `cat_buffer.c`, reads and writes of `swow_socket.c`)

The memory of a Buffer is a PHP string.  The model names the owners of each string
instead of counting them, so that a reference count that is exact is a statement about
who points where.  Literals are interned strings.  `Exclusive` is the test of
`swow_buffer_separate()` and `swow_buffer_cow()`; `Store` is what the allocator
functions of swow do to string and buffer when memory is got, moved, updated or freed.
`DelRef` is the fall of a count: if the reference released was never counted, somebody
else loses his.  `Leak` is a reference that is overwritten and so never released.

`StartRead` takes the pointer, locks and copies a shared string, in the order of
`_read()`, and waits; `FinishRead` has the bytes where the pointer pointed, and then the
virtual write of the buffer, whatever string it has by then.  A write holds a reference
to the string while it waits.

Four uses go wrong, none of which the code refuses (`Misuses`): a read into a buffer
whose string is shared; giving a string that is read into another holder (toString,
clone, a write that adopts it, a socket write); `__serialize()` of a counted string; and
`__unserialize()` of a buffer that has memory.  A program is `Careful` when it does none
of them, `Counting` when it does neither of the last two, and `Fresh` without the last.

### Receiver (`ReceiverTrait.php` on `swow_http.c` and `swow_websocket.c`)

A byte of the stream is its position, so that what is delivered can be compared
with what was sent by position: a byte lost, repeated or put in the wrong message
shows.  The token at a position is a piece that the parser reports as a whole.  `call`
holds the local variables of `recvMessageEntity()` or `recvWebSocketFrameEntity()`;
its field `at` says where that call waits or goes on.  One action is one branch of
the loop on the event of the parser (`Header`, `HeadersComplete`, `Multipart`,
`Body`, `ChunkHeader`, ...), with the reads past the buffer
(`ReadPreserved`, `ReadBody`, `ReadChunk`, `ReadPayload`) where the peer may take its
time.  What llhttp does on a piece (`BodyState`, `ParseData`, `ParseChunk`) is
external: it is modelled as far as its events matter here.

`IsStream`, in `Streams`, says what peers send: whole messages in any number, one behind
the other, with no body, one of a given length, of chunks or of parts, or WebSocket
frames, of which any may be a bad one, with junk where that shows.  It stands for the
grammar of the parsers.  A multipart body in chunks is not among the forms: the parser
asserts that there is none (`cat_http.c:489`).  A connection that ends in the middle of
a message is not among the streams: there a read fails, as it does in a timeout.

### Queues

`Without` is `cat_queue_remove()` of a waiter, which is in a queue at most once;
`Keeping` is what is left of a queue when a loop has removed all but some.  `After` and
`Positions` are the parts of a sequence that Receiver goes through; the lemmas about all
of them, and those about streams, are in `QueueProofs`.

## 3. What TLC checks

The properties of a run are those its cfg names.  TypeOK is not among them, nor are
OneRunning of Coroutine and LengthIsExact of Channel: they are proved (section 4).
The types of Receiver are part of its inductive invariant there.

| Run | Instance | Properties |
|---|---|---|
| Coroutine | main and 3 structures, the scheduler may be resumed by hand; 74,484 states up to symmetry | OneList, CountIsExact, ImplementsCallStack |
| Channel | 4 coroutines, 2 items, capacity 0 or 2; 136,880 states | WaitersAreQueued, NobodyWaitsInVain, RendezvousIsPaired, NobodyWaitsAfterClose, ImplementsFifoChannel, AcceptAfterCloseOnlyFromWaiters, CloseEndsAllWaits |
| ChannelSelect | 4 coroutines, an unbuffered channel and one of capacity 1; the unbuffered one, which the last request of each selection names, may be closed; 2,779 states up to symmetry | NobodyWaitsInVain, WokenSelectCanGoOn, ReadyIsPossible, NodesAreAlive, NoHalfRendezvous |
| Scheduler | two programs: main and 3 coroutines, only main waits for all, coroutines are resumed out of their waits; main and 2, all wait for all, coroutines are resumed from below, deadlock handlers; 30,758 states | OrderlyDeadlockIsReal, SchedulerLeavesOnlyWhenClosed, WaitersAreQueued, NotifyFindsWaiter, WaitAllMeansAllDone, ControlIsCallStack, SleepersWake |
| PhpCoroutine | main and 2 coroutines, 3 ids, 6 steps of PHP code; 86,104 states | TraceIsCallStackUncrossed, VictimIsTheSame, OnlyTheLivingHaveControl, ShutdownKillsAll, KillReturns |
| Socket | 2 objects, 2 internal sockets, 3 coroutines, 3 write requests in flight, sends while a name is resolved; 519,008 states | WaitersAreKnown, NobodyUsesTheClosed, NobodyWritesAfterATornWrite, RequestsAreDistinct, CloseEndsEverything |
| Buffer | 2 buffers of at most 2 bytes, a variable, 2 coroutines, 2 strings and a literal, 1 value of a byte; a careful program and one that shares what is read into; 621,803 states up to symmetry | CarefulStringsNeverChange, BufferIsSound, OwnersAreExact, ReadsKeepTheirBuffer, CopyOnWrite |
| Receiver | streams of 2 or 3 messages of 11 forms of requests and 4 of frames, a buffer of 7 pieces with a load limit of 4, at most 3 pieces of headers and 4 of a body; 64,446 states | DeliveredAreSent, OnlyTheBadAreRefused, EverythingArrives |

What they say:

- Coroutine: the links are one list without a cycle, which answer each other and
  lead to nothing freed (OneList); the number the scheduler compares is exact
  (CountIsExact); control is a call stack.
- Channel: a coroutine is queued exactly while it waits; nobody waits for what could
  be done; a rendezvous has two partners; items come out in order, once, and only
  those whose push succeeded; a close ends every wait, and after it only producers
  that already waited can still store.
- ChannelSelect: a select has a node queued for each of its requests while it waits
  and none afterwards (NodesAreAlive); a select that was woken can do the transfer it
  was woken for; what select takes for ready is what push and pop take for possible,
  and one side of a channel waits at a time (ReadyIsPossible); nobody waits for what
  could be done, nor on a closed channel (NobodyWaitsInVain).
- Scheduler, of an orderly program: a wait_all that succeeds finds everybody else done;
  a deadlock is reported only when all are asleep with no event to come; the scheduler
  leaves its loop only when it is closed; control is a call stack.  Of every program:
  the queue holds those who wait, and a sleeper wakes.  Of one that resumes no waiter by
  hand: notify_all finds the waiters it counted.
- PhpCoroutine: the frames of each coroutine continue in those of the one below it,
  until a coroutine is resumed from below for the first time; a kill that goes on
  after it lost control aims at the coroutine it was called for; only coroutines in
  the map have control or an exception; at the end of the script nobody is left; a
  kill returns.
- Socket: who waits on an internal socket is known to it by flags, context and queue,
  so that a close finds them all; nobody waits on what was freed, and references are
  exact; after a write was cut short nobody writes; the cached request is used once
  at a time; a closed internal socket is freed in the end with nobody left on it.
  After a send during a resolution three of these are weaker, as their formulas say:
  the flag of the writers may be wrong, so a close may miss a writer, and the cached
  request may be used twice.
- Buffer: references are exact, a shared string is copied before anything but the end of
  a read changes it, the length of a buffer fits its size, and a read keeps its lock and
  its memory, whether the program is careful or not.  If it is, the end of a read
  changes no string that others hold either, and a buffer has the length of its string
  and shows no memory that nobody wrote.
- Receiver: what is delivered is what was sent, message by message; nothing is
  refused but what is bad or over the limits; every message arrives, without waiting
  for what comes behind it.

The bounds are enough for the interesting cases.  With three coroutines beside the main
one there is a list with a middle, so that a cross resume can take from the top, the
middle and the bottom, while a fourth structure is freed and used again.  Four
coroutines at a channel of capacity two allow two waiters on a side while another one
closes and a fourth is woken and overtakes.  In PhpCoroutine a killer, a victim and a
third one suffice, with three ids so that the memory of the victim is used again, and
six steps so that a destructor resumes, waits and starts coroutines while it is killed.
In Socket, two objects share an internal socket or use one each while one accepts into
the other, and two coroutines write while the third one closes.  In Buffer the second
buffer, the variable and a write in flight are three ways for a string to be shared, and
a second string is there to move to; a change of a string shows in its length, or in
memory that nobody wrote, so that one value of a byte does (the run that reads into a
shared string has two).  In Receiver the buffer of 7 pieces holds most messages with the
start of the next one, but not two of them, and the rest of the larger bodies is read
past it.  `MaxId`, `Budget`, `MaxFlight`, `MaxSize`, the lengths of `Chunks` and the set
`Strings` are bounds of the models and not of the program; everything else is the
program's own or a set of participants.  Coroutines are interchangeable, and so are
items, buffers and the like; symmetry is used for safety only.

Deadlock is checked for coroutines, channels, sockets and buffers.  Scheduler
does without it: the program ends when the scheduler does, and sleeps for ever in a
deadlock.  So does PhpCoroutine, whose program ends, or yields with nobody to resume
it, and Receiver, whose stream ends.

Fairness.  Channel assumes that a woken coroutine runs (it has the
processor) and that the closing coroutine, which lies below those it woke, gets
control back again and again: they yield or end sooner or later, or nothing in a
cooperative system goes on.  Scheduler assumes that the scheduler runs when it has
control, that the event loop passes over no timer for ever, and, in SleepersWake,
that the program gives control back now and then.  PhpCoroutine assumes that whoever
has control goes on; a victim whose code runs for ever is excluded by the budget of
steps.  Socket assumes the same of the coroutine that closes as Channel does, and
that libuv calls its callbacks.  Receiver assumes that the receiver goes on, and
that what the peer sent arrives when the receiver waits for it again and again, as a
timeout may come first each time.  The safety properties of these runs do not depend
on it.

### Where code and text disagree

Each of these runs checks one property that the code or its comments state, and
TLC finds it violated.

| Run | What happens |
|---|---|
| ChannelSelectDangling | A select woken by the close of a channel that is not that of its last request leaves its loop early and frees dummies that are still queued (`cat_channel.c:554`). |
| SchedulerDeadlock | With another waiter behind the main coroutine, the request to close the scheduler is overwritten, and a deadlock is reported while main waits for the scheduler (`cat_coroutine.c:1021`). |
| BufferSharedRead | A read takes its pointer (`swow_socket.c:835`) before the memory is made its buffer's own (`:852`), so that the bytes arrive in the string that a PHP variable, another buffer or a write still holds, though "refcount + COW will make sure that string will always be dupped when writing by someone else" (`swow_buffer.h:43`). |
| BufferSerialize | `__serialize()` adds the string to an array without a reference (`swow_buffer.c:889`), which only an interned string stands, as a comment in toString() says ("so we must use zend_string_copy() here", `:746`). |

The passing runs leave out what leads there: ChannelSelect closes only the channel of
the last request, the properties of Scheduler about deadlocks are of orderly programs,
and the programs of Buffer neither read into shared strings nor serialize counted ones.

One disagreement has no run of its own, because it is in the passing run:
`cat_socket_internal_write_callback()` asserts that the flag of the writers is set when
a writer is resumed (`cat_socket.c:3137`), and it is not when the writer sent a datagram
while a name was resolved, since the end of the resolution clears all flags (`:1544`,
`:1949`).  The Socket run makes such sends.  WaitersAreKnown, NobodyUsesTheClosed and
RequestsAreDistinct except just what that breaks, by `early`, and none of the three
holds without the exception.  A close that comes then takes the writer for nobody and
gives the socket to libuv under him, and the next send takes the cached request, which
is still in use (`:3270`).

What goes wrong for a kind of program that the runs leave out:

- Programs that resume waiters by hand, with waiters other than main: a waiter woken by
  notify_all that resumes another waiter makes the recorded count exceed the queue, and
  `cat_queue_front_data()` is taken of an empty one (`cat_coroutine.c:1139`;
  NotifyFindsWaiter).
- `MutualKills`: two coroutines that kill each other, or a chain of them in a circle,
  throw at each other for ever (`swow_coroutine.c:1446`; KillReturns).
- `LateStarts`: a coroutine that is started after its object was destructed at the
  end of the script is not killed (`swow_coroutine.c:536`; ShutdownKillsAll).
- A cross resume: the frames of the coroutine that lay right above the target still
  continue in the target's (TraceIsCallStack, of which the run checks the part before
  the first cross resume; `swow_coroutine.c:580`).
- "share while reading" of Buffer: `toString()`, a clone or a socket write during a read
  hands out the string that is read into, which changes then (HeldStringsNeverChange;
  the run has such a program, and CarefulStringsNeverChange leaves it out).
- "unserialize used": `__unserialize()` looks neither at the lock nor at the memory that
  the buffer has (`swow_buffer.c:920`), which is never released (OwnersAreExact), and a
  read in progress ends in a buffer that may have no room for it (BufferIsSound,
  ReadsKeepTheirBuffer).
- "share the connection" of Socket: the object that an accept will fill is used or
  closed by others while the accept waits (NobodyUsesTheClosed).
- "retry" of Receiver: a call that timed out in the middle of a message forgets the
  headers, but the parser does not (`ReceiverTrait.php:606`).  "pipeline behind
  multipart": the parser takes all that is in the buffer behind a multipart body, and
  with preserveBodyData a wrong length is compared (`:344`).
- A load limit equal to the buffer's size, which `setBufferLoadFactor(1)` sets: a part of
  a frame's header at the end of a full buffer is never moved to the front, and there
  is no room for the rest of it (`:627`, `:637`).

Seen on the way, and not checked by a run:

- Without a scheduler, a coroutine that was resumed from below may end with nowhere
  to yield to, and the code after `/* never here */` runs (`cat_coroutine.c:438`).
- The accept-data flag that a coroutine is created with survives its start, so that
  the first assertion on data lets through what the second one refuses
  (`cat_coroutine.c:678`, `:746`).
- A select with a push and a pop on one unbuffered channel breaks the assertion that
  one side is empty (`cat_channel.c:223`, `:250`); the selections of the runs do not
  name both sides of a channel.
- The condition of the scheduler's loop may read the flags of a freed coroutine
  (`cat_coroutine.c:1021`): after a deadlock handler has ended, or when a coroutine
  that was resumed from below ends at the bottom before the loop has begun.
  SchedulerLeavesOnlyWhenClosed is therefore checked without handlers and without
  resumes from below.
- The smaller of the read and the message timeout is chosen by
  `($readTimeout < 0 ? PHP_INT_MAX : $timeout)` (`ReceiverTrait.php:225`), which
  compares the message timeout with itself.
- `_write()` takes the read timeout as its default (`swow_socket.c:1307`); a read of
  a given length that is interrupted reports an error for the bytes it has
  (`cat_socket.c:2879`-`2901`); a connect that tries a second address recreates the
  internal socket under those who share it (`cat_socket.c:1976`, a FIXME there).
- `$b->append($b)` that needs more room reads its own old memory after it may have been
  moved.  A read whose string was shared and then freed by its other
  holders lands in memory that may be another string's by then.
- The parser asserts that a multipart body fits the content length
  (`cat_http.c:489`), which one in chunks does not.
- A clone of a Buffer copies its locker with it (`swow_buffer.c:970`); a string whose
  hash was cached keeps it when a Buffer that has it alone writes to it.
- The PHP stub gives the timeouts of Channel "in microseconds"
  (`lib/swow-stub/src/Swow.php:983`), while the code takes milliseconds;
  `cat_channel_enable_reuse()` is declared in `cat_channel.h` and defined nowhere.

## 4. What TLAPS proves

Every theorem holds for all values of the constants that satisfy the assumptions
named in the modules (finite sets of coroutines where something is counted, the main
coroutine among them, null values that are none of the others, natural bounds, streams
as `IsStream` has them), and nothing else is assumed but what is said here.

`CoroutineProofs`, for any finite set of coroutine structures, whether or not the
program resumes the scheduler by hand: TypeOK, OneRunning, OneList and CountIsExact
are invariants.  They are proved together, because none is inductive alone: a resume
from below keeps the list because the current coroutine has nobody above it; a
fallback to the scheduler keeps it because a current coroutine with nobody below is
alone on the list, which follows from the one bottom and the absence of cycles
(`AloneWithoutPrevious`); and the absence of cycles is a statement about all sets of
coroutines, so that it needs no induction over the list (`LinkNoCycle`).  The added
conjunct, `Lasting`, says that the main coroutine never ends, that it never is the
scheduler, and that a scheduler has run.  Exactness of the count follows with the
theorems on cardinalities.  For programs that leave the scheduler alone
SchedulerAtBottom holds too.  And the links implement CallStack.  Its stack is the list
read down from the current coroutine, which takes induction over a walk; the proof
avoids it by saying how each step changes a sequence that goes up along the links
(`Spells`): a resume moves one to its end, a yield or an end cuts it, or starts it
anew at the scheduler.  Such a sequence passes nobody twice (`SpelledOnce`) and
everybody on the list (`SpelledAll`), both by the absence of cycles, and so it is what
`StackOf` computes: the least number at which the walk would differ does not exist
(`WalkDown`, `StackIs`).

`QueueProofs` has the lemmas that several of the others rest on: what taking one out
of a queue without repetitions, appending one or several, taking the last one off, and
keeping some do to its members; and what follows from `IsStream` about the pieces around a
position.

`ChannelProofs`, for any capacity, any coroutines and any items: TypeOK,
LengthIsExact, WaitersAreQueued, NobodyWaitsInVain, RendezvousIsPaired and
NobodyWaitsAfterClose are invariants; AcceptAfterCloseOnlyFromWaiters holds of
every step; and Channel implements FifoChannel.  The strengthening is WokenCanGoOn:
between the resume of a waiter and its run the queue of its side may be non-empty
though there is room for one item more, because that waiter is about to take it,
unless its timer fired.

`ChannelSelectProofs`, for any coroutines, channels and capacities, and any selections
of which no two requests want both directions of one channel, and a request for a
channel that gets closed is the last one (SelectionAssumption; those of the run
ChannelSelect satisfy it, and ChannelSelectDangling shows that NodesAreAlive does not
hold without its second part): NodesAreAlive, NobodyWaitsInVain, WokenSelectCanGoOn,
NoHalfRendezvous and ReadyIsPossible.  The strengthening is that each channel is settled
(whoever waits to push waits before a full or closed one, whoever waits to pop before an
empty one), or is just where the one coroutine that was woken expects it: one item off,
which it goes on with (WaitsAreSettled).  So what is ready is possible, and who is woken
can go on.  With it go the one side that waits, offers that are for the woken one, and
the types.  A call that waits joins its queues (`WaitInv`), one that ends leaves them
all with the channels settled (`LeaveInv`), and every other step leaves the queues
alone.

`SchedulerProofs`, for any set of coroutines and of programs; what is shown of some
programs only has them in its formula.  For every program: WaitersAreQueued.  For
programs that resume no waiter by hand: NotifyFindsWaiter, because while notify_all goes
on nobody but it takes a waiter out of the queue.  For orderly programs, where only the
main coroutine waits for all, nobody is resumed from below and there is no deadlock
handler: SchedulerLeavesOnlyWhenClosed, OrderlyDeadlockIsReal, WaitAllMeansAllDone, and
that Scheduler implements the control of CallStack.  The strengthening, `Course`, lists
the nine situations of the scheduler and main: what main waits for, who is on the stack,
what the queue holds, and that it was main who gave control to the scheduler when the
scheduler looks at the flags.  That all others are finished is then a fact about
cardinalities (`OnlyMainIsLeft`).

`PhpCoroutineProofs`, for any coroutines, ids and numbers of steps, with mutual kills
and without: TraceIsCallStackUncrossed, VictimIsTheSame and OnlyTheLivingHaveControl
are invariants, and ShutdownKillsAll when there are no late starts.  Every switch
moves a living coroutine to the end of the stack or takes the last one off it, which
three lemmas about the stack deal with (`Moved`, `Uncovered`, `SameBelow`).  A victim
stays the same because no id is given out again (`IdsAreNew`), although its memory
is.  Nobody is left because an object that was visited at the end of the script lives
only as long as main is busy killing it (`VisitedAreKilled`).

`ReadingProofs`, first half, on Buffer, for any number of buffers, variables and
coroutines.  The theorems come in layers, by what the program keeps from.  For every
program: TypeOK, and that a read keeps its lock and a buffer with memory.  For programs
that are `Fresh`, the rest of ReadsKeepTheirBuffer and that lengths fit sizes.  For
those that are `Counting`, whatever they read into or share: OwnersAreExact, and
CopyOnWrite of every step.  For those that commit no misuse: CarefulStringsNeverChange
and the whole of BufferIsSound.  The argument is that of a single owner: a string that
is changed has one owner, which is the buffer it is changed through, and then nobody
else sees the change; and in a careful program a read in progress has its string through
a buffer that is its sole owner until it ends (`Alone`).  So the invariant, `IInv`, has
sizes that fit (`SizesFit`), reads with their buffers (`Reads`), exact owners (`Exact`),
and what is true of careful programs only (`Pure`: strings that do not change, lengths
that agree and no memory that nobody wrote), each under the condition of its layer.  The
operations fall into three kinds, which a lemma each deals with: those that give a
buffer a new string (`Rebind`), those that give a variable one (`Assigned`), and those
that begin or end a write (`Writes`).

`ReadingProofs`, second half, on Receiver, when nobody takes the liberties of section 3,
for any streams, limits and pieces that come and any size and load limit of the buffer:
DeliveredAreSent; and OnlyTheBadAreRefused, when the header of any frame fits behind the
load limit (`HeadersFit`: 8192 bytes with the factor of 0.75 that `ReceiverTrait.php:69`
sets have room for the 14 bytes of the longest one; the run satisfies it too).  The
invariant, `ReceiverInv`, is that there is one position in the stream where the receiver
is (`Follows`): what it has not parsed is just what the stream has from there up to what
was read, and what the parser and the local variables of the call say is true of the
message around that position (`IsAt`).  There are eight such places: between messages,
before one, in its headers, in a body with a length, of chunks or of parts, at the
header of a frame and in its payload; each says which pieces of the message lie behind
it and that they are in `head` and `body`. A step parses or reads a few pieces, and
`IsStream` says what they can be; one lemma per place and event says what the parser
reports there (`NowStart`, `NowHead`, ...), one per way to end a step that the invariant
holds then (`GoesOn`, `Delivers`, `GivesUp`), and one per action combines them.  What is
delivered is compared with what was sent by lemmas on the pieces that a filter keeps of
consecutive positions (`KeptPositions`, `PickedJoin`): two sequences in ascending order
with the same members are equal (`SameInOrder`), which takes the place of an induction.
One conjunct, `SentInTime`, says that nothing was read that was sent behind a multipart
body before that was answered, without which the parser would swallow it.

`SocketProofs`, for programs in which nobody else uses the object that an accept will
fill, with sends at any time, those during a resolution included, and any number of
objects, internal sockets and coroutines: TypeOK, WaitersAreKnown, NobodyUsesTheClosed,
NobodyWritesAfterATornWrite and RequestsAreDistinct.  The invariant is a statement
`Good(i, r, calls)` about one internal socket and the calls: flags, queue and waiter
name those who call (`Known`), the stage admits their calls and at most one closes
(`Staged`), each write in the queue has its own request with libuv and the cached one is
used once (`Flying`), and a request without a writer means that the socket is closed or
gone.  It is stated for one internal socket because a step changes one, and the lemmas
say what entering a wait, leaving it and one round of a close (`CloseStepProperties`) do
to it, and that the others do not notice (`GoodElsewhere`).  Beside it, references are
exact (`RefsAreExact`), which takes the finiteness of the objects, and the object that
an accept will fill is idle and has its internal socket for itself (`Lent`).

Only model-checked: the liveness properties CloseEndsAllWaits, SleepersWake,
KillReturns, CloseEndsEverything and EverythingArrives: liveness under fairness and
ENABLED are beyond the prover.  Every other property of a passing run is a theorem.

## 5. Not modelled

Memory exhaustion, stack overflow, `fork()`, the thread-context build (every
coroutine a thread), and the components listed as not modelled in `PROJECT.json`,
each with its reason.  Within the components that are modelled:

- Channel: a wait that is refused at once because switching is denied is a wait
  followed by a timeout: both leave the queue and report failure.  ChannelSelect: a
  call that is refused because the channel is closed changes nothing and is left out,
  and so is the Selector object that owns the requests.
- PhpCoroutine: calls and evaluation in another coroutine, autoload, fatal errors,
  and what only reads.
- Socket: TLS, Unix datagrams, which are written without libuv, try_connect, and more
  than one address per name.  Each call is made once per wait; the bytes are left out.
- Buffer: searching and formatting; sizes are natural numbers, not machine words; the
  memory between length and size.
- Receiver: responses that end with the connection; multipart bodies in chunks; the
  branch for a multipart body that is shorter than the last piece of the headers
  (`ReceiverTrait.php:344`-`346`), which is shorter than its own last boundary; and the
  PSR-7 objects, the server and the client around the loop.  The grammar of HTTP is
  llhttp's.

The map covers a tenth of the implementation.  Most of the rest adapts the PHP engine
or external libraries (streams, hooks, file system, cURL, PostgreSQL, debugger), keeps
no state of its own between two waits, and is called through the waits that are
modelled.

## 6. Plan

1. done: Coroutine and CallStack, Channel and FifoChannel, ChannelSelect, Scheduler,
   PhpCoroutine, Socket, Buffer, Receiver; proofs of their safety properties.
2. WaitGroup and WaitReference (`cat_sync.c`, `swow_sync.c`): an abstract
   counter with one waiter; misuse, cancellation and timeout.
3. Time and defer tasks (`cat_time.c`, `cat_event.c`): the three forms of delay,
   their answers, io defer tasks closed while they run, shutdown tasks.
4. Async and Work (`cat_async.c`, `cat_work.c`) with the blocking flock of
   `cat_fs.c`, which uses both: a thread or the pool against timeout and cancellation;
   handles closed and contexts freed exactly once, the shutdown task included
   (`cat_fs_flock_shutdown()` calls `cat_async_close()` on a handle that is already
   marked as closing, and waits for a thread that may never have been started).
5. OsWait (`cat_os_wait.c`) with signals (`cat_signal.c`): every child state is
   delivered once, or stored.
6. Poll (`cat_poll.c`): several handles and the deferred answer.
7. Watchdog (`cat_watchdog.c`): two threads, stop against the timed wait.
8. The Selector object, calls and evaluation in other coroutines, TLS handshakes.

Theorems worth proving next: that a select implements one push or pop of FifoChannel,
which needs the items in ChannelSelect; an abstract specification of a connection, a
queue of messages, which Receiver implements.
