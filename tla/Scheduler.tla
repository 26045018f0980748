------------------------------ MODULE Scheduler ------------------------------
(***************************************************************************)
(* The scheduler coroutine of libcat (cat_coroutine.c), the event loop it  *)
(* runs, wait_all, deadlock detection and the closing of the scheduler.    *)
(*                                                                         *)
(* Control is a call stack here (CallStack.tla, which Coroutine.tla        *)
(* implements): the last of "stack" has the processor.  A coroutine that   *)
(* gives it up uncovers the one below, or falls back to the scheduler.     *)
(* Each action is what a coroutine does up to its next switch.             *)
(***************************************************************************)
EXTENDS Naturals, Sequences, FiniteSets, SequencesExt, Queues

CONSTANTS Coroutines,  \* the coroutines of the program
          Main,        \* the one that closes the scheduler in the end
          Scheduler,   \* the scheduler coroutine
          NoCo,        \* no coroutine
          Programs     \* the kinds of programs, see ProgramKinds

\* What a program does: the coroutines it creates besides the main one, those
\* that call wait_all, whether it resumes coroutines that wait, whether it resumes
\* coroutines that lie below, and whether it has a deadlock handler.
ProgramKinds == [created : SUBSET Coroutines, waiters : SUBSET Coroutines,
                 interrupts : BOOLEAN, crossResume : BOOLEAN, handlers : BOOLEAN]

ASSUME SchedulerAssumption ==
    /\ IsFiniteSet(Coroutines)
    /\ Main \in Coroutines
    /\ Scheduler \notin Coroutines
    /\ NoCo \notin Coroutines \cup {Scheduler}
    /\ Programs \subseteq ProgramKinds

VARIABLES
    stack,   \* who can get control back, top last
    call,    \* the call each coroutine is in
    armed,   \* the coroutines that a timer or an event will resume
    waiters, \* CAT_COROUTINE_G(waiters); its length is waiter_count
    result,  \* how the last wait_all of each coroutine ended
    from,    \* scheduler->from: who gave control to the scheduler last
    phase,   \* where the scheduler is in its loop
    left,    \* the count of cat_coroutine_notify_all()
    program  \* what this program does, which never changes

vars == <<stack, call, armed, waiters, result, from, phase, left, program>>

\* "gone" is not created yet, or finished and freed; "free" runs its own code or
\* was yielded by it.  The main coroutine ends in "closing" (the wait_all of
\* cat_coroutine_scheduler_close), "retry" (that wait_all failed), "closed" (it
\* succeeded, and the scheduler is to be told) and "done".
Calls == {"gone", "free", "sleep", "wait", "closing", "retry", "closed", "done"}
Phases == {"head", "schedule", "chance", "notify", "deadlock", "gone"}

Init ==
    /\ stack = <<Main>>
    /\ call = [c \in Coroutines |-> IF c = Main THEN "free" ELSE "gone"]
    /\ armed = {}
    /\ waiters = <<>>
    /\ result = [c \in Coroutines |-> "none"]
    /\ from = NoCo
    /\ phase = "head"
    /\ left = 0
    /\ program \in Programs

Top == Last(stack)
OnStack == ToSet(stack)

\* Coroutine c runs its own code.
Runs(c) == Top = c /\ call[c] = "free"

Become(c, what) == call' = [call EXCEPT ![c] = what]

\* cat_coroutine_resume() of d.
Enter(d) == stack' = Append(Without(stack, d), d)

\* A wrong GiveUp that ignores who is below, kept to show that ControlIsCallStack
\* can fail.
GiveUpToScheduler(c) ==
    /\ stack' = <<Scheduler>>
    /\ from' = c

\* cat_coroutine_yield() of c, or its end.
GiveUp(c) ==
    /\ stack' = IF Len(stack) > 1 THEN Front(stack) ELSE <<Scheduler>>
    /\ from' = IF Last(stack') = Scheduler THEN c ELSE from

\* cat_coroutine_wait_all_ex() as far as its cat_time_wait().
Queue(c) == waiters' = Append(waiters, c)

\* A wrong Leave that does not remove the node, kept to show that
\* WaitersAreQueued can fail.
LeaveQueued(c, how) ==
    /\ armed' = armed \ {c}
    /\ result' = IF call[c] = "wait" THEN [result EXCEPT ![c] = how] ELSE result
    /\ Become(c, IF call[c] # "closing" THEN "free"
                 ELSE IF how = "ok" THEN "closed" ELSE "retry")
    /\ UNCHANGED waiters

\* The rest of the wait that c is in: its timer is closed, its node removed.  A
\* wait_all succeeds if it was the scheduler that resumed c, and not a timer.
Leave(c, how) ==
    /\ armed' = armed \ {c}
    /\ waiters' = Without(waiters, c)
    /\ result' = IF call[c] = "wait" THEN [result EXCEPT ![c] = how] ELSE result
    /\ Become(c, IF call[c] # "closing" THEN "free"
                 ELSE IF how = "ok" THEN "closed" ELSE "retry")

-----------------------------------------------------------------------------
\* What the program does.

Start(c, d) ==
    /\ Runs(c)
    /\ call[d] = "gone" /\ d \in program.created
    /\ Become(d, "free")
    /\ Enter(d)
    /\ UNCHANGED <<armed, waiters, result, from, phase, left>>

\* A coroutine resumes another one, and ends the wait that one is in.
Resume(c, d) ==
    /\ Runs(c)
    /\ d # c
    /\ call[d] \in {"free", "sleep", "wait", "closing"}
    /\ call[d] # "free" => program.interrupts
    /\ d \in OnStack => program.crossResume
    /\ Enter(d)
    /\ Leave(d, "canceled")
    /\ UNCHANGED <<from, phase, left>>

Yield(c) ==
    /\ Runs(c)
    /\ GiveUp(c)
    /\ UNCHANGED <<call, armed, waiters, result, phase, left>>

\* A wait for a timer or for I/O, anywhere in the library.
Sleep(c) ==
    /\ Runs(c)
    /\ armed' = armed \cup {c}
    /\ Become(c, "sleep")
    /\ GiveUp(c)
    /\ UNCHANGED <<waiters, result, phase, left>>

WaitAll(c, timed) ==
    /\ Runs(c)
    /\ c \in program.waiters
    /\ Queue(c)
    /\ armed' = IF timed THEN armed \cup {c} ELSE armed
    /\ Become(c, "wait")
    /\ result' = [result EXCEPT ![c] = "none"]
    /\ GiveUp(c)
    /\ UNCHANGED <<phase, left>>

Finish(c) ==
    /\ Runs(c)
    /\ c # Main
    /\ Become(c, "gone")
    /\ result' = [result EXCEPT ![c] = "none"]
    /\ GiveUp(c)
    /\ UNCHANGED <<armed, waiters, phase, left>>

\* cat_coroutine_scheduler_close(), at the end of the main coroutine's script:
\* wait_all until it succeeds, then resume the scheduler with the scheduling flag.
Close ==
    /\ Top = Main
    /\ call[Main] \in {"free", "retry"}
    /\ Queue(Main)
    /\ Become(Main, "closing")
    /\ GiveUp(Main)
    /\ UNCHANGED <<armed, result, phase, left>>

ResumeScheduler ==
    /\ Top = Main /\ call[Main] = "closed"
    /\ phase # "gone"
    /\ Enter(Scheduler)
    /\ from' = Main
    /\ UNCHANGED <<call, armed, waiters, result, phase, left>>

-----------------------------------------------------------------------------
\* cat_coroutine_scheduler_function()

\* The number of coroutines; Coroutine.tla shows that count is just that.
Count == Cardinality({c \in Coroutines : call[c] # "gone"})

\* A wrong IsUnfinished that does not count the caller, kept to show that
\* WaitAllMeansAllDone can fail.
IsUnfinishedButOne == Count > Len(waiters) + 1

\* A wrong IsUnfinished that compares with >=, kept to show that
\* OrderlyDeadlockIsReal can fail.
IsUnfinishedOrWaiting == Count >= Len(waiters)

\* cat_coroutine_is_unfinished()
IsUnfinished == Count > Len(waiters)

\* A wrong SeenFlags where the flag is set before everything is done, kept to show
\* that SchedulerLeavesOnlyWhenClosed can fail.
SeenFlagsEarly ==
    IF call[from] = "gone" THEN BOOLEAN
    ELSE {from = Main /\ call[Main] \in {"closing", "closed"}}

\* The scheduling flag of from.  Only the main coroutine gives control to the
\* scheduler with its flag set.  If from has been freed, it can be anything.
SeenFlags == IF call[from] = "gone" THEN BOOLEAN ELSE {from = Main /\ call[Main] = "closed"}

LoopGoesOn ==
    /\ Top = Scheduler /\ phase = "head"
    /\ FALSE \in SeenFlags
    /\ phase' = "schedule"
    /\ UNCHANGED <<stack, call, armed, waiters, result, from, left>>

\* The scheduler dies and gives control back to whoever is below it.  With
\* nobody there it has nowhere to go, and the program aborts.
LoopEnds ==
    /\ Top = Scheduler /\ phase = "head"
    /\ TRUE \in SeenFlags
    /\ phase' = "gone"
    /\ stack' = IF Len(stack) > 1 THEN Front(stack) ELSE stack
    /\ call' = IF Last(stack') = Main
                 THEN [call EXCEPT ![Main] = "done"] ELSE call
    /\ UNCHANGED <<armed, waiters, result, from, left>>

\* The event loop resumes a coroutine.
Event(c) ==
    /\ Top = Scheduler /\ phase \in {"schedule", "chance"}
    /\ c \in armed
    /\ Enter(c)
    /\ Leave(c, "timeout")
    /\ UNCHANGED <<from, phase, left>>

\* There is no event left to wait for: either everybody waits in wait_all, or
\* the deadlock callback gets a chance, which may start a handler.
AllWait ==
    /\ Top = Scheduler /\ phase = "schedule"
    /\ armed = {}
    /\ ~IsUnfinished
    /\ phase' = "notify"
    /\ left' = Len(waiters)
    /\ UNCHANGED <<stack, call, armed, waiters, result, from>>

CallHandler(d) ==
    /\ Top = Scheduler /\ phase = "schedule"
    /\ armed = {}
    /\ IsUnfinished
    /\ phase' = "chance"
    /\ \/ UNCHANGED <<stack, call>>
       \/ /\ program.handlers /\ d \in program.created
          /\ call[d] = "gone"
          /\ Enter(d)
          /\ Become(d, "free")
    /\ UNCHANGED <<armed, waiters, result, from, left>>

\* "There is only one chance": the scheduler sleeps for ever if nothing changed.
ChanceIsOver ==
    /\ Top = Scheduler /\ phase = "chance"
    /\ armed = {}
    /\ phase' = IF IsUnfinished THEN "deadlock" ELSE "head"
    /\ UNCHANGED <<stack, call, armed, waiters, result, from, left>>

\* A wrong Notify that goes on while there are waiters, kept to show that
\* NotifyFindsWaiter and SleepersWake can fail.
NotifyForever ==
    /\ Top = Scheduler /\ phase = "notify"
    /\ left > 0 /\ waiters # <<>>
    /\ Enter(Head(waiters))
    /\ Leave(Head(waiters), "ok")
    /\ UNCHANGED <<from, phase, left>>

\* cat_coroutine_notify_all(): as many waiters as there were are resumed, the
\* first of the queue each time.
Notify ==
    /\ Top = Scheduler /\ phase = "notify"
    /\ left > 0 /\ waiters # <<>>
    /\ left' = left - 1
    /\ Enter(Head(waiters))
    /\ Leave(Head(waiters), "ok")
    /\ UNCHANGED <<from, phase>>

AllNotified ==
    /\ Top = Scheduler /\ phase = "notify"
    /\ left = 0
    /\ phase' = "head"
    /\ UNCHANGED <<stack, call, armed, waiters, result, from, left>>

SchedulerStep ==
    LoopGoesOn \/ LoopEnds \/ AllWait \/ ChanceIsOver \/ Notify \/ AllNotified
    \/ \E d \in Coroutines : CallHandler(d)

ProgramStep ==
    \/ \E c, d \in Coroutines : Start(c, d) \/ Resume(c, d)
    \/ \E c \in Coroutines : Yield(c) \/ Sleep(c) \/ Finish(c)
    \/ \E c \in Coroutines, timed \in BOOLEAN : WaitAll(c, timed)
    \/ Close \/ ResumeScheduler

Next ==
    /\ ProgramStep \/ SchedulerStep \/ \E c \in Coroutines : Event(c)
    /\ UNCHANGED program

Spec == Init /\ [][Next]_vars

\* Fairness: the scheduler runs when it has control, and the event loop passes
\* over no timer.
FairSpec ==
    /\ Spec
    /\ WF_vars(SchedulerStep /\ UNCHANGED program)
    /\ \A c \in Coroutines : SF_vars(Event(c) /\ UNCHANGED program)
    /\ WF_vars(ResumeScheduler /\ UNCHANGED program)

-----------------------------------------------------------------------------
TypeOK ==
    /\ stack \in Seq(Coroutines \cup {Scheduler})
    /\ call \in [Coroutines -> Calls]
    /\ armed \in SUBSET Coroutines
    /\ waiters \in Seq(Coroutines)
    /\ result \in [Coroutines -> {"none", "ok", "timeout", "canceled"}]
    /\ from \in Coroutines \cup {NoCo}
    /\ phase \in Phases
    /\ left \in Nat
    /\ program \in Programs

\* An orderly program: only the main coroutine waits for all others, nobody
\* resumes a coroutine that lies below, and there is no deadlock handler.
Orderly ==
    /\ program.waiters = {Main}
    /\ ~program.crossResume /\ ~program.handlers

\* A coroutine is in the queue of wait_all, once, exactly as long as it waits
\* there, and off the stack; only a coroutine in a wait has a timer.
WaitersAreQueued ==
    /\ IsInjective(waiters)
    /\ \A c \in Coroutines :
          /\ c \in ToSet(waiters) <=> call[c] \in {"wait", "closing"}
          /\ c \in ToSet(waiters) \cup armed => c \notin OnStack
          /\ c \in armed => call[c] \in {"sleep", "wait"}

\* A wait_all of an orderly program that succeeds found every other coroutine
\* finished.
WaitAllMeansAllDone ==
    [][Orderly => \A c \in Coroutines :
          (\/ call[c] = "wait" /\ result'[c] = "ok"
           \/ call[c] = "closing" /\ call'[c] = "closed")
          => /\ armed = {}
             /\ \A d \in Coroutines \ {c} : call[d] = "gone"]_vars

\* When the scheduler reports "all coroutines are asleep", all coroutines are:
\* none can get control back, not even from the scheduler itself.
DeadlockMeansAllAsleep ==
    phase = "deadlock" =>
        /\ stack = <<Scheduler>>
        /\ armed = {}
        /\ \E c \in Coroutines : call[c] = "free"

\* In an orderly program the report is true.
OrderlyDeadlockIsReal == Orderly => DeadlockMeansAllAsleep

\* In an orderly program the scheduler leaves its loop only for the main
\* coroutine that closes it, when there is nothing left to schedule.
SchedulerLeavesOnlyWhenClosed ==
    Orderly /\ phase = "gone" =>
        /\ call[Main] = "done" /\ stack = <<Main>>
        /\ armed = {} /\ waiters = <<>>
        /\ \A c \in Coroutines \ {Main} : call[c] = "gone"

\* The count that notify_all recorded never exceeds the queue it walks, as long
\* as the waiters it woke before do not resume those behind them.
NotifyFindsWaiter ==
    ~program.interrupts /\ Top = Scheduler /\ phase = "notify" => left <= Len(waiters)

\* As long as the program gives control back to the scheduler, which lives, now
\* and then, every timer fires (or its wait is ended otherwise): a coroutine that calls
\* wait_all again and again does not keep the scheduler from its events.
SleepersWake ==
    ([]<>(Top = Scheduler /\ phase # "gone")) =>
        \A c \in Coroutines : [](c \in armed => <>(c \notin armed))

-----------------------------------------------------------------------------
\* In an orderly program the stack is used as CallStack says, where a coroutine
\* may be created and resumed at once.
SchedulerLives == phase # "gone"
Existing == {c \in Coroutines : call[c] # "gone"}
                \cup (IF SchedulerLives THEN {Scheduler} ELSE {})

Control == INSTANCE CallStack WITH
              Coroutines <- Coroutines \cup {Scheduler},
              SchedulerExposed <- TRUE,
              parked <- Existing \ OnStack,
              scheduler <- IF SchedulerLives THEN Scheduler ELSE NoCo

Launch(c) ==
    /\ c \notin Existing
    /\ stack' = Append(stack, c)
    /\ Existing' = Existing \cup {c}

ControlIsCallStack ==
    [][Orderly => Control!Next \/ \E c \in Coroutines : Launch(c)]_<<stack, Existing>>
=============================================================================
