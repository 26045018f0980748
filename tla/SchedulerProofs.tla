---------------------------- MODULE SchedulerProofs ----------------------------
(***************************************************************************)
(* For any set of coroutines, the queue of wait_all holds just those who   *)
(* wait there, whatever the program does.  In a program that resumes no    *)
(* waiter by hand, notify_all finds as many waiters as it counted.         *)
(*                                                                         *)
(* The other theorems are about orderly programs: only the main coroutine  *)
(* waits for all, none is resumed from below, and there is no deadlock     *)
(* handler.  Then who was last to give control to the scheduler when it    *)
(* looks at its flags is the main coroutine, and Course tells the          *)
(* situations that the scheduler can be in.  What wait_all, the deadlock   *)
(* report and the exit of the scheduler promise follows, and so does that  *)
(* control is a call stack.                                                *)
(***************************************************************************)
EXTENDS Scheduler, QueueProofs, SequenceTheorems, FiniteSetTheorems, TLAPS

Results == {"none", "ok", "timeout", "canceled"}

-----------------------------------------------------------------------------
(* Every program *)

IInv ==
    /\ TypeOK
    /\ stack # <<>> /\ IsInjective(stack)
    /\ \A c \in Coroutines : call[c] = "gone" => c \notin OnStack
    /\ WaitersAreQueued

LEMMA InvInit == Init => IInv
<1> SUFFICES ASSUME Init PROVE IInv
  OBVIOUS
<1> USE SchedulerAssumption DEF Init
<1>1. /\ stack \in Seq(Coroutines \cup {Scheduler}) /\ stack # <<>>
      /\ IsInjective(stack) /\ OnStack = {Main}
  BY SingleProperties DEF OnStack
<1>2. waiters \in Seq(Coroutines) /\ IsInjective(waiters) /\ ToSet(waiters) = {}
  BY DEF IsInjective, ToSet
<1>3. TypeOK
  BY <1>1, <1>2 DEF TypeOK, Calls, Phases
<1>4. WaitersAreQueued
  BY <1>1, <1>2 DEF WaitersAreQueued
<1> QED
  BY <1>1, <1>3, <1>4 DEF IInv

\* Control goes to d, which is in no wait.
LEMMA EnterStack ==
    ASSUME IInv, NEW d \in Coroutines \cup {Scheduler}, Enter(d)
    PROVE  /\ stack' \in Seq(Coroutines \cup {Scheduler})
           /\ stack' # <<>> /\ IsInjective(stack')
           /\ ToSet(stack') = OnStack \cup {d}
           /\ Last(stack') = d
<1> DEFINE S == Coroutines \cup {Scheduler}
<1>1. stack \in Seq(S) /\ IsInjective(stack) /\ d \in S
  BY DEF IInv, TypeOK
<1> HIDE DEF S
<1>2. /\ Append(Without(stack, d), d) \in Seq(S)
      /\ Append(Without(stack, d), d) # <<>>
      /\ IsInjective(Append(Without(stack, d), d))
      /\ ToSet(Append(Without(stack, d), d)) = ToSet(stack) \cup {d}
      /\ Last(Append(Without(stack, d), d)) = d
  BY <1>1, MoveToEnd
<1> QED
  BY <1>2, Zenon DEF Enter, OnStack, S

LEMMA GiveUpStack ==
    ASSUME IInv, NEW c \in Coroutines, c = Top, GiveUp(c)
    PROVE  /\ stack' \in Seq(Coroutines \cup {Scheduler})
           /\ stack' # <<>> /\ IsInjective(stack')
           /\ ToSet(stack') \subseteq (OnStack \ {c}) \cup {Scheduler}
           /\ from' \in Coroutines \cup {NoCo}
<1> DEFINE S == Coroutines \cup {Scheduler}
<1>1. /\ stack \in Seq(S) /\ stack # <<>> /\ IsInjective(stack) /\ Last(stack) = c
      /\ Scheduler \in S
  BY DEF IInv, TypeOK, Top
<1>2. from' \in Coroutines \cup {NoCo}
  BY DEF GiveUp, IInv, TypeOK
<1> HIDE DEF S
<1>3. CASE Len(stack) > 1
  <2>1. /\ Front(stack) \in Seq(S) /\ IsInjective(Front(stack))
        /\ Len(Front(stack)) = Len(stack) - 1
        /\ ToSet(Front(stack)) = ToSet(stack) \ {c}
    BY <1>1, FrontProperties
  <2>2. Front(stack) # <<>>
    BY <1>1, <1>3, <2>1
  <2> QED
    BY <1>2, <1>3, <2>1, <2>2 DEF GiveUp, OnStack, S
<1>4. CASE ~(Len(stack) > 1)
  <2>1. stack' = <<Scheduler>>
    BY <1>4 DEF GiveUp
  <2> QED
    BY <1>1, <1>2, <2>1, SingleProperties DEF S
<1> QED
  BY <1>3, <1>4

LEMMA TopIsOnStack == IInv => Top \in OnStack
BY FrontProperties DEF IInv, TypeOK, Top, OnStack

\* A coroutine that waits, or was parked, gets control and its wait is over.
LEMMA WokenInv ==
    ASSUME IInv, NEW d \in Coroutines, call[d] # "gone",
           NEW how \in Results, Enter(d), Leave(d, how),
           from' \in Coroutines \cup {NoCo}, phase' \in Phases, left' \in Nat,
           UNCHANGED program
    PROVE  IInv'
<1> USE SchedulerAssumption
<1>1. /\ stack' \in Seq(Coroutines \cup {Scheduler})
      /\ stack' # <<>> /\ IsInjective(stack')
      /\ ToSet(stack') = OnStack \cup {d}
  BY EnterStack
<1>2. /\ waiters' \in Seq(Coroutines) /\ IsInjective(waiters')
      /\ ToSet(waiters') = ToSet(waiters) \ {d}
  BY WithoutProperties, WithoutStranger DEF IInv, TypeOK, WaitersAreQueued, Leave
<1>3. PICK what \in {"free", "closed", "retry"} : call' = [call EXCEPT ![d] = what]
  BY DEF Leave, Become
<1>4. armed' = armed \ {d} /\ result' \in [Coroutines -> Results]
  BY DEF Leave, IInv, TypeOK, Results
<1>5. TypeOK'
  BY <1>1, <1>2, <1>3, <1>4 DEF IInv, TypeOK, Calls, Results
<1>6. WaitersAreQueued'
  BY <1>1, <1>2, <1>3, <1>4 DEF IInv, TypeOK, WaitersAreQueued, OnStack
<1> QED
  BY <1>1, <1>3, <1>5, <1>6 DEF IInv, TypeOK, OnStack

\* A new coroutine starts.
LEMMA StartInv ==
    ASSUME IInv, NEW d \in Coroutines, call[d] = "gone", Become(d, "free"), Enter(d),
           UNCHANGED <<armed, waiters, result, from, left, program>>, phase' \in Phases
    PROVE  IInv'
<1> USE SchedulerAssumption
<1>1. /\ stack' \in Seq(Coroutines \cup {Scheduler})
      /\ stack' # <<>> /\ IsInjective(stack')
      /\ ToSet(stack') = OnStack \cup {d}
  BY EnterStack
<1>2. TypeOK'
  BY <1>1 DEF IInv, TypeOK, Calls, Become
<1>3. WaitersAreQueued'
  BY <1>1 DEF IInv, TypeOK, WaitersAreQueued, OnStack, Become
<1> QED
  BY <1>1, <1>2, <1>3 DEF IInv, TypeOK, OnStack, Become

\* A coroutine gives up control, for good or to wait.
LEMMA GiveUpInv ==
    ASSUME IInv, NEW c \in Coroutines, c = Top, GiveUp(c),
           NEW what \in Calls, Become(c, what), result' \in [Coroutines -> Results],
           call[c] \notin {"wait", "closing"},
           \/ what \notin {"wait", "closing"} /\ waiters' = waiters
           \/ what \in {"wait", "closing"} /\ Queue(c),
           \/ armed' = armed
           \/ what \in {"sleep", "wait"} /\ armed' = armed \cup {c},
           UNCHANGED <<phase, left, program>>
    PROVE  IInv'
<1> USE SchedulerAssumption
<1>1. /\ stack' \in Seq(Coroutines \cup {Scheduler})
      /\ stack' # <<>> /\ IsInjective(stack')
      /\ ToSet(stack') \subseteq (OnStack \ {c}) \cup {Scheduler}
      /\ from' \in Coroutines \cup {NoCo}
  BY GiveUpStack
<1>2. c \in OnStack /\ c \notin ToSet(waiters) /\ c \notin armed
  BY TopIsOnStack DEF IInv, WaitersAreQueued
<1>3. /\ waiters' \in Seq(Coroutines) /\ IsInjective(waiters')
      /\ ToSet(waiters') = IF what \in {"wait", "closing"} THEN ToSet(waiters) \cup {c}
                                                         ELSE ToSet(waiters)
  <2>1. waiters \in Seq(Coroutines) /\ IsInjective(waiters)
    BY DEF IInv, TypeOK, WaitersAreQueued
  <2>2. CASE what \in {"wait", "closing"}
    <3>1. /\ Append(waiters, c) \in Seq(Coroutines) /\ IsInjective(Append(waiters, c))
          /\ ToSet(Append(waiters, c)) = ToSet(waiters) \cup {c}
      BY <1>2, <2>1, AppendWaiter
    <3> QED
      BY <2>2, <3>1 DEF Queue
  <2>3. CASE what \notin {"wait", "closing"}
    BY <2>1, <2>3
  <2> QED
    BY <2>2, <2>3
<1>4. call' = [call EXCEPT ![c] = what] /\ armed' \subseteq armed \cup {c}
  BY DEF Become
<1>5. TypeOK'
  BY <1>1, <1>3, <1>4 DEF IInv, TypeOK, Results
<1>6. WaitersAreQueued'
  BY <1>1, <1>2, <1>3, <1>4 DEF IInv, TypeOK, WaitersAreQueued, OnStack
<1> QED
  BY <1>1, <1>4, <1>5, <1>6 DEF IInv, TypeOK, OnStack

LEMMA InvStep == IInv /\ [Next]_vars => IInv'
<1> SUFFICES ASSUME IInv, [Next]_vars PROVE IInv'
  OBVIOUS
<1>0. UNCHANGED program
  BY DEF vars, Next
<1> USE <1>0, SchedulerAssumption
<1>1. CASE UNCHANGED vars
  BY <1>1 DEF vars, IInv, TypeOK, WaitersAreQueued, OnStack
<1>2. /\ from \in Coroutines \cup {NoCo} /\ phase \in Phases /\ left \in Nat
      /\ result \in [Coroutines -> Results]
      /\ \A c \in Coroutines : [result EXCEPT ![c] = "none"] \in [Coroutines -> Results]
  BY DEF IInv, TypeOK, Results
<1>3. ASSUME NEW c \in Coroutines, NEW d \in Coroutines, Start(c, d) PROVE IInv'
  BY <1>2, <1>3, StartInv DEF Start
<1>4. ASSUME NEW c \in Coroutines, NEW d \in Coroutines, Resume(c, d) PROVE IInv'
  BY <1>2, <1>4, WokenInv DEF Resume, Results
<1>5. ASSUME NEW c \in Coroutines, Yield(c) PROVE IInv'
  <2>1. Become(c, "free")
    BY <1>5 DEF Yield, Runs, Become, IInv, TypeOK
  <2> QED
    BY <1>2, <1>5, <2>1, GiveUpInv DEF Yield, Runs, Calls
<1>6. ASSUME NEW c \in Coroutines, Sleep(c) PROVE IInv'
  BY <1>2, <1>6, GiveUpInv DEF Sleep, Runs, Calls
<1>7. ASSUME NEW c \in Coroutines, NEW timed \in BOOLEAN, WaitAll(c, timed) PROVE IInv'
  BY <1>2, <1>7, GiveUpInv DEF WaitAll, Runs, Calls
<1>8. ASSUME NEW c \in Coroutines, Finish(c) PROVE IInv'
  BY <1>2, <1>8, GiveUpInv DEF Finish, Runs, Calls
<1>9. CASE Close
  BY <1>2, <1>9, GiveUpInv DEF Close, Calls
<1>10. CASE ResumeScheduler
  <2>1. /\ stack' \in Seq(Coroutines \cup {Scheduler})
        /\ stack' # <<>> /\ IsInjective(stack')
        /\ ToSet(stack') = OnStack \cup {Scheduler}
    BY <1>10, EnterStack DEF ResumeScheduler
  <2> QED
    BY <1>10, <2>1 DEF ResumeScheduler, IInv, TypeOK, WaitersAreQueued, OnStack
<1>11. ASSUME NEW c \in Coroutines, Event(c) PROVE IInv'
  <2>1. call[c] # "gone"
    BY <1>11 DEF Event, IInv, WaitersAreQueued
  <2> QED
    BY <1>2, <1>11, <2>1, WokenInv DEF Event, Results
<1>12. CASE LoopGoesOn \/ AllWait \/ ChanceIsOver \/ AllNotified
  <2>1. phase' \in Phases /\ left' \in Nat
    <3>1. Len(waiters) \in Nat
      BY DEF IInv, TypeOK
    <3>2. CASE LoopGoesOn \/ AllNotified \/ ChanceIsOver
      BY <1>2, <3>2 DEF LoopGoesOn, AllNotified, ChanceIsOver, Phases
    <3>3. CASE AllWait
      BY <3>1, <3>3 DEF AllWait, Phases
    <3> QED
      BY <1>12, <3>2, <3>3
  <2>2. UNCHANGED <<stack, call, armed, waiters, result, from>>
    BY <1>12 DEF LoopGoesOn, AllWait, ChanceIsOver, AllNotified
  <2> QED
    BY <2>1, <2>2 DEF IInv, TypeOK, WaitersAreQueued, OnStack
<1>13. CASE LoopEnds
  <2> DEFINE S == Coroutines \cup {Scheduler}
  <2>1. stack \in Seq(S) /\ stack # <<>> /\ IsInjective(stack)
    BY DEF IInv, TypeOK
  <2> HIDE DEF S
  <2>2. /\ stack' \in Seq(S) /\ stack' # <<>> /\ IsInjective(stack')
        /\ ToSet(stack') \subseteq OnStack /\ Last(stack') \in ToSet(stack')
    <3>1. CASE Len(stack) > 1
      <4>1. /\ Front(stack) \in Seq(S) /\ IsInjective(Front(stack))
            /\ Len(Front(stack)) = Len(stack) - 1
            /\ ToSet(Front(stack)) = ToSet(stack) \ {Last(stack)}
        BY <2>1, FrontProperties
      <4>2. Front(stack) # <<>>
        BY <2>1, <3>1, <4>1
      <4>3. stack' = Front(stack)
        BY <1>13, <3>1 DEF LoopEnds
      <4> QED
        BY <4>1, <4>2, <4>3, FrontProperties DEF OnStack
    <3>2. CASE ~(Len(stack) > 1)
      BY <1>13, <2>1, <3>2, FrontProperties DEF LoopEnds, OnStack
    <3> QED
      BY <3>1, <3>2
  <2>3. \/ call' = call
        \/ Main \in ToSet(stack') /\ call' = [call EXCEPT ![Main] = "done"]
    BY <1>13, <2>2 DEF LoopEnds
  <2>4. TypeOK'
    BY <1>13, <2>2, <2>3 DEF LoopEnds, IInv, TypeOK, Calls, Phases, S
  <2>5. WaitersAreQueued'
    BY <1>13, <2>2, <2>3 DEF LoopEnds, IInv, TypeOK, WaitersAreQueued, OnStack
  <2> QED
    BY <1>13, <2>2, <2>3, <2>4, <2>5 DEF LoopEnds, IInv, TypeOK, OnStack
<1>14. ASSUME NEW d \in Coroutines, CallHandler(d) PROVE IInv'
  <2>1. phase' \in Phases
    BY <1>14 DEF CallHandler, Phases
  <2>2. CASE UNCHANGED <<stack, call>>
    BY <1>14, <2>1, <2>2 DEF CallHandler, IInv, TypeOK, WaitersAreQueued, OnStack
  <2>3. CASE call[d] = "gone" /\ Enter(d) /\ Become(d, "free")
    BY <1>14, <2>1, <2>3, StartInv DEF CallHandler
  <2> QED
    BY <1>14, <2>2, <2>3 DEF CallHandler
<1>15. CASE Notify
  <2>1. Head(waiters) \in ToSet(waiters) /\ Head(waiters) \in Coroutines
    BY <1>15, HeadIsInQueue DEF Notify, IInv, TypeOK
  <2>2. call[Head(waiters)] # "gone"
    BY <2>1 DEF IInv, WaitersAreQueued
  <2>3. left' \in Nat
    BY <1>2, <1>15 DEF Notify
  <2> QED
    BY <1>2, <1>15, <2>1, <2>2, <2>3, WokenInv DEF Notify, Results
<1> QED
  BY <1>1, <1>3, <1>4, <1>5, <1>6, <1>7, <1>8, <1>9, <1>10, <1>11, <1>12, <1>13, <1>14,
     <1>15, Zenon DEF Next, ProgramStep, SchedulerStep

\* The inductive invariant holds in every reachable state.
THEOREM SchedulerInvariant == Spec => []IInv
BY InvInit, InvStep, PTL DEF Spec

\* The variables keep their types.
THEOREM TypeCorrect == Spec => []TypeOK
BY SchedulerInvariant, PTL DEF IInv

\* The queue of wait_all holds just the coroutines that wait there, each once, whatever
\* ends the wait (cat_coroutine_wait_all_ex).
THEOREM QueueHoldsTheWaiters == Spec => []WaitersAreQueued
BY SchedulerInvariant, PTL DEF IInv

-----------------------------------------------------------------------------
(* Programs that resume no waiter by hand *)

\* In a program that resumes no waiter by hand, notify_all always finds a waiter to
\* notify (cat_coroutine_notify_all): while it goes on, waiters are added but only itself
\* removes one.
THEOREM NotifyCountsTheWaiters == Spec => []NotifyFindsWaiter
<1> DEFINE Enough == ~program.interrupts /\ phase = "notify" => left <= Len(waiters)
<1>1. Init => Enough
  BY DEF Init
<1>2. IInv /\ Enough /\ [Next]_vars => Enough'
  <2> SUFFICES ASSUME IInv, Enough, [Next]_vars, phase' = "notify",
                      ~(program.interrupts)'
               PROVE  left' <= Len(waiters')
    OBVIOUS
  <2>0. ~program.interrupts
    BY DEF vars, Next
  <2> USE <2>0, SchedulerAssumption
  <2>1. /\ waiters \in Seq(Coroutines) /\ IsInjective(waiters) /\ left \in Nat
        /\ \A c \in Coroutines : call[c] = "free" => c \notin ToSet(waiters)
    BY DEF IInv, TypeOK, WaitersAreQueued
  <2>2. ASSUME UNCHANGED <<waiters, phase, left>> PROVE left' <= Len(waiters')
    BY <2>2
  <2>3. ASSUME NEW c \in Coroutines, NEW d \in Coroutines, Resume(c, d)
        PROVE  UNCHANGED <<waiters, phase, left>>
    BY <2>1, <2>3, WithoutStranger DEF Resume, Leave
  <2>4. ASSUME NEW c \in Coroutines, Queue(c), UNCHANGED <<phase, left>>
        PROVE  left' <= Len(waiters')
    <3>1. Len(Append(waiters, c)) = Len(waiters) + 1
      BY <2>1
    <3> QED
      BY <2>1, <2>4, <3>1 DEF Queue
  <2>5. CASE Notify
    <3>1. Head(waiters) = waiters[1] /\ 1 \in 1..Len(waiters)
      BY <2>1, <2>5 DEF Notify
    <3>2. Len(Without(waiters, waiters[1])) = Len(waiters) - 1
      BY <2>1, <3>1, WithoutAt
    <3>3. left' = left - 1 /\ waiters' = Without(waiters, waiters[1]) /\ phase = "notify"
      BY <2>5, <3>1 DEF Notify, Leave
    <3> QED
      BY <2>1, <3>1, <3>2, <3>3
  <2>6. CASE AllWait
    BY <2>1, <2>6 DEF AllWait
  <2>7. ASSUME NEW c \in Coroutines, Event(c) PROVE FALSE
    BY <2>7 DEF Event
  <2>8. CASE LoopGoesOn \/ LoopEnds \/ ChanceIsOver \/ AllNotified
    BY <2>8 DEF LoopGoesOn, LoopEnds, ChanceIsOver, AllNotified
  <2>9. ASSUME NEW c \in Coroutines, CallHandler(c) PROVE FALSE
    BY <2>9 DEF CallHandler
  <2> QED
    BY <2>2, <2>3, <2>4, <2>5, <2>6, <2>7, <2>8, <2>9, Zenon
       DEF Next, ProgramStep, SchedulerStep, Start, Yield, Sleep, WaitAll, Finish, Close,
           ResumeScheduler, vars
<1>3. Enough => NotifyFindsWaiter
  BY DEF NotifyFindsWaiter
<1> HIDE DEF Enough
<1> QED
  BY <1>1, <1>2, <1>3, SchedulerInvariant, PTL DEF Spec

-----------------------------------------------------------------------------
(* Orderly programs *)

AllGone == armed = {} /\ \A c \in Coroutines \ {Main} : call[c] = "gone"
MainGoesOn == call[Main] \notin {"closed", "done"}

\* The situations of the scheduler.  The program has not given control to it yet, ...
Starting ==
    /\ phase = "head" /\ MainGoesOn
    /\ stack[1] = Main /\ Scheduler \notin OnStack

\* ... the main coroutine has, ...
Returned ==
    /\ phase \in {"head", "notify"} /\ (phase = "notify" => left = 0) /\ MainGoesOn
    /\ stack = <<Scheduler>> /\ from = Main

\* ... with the request to close, ...
Closing ==
    /\ phase \in {"head", "notify"} /\ (phase = "notify" => left = 0)
    /\ call[Main] = "closed" /\ AllGone /\ waiters = <<>>
    /\ stack = <<Main, Scheduler>> /\ from = Main

\* ... it runs the event loop, ...
Looping ==
    /\ phase = "schedule" /\ MainGoesOn
    /\ stack[1] = Scheduler

\* ... there are no events, but coroutines, ...
Stuck ==
    /\ phase \in {"chance", "deadlock"} /\ MainGoesOn
    /\ stack = <<Scheduler>> /\ armed = {} /\ IsUnfinished

\* ... it is about to notify the main coroutine, ...
Notifying ==
    /\ phase = "notify" /\ left = 1 /\ MainGoesOn
    /\ AllGone /\ waiters = <<Main>>
    /\ stack = <<Scheduler>>

\* ... which then goes on, ...
Notified ==
    /\ phase = "notify" /\ left = 0 /\ MainGoesOn
    /\ Len(stack) >= 2 /\ stack[1] = Scheduler /\ stack[2] = Main

\* ... or closes the scheduler, ...
Told ==
    /\ phase = "notify" /\ left = 0
    /\ call[Main] = "closed" /\ AllGone /\ waiters = <<>>
    /\ stack = <<Scheduler, Main>>

\* ... which is over.
Over ==
    /\ phase = "gone"
    /\ call[Main] = "done" /\ AllGone /\ waiters = <<>>
    /\ stack = <<Main>>

Course == Starting \/ Returned \/ Closing \/ Looping \/ Stuck
              \/ Notifying \/ Notified \/ Told \/ Over

\* Who is in which call.
Roles ==
    /\ \A c \in Coroutines :
          /\ c # Main => call[c] \in {"gone", "free", "sleep"}
          /\ call[c] = "sleep" => c \in armed
          /\ call[c] = "wait" => result[c] = "none"
    /\ call[Main] # "gone"
    /\ call[Main] = "retry" => Top = Main

OInv == Roles /\ Course

\* The stack in a few situations.
LEMMA ShortStacks ==
    ASSUME IInv
    PROVE  /\ \A x : stack = <<x>> => Top = x /\ OnStack = {x}
           /\ \A x, y : stack = <<x, y>> => Top = y
           /\ \A x : stack[1] = x /\ Top = x => stack = <<x>>
           /\ Len(stack) \in Nat \ {0} /\ stack[1] \in OnStack
           /\ Len(stack) = 1 => stack[1] = Top
           /\ Len(stack) = 2 => stack[2] = Top
<1>1. /\ stack \in Seq(Coroutines \cup {Scheduler}) /\ stack # <<>> /\ IsInjective(stack)
      /\ Len(stack) \in 1..Len(stack) /\ 1 \in 1..Len(stack)
      /\ Top = stack[Len(stack)] /\ DOMAIN stack = 1..Len(stack)
  BY DEF IInv, TypeOK, Top, Last
<1>2. ASSUME NEW x, stack = <<x>> PROVE Top = x /\ OnStack = {x}
  BY <1>1, <1>2, SingleProperties DEF OnStack
<1>3. ASSUME NEW x, NEW y, stack = <<x, y>> PROVE Top = y
  BY <1>1, <1>3
<1>4. ASSUME NEW x, stack[1] = x, Top = x PROVE stack = <<x>>
  <2>1. Len(stack) = 1
    BY <1>1, <1>4 DEF IsInjective
  <2> QED
    BY <1>1, <1>4, <2>1
<1>5. stack[1] \in OnStack
  BY <1>1 DEF OnStack, ToSet
<1> QED
  BY <1>1, <1>2, <1>3, <1>4, <1>5

\* Who runs while the scheduler does not.
LEMMA ProgramRuns ==
    ASSUME IInv, OInv, NEW c \in Coroutines, Top = c, call[c] \in {"free", "retry"}
    PROVE  /\ Starting \/ Looping \/ Notified
           /\ MainGoesOn
<1>1. Top # Scheduler
  BY SchedulerAssumption
<1>2. ~Returned /\ ~Closing /\ ~Stuck /\ ~Notifying
  BY <1>1, ShortStacks DEF Returned, Closing, Stuck, Notifying
<1>3. ~Told /\ ~Over
  BY <1>1, ShortStacks DEF Told, Over
<1> QED
  BY <1>2, <1>3 DEF OInv, Course, Starting, Looping, Notified

\* Somebody gets control who lies nowhere.
LEMMA GoesIn ==
    ASSUME IInv, Starting \/ Looping \/ Notified, NEW d \in Coroutines, d \notin OnStack,
           Enter(d), MainGoesOn', UNCHANGED <<phase, left>>
    PROVE  Course'
<1>1. stack \in Seq(Coroutines \cup {Scheduler}) /\ Len(stack) \in Nat \ {0}
  BY ShortStacks DEF IInv, TypeOK
<1>2. stack' = Append(stack, d)
  BY WithoutStranger DEF Enter, OnStack
<1>3. /\ stack'[1] = stack[1]
      /\ Len(stack') = Len(stack) + 1
      /\ Len(stack) >= 2 => stack'[2] = stack[2]
  BY <1>1, <1>2
<1>4. ToSet(stack') = OnStack \cup {d}
  BY EnterStack
<1> QED
  BY <1>1, <1>3, <1>4, SchedulerAssumption
     DEF Course, Starting, Looping, Notified, OnStack

\* The one on top gives up control.
LEMMA GoesOut ==
    ASSUME IInv, Starting \/ Looping \/ Notified, NEW c \in Coroutines, Top = c,
           GiveUp(c), MainGoesOn', UNCHANGED <<phase, left>>
    PROVE  Course'
<1>1. /\ stack \in Seq(Coroutines \cup {Scheduler}) /\ stack # <<>> /\ IsInjective(stack)
      /\ Len(stack) \in Nat \ {0} /\ Top = Last(stack) /\ Top # Scheduler
  BY ShortStacks, SchedulerAssumption DEF IInv, TypeOK, Top
<1>2. /\ Len(stack) > 1 \/ Len(stack) = 1
      /\ Len(stack) > 1 => Len(stack) > 2 \/ Len(stack) = 2
  <2>1. \A n \in Nat \ {0} : (n > 1 \/ n = 1) /\ (n > 1 => n > 2 \/ n = 2)
    OBVIOUS
  <2> QED
    BY <1>1, <2>1, Zenon
<1>3. CASE Len(stack) > 1
  <2>1. /\ stack' = Front(stack) /\ Len(stack') = Len(stack) - 1
        /\ ToSet(stack') = OnStack \ {Last(stack)}
        /\ \A i \in 1..(Len(stack) - 1) : stack'[i] = stack[i]
    BY <1>1, <1>3, FrontProperties DEF GiveUp, OnStack
  <2>2. stack'[1] = stack[1] /\ (Len(stack) > 2 => stack'[2] = stack[2])
    BY <1>1, <1>3, <2>1
  <2>3. CASE Starting
    <3>1. Scheduler \notin ToSet(stack')
      BY <2>1, <2>3 DEF Starting
    <3> QED
      BY <2>2, <2>3, <3>1 DEF Course, Starting, OnStack
  <2>4. CASE Looping
    BY <2>2, <2>4 DEF Course, Looping
  <2>5. CASE Notified /\ Len(stack) > 2
    BY <1>1, <2>1, <2>2, <2>5 DEF Course, Notified
  <2>6. CASE Notified /\ Len(stack) = 2
    <3>1. c = Main
      BY <2>6, ShortStacks DEF Notified
    <3>2. /\ stack' \in Seq(Coroutines \cup {Scheduler}) /\ Len(stack') = 1
          /\ stack'[1] = Scheduler
      BY <2>1, <2>2, <2>6, GiveUpStack DEF Notified
    <3>3. stack' = <<Scheduler>>
      BY <3>2
    <3>4. from' = Main
      <4>1. Last(stack') = Scheduler
        BY <3>2 DEF Last
      <4> QED
        BY <3>1, <4>1 DEF GiveUp
    <3> QED
      BY <2>6, <3>3, <3>4 DEF Course, Returned, Notified
  <2>7. Len(stack) > 2 \/ Len(stack) = 2
    BY <1>3, <1>2
  <2> QED
    BY <2>4, <2>5, <2>6, <2>3, <2>7
<1>4. CASE Len(stack) = 1
  <2>1. stack[1] = c /\ stack' = <<Scheduler>>
    BY <1>4, ShortStacks DEF GiveUp
  <2>2. Starting /\ c = Main
    BY <1>1, <1>4, <2>1 DEF Starting, Looping, Notified
  <2>3. from' = Main
    <3>1. Last(stack') = Scheduler
      BY <2>1 DEF Last
    <3> QED
      BY <2>2, <3>1 DEF GiveUp
  <2> QED
    BY <2>1, <2>2, <2>3 DEF Course, Returned, Starting
<1> QED
  BY <1>3, <1>4, <1>2

LEMMA OInvInit == Init => OInv
<1> SUFFICES ASSUME Init PROVE OInv
  OBVIOUS
<1> USE SchedulerAssumption DEF Init
<1>1. OnStack = {Main} /\ stack[1] = Main
  BY SingleProperties DEF OnStack
<1>2. Roles
  BY DEF Roles
<1>3. Starting
  BY <1>1 DEF Starting, MainGoesOn
<1> QED
  BY <1>2, <1>3 DEF OInv, Course

\* The end of a wait keeps the roles: it is the main coroutine that closes the scheduler
\* and tries again.
LEMMA WokenRoles ==
    ASSUME IInv, Roles, NEW d \in Coroutines, call[d] # "gone", NEW how \in Results,
           Enter(d), Leave(d, how), call[Main] # "retry"
    PROVE  Roles'
<1> USE SchedulerAssumption
<1>1. PICK what \in {"free", "closed", "retry"} : call' = [call EXCEPT ![d] = what]
  BY DEF Leave, Become
<1>2. d # Main => call' = [call EXCEPT ![d] = "free"]
  BY DEF Leave, Become, Roles
<1>3. armed' = armed \ {d} /\ call \in [Coroutines -> Calls]
  BY DEF Leave, IInv, TypeOK
<1>4. \A c \in Coroutines \ {d} : result'[c] = result[c]
  BY DEF Leave, IInv, TypeOK
<1>5. Top' = d
  BY EnterStack DEF Top
<1> QED
  BY <1>1, <1>2, <1>3, <1>4, <1>5 DEF Roles

\* What the program does leaves the scheduler in one of its situations.
LEMMA ProgramCourse ==
    ASSUME Orderly, IInv, OInv, ProgramStep
    PROVE  OInv'
<1> USE SchedulerAssumption
<1>1. /\ call \in [Coroutines -> Calls] /\ result \in [Coroutines -> Results]
      /\ Roles /\ Course
  BY DEF IInv, TypeOK, OInv, Results
<1>2. ASSUME NEW c \in Coroutines, Runs(c)
      PROVE  /\ Top = c /\ call[c] = "free" /\ call[Main] # "retry"
             /\ Starting \/ Looping \/ Notified
             /\ MainGoesOn
  BY <1>1, <1>2, ProgramRuns DEF Runs, Roles
<1>3. ASSUME NEW c \in Coroutines, NEW d \in Coroutines, Start(c, d) PROVE OInv'
  <2>1. /\ Runs(c) /\ call[d] = "gone" /\ Enter(d) /\ UNCHANGED <<phase, left, armed, result>>
        /\ call' = [call EXCEPT ![d] = "free"]
    BY <1>3 DEF Start, Become
  <2>2. d # Main /\ d \notin OnStack
    BY <1>1, <2>1 DEF Roles, IInv
  <2>3. MainGoesOn'
    BY <1>1, <1>2, <2>1, <2>2 DEF MainGoesOn
  <2>4. Roles'
    BY <1>1, <1>2, <2>1, <2>2 DEF Roles
  <2> QED
    BY <1>2, <2>1, <2>2, <2>3, <2>4, GoesIn DEF OInv
<1>4. ASSUME NEW c \in Coroutines, NEW d \in Coroutines, Resume(c, d) PROVE OInv'
  <2>1. /\ Runs(c) /\ call[d] \in {"free", "sleep", "wait", "closing"}
        /\ Enter(d) /\ Leave(d, "canceled") /\ UNCHANGED <<phase, left>>
        /\ d \notin OnStack
    BY <1>4 DEF Resume, Orderly
  <2>2. PICK what \in {"free", "retry"} : call' = [call EXCEPT ![d] = what]
    BY <2>1 DEF Leave, Become
  <2>3. MainGoesOn'
    BY <1>1, <1>2, <2>1, <2>2 DEF MainGoesOn
  <2>4. Roles'
    BY <1>1, <1>2, <2>1, WokenRoles DEF Results
  <2> QED
    BY <1>2, <2>1, <2>3, <2>4, GoesIn DEF OInv
<1>5. ASSUME NEW c \in Coroutines, Yield(c) PROVE OInv'
  <2>1. Runs(c) /\ GiveUp(c) /\ UNCHANGED <<call, armed, result, phase, left>>
    BY <1>5 DEF Yield
  <2>2. Roles' /\ MainGoesOn'
    BY <1>1, <1>2, <2>1 DEF Roles, MainGoesOn
  <2> QED
    BY <1>2, <2>1, <2>2, GoesOut DEF OInv
<1>6. ASSUME NEW c \in Coroutines, Sleep(c) PROVE OInv'
  <2>1. /\ Runs(c) /\ GiveUp(c) /\ UNCHANGED <<result, phase, left>>
        /\ armed' = armed \cup {c} /\ call' = [call EXCEPT ![c] = "sleep"]
    BY <1>6 DEF Sleep, Become
  <2>2. Roles' /\ MainGoesOn'
    BY <1>1, <1>2, <2>1 DEF Roles, MainGoesOn
  <2> QED
    BY <1>2, <2>1, <2>2, GoesOut DEF OInv
<1>7. ASSUME NEW c \in Coroutines, NEW timed \in BOOLEAN, WaitAll(c, timed) PROVE OInv'
  <2>1. /\ Runs(c) /\ GiveUp(c) /\ UNCHANGED <<phase, left>> /\ c = Main
        /\ armed \subseteq armed' /\ call' = [call EXCEPT ![c] = "wait"]
        /\ result' = [result EXCEPT ![c] = "none"]
    BY <1>7 DEF WaitAll, Become, Orderly
  <2>2. Roles' /\ MainGoesOn'
    BY <1>1, <1>2, <2>1 DEF Roles, MainGoesOn
  <2> QED
    BY <1>2, <2>1, <2>2, GoesOut DEF OInv
<1>8. ASSUME NEW c \in Coroutines, Finish(c) PROVE OInv'
  <2>1. /\ Runs(c) /\ GiveUp(c) /\ UNCHANGED <<armed, phase, left>> /\ c # Main
        /\ call' = [call EXCEPT ![c] = "gone"]
        /\ result' = [result EXCEPT ![c] = "none"]
    BY <1>8 DEF Finish, Become
  <2>2. Roles' /\ MainGoesOn'
    BY <1>1, <1>2, <2>1 DEF Roles, MainGoesOn
  <2> QED
    BY <1>2, <2>1, <2>2, GoesOut DEF OInv
<1>9. CASE Close
  <2>1. /\ Top = Main /\ call[Main] \in {"free", "retry"} /\ GiveUp(Main)
        /\ UNCHANGED <<armed, result, phase, left>>
        /\ call' = [call EXCEPT ![Main] = "closing"]
    BY <1>9 DEF Close, Become
  <2>2. Starting \/ Looping \/ Notified
    BY <1>1, <2>1, ProgramRuns DEF OInv
  <2>3. Roles' /\ MainGoesOn'
    BY <1>1, <2>1 DEF Roles, MainGoesOn
  <2> QED
    BY <2>1, <2>2, <2>3, GoesOut DEF OInv
<1>10. CASE ResumeScheduler
  <2>1. /\ Top = Main /\ call[Main] = "closed" /\ Enter(Scheduler) /\ from' = Main
        /\ UNCHANGED <<call, armed, waiters, result, phase, left>>
    BY <1>10 DEF ResumeScheduler
  <2>2. Told
    BY <1>1, <2>1, ShortStacks
       DEF Course, Starting, Returned, Closing, Looping, Stuck, Notifying, Notified, Over,
           MainGoesOn
  <2>3. stack' = <<Main, Scheduler>>
    <3>1. /\ stack \in Seq(Coroutines \cup {Scheduler}) /\ IsInjective(stack)
          /\ 1 \in 1..Len(stack) /\ stack[1] = Scheduler /\ stack[2] = Main /\ Len(stack) = 2
      BY <2>2 DEF IInv, TypeOK, Told
    <3>2. /\ Without(stack, stack[1]) \in Seq(Coroutines \cup {Scheduler})
          /\ Len(Without(stack, stack[1])) = 1
          /\ Without(stack, stack[1])[1] = Main
      <4>1. /\ Without(stack, stack[1]) \in Seq(Coroutines \cup {Scheduler})
            /\ Len(Without(stack, stack[1])) = Len(stack) - 1
            /\ \A i \in 1..(Len(stack) - 1) :
                  Without(stack, stack[1])[i] = IF i < 1 THEN stack[i] ELSE stack[i + 1]
        BY <3>1, WithoutAt
      <4> QED
        BY <3>1, <4>1
    <3>3. Without(stack, Scheduler) = <<Main>>
      BY <3>1, <3>2
    <3>4. Append(<<Main>>, Scheduler) = <<Main, Scheduler>>
      BY PairProperties, Zenon
    <3> QED
      BY <2>1, <3>3, <3>4, Zenon DEF Enter
  <2>4. Closing'
    BY <2>1, <2>2, <2>3 DEF Told, Closing, AllGone
  <2>5. Roles'
    BY <1>1, <2>1 DEF Roles
  <2> QED
    BY <2>4, <2>5 DEF OInv, Course
<1> QED
  BY <1>3, <1>4, <1>5, <1>6, <1>7, <1>8, <1>9, <1>10, Zenon DEF ProgramStep

\* When as many coroutines wait in wait_all as there are, the main one is all there is.
LEMMA OnlyMainIsLeft ==
    ASSUME IInv, Roles, ~IsUnfinished
    PROVE  /\ waiters = <<Main>>
           /\ \A c \in Coroutines \ {Main} : call[c] = "gone"
<1> USE SchedulerAssumption
<1> DEFINE E == {c \in Coroutines : call[c] # "gone"}
<1>1. /\ waiters \in Seq(Coroutines) /\ IsInjective(waiters)
      /\ \A c \in Coroutines : c \in ToSet(waiters) => call[c] \in {"wait", "closing"}
      /\ ToSet(waiters) \subseteq Coroutines
  BY DEF IInv, TypeOK, WaitersAreQueued, ToSet
<1>2. ToSet(waiters) \subseteq {Main}
  BY <1>1 DEF Roles
<1>3. /\ Len(waiters) \in Nat /\ Len(waiters) <= 1
      /\ Len(waiters) = 1 => waiters = <<waiters[1]>> /\ waiters[1] = Main
  <2>1. \A i \in 1..Len(waiters) : waiters[i] = Main
    BY <1>1, <1>2 DEF ToSet
  <2>2. Len(waiters) \in Nat /\ DOMAIN waiters = 1..Len(waiters)
    BY <1>1
  <2>3. ASSUME Len(waiters) > 1 PROVE FALSE
    <3>1. 1 \in DOMAIN waiters /\ 2 \in DOMAIN waiters /\ waiters[1] = waiters[2]
      BY <2>1, <2>2, <2>3
    <3> QED
      BY <1>1, <3>1 DEF IsInjective
  <2> QED
    BY <1>1, <2>1, <2>2, <2>3
<1>4. IsFiniteSet(E) /\ Main \in E
  BY FS_Subset DEF Roles
<1>5. Cardinality(E) \in Nat /\ Cardinality({Main}) = 1 /\ Cardinality({}) = 0
  BY <1>4, FS_CardinalityType, FS_Singleton, FS_EmptySet
<1>6. Cardinality(E) <= Len(waiters)
  BY <1>3, <1>5 DEF IsUnfinished, Count
<1>7. Cardinality(E) >= 1
  BY <1>4, <1>5, FS_Subset
<1>8. Cardinality(E) = 1 /\ Len(waiters) = 1
  <2>1. \A m, n \in Nat : m <= n /\ n <= 1 /\ m >= 1 => m = 1 /\ n = 1
    OBVIOUS
  <2> QED
    BY <1>3, <1>5, <1>6, <1>7, <2>1, Zenon
<1>9. \A c \in E : c = Main
  <2>1. {Main} \subseteq E /\ Cardinality({Main}) = Cardinality(E)
    BY <1>4, <1>5, <1>8
  <2> QED
    BY <1>4, <2>1, FS_Subset
<1> QED
  BY <1>3, <1>8, <1>9

\* The scheduler and the event loop go from one situation to the next.
LEMMA SchedulerCourse ==
    ASSUME Orderly, IInv, OInv, SchedulerStep \/ \E c \in Coroutines : Event(c)
    PROVE  OInv'
<1> USE SchedulerAssumption
<1>1. /\ call \in [Coroutines -> Calls] /\ result \in [Coroutines -> Results]
      /\ Roles /\ Course /\ armed \in SUBSET Coroutines
  BY DEF IInv, TypeOK, OInv, Results
<1>2. ASSUME Top = Scheduler
      PROVE  /\ ~Starting /\ ~Notified /\ ~Told /\ ~Over
             /\ Looping => stack = <<Scheduler>>
             /\ call[Main] # "retry"
  <2>1. ~Starting
    BY <1>2, TopIsOnStack DEF Starting
  <2>2. ~Notified
    BY <1>2, ShortStacks DEF Notified
  <2>3. ~Told /\ ~Over /\ (Looping => stack = <<Scheduler>>)
    BY <1>2, ShortStacks DEF Told, Over, Looping
  <2> QED
    BY <1>1, <1>2, <2>1, <2>2, <2>3 DEF Roles
<1>3. CASE LoopGoesOn
  <2>1. /\ Top = Scheduler /\ phase = "head" /\ FALSE \in SeenFlags /\ phase' = "schedule"
        /\ UNCHANGED <<stack, call, armed, waiters, result, from, left>>
    BY <1>3 DEF LoopGoesOn
  <2>2. ~Closing
    BY <2>1 DEF Closing, SeenFlags
  <2>3. Returned
    BY <1>1, <1>2, <2>1, <2>2 DEF Course, Looping, Stuck, Notifying
  <2>4. Looping'
    BY <2>1, <2>3 DEF Returned, Looping, MainGoesOn
  <2> QED
    BY <1>1, <2>1, <2>4 DEF OInv, Course, Roles, Top
<1>4. CASE LoopEnds
  <2>1. /\ Top = Scheduler /\ phase = "head" /\ TRUE \in SeenFlags /\ phase' = "gone"
        /\ stack' = IF Len(stack) > 1 THEN Front(stack) ELSE stack
        /\ call' = IF Last(stack') = Main THEN [call EXCEPT ![Main] = "done"] ELSE call
        /\ UNCHANGED <<armed, waiters, result, from, left>>
    BY <1>4 DEF LoopEnds
  <2>2. ~Returned
    BY <1>1, <2>1 DEF Returned, SeenFlags, MainGoesOn, Roles
  <2>3. Closing
    BY <1>1, <1>2, <2>1, <2>2 DEF Course, Looping, Stuck, Notifying
  <2>4. stack' = <<Main>>
    <3>1. /\ stack \in Seq(Coroutines \cup {Scheduler}) /\ IsInjective(stack)
          /\ stack[1] = Main /\ Len(stack) = 2 /\ stack # <<>>
      BY <2>3 DEF IInv, TypeOK, Closing
    <3>2. /\ Front(stack) \in Seq(Coroutines \cup {Scheduler})
          /\ Len(Front(stack)) = Len(stack) - 1
          /\ \A i \in 1..(Len(stack) - 1) : Front(stack)[i] = stack[i]
      BY <3>1, FrontProperties
    <3>3. Front(stack) = <<Main>>
      BY <3>1, <3>2
    <3> QED
      BY <2>1, <3>1, <3>3
  <2>5. call' = [call EXCEPT ![Main] = "done"]
    BY <2>1, <2>4, SingleProperties
  <2>6. Over'
    BY <1>1, <2>1, <2>3, <2>4, <2>5 DEF Closing, Over, AllGone
  <2>7. Roles'
    BY <1>1, <2>1, <2>5 DEF Roles
  <2> QED
    BY <2>6, <2>7 DEF OInv, Course
<1>5. CASE AllWait
  <2>1. /\ Top = Scheduler /\ phase = "schedule" /\ armed = {} /\ ~IsUnfinished
        /\ phase' = "notify" /\ left' = Len(waiters)
        /\ UNCHANGED <<stack, call, armed, waiters, result, from>>
    BY <1>5 DEF AllWait
  <2>2. Looping
    BY <1>1, <1>2, <2>1 DEF Course, Returned, Closing, Stuck, Notifying
  <2>3. waiters = <<Main>> /\ AllGone
    BY <1>1, <2>1, OnlyMainIsLeft DEF AllGone
  <2>4. Notifying'
    BY <1>2, <2>1, <2>2, <2>3 DEF Notifying, Looping, MainGoesOn, AllGone
  <2> QED
    BY <1>1, <2>1, <2>4 DEF OInv, Course, Roles, Top
<1>6. CASE ChanceIsOver
  <2>1. /\ Top = Scheduler /\ phase = "chance"
        /\ phase' = IF IsUnfinished THEN "deadlock" ELSE "head"
        /\ UNCHANGED <<stack, call, armed, waiters, result, from, left>>
    BY <1>6 DEF ChanceIsOver
  <2>2. Stuck
    BY <1>1, <1>2, <2>1 DEF Course, Returned, Closing, Looping, Notifying
  <2>3. Stuck'
    BY <2>1, <2>2 DEF Stuck, MainGoesOn, IsUnfinished, Count
  <2> QED
    BY <1>1, <2>1, <2>3 DEF OInv, Course, Roles, Top
<1>7. CASE Notify
  <2>1. /\ Top = Scheduler /\ phase = "notify" /\ left > 0 /\ left' = left - 1
        /\ Enter(Head(waiters)) /\ Leave(Head(waiters), "ok") /\ UNCHANGED phase
    BY <1>7 DEF Notify
  <2>2. Notifying
    BY <1>1, <1>2, <2>1 DEF Course, Returned, Closing, Looping, Stuck
  <2>3. /\ Head(waiters) = Main /\ left' = 0 /\ stack = <<Scheduler>>
        /\ call[Main] \in {"wait", "closing"} /\ AllGone
    <3>1. Main \in ToSet(waiters)
      BY <2>2, SingleProperties DEF Notifying
    <3> QED
      BY <2>1, <2>2, <3>1 DEF Notifying, IInv, WaitersAreQueued
  <2>4. stack' = <<Scheduler, Main>>
    <3>1. Without(stack, Main) = <<Scheduler>>
      BY <2>3, WithoutStranger, SingleProperties
    <3>2. Append(<<Scheduler>>, Main) = <<Scheduler, Main>>
      BY PairProperties, Zenon
    <3> QED
      BY <2>1, <2>3, <3>1, <3>2, Zenon DEF Enter
  <2>5. waiters' = <<>>
    <3>1. /\ waiters \in Seq(Coroutines) /\ IsInjective(waiters)
          /\ ToSet(waiters) = {Main}
      BY <2>2, SingleProperties DEF Notifying, IInv, TypeOK, WaitersAreQueued
    <3>2. Without(waiters, Main) \in Seq(Coroutines) /\ ToSet(Without(waiters, Main)) = {}
      BY <3>1, WithoutProperties
    <3> QED
      BY <2>1, <2>3, <3>2, EmptyQueue DEF Leave
  <2>6. /\ armed' = {}
        /\ call' = [call EXCEPT ![Main] = IF call[Main] = "wait" THEN "free" ELSE "closed"]
    BY <2>1, <2>3 DEF Leave, Become, AllGone
  <2>7. AllGone'
    BY <1>1, <2>3, <2>6 DEF AllGone
  <2>8. ASSUME call[Main] = "wait" PROVE Course'
    <3>1. MainGoesOn'
      BY <1>1, <2>6, <2>8 DEF MainGoesOn
    <3>2. Len(stack') >= 2 /\ stack'[1] = Scheduler /\ stack'[2] = Main
      BY <2>4
    <3>3. phase' = "notify"
      BY <2>1
    <3>4. Notified'
      BY <2>3, <3>1, <3>2, <3>3, Zenon DEF Notified
    <3> QED
      BY <3>4, Zenon DEF Course
  <2>9. ASSUME call[Main] = "closing" PROVE Course'
    <3>1. call'[Main] = "closed"
      BY <1>1, <2>6, <2>9
    <3> QED
      BY <2>1, <2>3, <2>4, <2>5, <2>7, <3>1 DEF Told, Course
  <2>10. Roles'
    BY <1>1, <1>2, <2>1, <2>3, WokenRoles DEF Results
  <2> QED
    BY <2>3, <2>8, <2>9, <2>10 DEF OInv
<1>8. CASE AllNotified
  <2>1. /\ Top = Scheduler /\ phase = "notify" /\ left = 0 /\ phase' = "head"
        /\ UNCHANGED <<stack, call, armed, waiters, result, from, left>>
    BY <1>8 DEF AllNotified
  <2>2. Returned \/ Closing
    BY <1>1, <1>2, <2>1 DEF Course, Looping, Stuck, Notifying
  <2>3. Returned' \/ Closing'
    BY <2>1, <2>2 DEF Returned, Closing, MainGoesOn, AllGone
  <2> QED
    BY <1>1, <2>1, <2>3 DEF OInv, Course, Roles, Top
<1>9. ASSUME NEW d \in Coroutines, CallHandler(d) PROVE OInv'
  <2>1. /\ Top = Scheduler /\ phase = "schedule" /\ armed = {} /\ IsUnfinished
        /\ phase' = "chance"
        /\ UNCHANGED <<stack, call, armed, waiters, result, from, left>>
    BY <1>9 DEF CallHandler, Orderly
  <2>2. Looping
    BY <1>1, <1>2, <2>1 DEF Course, Returned, Closing, Stuck, Notifying
  <2>3. Stuck'
    BY <1>2, <2>1, <2>2 DEF Looping, Stuck, MainGoesOn, IsUnfinished, Count
  <2> QED
    BY <1>1, <2>1, <2>3 DEF OInv, Course, Roles, Top
<1>10. ASSUME NEW c \in Coroutines, Event(c) PROVE OInv'
  <2>1. /\ Top = Scheduler /\ phase \in {"schedule", "chance"} /\ c \in armed
        /\ Enter(c) /\ Leave(c, "timeout") /\ UNCHANGED <<phase, left>>
    BY <1>10 DEF Event
  <2>2. Looping
    BY <1>1, <1>2, <2>1 DEF Course, Returned, Closing, Stuck, Notifying
  <2>3. c \notin OnStack /\ call[c] \in {"sleep", "wait"}
    BY <2>1 DEF IInv, WaitersAreQueued
  <2>4. MainGoesOn'
    <3>1. call' = [call EXCEPT ![c] = "free"]
      BY <2>1, <2>3 DEF Leave, Become
    <3> QED
      BY <1>1, <2>2, <3>1 DEF Looping, MainGoesOn
  <2>5. Roles'
    BY <1>1, <1>2, <2>1, <2>3, WokenRoles DEF Results
  <2> QED
    BY <2>1, <2>2, <2>3, <2>4, <2>5, GoesIn DEF OInv
<1> QED
  BY <1>3, <1>4, <1>5, <1>6, <1>7, <1>8, <1>9, <1>10, Zenon DEF SchedulerStep

\* What a program does is settled when it starts.
LEMMA OrderStays == [Next]_vars => (Orderly' <=> Orderly)
<1> SUFFICES ASSUME [Next]_vars PROVE Orderly' <=> Orderly
  OBVIOUS
<1>1. program' = program
  BY DEF vars, Next
<1> QED
  BY <1>1 DEF Orderly

LEMMA OInvStep == IInv /\ (Orderly => OInv) /\ [Next]_vars => (Orderly => OInv)'
<1> SUFFICES ASSUME Orderly, IInv, OInv, [Next]_vars PROVE OInv'
  BY OrderStays
<1>1. CASE UNCHANGED vars
  BY <1>1 DEF vars, OInv, Roles, Course, Starting, Returned, Closing, Looping, Stuck,
              Notifying, Notified, Told, Over, AllGone, MainGoesOn, OnStack, Top,
              IsUnfinished, Count
<1> QED
  BY <1>1, ProgramCourse, SchedulerCourse, Zenon DEF Next

\* In an orderly program the scheduler is always in one of its situations.
THEOREM OrderlyCourse == Spec => [](Orderly => OInv)
BY OInvInit, OInvStep, SchedulerInvariant, PTL DEF Spec

\* In an orderly program the scheduler leaves its loop only for the main coroutine, and
\* leaves nobody behind (cat_coroutine_scheduler_close, cat_coroutine_scheduler_function).
THEOREM NobodyIsLeftBehind == Spec => []SchedulerLeavesOnlyWhenClosed
<1>1. (Orderly => OInv) => SchedulerLeavesOnlyWhenClosed
  BY DEF OInv, Course, Starting, Returned, Closing, Looping, Stuck, Notifying, Notified,
         Told, Over, AllGone, SchedulerLeavesOnlyWhenClosed
<1> QED
  BY <1>1, OrderlyCourse, PTL

\* In an orderly program a deadlock is reported only when there is one
\* (cat_coroutine_deadlock).
THEOREM DeadlocksAreReal == Spec => []OrderlyDeadlockIsReal
<1>1. IInv /\ (Orderly => OInv) => OrderlyDeadlockIsReal
  <2> SUFFICES ASSUME IInv, OInv, phase = "deadlock" PROVE DeadlockMeansAllAsleep
    BY DEF OrderlyDeadlockIsReal, DeadlockMeansAllAsleep
  <2> USE SchedulerAssumption
  <2>1. Stuck /\ Roles
    BY DEF OInv, Course, Starting, Returned, Closing, Looping, Notifying, Notified, Told,
           Over
  <2>2. ASSUME \A c \in Coroutines : call[c] # "free" PROVE FALSE
    <3>1. \A c \in Coroutines : c # Main => call[c] = "gone"
      BY <2>1, <2>2 DEF Roles, Stuck
    <3>2. call[Main] \in {"wait", "closing"}
      <4>1. call[Main] # "retry"
        BY <2>1, ShortStacks DEF Roles, Stuck
      <4> QED
        BY <2>1, <2>2, <4>1 DEF Roles, Stuck, MainGoesOn, IInv, TypeOK, Calls
    <3>3. {c \in Coroutines : call[c] # "gone"} = {Main}
      BY <3>1, <3>2
    <3>4. Count = 1
      BY <3>3, FS_Singleton DEF Count
    <3>5. waiters \in Seq(Coroutines) /\ Main \in ToSet(waiters)
      BY <3>2 DEF IInv, TypeOK, WaitersAreQueued
    <3>6. Len(waiters) \in Nat /\ Len(waiters) # 0
      BY <3>5, EmptyQueue
    <3> QED
      BY <2>1, <3>4, <3>6 DEF Stuck, IsUnfinished
  <2> QED
    BY <2>1, <2>2 DEF Stuck, DeadlockMeansAllAsleep
<1> QED
  BY <1>1, SchedulerInvariant, OrderlyCourse, PTL

\* A wait that ends, or anything else but the notification, is no success.
LEMMA NoSuccess ==
    ASSUME IInv, Roles, NEW d \in Coroutines, NEW how \in {"timeout", "canceled"},
           Leave(d, how), NEW c \in Coroutines
    PROVE  /\ ~(call[c] = "wait" /\ result'[c] = "ok")
           /\ ~(call[c] = "closing" /\ call'[c] = "closed")
<1>1. call \in [Coroutines -> Calls] /\ result \in [Coroutines -> Results]
  BY DEF IInv, TypeOK, Results
<1>2. call[c] = "wait" => result'[c] # "ok"
  <2>1. call[c] = "wait" => result[c] = "none"
    BY DEF Roles
  <2> QED
    BY <1>1, <2>1 DEF Leave
<1>3. call[c] = "closing" => call'[c] # "closed"
  BY <1>1 DEF Leave, Become
<1> QED
  BY <1>2, <1>3

\* In an orderly program a wait_all that succeeds found every other coroutine finished
\* (cat_coroutine_wait_all_ex, cat_coroutine_notify_all).
THEOREM SuccessMeansAllDone == Spec => WaitAllMeansAllDone
<1> DEFINE Succeeds(c) ==
              \/ call[c] = "wait" /\ result'[c] = "ok"
              \/ call[c] = "closing" /\ call'[c] = "closed"
<1>1. ASSUME IInv, Orderly, OInv, [Next]_vars, NEW c \in Coroutines, Succeeds(c)
      PROVE  armed = {} /\ \A d \in Coroutines \ {c} : call[d] = "gone"
  <2> USE SchedulerAssumption
  <2>1. /\ call \in [Coroutines -> Calls] /\ result \in [Coroutines -> Results]
        /\ Roles /\ Course
    BY <1>1 DEF IInv, TypeOK, OInv, Results
  <2>2. call[c] = "wait" => result[c] = "none"
    BY <2>1 DEF Roles
  <2>3. ~(call' = call /\ result' = result)
    BY <1>1, <2>2
  <2>4. \A d \in Coroutines, what \in Calls \ {"closed"} :
           ~(result' = result /\ Become(d, what))
    BY <1>1, <2>1, <2>2 DEF Become
  <2>5. \A d \in Coroutines, what \in Calls \ {"closed"} :
           ~(result' = [result EXCEPT ![d] = "none"] /\ Become(d, what))
    BY <1>1, <2>1, <2>2 DEF Become
  <2>6. \A d \in Coroutines, how \in {"timeout", "canceled"} : ~Leave(d, how)
    BY <1>1, <2>1, NoSuccess
  <2>7. {"free", "sleep", "wait", "gone", "closing"} \subseteq Calls \ {"closed"}
    BY DEF Calls
  <2>8. ~ProgramStep
    <3>1. \A a, d \in Coroutines : ~Start(a, d) /\ ~Resume(a, d)
      BY <2>4, <2>6, <2>7 DEF Start, Resume
    <3>2. \A a \in Coroutines : ~Yield(a) /\ ~Sleep(a) /\ ~Finish(a)
      BY <2>3, <2>4, <2>5, <2>7 DEF Yield, Sleep, Finish
    <3>3. \A a \in Coroutines, timed \in BOOLEAN : ~WaitAll(a, timed)
      BY <2>5, <2>7 DEF WaitAll
    <3>4. ~Close /\ ~ResumeScheduler
      BY <2>3, <2>4, <2>7 DEF Close, ResumeScheduler
    <3> QED
      BY <3>1, <3>2, <3>3, <3>4, Zenon DEF ProgramStep
  <2>9. \A d \in Coroutines : ~Event(d) /\ ~CallHandler(d)
    <3>1. \A d \in Coroutines : ~Event(d)
      BY <2>6 DEF Event
    <3>2. \A d \in Coroutines : ~CallHandler(d)
      BY <1>1, <2>3 DEF CallHandler, Orderly
    <3> QED
      BY <3>1, <3>2
  <2>10. ~LoopGoesOn /\ ~AllWait /\ ~ChanceIsOver /\ ~AllNotified /\ ~UNCHANGED vars
    BY <2>3 DEF LoopGoesOn, AllWait, ChanceIsOver, AllNotified, vars
  <2>11. ~LoopEnds
    <3>1. ASSUME LoopEnds PROVE call' = call \/ Become(Main, "done")
      BY <3>1 DEF LoopEnds, Become
    <3>2. ASSUME LoopEnds PROVE result' = result
      BY <3>2 DEF LoopEnds
    <3> QED
      BY <2>3, <2>4, <3>1, <3>2 DEF Calls
  <2>12. Notify
    BY <1>1, <2>8, <2>9, <2>10, <2>11, Zenon DEF Next, SchedulerStep
  <2>13. Top = Scheduler /\ phase = "notify" /\ left > 0
    BY <2>12 DEF Notify
  <2>14. Notifying
    <3>1. ~Told /\ ~Notified /\ ~Returned /\ ~Closing
      BY <2>13 DEF Told, Notified, Returned, Closing
    <3> QED
      BY <2>1, <2>13, <3>1 DEF Course, Starting, Looping, Stuck, Over
  <2>15. c = Main
    BY <1>1, <2>1 DEF Roles
  <2> QED
    BY <2>14, <2>15 DEF Notifying, AllGone
<1>2. IInv /\ (Orderly => OInv) /\ [Next]_vars
        => [Orderly => \A c \in Coroutines :
               (\/ call[c] = "wait" /\ result'[c] = "ok"
                \/ call[c] = "closing" /\ call'[c] = "closed")
               => /\ armed = {}
                  /\ \A d \in Coroutines \ {c} : call[d] = "gone"]_vars
  BY <1>1
<1> QED
  BY <1>2, SchedulerInvariant, OrderlyCourse, PTL DEF Spec, WaitAllMeansAllDone

-----------------------------------------------------------------------------
(* Control is a call stack *)

LEMMA ControlOperators ==
    /\ Control!OnStack = OnStack
    /\ Control!Top = Top
    /\ \A q : Control!Front(q) = Front(q)
    /\ \A q, x : Control!Without(q, x) = Without(q, x)
    /\ \A q : Control!Last(q) = Last(q)
<1>1. Control!OnStack = OnStack
  BY DEF Control!OnStack, OnStack, Control!ToSet, ToSet
<1>2. \A q : Control!Last(q) = Last(q) /\ Control!Front(q) = Front(q)
  BY DEF Control!Last, Last, Control!Front, Front
<1>3. Control!Top = Top
  BY DEF Control!Top, Control!Last, Top, Last
<1>4. \A q, x : Control!Without(q, x) = Without(q, x)
  BY DEF Control!Without, Without, Control!RemoveAt, RemoveAt, Control!ToSet, ToSet
<1> QED
  BY <1>1, <1>2, <1>3, <1>4

\* Who can get control exists, and the scheduler does to its end.
LEMMA StackExists ==
    ASSUME IInv, OInv
    PROVE  /\ OnStack \subseteq Existing
           /\ SchedulerLives <=> ~Over
<1>1. SchedulerLives <=> ~Over
  BY DEF OInv, Course, Starting, Returned, Closing, Looping, Stuck, Notifying, Notified,
         Told, Over, SchedulerLives
<1>2. OnStack \subseteq Coroutines \cup {Scheduler}
  BY DEF IInv, TypeOK, OnStack, ToSet
<1>3. Over => OnStack = {Main}
  BY SingleProperties DEF Over, OnStack
<1> QED
  BY <1>1, <1>2, <1>3, SchedulerAssumption DEF IInv, Existing

LEMMA ControlEnters ==
    ASSUME IInv, NEW d \in Existing, d # Top, Enter(d), Existing' = Existing,
           SchedulerLives' = SchedulerLives
    PROVE  Control!Enter(d)
<1>1. d \in Coroutines \cup {Scheduler}
  BY DEF Existing
<1>2. OnStack' = OnStack \cup {d} /\ stack' = Append(Without(stack, d), d)
  BY <1>1, EnterStack DEF OnStack, Enter
<1>3. Existing' \ OnStack' = (Existing \ OnStack) \ {d}
  BY <1>2
<1> QED
  BY <1>2, <1>3, ControlOperators DEF Control!Enter

LEMMA ControlLeaves ==
    ASSUME IInv, OnStack \subseteq Existing, SchedulerLives, SchedulerLives',
           NEW c \in Coroutines, Top = c, GiveUp(c)
    PROVE  /\ Existing' = Existing => Control!Leave
           /\ Existing' = Existing \ {c} /\ c # Main => Control!End
<1> USE SchedulerAssumption
<1>1. /\ stack \in Seq(Coroutines \cup {Scheduler}) /\ stack # <<>> /\ IsInjective(stack)
      /\ Len(stack) \in Nat \ {0} /\ Last(stack) = c /\ c \in OnStack /\ c # Scheduler
  BY ShortStacks, TopIsOnStack DEF IInv, TypeOK, Top
<1>2. Scheduler \in Existing
  BY DEF Existing
<1>3. ASSUME NEW rest, Existing' \ (OnStack \ {c}) = rest
      PROVE  Control!Back(rest)
  <2>1. CASE Len(stack) > 1
    <3>1. stack' = Front(stack)
      BY <2>1 DEF GiveUp
    <3>2. OnStack' = OnStack \ {c}
      BY <1>1, <3>1, FrontProperties DEF OnStack
    <3> QED
      BY <1>1, <1>3, <2>1, <3>1, <3>2, ControlOperators DEF Control!Back
  <2>2. CASE ~(Len(stack) > 1)
    <3>1. stack' = <<Scheduler>>
      BY <2>2 DEF GiveUp
    <3>2. OnStack' = {Scheduler}
      BY <3>1, SingleProperties DEF OnStack
    <3>3. OnStack = {c}
      <4>1. \A n \in Nat \ {0} : ~(n > 1) => n = 1
        OBVIOUS
      <4>2. Len(stack) = 1
        BY <1>1, <2>2, <4>1, Zenon
      <4>3. stack = <<c>>
        BY <1>1, <4>2, ShortStacks
      <4> QED
        BY <4>3, ShortStacks
    <3>4. Existing' \ OnStack' = rest \ {Scheduler}
      BY <1>3, <3>2, <3>3
    <3> QED
      BY <1>1, <1>2, <2>2, <3>1, <3>3, <3>4, ControlOperators DEF Control!Back
  <2> QED
    BY <2>1, <2>2
<1>4. ASSUME Existing' = Existing PROVE Control!Leave
  <2>1. Existing \ (OnStack \ {c}) = (Existing \ OnStack) \cup {Control!Top}
    BY <1>1, ControlOperators
  <2> QED
    BY <1>3, <1>4, <2>1 DEF Control!Leave
<1>5. ASSUME Existing' = Existing \ {c}, c # Main PROVE Control!End
  <2>1. Existing' \ (OnStack \ {c}) = Existing \ OnStack
    BY <1>1, <1>5
  <2> QED
    BY <1>3, <1>5, <2>1, ControlOperators DEF Control!End
<1> QED
  BY <1>4, <1>5

\* In an orderly program control is the call stack of CallStack, which the links of
\* Coroutine.tla implement (cat_coroutine_resume, cat_coroutine_yield).
THEOREM ControlFollowsCallStack == Spec => ControlIsCallStack
<1>1. ASSUME IInv, Orderly, OInv, OInv', [Next]_vars
      PROVE  \/ Control!Next \/ \E c \in Coroutines : Launch(c)
             \/ UNCHANGED <<stack, Existing>>
  <2> USE SchedulerAssumption
  <2> DEFINE Goal == \/ Control!Next \/ \E c \in Coroutines : Launch(c)
                     \/ UNCHANGED <<stack, Existing>>
  <2>1. /\ call \in [Coroutines -> Calls] /\ Roles /\ Course
        /\ OnStack \subseteq Existing /\ (SchedulerLives <=> ~Over)
    BY <1>1, StackExists DEF IInv, TypeOK, OInv
  <2>2. ASSUME NEW d \in Coroutines \cup {Scheduler}, Control!Enter(d) PROVE Goal
    BY <2>2 DEF Control!Next
  <2>3. ASSUME Control!Leave \/ Control!End \/ Control!Uninstall PROVE Goal
    BY <2>3 DEF Control!Next
  <2>4. ASSUME NEW c \in Coroutines, Top = c, call[c] \in {"free", "retry"}, phase' = phase
        PROVE  SchedulerLives /\ SchedulerLives'
    BY <1>1, <2>1, <2>4, ProgramRuns DEF Starting, Looping, Notified, SchedulerLives
  <2>5. ASSUME phase' = phase,
               \A c \in Coroutines : call[c] # "gone" <=> call'[c] # "gone"
        PROVE  Existing' = Existing /\ SchedulerLives' = SchedulerLives
    BY <2>5 DEF Existing, SchedulerLives
  <2>6. ASSUME NEW c \in Coroutines, call[c] # "gone", NEW what \in Calls \ {"gone"},
               Become(c, what)
        PROVE  \A e \in Coroutines : call[e] # "gone" <=> call'[e] # "gone"
    BY <2>1, <2>6 DEF Become
  <2>7. ASSUME NEW c \in Coroutines, call[c] # "gone", NEW how \in Results,
               Enter(c), Leave(c, how), phase' = phase, c # Top
        PROVE  Goal
    <3>1. PICK what \in Calls \ {"gone"} : Become(c, what)
      BY <2>7 DEF Leave, Calls
    <3>2. c \in Existing
      BY <2>7 DEF Existing
    <3> QED
      BY <1>1, <2>2, <2>5, <2>6, <2>7, <3>1, <3>2, ControlEnters
  <2>8. ASSUME NEW c \in Coroutines, Top = c, call[c] \in {"free", "retry"}, GiveUp(c),
               NEW what \in Calls \ {"gone"}, call' = call \/ Become(c, what),
               phase' = phase
        PROVE  Goal
    <3>1. \A e \in Coroutines : call[e] # "gone" <=> call'[e] # "gone"
      BY <2>6, <2>8
    <3> QED
      BY <1>1, <2>1, <2>3, <2>4, <2>5, <2>8, <3>1, ControlLeaves
  <2> HIDE DEF Goal
  <2>9. ASSUME NEW c \in Coroutines, NEW d \in Coroutines, Start(c, d) PROVE Goal
    <3>1. /\ call[d] = "gone" /\ Enter(d) /\ call' = [call EXCEPT ![d] = "free"]
          /\ phase' = phase
      BY <2>9 DEF Start, Become
    <3>2. d \notin Existing /\ Existing' = Existing \cup {d}
      BY <2>1, <3>1 DEF Existing, SchedulerLives
    <3>3. stack' = Append(stack, d)
      BY <1>1, <3>1, WithoutStranger DEF IInv, OnStack, Enter
    <3> QED
      BY <3>2, <3>3 DEF Goal, Launch
  <2>10. ASSUME NEW c \in Coroutines, NEW d \in Coroutines, Resume(c, d) PROVE Goal
    BY <2>7, <2>10 DEF Resume, Runs, Results
  <2>11. ASSUME NEW c \in Coroutines, Yield(c) \/ Sleep(c) PROVE Goal
    BY <2>8, <2>11 DEF Yield, Sleep, Runs, Calls
  <2>12. ASSUME NEW c \in Coroutines, NEW timed \in BOOLEAN, WaitAll(c, timed) PROVE Goal
    BY <2>8, <2>12 DEF WaitAll, Runs, Calls
  <2>13. ASSUME NEW c \in Coroutines, Finish(c) PROVE Goal
    <3>1. /\ Top = c /\ call[c] = "free" /\ c # Main /\ GiveUp(c) /\ phase' = phase
          /\ call' = [call EXCEPT ![c] = "gone"]
      BY <2>13 DEF Finish, Runs, Become
    <3>2. Existing' = Existing \ {c}
      BY <2>1, <3>1 DEF Existing, SchedulerLives
    <3> QED
      BY <1>1, <2>1, <2>3, <2>4, <3>1, <3>2, ControlLeaves
  <2>14. ASSUME Close PROVE Goal
    BY <2>8, <2>14 DEF Close, Calls
  <2>15. ASSUME ResumeScheduler PROVE Goal
    <3>1. /\ Top = Main /\ phase # "gone" /\ Enter(Scheduler) /\ call' = call
          /\ phase' = phase
      BY <2>15 DEF ResumeScheduler
    <3>2. Scheduler \in Existing /\ Scheduler # Top
      BY <3>1 DEF Existing, SchedulerLives
    <3> QED
      BY <1>1, <2>2, <2>5, <3>1, <3>2, ControlEnters
  <2>16. ASSUME LoopEnds PROVE Goal
    <3>1. /\ Top = Scheduler /\ phase = "head" /\ TRUE \in SeenFlags /\ phase' = "gone"
          /\ stack' = IF Len(stack) > 1 THEN Front(stack) ELSE stack
          /\ call' = IF Last(stack') = Main THEN [call EXCEPT ![Main] = "done"] ELSE call
      BY <2>16 DEF LoopEnds
    <3>2. Over'
      BY <1>1, <3>1 DEF OInv, Course, Starting, Returned, Closing, Looping, Stuck,
                        Notifying, Notified, Told
    <3>3. stack' = <<Main>> /\ OnStack' = {Main}
      BY <3>2, SingleProperties DEF Over, OnStack
    <3>4. /\ stack \in Seq(Coroutines \cup {Scheduler}) /\ IsInjective(stack)
          /\ stack # <<>> /\ Len(stack) \in Nat \ {0} /\ Last(stack) = Scheduler
      BY <1>1, <3>1, ShortStacks DEF IInv, TypeOK, Top
    <3>5. Len(stack) > 1
      <4>1. ASSUME stack' = stack PROVE FALSE
        BY <3>3, <3>4, <4>1, SingleProperties, Zenon
      <4> QED
        BY <3>1, <4>1
    <3>6. stack = <<Main, Scheduler>>
      <4>1. /\ Front(stack) = <<Main>> /\ Len(Front(stack)) = Len(stack) - 1
            /\ \A i \in 1..(Len(stack) - 1) : Front(stack)[i] = stack[i]
        BY <3>1, <3>3, <3>4, <3>5, FrontProperties
      <4>2. Len(Front(stack)) = 1 /\ Front(stack)[1] = Main
        BY <4>1
      <4>3. \A n \in Nat \ {0} : 1 = n - 1 => n = 2 /\ 1 \in 1..(n - 1)
        OBVIOUS
      <4>4. Len(stack) = 2 /\ 1 \in 1..(Len(stack) - 1)
        BY <3>4, <4>1, <4>2, <4>3, Zenon
      <4>5. Len(stack) = 2 /\ stack[1] = Main
        BY <4>1, <4>2, <4>4, Zenon
      <4>6. stack[2] = Scheduler
        BY <1>1, <3>1, <4>5, ShortStacks
      <4> QED
        BY <3>4, <4>5, <4>6
    <3>7. Without(stack, Scheduler) = <<Main>>
      <4>1. /\ Without(stack, stack[2]) \in Seq(Coroutines \cup {Scheduler})
            /\ Len(Without(stack, stack[2])) = Len(stack) - 1
            /\ \A i \in 1..(Len(stack) - 1) :
                  Without(stack, stack[2])[i] = IF i < 2 THEN stack[i] ELSE stack[i + 1]
        <5>1. 2 \in 1..Len(stack)
          BY <3>6
        <5> QED
          BY <3>4, <5>1, WithoutAt
      <4>2. stack[2] = Scheduler /\ stack[1] = Main /\ Len(stack) = 2
        BY <3>6
      <4>3. /\ Len(Without(stack, Scheduler)) = 1
            /\ Without(stack, Scheduler)[1] = Main
            /\ Without(stack, Scheduler) \in Seq(Coroutines \cup {Scheduler})
        BY <4>1, <4>2
      <4> QED
        BY <4>3
    <3>8. OnStack = {Main, Scheduler}
      <4>1. ToSet(Without(stack, Scheduler)) = ToSet(stack) \ {Scheduler}
        BY <1>1, <3>1, <3>4, TopIsOnStack, WithoutProperties DEF OnStack
      <4> QED
        BY <1>1, <3>1, <3>3, <3>7, <4>1, TopIsOnStack DEF OnStack
    <3>9. SchedulerLives /\ ~SchedulerLives'
      BY <3>1 DEF SchedulerLives
    <3>10. Existing' = Existing \ {Scheduler}
      <4>1. \A e \in Coroutines : call[e] # "gone" <=> call'[e] # "gone"
        BY <2>1, <3>1 DEF Roles
      <4> QED
        BY <3>9, <4>1 DEF Existing
    <3>11. Existing' \ OnStack' = (Existing \ OnStack) \ {Scheduler}
      BY <3>3, <3>8, <3>10
    <3>12. Control!Uninstall
      BY <3>3, <3>7, <3>9, <3>11, ControlOperators, SingleProperties
         DEF Control!Uninstall
    <3> QED
      BY <2>3, <3>12
  <2>17. ASSUME Notify PROVE Goal
    <3>1. /\ Head(waiters) \in ToSet(waiters) /\ Head(waiters) \in Coroutines
          /\ call[Head(waiters)] # "gone"
      BY <1>1, <2>17, HeadIsInQueue DEF Notify, IInv, TypeOK, WaitersAreQueued
    <3> QED
      BY <2>7, <2>17, <3>1 DEF Notify, Results
  <2>18. ASSUME NEW c \in Coroutines, Event(c) PROVE Goal
    <3>1. call[c] # "gone"
      BY <1>1, <2>18 DEF Event, IInv, WaitersAreQueued
    <3> QED
      BY <2>7, <2>18, <3>1 DEF Event, Results
  <2>19. ASSUME \/ LoopGoesOn \/ AllWait \/ ChanceIsOver \/ AllNotified
                \/ \E d \in Coroutines : CallHandler(d)
                \/ UNCHANGED vars
         PROVE  Goal
    <3>1. UNCHANGED <<stack, call>> /\ (phase # "gone" <=> phase' # "gone")
      <4>1. ASSUME NEW d \in Coroutines, CallHandler(d)
            PROVE  UNCHANGED <<stack, call>> /\ phase = "schedule" /\ phase' = "chance"
        BY <1>1, <4>1 DEF CallHandler, Orderly
      <4>2. ASSUME LoopGoesOn \/ AllWait \/ ChanceIsOver \/ AllNotified \/ UNCHANGED vars
            PROVE  UNCHANGED <<stack, call>> /\ (phase # "gone" <=> phase' # "gone")
        BY <4>2 DEF LoopGoesOn, AllWait, ChanceIsOver, AllNotified, vars
      <4> QED
        BY <2>19, <4>1, <4>2
    <3> QED
      BY <3>1 DEF Goal, Existing, SchedulerLives
  <2> QED
    BY <1>1, <2>9, <2>10, <2>11, <2>12, <2>13, <2>14, <2>15, <2>16, <2>17, <2>18, <2>19,
       Zenon DEF Next, ProgramStep, SchedulerStep, Goal
<1>2. IInv /\ (Orderly => OInv) /\ (Orderly => OInv)' /\ [Next]_vars
        => [Orderly => Control!Next \/ \E c \in Coroutines : Launch(c)]_<<stack, Existing>>
  BY <1>1, OrderStays
<1> QED
  BY <1>2, SchedulerInvariant, OrderlyCourse, PTL DEF Spec, ControlIsCallStack
=============================================================================
