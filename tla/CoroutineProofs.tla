--------------------------- MODULE CoroutineProofs ---------------------------
(***************************************************************************)
(* For any finite set of coroutines, the invariants of Coroutine.tla hold  *)
(* in every reachable state, whether or not the program resumes the        *)
(* scheduler by hand.  The parts of OneList are inductive only together: a *)
(* resume is harmless because the current coroutine has nobody above it    *)
(* (OneTop), and a fallback to the scheduler because a coroutine with      *)
(* nobody below is alone on the list (OneBottom and NoCycle).              *)
(*                                                                         *)
(* The links implement the call stack of CallStack.tla.  A sequence spells *)
(* the list when it goes up from the bottom along the links to the current *)
(* coroutine.  Each step says how the sequence goes on (appended to, cut   *)
(* at the end, with one taken out), so that no induction over the steps of *)
(* a walk is needed: that the sequence is unique and has all of the list   *)
(* follows from the absence of cycles, and that StackOf computes it from   *)
(* the least number for which it would not.                                *)
(***************************************************************************)
EXTENDS Coroutine, QueueProofs, FiniteSetTheorems, TLAPS

\* The main coroutine never ends and is never the scheduler; a scheduler has run.
Lasting ==
    /\ Main \in started
    /\ scheduler # Main
    /\ scheduler # NoCo => scheduler \in started

Shape == TypeOK /\ OneRunning /\ OneList /\ Lasting

IInv == Shape /\ CountIsExact

LEMMA ShapeInit == Init => Shape
<1> SUFFICES ASSUME Init PROVE Shape
  OBVIOUS
<1> USE CoroutineAssumption DEF Init
<1>1. TypeOK
  BY DEF TypeOK, States, Pointers
<1>2. OneRunning /\ Lasting
  BY DEF OneRunning, Live, Lasting
<1>3. OneList
  BY DEF OneList, Answered, NoDanglingLink, OneTop, OneBottom, InList, NoCycle
<1> QED
  BY <1>1, <1>2, <1>3 DEF Shape

\* Cutting links makes no cycle.
LEMMA CutNoCycle ==
    ASSUME NoCycle,
           \A c \in Coroutines : previous'[c] \in {previous[c], NoCo}
    PROVE  NoCycle'
<1> SUFFICES ASSUME NEW S \in (SUBSET Coroutines) \ {{}}
             PROVE  \E c \in S : previous'[c] \notin S
  BY DEF NoCycle
<1>1. PICK c \in S : previous[c] \notin S
  BY DEF NoCycle
<1>2. previous'[c] \notin S
  BY <1>1, CoroutineAssumption
<1> QED
  BY <1>2

\* Moving a coroutine to the top makes no cycle: a set that has lost its lowest
\* coroutine to the move has another one, which lay on top of that.
LEMMA LinkNoCycle ==
    ASSUME Shape, NEW c \in Coroutines, c # current, Link(c)
    PROVE  NoCycle'
<1> USE CoroutineAssumption
<1>1. /\ previous'[c] = current
      /\ \A d \in Coroutines \ {c} :
            previous'[d] = IF d = next[c] THEN previous[c] ELSE previous[d]
  BY DEF Link
<1>2. /\ \A d, e \in Coroutines : previous[d] = e <=> next[e] = d
      /\ \A S \in (SUBSET Coroutines) \ {{}} : \E d \in S : previous[d] \notin S
  BY DEF Shape, OneList, Answered, NoCycle
<1>3. ASSUME NEW S \in SUBSET Coroutines, S # {}, c \notin S
      PROVE  \E d \in S : previous'[d] \notin S
  <2>1. CASE next[c] \notin S
    <3>1. PICK d \in S : previous[d] \notin S
      BY <1>2, <1>3
    <3> QED
      BY <2>1, <3>1, <1>1, <1>3
  <2>2. CASE next[c] \in S
    <3>1. PICK d \in S \cup {c} : previous[d] \notin S \cup {c}
      <4>1. S \cup {c} \in (SUBSET Coroutines) \ {{}}
        BY <1>3
      <4> QED
        BY <4>1, <1>2
    <3>2. CASE d = c
      BY <2>2, <3>1, <3>2, <1>1, <1>3
    <3>3. CASE d # c
      <4>1. d # next[c]
        BY <3>1, <3>3, <1>2, <2>2
      <4> QED
        BY <4>1, <3>1, <3>3, <1>1
    <3> QED
      BY <3>2, <3>3
  <2> QED
    BY <2>1, <2>2
<1>4. ASSUME NEW S \in SUBSET Coroutines, c \in S
      PROVE  \E d \in S : previous'[d] \notin S
  <2>1. CASE S = {c}
    BY <2>1, <1>1
  <2>2. CASE S # {c}
    <3>1. PICK d \in S \ {c} : previous'[d] \notin S \ {c}
      <4>1. S \ {c} # {} /\ S \ {c} \in SUBSET Coroutines /\ c \notin S \ {c}
        BY <1>4, <2>2
      <4> HIDE <1>3
      <4> QED
        BY <4>1, <1>3
    <3>2. previous'[d] # c
      BY <1>1, <1>2, <3>1
    <3> QED
      BY <3>1, <3>2
  <2> QED
    BY <2>1, <2>2
<1> QED
  BY <1>3, <1>4 DEF NoCycle

\* A resume, of any coroutine that waits, keeps the shape.
LEMMA ResumeShape ==
    ASSUME Shape, NEW c \in Coroutines, NEW retval \in BOOLEAN, Resume(c, retval)
    PROVE  Shape'
<1> USE CoroutineAssumption DEF Resume, Link, Jump, IsResumable, links, globals
<1>0. c # current /\ state[c] = "waiting"
  BY DEF Shape, OneRunning, TypeOK
<1>1. TypeOK'
  BY DEF Shape, TypeOK, States, Pointers
<1>2. OneRunning'
  BY <1>0 DEF Shape, TypeOK, OneRunning, Live, States
<1>3. Answered'
  BY <1>0 DEF Shape, TypeOK, OneList, Answered, OneTop, NoDanglingLink, Pointers
<1>4. NoDanglingLink'
  BY <1>0 DEF Shape, TypeOK, OneRunning, OneList, NoDanglingLink, Pointers
<1>5. OneTop'
  BY <1>0 DEF Shape, TypeOK, OneList, Answered, OneTop, Pointers
<1>6. OneBottom'
  BY <1>0 DEF Shape, TypeOK, OneList, Answered, OneTop, OneBottom, InList, Pointers
<1>7. NoCycle'
  BY <1>0, LinkNoCycle
<1>8. Lasting'
  BY DEF Shape, Lasting
<1> QED
  BY <1>1, <1>2, <1>3, <1>4, <1>5, <1>6, <1>7, <1>8 DEF Shape, OneList

\* A current coroutine with nobody below is alone on the list: otherwise the
\* lowest of the others would be a second bottom.
LEMMA AloneWithoutPrevious ==
    ASSUME Shape, previous[current] = NoCo, NEW d \in Coroutines
    PROVE  next[d] = NoCo
<1> SUFFICES ASSUME next[d] # NoCo PROVE FALSE
  OBVIOUS
<1> DEFINE others == {c \in Coroutines : next[c] # NoCo}
<1> USE CoroutineAssumption DEF Shape, TypeOK, Pointers
<1>1. others \in (SUBSET Coroutines) \ {{}}
  OBVIOUS
<1>2. PICK c \in others : previous[c] \notin others
  BY <1>1 DEF OneList, NoCycle
<1>3. previous[c] = NoCo
  BY <1>2 DEF OneList, Answered
<1>4. c = current
  BY <1>2, <1>3 DEF OneList, OneBottom, InList
<1> QED
  BY <1>2, <1>4 DEF OneList, OneTop

\* Whoever a yield goes to waits, has started and is not the current coroutine.
LEMMA YieldTargetWaits ==
    ASSUME Shape, YieldTarget # NoCo
    PROVE  /\ YieldTarget \in started
           /\ YieldTarget # current
           /\ state[YieldTarget] = "waiting"
           /\ next[YieldTarget] \in {NoCo, current}
           /\ previous[current] = NoCo =>
                  previous[YieldTarget] = NoCo /\ next[YieldTarget] = NoCo
<1> USE CoroutineAssumption DEF Shape, TypeOK, YieldTarget, Pointers
<1>1. CASE previous[current] # NoCo
  <2>1. YieldTarget \in started /\ next[YieldTarget] = current
    BY <1>1 DEF OneList, Answered, NoDanglingLink
  <2>2. YieldTarget # current
    BY <2>1 DEF OneList, OneTop
  <2> QED
    BY <1>1, <2>1, <2>2 DEF OneRunning, Live, States
<1>2. CASE previous[current] = NoCo
  <2>1. /\ YieldTarget = scheduler
        /\ scheduler # current
        /\ scheduler \in started
    BY <1>2 DEF Lasting
  <2>2. next[scheduler] = NoCo
    BY <1>2, <2>1, AloneWithoutPrevious
  <2>3. previous[scheduler] = NoCo
    BY <2>1, <2>2 DEF OneList, OneTop
  <2> QED
    BY <1>2, <2>1, <2>2, <2>3 DEF OneRunning, Live, States
<1> QED
  BY <1>1, <1>2

\* Taking the current coroutine off the list keeps the list.
LEMMA UnlinkList ==
    ASSUME Shape, YieldTarget # NoCo, Unlink(YieldTarget), current' = YieldTarget,
           UNCHANGED scheduler,
           started \ {current} \subseteq started'
    PROVE  OneList'
<1> DEFINE t == YieldTarget
<1>1. t \in started /\ t # current /\ next[t] \in {NoCo, current}
  BY YieldTargetWaits
<1>2. \/ previous[current] = t
      \/ previous[current] = NoCo /\ t = scheduler
  BY DEF YieldTarget
<1>3. previous[current] = NoCo => previous[t] = NoCo /\ next[t] = NoCo
  BY YieldTargetWaits
<1> USE CoroutineAssumption, <1>1, <1>2, <1>3 DEF Unlink, Shape, TypeOK, Pointers
<1> HIDE DEF t
<1>4. previous' = [previous EXCEPT ![current] = NoCo] /\ next' = [next EXCEPT ![t] = NoCo]
      /\ current' = t /\ t \in Coroutines
  BY DEF t
<1>5. Answered'
  BY <1>4 DEF OneList, Answered
<1>6. NoDanglingLink'
  BY <1>4, <1>5 DEF OneList, Answered, NoDanglingLink, OneTop
<1>7. OneTop'
  BY <1>4 DEF OneList, Answered, OneTop
<1>8. OneBottom'
  BY <1>4 DEF OneList, Answered, OneTop, OneBottom, InList
<1>9. NoCycle'
  BY <1>4, CutNoCycle DEF OneList
<1> QED
  BY <1>5, <1>6, <1>7, <1>8, <1>9 DEF OneList

\* A yield keeps the shape.
LEMMA YieldShape ==
    ASSUME Shape, NEW retval \in BOOLEAN, Yield(retval)
    PROVE  Shape'
<1> USE CoroutineAssumption DEF Yield, Jump
<1>0. /\ YieldTarget \in started /\ YieldTarget # current
      /\ state[YieldTarget] = "waiting"
  BY YieldTargetWaits
<1>1. TypeOK'
  BY <1>0 DEF Shape, TypeOK, States, Pointers, Unlink
<1>2. OneRunning'
  BY <1>0 DEF Shape, TypeOK, OneRunning, Live, States
<1>3. OneList'
  BY <1>0, UnlinkList DEF Shape
<1>4. Lasting'
  BY <1>0 DEF Shape, TypeOK, Lasting, Unlink, Pointers
<1> QED
  BY <1>1, <1>2, <1>3, <1>4 DEF Shape

\* The end of a coroutine keeps the shape.
LEMMA FinishShape ==
    ASSUME Shape, Finish, count \in Nat \ {0}
    PROVE  Shape'
<1> USE CoroutineAssumption DEF Finish, JumpDead
<1>0. /\ YieldTarget \in started /\ YieldTarget # current
      /\ state[YieldTarget] = "waiting"
  BY YieldTargetWaits
<1>1. TypeOK'
  BY <1>0 DEF Shape, TypeOK, States, Pointers, Unlink
<1>2. OneRunning'
  BY <1>0 DEF Shape, TypeOK, OneRunning, Live, States
<1>3. OneList'
  BY <1>0, UnlinkList DEF Shape
<1>4. Lasting'
  BY <1>0 DEF Shape, TypeOK, Lasting, Unlink, Pointers
<1> QED
  BY <1>1, <1>2, <1>3, <1>4 DEF Shape

\* A scheduler that is started is parked, under nobody.
LEMMA SchedulerRunShape ==
    ASSUME Shape, NEW c \in Coroutines, SchedulerRun(c)
    PROVE  Shape'
<1> USE CoroutineAssumption DEF SchedulerRun
<1>0. c # current /\ c \notin started /\ c # Main
  BY DEF Shape, TypeOK, OneRunning, Lasting, Live
<1>1. previous[c] = NoCo /\ next[c] = NoCo
  BY <1>0 DEF Shape, TypeOK, OneList, Answered, NoDanglingLink, Pointers
<1>2. TypeOK'
  BY DEF Shape, TypeOK, States, Pointers
<1>3. OneRunning'
  BY <1>0 DEF Shape, TypeOK, OneRunning, Live, States
<1>4. UNCHANGED <<previous, next, current>> /\ started \subseteq started'
  BY <1>1 DEF Shape, TypeOK
<1>5. OneList'
  BY <1>4 DEF Shape, OneList, Answered, NoDanglingLink, OneTop, OneBottom, InList,
                 NoCycle
<1>6. Lasting'
  BY <1>0, <1>4 DEF Shape, TypeOK, Lasting
<1> QED
  BY <1>2, <1>3, <1>5, <1>6 DEF Shape

\* When only the main coroutine is counted, only the main coroutine and the
\* scheduler have started.
LEMMA OnlyMainLeft ==
    ASSUME Shape, CountIsExact, count = 1
    PROVE  started \subseteq {Main, scheduler}
<1> DEFINE rest == started \ {scheduler}
<1>1. IsFiniteSet(started)
  BY CoroutineAssumption, FS_Subset DEF Shape, TypeOK
<1>2. IsFiniteSet(rest) /\ Main \in rest
  BY <1>1, FS_Subset DEF Shape, Lasting
<1>3. Cardinality(rest \ {Main}) = 0
  <2>1. Cardinality(rest \ {Main}) = Cardinality(rest) - 1
    BY <1>2, FS_RemoveElement
  <2>2. Cardinality(rest) = 1
    BY DEF CountIsExact
  <2> HIDE DEF rest
  <2> QED
    BY <2>1, <2>2
<1>4. rest \ {Main} = {}
  <2>1. IsFiniteSet(rest \ {Main})
    BY <1>2, FS_Subset
  <2> QED
    BY <2>1, <1>3, FS_EmptySet
<1> QED
  BY <1>4

\* Closing the scheduler leaves the main coroutine alone on the list.
LEMMA SchedulerCloseShape ==
    ASSUME IInv, SchedulerClose
    PROVE  Shape'
<1> USE CoroutineAssumption DEF SchedulerClose
<1>0. scheduler # current /\ scheduler \in Coroutines
  BY DEF IInv, Shape, TypeOK, Lasting, Pointers
<1>1. started \subseteq {Main, scheduler}
  BY OnlyMainLeft DEF IInv
<1>2. /\ \A c \in Coroutines : previous'[c] = NoCo /\ next'[c] = NoCo
      /\ previous' \in [Coroutines -> Pointers] /\ next' \in [Coroutines -> Pointers]
  <2>1. ASSUME NEW c \in Coroutines PROVE previous'[c] = NoCo
    <3>1. CASE c = scheduler
      BY <3>1 DEF IInv, Shape, TypeOK
    <3>2. CASE c = Main
      BY <3>2, <1>0, <1>1
         DEF IInv, Shape, TypeOK, OneList, Answered, NoDanglingLink, OneTop, Pointers
    <3>3. CASE c \notin {Main, scheduler}
      BY <3>3, <1>0, <1>1
         DEF IInv, Shape, TypeOK, OneList, Answered, NoDanglingLink, Pointers
    <3> QED
      BY <3>1, <3>2, <3>3
  <2>2. ASSUME NEW c \in Coroutines PROVE next'[c] = NoCo
    <3>1. CASE c = scheduler
      BY <3>1 DEF IInv, Shape, TypeOK
    <3>2. CASE c = Main
      BY <3>2, <1>0 DEF IInv, Shape, TypeOK, OneList, OneTop
    <3>3. CASE c \notin {Main, scheduler}
      BY <3>3, <1>0, <1>1
         DEF IInv, Shape, TypeOK, OneList, Answered, NoDanglingLink, Pointers
    <3> QED
      BY <3>1, <3>2, <3>3
  <2> QED
    BY <2>1, <2>2 DEF IInv, Shape, TypeOK, Pointers
<1>3. TypeOK'
  BY <1>2 DEF IInv, Shape, TypeOK, States, Pointers
<1>4. OneRunning'
  BY <1>0 DEF IInv, Shape, TypeOK, OneRunning, Live, States
<1>5. OneList'
  BY <1>2, <1>0 DEF IInv, Shape, TypeOK, OneList, Answered, NoDanglingLink, OneTop,
                    OneBottom, InList, NoCycle
<1>6. Lasting'
  BY <1>0 DEF IInv, Shape, Lasting
<1> QED
  BY <1>3, <1>4, <1>5, <1>6 DEF Shape

\* Every step keeps the shape.
LEMMA ShapeStep == IInv /\ [Next]_vars => Shape'
<1> SUFFICES ASSUME IInv, [Next]_vars PROVE Shape'
  OBVIOUS
<1> USE DEF IInv
<1>1. ASSUME NEW c \in Coroutines, Create(c) PROVE Shape'
  <2> USE <1>1, CoroutineAssumption DEF Create, globals
  <2>0. c # current /\ c \notin started /\ previous[c] = NoCo /\ next[c] = NoCo
    BY DEF Shape, TypeOK, OneRunning, Live, OneList, Answered, NoDanglingLink, Pointers
  <2>1. UNCHANGED <<previous, next>>
    BY <2>0 DEF Shape, TypeOK
  <2>2. TypeOK' /\ OneRunning'
    BY <2>0, <2>1 DEF Shape, TypeOK, OneRunning, Live, States, Pointers
  <2>3. OneList' /\ Lasting'
    BY <2>1 DEF Shape, OneList, Answered, NoDanglingLink, OneTop, OneBottom, InList,
                NoCycle, Lasting
  <2> QED
    BY <2>2, <2>3 DEF Shape
<1>2. ASSUME NEW c \in Coroutines, Close(c) PROVE Shape'
  <2> USE <1>2, CoroutineAssumption DEF Close, globals, links
  <2>1. TypeOK' /\ OneRunning'
    BY DEF Shape, TypeOK, OneRunning, Live, States, Pointers
  <2>2. OneList' /\ Lasting'
    BY DEF Shape, OneList, Answered, NoDanglingLink, OneTop, OneBottom, InList,
           NoCycle, Lasting
  <2> QED
    BY <2>1, <2>2 DEF Shape
<1>3. ASSUME NEW c \in Coroutines, NEW retval \in BOOLEAN, Resume(c, retval) PROVE Shape'
  BY <1>3, ResumeShape
<1>4. ASSUME NEW c \in Coroutines, SchedulerRun(c) PROVE Shape'
  BY <1>4, SchedulerRunShape
<1>5. ASSUME NEW retval \in BOOLEAN, Yield(retval) PROVE Shape'
  BY <1>5, YieldShape
<1>6. CASE Finish
  <2>1. IsFiniteSet(started) /\ IsFiniteSet(started \ {scheduler})
    BY CoroutineAssumption, FS_Subset DEF Shape, TypeOK
  <2>2. Main \in started \ {scheduler}
    BY DEF Shape, Lasting
  <2>3. Cardinality(started \ {scheduler}) # 0
    BY <2>1, <2>2, FS_EmptySet
  <2> QED
    BY <1>6, <2>3, FinishShape DEF Shape, TypeOK, CountIsExact
<1>7. CASE SwitchDeny \/ SwitchAllow \/ UNCHANGED vars
  <2> USE <1>7 DEF SwitchDeny, SwitchAllow, vars, links
  <2>1. TypeOK' /\ OneRunning'
    BY DEF Shape, TypeOK, OneRunning, Live
  <2>2. OneList' /\ Lasting'
    BY DEF Shape, OneList, Answered, NoDanglingLink, OneTop, OneBottom, InList,
           NoCycle, Lasting
  <2> QED
    BY <2>1, <2>2 DEF Shape
<1>8. CASE SchedulerClose
  BY <1>8, SchedulerCloseShape
<1> QED
  BY <1>1, <1>2, <1>3, <1>4, <1>5, <1>6, <1>7, <1>8 DEF Next

\* Every step keeps the count exact: it moves with the set of started
\* coroutines, and the scheduler is taken out of it and never put back.
LEMMA CountStep == IInv /\ [Next]_vars => CountIsExact'
<1> SUFFICES ASSUME IInv, [Next]_vars PROVE CountIsExact'
  OBVIOUS
<1> USE DEF IInv, CountIsExact
<1> DEFINE counted == started \ {scheduler}
<1>1. IsFiniteSet(counted) /\ counted \subseteq Coroutines
  BY CoroutineAssumption, FS_Subset DEF Shape, TypeOK
<1>2. ASSUME NEW c \in Coroutines, c = scheduler => c \in started,
             UNCHANGED scheduler, started' = started \cup {c},
             count' = IF c \in started THEN count ELSE count + 1
      PROVE  CountIsExact'
  <2>1. CASE c \in started
    BY <2>1, <1>2
  <2>2. CASE c \notin started
    <3>1. counted' = counted \cup {c} /\ c \notin counted
      BY <2>2, <1>2
    <3> QED
      BY <3>1, <2>2, <1>1, <1>2, FS_AddElement
  <2> QED
    BY <2>1, <2>2
<1>3. ASSUME NEW c \in Coroutines, NEW retval \in BOOLEAN, Resume(c, retval)
      PROVE  CountIsExact'
  <2>1. c = scheduler => c \in started
    BY CoroutineAssumption DEF Shape, Lasting
  <2> QED
    BY <2>1, <1>2, <1>3 DEF Resume, Jump
<1>4. ASSUME NEW retval \in BOOLEAN, Yield(retval) PROVE CountIsExact'
  <2>1. YieldTarget \in started
    BY <1>4, YieldTargetWaits DEF Yield
  <2>2. UNCHANGED <<count, scheduler, started>>
    BY <1>4, <2>1 DEF Yield, Jump
  <2> QED
    BY <2>2
<1>5. CASE Finish
  <2>1. current \in counted /\ counted' = counted \ {current} /\ count' = count - 1
    BY <1>5 DEF Finish, JumpDead, Shape, OneRunning
  <2> QED
    BY <2>1, <1>1, FS_RemoveElement
<1>6. ASSUME NEW c \in Coroutines, SchedulerRun(c) PROVE CountIsExact'
  <2>1. c \notin started /\ NoCo \notin started
    BY <1>6, CoroutineAssumption DEF SchedulerRun, Shape, TypeOK, OneRunning, Live
  <2>2. counted' = counted /\ UNCHANGED count
    BY <1>6, <2>1 DEF SchedulerRun
  <2> QED
    BY <2>2
<1>7. CASE SchedulerClose
  <2>1. NoCo \notin started
    BY CoroutineAssumption DEF Shape, TypeOK
  <2>2. counted' = counted /\ UNCHANGED count
    BY <1>7, <2>1 DEF SchedulerClose
  <2> QED
    BY <2>2
<1>8. ASSUME UNCHANGED <<count, scheduler, started>> PROVE CountIsExact'
  BY <1>8
<1> QED
  BY <1>3, <1>4, <1>5, <1>6, <1>7, <1>8
     DEF Next, Create, Close, SwitchDeny, SwitchAllow, globals, vars

\* The inductive invariant holds in every reachable state.
THEOREM CoroutineInvariant == Spec => []IInv
<1>1. Init => IInv
  <2> SUFFICES ASSUME Init PROVE CountIsExact
    BY ShapeInit DEF IInv
  <2>1. started \ {scheduler} = {Main}
    BY CoroutineAssumption DEF Init
  <2> QED
    BY <2>1, FS_Singleton DEF Init, CountIsExact
<1>2. IInv /\ [Next]_vars => IInv'
  BY ShapeStep, CountStep DEF IInv
<1> QED
  BY <1>1, <1>2, PTL DEF Spec

\* The variables keep their types.
THEOREM TypeCorrect == Spec => []TypeOK
BY CoroutineInvariant, PTL DEF IInv, Shape

\* Exactly the current coroutine is running (cat_coroutine_jump_standard).
THEOREM ExactlyOneRunning == Spec => []OneRunning
BY CoroutineInvariant, PTL DEF IInv, Shape

\* The previous/next links always form one list that ends at the current
\* coroutine and holds no freed one (cat_coroutine_resume, cat_coroutine_yield).
THEOREM LinksFormOneList == Spec => []OneList
BY CoroutineInvariant, PTL DEF IInv, Shape

\* In a program that leaves the scheduler alone nobody ever lies below it.
THEOREM SchedulerStaysAtBottom ==
    ASSUME ~SchedulerExposed
    PROVE  Spec => []SchedulerAtBottom
<1>1. Init => SchedulerAtBottom
  BY DEF Init, SchedulerAtBottom
<1>2. IInv /\ SchedulerAtBottom /\ [Next]_vars => SchedulerAtBottom'
  <2> SUFFICES ASSUME IInv, SchedulerAtBottom, [Next]_vars PROVE SchedulerAtBottom'
    OBVIOUS
  <2> USE CoroutineAssumption DEF IInv, Shape, TypeOK, Pointers, SchedulerAtBottom
  <2>1. ASSUME NEW c \in Coroutines, NEW retval \in BOOLEAN, Resume(c, retval)
        PROVE  SchedulerAtBottom'
    BY <2>1 DEF Resume, Link, Jump, OneList, Answered
  <2>2. ASSUME NEW retval \in BOOLEAN, Yield(retval) PROVE SchedulerAtBottom'
    BY <2>2 DEF Yield, Unlink, Jump
  <2>3. CASE Finish
    BY <2>3 DEF Finish, Unlink, JumpDead
  <2>4. ASSUME NEW c \in Coroutines, Create(c) \/ Close(c) \/ SchedulerRun(c)
        PROVE  SchedulerAtBottom'
    BY <2>4 DEF Create, Close, SchedulerRun, globals, links
  <2>5. CASE SchedulerClose
    BY <2>5 DEF SchedulerClose
  <2>6. CASE SwitchDeny \/ SwitchAllow \/ UNCHANGED vars
    BY <2>6 DEF SwitchDeny, SwitchAllow, vars, links
  <2> QED
    BY <2>1, <2>2, <2>3, <2>4, <2>5, <2>6 DEF Next
<1> QED
  BY <1>1, <1>2, CoroutineInvariant, PTL DEF Spec

\* count is exactly the number of unfinished coroutines, so the scheduler's
\* comparison with the number of waiters means what it says.
THEOREM CountStaysExact == Spec => []CountIsExact
BY CoroutineInvariant, PTL DEF IInv

-----------------------------------------------------------------------------
(* Lists *)

\* OneList for any links.
IsList(top, down, up) ==
    /\ top \in Coroutines
    /\ down \in [Coroutines -> Pointers]
    /\ up \in [Coroutines -> Pointers]
    /\ \A c, d \in Coroutines : down[c] = d <=> up[d] = c
    /\ up[top] = NoCo
    /\ \A c, d \in Coroutines :
          /\ c = top \/ up[c] # NoCo
          /\ d = top \/ up[d] # NoCo
          /\ down[c] = NoCo /\ down[d] = NoCo
          => c = d
    /\ \A S \in (SUBSET Coroutines) \ {{}} : \E c \in S : down[c] \notin S

\* s goes up from the bottom to the top.
Spells(s, top, down) ==
    /\ s \in Seq(Coroutines)
    /\ s # <<>>
    /\ s[Len(s)] = top
    /\ down[s[1]] = NoCo
    /\ \A i \in 2..Len(s) : down[s[i]] = s[i - 1]

LEMMA ShapeIsList ==
    ASSUME Shape
    PROVE  IsList(current, previous, next)
BY DEF Shape, TypeOK, OneList, Answered, OneTop, OneBottom, InList, NoCycle, IsList

LEMMA NextShapeIsList ==
    ASSUME Shape'
    PROVE  IsList(current', previous', next')
BY DEF Shape, TypeOK, OneList, Answered, OneTop, OneBottom, InList, NoCycle, IsList

\* No coroutine is passed twice on the way up.
LEMMA SpelledOnce ==
    ASSUME NEW top, NEW down, NEW up, IsList(top, down, up),
           NEW s, Spells(s, top, down)
    PROVE  IsInjective(s)
<1> USE CoroutineAssumption
<1>1. s \in Seq(Coroutines) /\ Len(s) \in Nat \ {0} /\ DOMAIN s = 1..Len(s)
      /\ \A i \in 1..Len(s) : s[i] \in Coroutines
  BY DEF Spells
<1>2. ASSUME NEW i \in 1..Len(s), NEW j \in 1..Len(s), i < j, s[i] = s[j]
      PROVE  FALSE
  <2> DEFINE S == {s[k] : k \in (i + 1)..j}
  <2>1. S \in (SUBSET Coroutines) \ {{}}
    <3>1. j \in (i + 1)..j /\ \A k \in (i + 1)..j : k \in 1..Len(s)
      BY <1>1, <1>2
    <3>2. s[j] \in S
      BY <3>1
    <3>3. S \subseteq Coroutines
      BY <3>1, <1>1
    <3> QED
      BY <3>2, <3>3
  <2>2. PICK c \in S : down[c] \notin S
    BY <2>1 DEF IsList
  <2>3. PICK k \in (i + 1)..j : c = s[k]
    BY <2>2
  <2>4. k \in 2..Len(s)
    BY <1>1, <1>2, <2>3
  <2>5. down[c] = s[k - 1]
    BY <2>3, <2>4 DEF Spells
  <2>6. CASE k = i + 1
    <3>1. s[k - 1] = s[j] /\ j \in (i + 1)..j
      BY <1>2, <2>6
    <3> QED
      BY <3>1, <2>2, <2>5
  <2>7. CASE k # i + 1
    <3>1. k - 1 \in (i + 1)..j
      BY <2>3, <2>7
    <3> QED
      BY <3>1, <2>2, <2>5
  <2> QED
    BY <2>6, <2>7
<1> QED
  BY <1>1, <1>2 DEF IsInjective

\* All of the list is passed on the way up.
LEMMA SpelledAll ==
    ASSUME NEW top, NEW down, NEW up, IsList(top, down, up),
           NEW s, Spells(s, top, down)
    PROVE  \A c \in Coroutines : c \in ToSet(s) <=> c = top \/ up[c] # NoCo
<1> USE CoroutineAssumption
<1>1. s \in Seq(Coroutines) /\ Len(s) \in Nat \ {0} /\ DOMAIN s = 1..Len(s)
      /\ \A i \in 1..Len(s) : s[i] \in Coroutines
  BY DEF Spells
<1>2. \A c : c \in ToSet(s) <=> \E k \in 1..Len(s) : c = s[k]
  BY <1>1 DEF ToSet
<1>3. ASSUME NEW k \in 1..Len(s), k # Len(s)
      PROVE  up[s[k]] = s[k + 1] /\ k + 1 \in 1..Len(s)
  <2>1. k + 1 \in 2..Len(s) /\ (k + 1) - 1 = k
    <3>1. \A n \in Nat : \A m \in 1..n : m # n => m + 1 \in 2..n /\ (m + 1) - 1 = m
      OBVIOUS
    <3> QED
      BY <3>1, <1>1, <1>3, Zenon
  <2>2. down[s[k + 1]] = s[k]
    BY <2>1 DEF Spells
  <2> QED
    BY <1>1, <2>1, <2>2 DEF IsList
<1>4. ASSUME NEW k \in 1..Len(s) PROVE s[k] = top \/ up[s[k]] # NoCo
  <2>1. CASE k = Len(s)
    BY <2>1 DEF Spells
  <2>2. CASE k # Len(s)
    BY <2>2, <1>1, <1>3
  <2> QED
    BY <2>1, <2>2
<1> DEFINE U == {c \in Coroutines : (c = top \/ up[c] # NoCo) /\ c \notin ToSet(s)}
<1>5. ASSUME U # {} PROVE FALSE
  <2>1. U \in (SUBSET Coroutines) \ {{}}
    BY <1>5
  <2>2. PICK c \in U : down[c] \notin U
    BY <2>1 DEF IsList
  <2>3. CASE down[c] = NoCo
    <3>1. s[1] \in Coroutines /\ down[s[1]] = NoCo /\ (s[1] = top \/ up[s[1]] # NoCo)
          /\ s[1] \in ToSet(s)
      BY <1>1, <1>2, <1>4 DEF Spells
    <3>2. c = s[1]
      BY <2>2, <2>3, <3>1 DEF IsList
    <3> QED
      BY <3>1, <3>2, <2>2
  <2>4. CASE down[c] # NoCo
    <3>1. down[c] \in Coroutines /\ up[down[c]] = c /\ c \in Coroutines /\ c # NoCo
      BY <2>2, <2>4 DEF IsList, Pointers
    <3>2. down[c] \in ToSet(s)
      BY <2>2, <3>1
    <3>3. PICK k \in 1..Len(s) : down[c] = s[k]
      BY <1>2, <3>2
    <3>4. k # Len(s)
      BY <3>1, <3>3 DEF Spells, IsList
    <3>5. c = s[k + 1] /\ k + 1 \in 1..Len(s)
      BY <1>3, <3>1, <3>3, <3>4
    <3> QED
      BY <1>2, <2>2, <3>5
  <2> QED
    BY <2>3, <2>4
<1> QED
  BY <1>2, <1>4, <1>5

-----------------------------------------------------------------------------
(* What StackOf computes *)

\* f goes down from the top, and is the null pointer from there on where it ends.
Walks(f, N, top, down) ==
    f = [n \in 0..N |-> IF n = 0 THEN top
                        ELSE IF f[n - 1] = NoCo THEN NoCo ELSE down[f[n - 1]]]

\* What f passes, in the order of the stack.
ReadUp(f, N) ==
    LET depth == Cardinality({n \in 0..N : f[n] # NoCo})
    IN  [i \in 1..depth |-> f[depth - i]]

\* A list is not longer than there are coroutines.
LEMMA SpelledFits ==
    ASSUME NEW s \in Seq(Coroutines), IsInjective(s)
    PROVE  Len(s) <= Cardinality(Coroutines) /\ Cardinality(Coroutines) \in Nat
<1>1. Len(s) \in Nat /\ IsFiniteSet(1..Len(s)) /\ Cardinality(1..Len(s)) = Len(s)
  <2>1. Len(s) \in Nat
    OBVIOUS
  <2>2. Cardinality(1..Len(s)) = IF 1 > Len(s) THEN 0 ELSE Len(s) - 1 + 1
    BY <2>1, FS_Interval
  <2> QED
    BY <2>1, <2>2, FS_Interval
<1>2. IsFiniteSet(Coroutines) /\ Cardinality(Coroutines) \in Nat
  BY CoroutineAssumption, FS_CardinalityType
<1>3. s \in Injection(1..Len(s), Coroutines)
  BY DEF Injection, IsInjective
<1> QED
  BY <1>1, <1>2, <1>3, FS_Injection

\* Whatever walks down the list from the top passes what the sequence spells, ...
LEMMA WalkDown ==
    ASSUME NEW top, NEW down, NEW s, Spells(s, top, down), NEW N \in Nat, Len(s) <= N,
           NEW f, Walks(f, N, top, down)
    PROVE  f = [n \in 0..N |-> IF n < Len(s) THEN s[Len(s) - n] ELSE NoCo]
<1> USE CoroutineAssumption DEF Walks
<1> DEFINE g == [n \in 0..N |-> IF n < Len(s) THEN s[Len(s) - n] ELSE NoCo]
           T == {n \in 0..N : f[n] # g[n]}
<1>1. s \in Seq(Coroutines) /\ Len(s) \in Nat \ {0}
      /\ \A i \in 1..Len(s) : s[i] \in Coroutines
  BY DEF Spells
<1>2. ASSUME T # {} PROVE FALSE
  <2>1. PICK m \in T : \A k \in T : m <= k
    <3>1. T \subseteq Nat
      OBVIOUS
    <3> HIDE DEF T
    <3> QED
      BY <1>2, <3>1, LeastNumber
  <2>2. CASE m = 0
    <3>1. f[0] = top /\ g[0] = s[Len(s)]
      BY <1>1
    <3> QED
      BY <2>1, <2>2, <3>1 DEF Spells
  <2>3. CASE m # 0
    <3>1. m - 1 \in 0..N /\ m \in 0..N /\ ~(m <= m - 1)
      BY <2>3
    <3>2. f[m - 1] = g[m - 1]
      BY <2>1, <3>1
    <3>3. f[m] = IF g[m - 1] = NoCo THEN NoCo ELSE down[g[m - 1]]
      <4>1. f[m] = IF f[m - 1] = NoCo THEN NoCo ELSE down[f[m - 1]]
        <5> HIDE DEF T, g
        <5> QED
          BY <2>3, <3>1
      <4> HIDE DEF g, T
      <4> QED
        BY <3>2, <4>1
    <3>4. CASE m - 1 >= Len(s)
      <4>1. g[m - 1] = NoCo /\ g[m] = NoCo
        BY <1>1, <3>1, <3>4
      <4> QED
        BY <2>1, <3>3, <4>1
    <3>5. CASE m - 1 = Len(s) - 1
      <4>1. g[m - 1] = s[1] /\ g[m] = NoCo
        BY <1>1, <3>1, <3>5
      <4>2. f[m] = NoCo
        BY <1>1, <3>3, <4>1 DEF Spells
      <4> QED
        BY <2>1, <4>1, <4>2
    <3>6. CASE m - 1 < Len(s) - 1
      <4>1. g[m - 1] = s[Len(s) - (m - 1)] /\ g[m] = s[Len(s) - m]
        BY <1>1, <3>1, <3>6
      <4>2. Len(s) - (m - 1) \in 2..Len(s) /\ (Len(s) - (m - 1)) - 1 = Len(s) - m
        BY <1>1, <3>1, <3>6
      <4>3. down[s[Len(s) - (m - 1)]] = s[Len(s) - m] /\ s[Len(s) - (m - 1)] # NoCo
        <5>1. down[s[Len(s) - (m - 1)]] = s[(Len(s) - (m - 1)) - 1]
          BY <4>2 DEF Spells
        <5>2. s[Len(s) - (m - 1)] \in Coroutines
          BY <1>1, <4>2
        <5> QED
          BY <4>2, <5>1, <5>2
      <4> QED
        BY <2>1, <3>3, <4>1, <4>3
    <3> QED
      BY <1>1, <3>1, <3>4, <3>5, <3>6
  <2> QED
    BY <2>2, <2>3
<1>3. \A n \in 0..N : f[n] = g[n]
  BY <1>2
<1>4. f = [n \in 0..N |-> f[n]]
  OBVIOUS
<1> HIDE DEF T
<1> QED
  BY <1>3, <1>4

\* ... and there is one walk.
LEMMA WalkExists ==
    ASSUME NEW top, NEW down, NEW s, Spells(s, top, down), NEW N \in Nat, Len(s) <= N
    PROVE  \E f : Walks(f, N, top, down)
<1> USE CoroutineAssumption
<1> DEFINE f == [n \in 0..N |-> IF n < Len(s) THEN s[Len(s) - n] ELSE NoCo]
<1>1. s \in Seq(Coroutines) /\ Len(s) \in Nat \ {0}
      /\ \A i \in 1..Len(s) : s[i] \in Coroutines
  BY DEF Spells
<1>2. ASSUME NEW n \in 0..N
      PROVE  f[n] = IF n = 0 THEN top
                    ELSE IF f[n - 1] = NoCo THEN NoCo ELSE down[f[n - 1]]
  <2>1. CASE n = 0
    BY <1>1, <2>1 DEF Spells
  <2>2. CASE n # 0 /\ n > Len(s)
    <3>1. n - 1 \in 0..N /\ ~(n - 1 < Len(s)) /\ ~(n < Len(s))
      BY <1>1, <2>2
    <3>2. f[n - 1] = NoCo /\ f[n] = NoCo
      BY <3>1
    <3> QED
      BY <2>2, <3>2
  <2>3. CASE n = Len(s)
    <3>1. n - 1 \in 0..N /\ n - 1 < Len(s) /\ ~(n < Len(s)) /\ Len(s) - (n - 1) = 1
          /\ n # 0
      BY <1>1, <2>3
    <3>2. f[n - 1] = s[1] /\ f[n] = NoCo
      BY <3>1
    <3>3. down[s[1]] = NoCo
      BY DEF Spells
    <3> HIDE DEF f
    <3> QED
      BY <3>1, <3>2, <3>3
  <2>4. CASE n # 0 /\ n < Len(s)
    <3>1. /\ n - 1 \in 0..N /\ n - 1 < Len(s)
          /\ Len(s) - (n - 1) \in 2..Len(s) /\ (Len(s) - (n - 1)) - 1 = Len(s) - n
      BY <1>1, <2>4
    <3>2. f[n - 1] = s[Len(s) - (n - 1)] /\ f[n] = s[Len(s) - n]
      BY <2>4, <3>1
    <3>3. down[s[Len(s) - (n - 1)]] = s[(Len(s) - (n - 1)) - 1]
      BY <3>1 DEF Spells
    <3>4. s[Len(s) - (n - 1)] \in Coroutines
      BY <1>1, <3>1
    <3> HIDE DEF f
    <3> QED
      BY <2>4, <3>1, <3>2, <3>3, <3>4
  <2> QED
    BY <1>1, <2>1, <2>2, <2>3, <2>4
<1>3. f = [n \in 0..N |-> IF n = 0 THEN top
                          ELSE IF f[n - 1] = NoCo THEN NoCo ELSE down[f[n - 1]]]
  <2>1. f = [n \in 0..N |-> f[n]]
    OBVIOUS
  <2> HIDE DEF f
  <2> QED
    BY <1>2, <2>1
<1>4. Walks(f, N, top, down)
  <2> HIDE DEF f
  <2> QED
    BY <1>3 DEF Walks
<1> HIDE DEF f
<1> QED
  BY <1>4

\* Read backwards, the walk down is the sequence.
LEMMA WalkIsSpelled ==
    ASSUME NEW s \in Seq(Coroutines), NEW N \in Nat, Len(s) <= N,
           NEW f, f = [n \in 0..N |-> IF n < Len(s) THEN s[Len(s) - n] ELSE NoCo]
    PROVE  ReadUp(f, N) = s
<1> DEFINE depth == Cardinality({n \in 0..N : f[n] # NoCo})
<1> USE CoroutineAssumption
<1>1. Len(s) \in Nat /\ \A i \in 1..Len(s) : s[i] \in Coroutines
  OBVIOUS
<1>2. \A n \in 0..N : f[n] = IF n < Len(s) THEN s[Len(s) - n] ELSE NoCo
  OBVIOUS
<1>3. {n \in 0..N : f[n] # NoCo} = 0..(Len(s) - 1)
  <2>1. ASSUME NEW n \in 0..N PROVE f[n] # NoCo <=> n \in 0..(Len(s) - 1)
    <3>1. n < Len(s) <=> n \in 0..(Len(s) - 1)
      BY <1>1
    <3>2. n < Len(s) => Len(s) - n \in 1..Len(s)
      BY <1>1
    <3> QED
      BY <1>1, <1>2, <3>1, <3>2
  <2>2. 0..(Len(s) - 1) \subseteq 0..N
    BY <1>1
  <2> QED
    BY <2>1, <2>2
<1>4. depth = Len(s)
  <2>1. \A b \in Int : Cardinality(0..b) = IF 0 > b THEN 0 ELSE b - 0 + 1
    BY FS_Interval
  <2>2. Len(s) - 1 \in Int
    BY <1>1
  <2>3. Cardinality(0..(Len(s) - 1))
        = IF 0 > Len(s) - 1 THEN 0 ELSE (Len(s) - 1) - 0 + 1
    BY <2>1, <2>2, Zenon
  <2>4. depth = IF 0 > Len(s) - 1 THEN 0 ELSE (Len(s) - 1) - 0 + 1
    BY <1>3, <2>3, Zenon
  <2> HIDE DEF depth
  <2> QED
    BY <1>1, <2>4
<1>5. ASSUME NEW i \in 1..Len(s) PROVE f[Len(s) - i] = s[i]
  <2>1. Len(s) - i \in 0..N /\ Len(s) - i < Len(s) /\ Len(s) - (Len(s) - i) = i
    BY <1>1
  <2> QED
    BY <1>2, <2>1
<1>6. s = [i \in 1..Len(s) |-> s[i]]
  OBVIOUS
<1>7. ReadUp(f, N) = [i \in 1..depth |-> f[depth - i]]
  BY DEF ReadUp
<1> HIDE DEF depth
<1> QED
  BY <1>4, <1>5, <1>6, <1>7

\* So StackOf, which walks down the links, is the sequence that spells the list.
LEMMA WalkOf ==
    ASSUME NEW top, NEW down, NEW up, IsList(top, down, up),
           NEW s, Spells(s, top, down)
    PROVE  ReadUp(CHOOSE f : Walks(f, Cardinality(Coroutines), top, down),
                  Cardinality(Coroutines)) = s
<1> DEFINE N == Cardinality(Coroutines)
           f == CHOOSE g : Walks(g, N, top, down)
<1>1. s \in Seq(Coroutines) /\ IsInjective(s)
  BY SpelledOnce DEF Spells
<1>2. N \in Nat /\ Len(s) <= N
  BY <1>1, SpelledFits
<1> HIDE DEF N
<1>3. Walks(f, N, top, down)
  BY <1>2, WalkExists
<1> HIDE DEF f
<1>4. f = [n \in 0..N |-> IF n < Len(s) THEN s[Len(s) - n] ELSE NoCo]
  BY <1>2, <1>3, WalkDown
<1>5. ReadUp(f, N) = s
  BY <1>1, <1>2, <1>4, WalkIsSpelled
<1> QED
  BY <1>5 DEF f, N

LEMMA StackIs ==
    ASSUME Shape, NEW s, Spells(s, current, previous)
    PROVE  StackOf = s
<1> DEFINE N == Cardinality(Coroutines)
<1>1. Below = CHOOSE f : Walks(f, N, current, previous)
  BY DEF Below, Walks
<1>2. StackOf = ReadUp(Below, N)
  BY DEF StackOf, Depth, ReadUp
<1>3. IsList(current, previous, next)
  BY ShapeIsList
<1> HIDE DEF N
<1> QED
  BY <1>1, <1>2, <1>3, WalkOf DEF N

LEMMA NextStackIs ==
    ASSUME Shape', NEW s, Spells(s, current', previous')
    PROVE  StackOf' = s
<1> DEFINE N == Cardinality(Coroutines)
<1>1. Below' = CHOOSE f : Walks(f, N, current', previous')
  BY DEF Below, Walks
<1>2. StackOf' = ReadUp(Below', N)
  BY DEF StackOf, Depth, ReadUp
<1>3. IsList(current', previous', next')
  BY NextShapeIsList
<1> HIDE DEF N
<1> QED
  BY <1>1, <1>2, <1>3, WalkOf DEF N

LEMMA ControlOperators ==
    /\ Abstract!OnStack = ToSet(StackOf)
    /\ Abstract!Top = Last(StackOf)
    /\ \A q : Abstract!Front(q) = Front(q)
    /\ \A q, x : Abstract!Without(q, x) = Without(q, x)
    /\ \A q : Abstract!Last(q) = Last(q)
<1>1. Abstract!OnStack = ToSet(StackOf)
  BY DEF Abstract!OnStack, Abstract!ToSet, ToSet
<1>2. \A q : Abstract!Last(q) = Last(q) /\ Abstract!Front(q) = Front(q)
  BY DEF Abstract!Last, Last, Abstract!Front, Front
<1>3. Abstract!Top = Last(StackOf)
  BY DEF Abstract!Top, Abstract!Last, Last
<1>4. \A q, x : Abstract!Without(q, x) = Without(q, x)
  BY DEF Abstract!Without, Without, Abstract!RemoveAt, RemoveAt, Abstract!ToSet, ToSet
<1> QED
  BY <1>1, <1>2, <1>3, <1>4

-----------------------------------------------------------------------------
(* The steps *)

\* There is a sequence that spells the list, and so StackOf is it.
Spelled == Spells(StackOf, current, previous)

LEMMA StackFacts ==
    ASSUME Shape, Spelled
    PROVE  /\ StackOf \in Seq(Coroutines) /\ StackOf # <<>> /\ IsInjective(StackOf)
           /\ Len(StackOf) \in Nat \ {0} /\ 1 \in 1..Len(StackOf)
           /\ Len(StackOf) \in 1..Len(StackOf)
           /\ StackOf[Len(StackOf)] = current /\ Last(StackOf) = current
           /\ \A c \in Coroutines : c \in ToSet(StackOf) <=> InList(c)
           /\ ToSet(StackOf) \subseteq Live
           /\ current \in ToSet(StackOf)
           /\ ParkedOf = Live \ ToSet(StackOf)
<1> USE CoroutineAssumption
<1>1. /\ StackOf \in Seq(Coroutines) /\ StackOf # <<>>
      /\ Len(StackOf) \in Nat \ {0} /\ 1 \in 1..Len(StackOf)
      /\ Len(StackOf) \in 1..Len(StackOf)
      /\ StackOf[Len(StackOf)] = current /\ Last(StackOf) = current
  BY DEF Spelled, Spells, Last
<1>2. IsInjective(StackOf)
  BY ShapeIsList, SpelledOnce DEF Spelled
<1>3. \A c \in Coroutines : c \in ToSet(StackOf) <=> InList(c)
  BY ShapeIsList, SpelledAll DEF Spelled, InList
<1>4. \A c \in Coroutines : InList(c) => c \in Live
  BY DEF InList, Shape, TypeOK, OneRunning, OneList, Answered, NoDanglingLink, Pointers
<1>5. ToSet(StackOf) \subseteq Coroutines
  BY <1>1 DEF ToSet
<1>6. current \in Coroutines /\ InList(current)
  BY DEF Shape, TypeOK, InList
<1>7. ParkedOf = Live \ ToSet(StackOf)
  BY <1>3 DEF ParkedOf, Live
<1> QED
  BY <1>1, <1>2, <1>3, <1>4, <1>5, <1>6, <1>7

LEMMA NextStackFacts ==
    ASSUME Shape', NEW s, Spells(s, current', previous')
    PROVE  /\ StackOf' = s /\ Spelled'
           /\ ParkedOf' = Live' \ ToSet(s)
<1>1. StackOf' = s
  BY NextStackIs
<1>2. \A c \in Coroutines : c \in ToSet(s) <=> InList(c)'
  BY NextShapeIsList, SpelledAll DEF InList
<1> QED
  BY <1>1, <1>2 DEF ParkedOf, Live, Spelled

\* Who has not begun has no links.
LEMMA StrangersHaveNoLinks ==
    ASSUME Shape, NEW c \in Coroutines, c \notin started
    PROVE  previous[c] = NoCo /\ next[c] = NoCo /\ c # current
BY CoroutineAssumption
   DEF Shape, TypeOK, OneRunning, OneList, Answered, NoDanglingLink, Pointers

\* A resume takes c out of the sequence and puts it at the end.
LEMMA ResumeSpelled ==
    ASSUME Shape, Spelled, NEW c \in Coroutines, c # current, Link(c), current' = c
    PROVE  Spells(Append(Without(StackOf, c), c), current', previous')
<1> USE CoroutineAssumption
<1> DEFINE s == StackOf
           w == Without(s, c)
           n == Len(w)
           t == Append(w, c)
<1>1. /\ s \in Seq(Coroutines) /\ IsInjective(s) /\ Len(s) \in Nat \ {0}
      /\ s[Len(s)] = current /\ previous[s[1]] = NoCo
      /\ \A i \in 2..Len(s) : previous[s[i]] = s[i - 1]
      /\ \A d \in Coroutines : d \in ToSet(s) <=> InList(d)
      /\ \A i \in 1..Len(s) : s[i] \in Coroutines
  BY StackFacts DEF Spelled, Spells
<1>2. /\ previous'[c] = current
      /\ \A d \in Coroutines \ {c} :
            previous'[d] = IF d = next[c] THEN previous[c] ELSE previous[d]
  BY DEF Link
<1>3. \A i, j \in 1..Len(s) : s[i] = s[j] => i = j
  BY <1>1 DEF IsInjective
<1> HIDE DEF s
<1>4. /\ w \in Seq(Coroutines) /\ n \in Nat \ {0}
      /\ w[n] = current /\ previous'[w[1]] = NoCo
      /\ \A i \in 2..n : previous'[w[i]] = w[i - 1]
  <2>1. CASE c \notin ToSet(s)
    <3>1. w = s
      BY <2>1, WithoutStranger
    <3>2. next[c] = NoCo
      BY <1>1, <2>1 DEF InList
    <3>3. ASSUME NEW i \in 1..Len(s) PROVE previous'[s[i]] = previous[s[i]]
      <4>1. s[i] # c /\ s[i] \in Coroutines
        BY <1>1, <2>1 DEF ToSet
      <4> QED
        BY <1>2, <3>2, <4>1
    <3>4. 1 \in 1..Len(s) /\ \A i \in 2..Len(s) : i \in 1..Len(s)
      BY <1>1
    <3> HIDE DEF w
    <3> QED
      BY <1>1, <3>1, <3>3, <3>4
  <2>2. CASE c \in ToSet(s)
    <3>1. PICK k \in 1..Len(s) : s[k] = c
      BY <2>2, <1>1 DEF ToSet
    <3>2. /\ w \in Seq(Coroutines) /\ n = Len(s) - 1
          /\ \A i \in 1..(Len(s) - 1) : w[i] = IF i < k THEN s[i] ELSE s[i + 1]
      BY <1>1, <3>1, WithoutAt
    <3> HIDE DEF w, n
    <3>3. k < Len(s) /\ n \in Nat \ {0} /\ k \in Nat \ {0} /\ n + 1 = Len(s)
      <4>1. k # Len(s)
        BY <1>1, <3>1
      <4> QED
        BY <1>1, <3>2, <4>1
    <3>4. next[c] = s[k + 1]
      <4>1. k + 1 \in 2..Len(s) /\ (k + 1) - 1 = k
        BY <1>1, <3>3
      <4>2. previous[s[k + 1]] = c /\ s[k + 1] \in Coroutines
        BY <1>1, <3>1, <4>1
      <4> QED
        BY <4>2 DEF Shape, OneList, Answered
    <3>5. ASSUME NEW i \in 1..Len(s), i # k, i # k + 1
          PROVE  previous'[s[i]] = previous[s[i]]
      <4>1. k + 1 \in 1..Len(s)
        BY <1>1, <3>3
      <4>2. s[i] # c /\ s[i] # s[k + 1] /\ s[i] \in Coroutines
        BY <1>1, <1>3, <3>1, <3>5, <4>1
      <4> QED
        BY <1>2, <3>4, <4>2
    <3>6. previous'[s[k + 1]] = previous[c]
      <4>1. k + 1 \in 1..Len(s) /\ k + 1 # k
        BY <1>1, <3>3
      <4>2. s[k + 1] # c /\ s[k + 1] \in Coroutines
        BY <1>1, <1>3, <3>1, <4>1
      <4> QED
        BY <1>2, <3>4, <4>2
    <3>7. w[n] = current
      <4>1. n \in 1..(Len(s) - 1) /\ ~(n < k) /\ n + 1 = Len(s)
        BY <1>1, <3>2, <3>3
      <4> QED
        BY <1>1, <3>2, <4>1
    <3>8. previous'[w[1]] = NoCo
      <4>1. CASE k = 1
        <5>1. 1 \in 1..(Len(s) - 1) /\ ~(1 < k) /\ 1 + 1 = k + 1
          BY <1>1, <3>3, <4>1
        <5>2. w[1] = s[k + 1] /\ previous[c] = NoCo
          BY <1>1, <3>1, <3>2, <4>1, <5>1
        <5> QED
          BY <3>6, <5>2
      <4>2. CASE k # 1
        <5>1. 1 \in 1..(Len(s) - 1) /\ 1 < k /\ 1 \in 1..Len(s) /\ 1 # k /\ 1 # k + 1
          BY <1>1, <3>3, <4>2
        <5>2. w[1] = s[1]
          BY <3>2, <5>1
        <5> QED
          BY <1>1, <3>5, <5>1, <5>2
      <4> QED
        BY <4>1, <4>2
    <3>9. ASSUME NEW i \in 2..n PROVE previous'[w[i]] = w[i - 1]
      <4>1. i \in 1..(Len(s) - 1) /\ i - 1 \in 1..(Len(s) - 1) /\ i \in 2..Len(s)
            /\ i \in 1..Len(s) /\ (i - 1) + 1 = i
        BY <1>1, <3>2, <3>3
      <4>2. CASE i < k
        <5>1. i - 1 < k /\ i # k /\ i # k + 1
          BY <3>3, <4>2
        <5>2. w[i] = s[i] /\ w[i - 1] = s[i - 1]
          BY <3>2, <4>1, <4>2, <5>1
        <5> QED
          BY <1>1, <3>5, <4>1, <5>1, <5>2
      <4>3. CASE i = k
        <5>1. ~(i < k) /\ i - 1 < k
          BY <3>3, <4>3
        <5>2. w[i] = s[k + 1] /\ w[i - 1] = s[i - 1]
          BY <3>2, <4>1, <4>3, <5>1
        <5>3. previous[c] = s[i - 1]
          BY <1>1, <3>1, <4>1, <4>3
        <5> QED
          BY <3>6, <5>2, <5>3
      <4>4. CASE i > k
        <5>1. ~(i < k) /\ ~(i - 1 < k) /\ i + 1 # k /\ i + 1 # k + 1 /\ (i + 1) - 1 = i
              /\ i + 1 \in 2..Len(s) /\ i + 1 \in 1..Len(s)
          BY <3>2, <3>3, <4>4
        <5>2. w[i] = s[i + 1] /\ w[i - 1] = s[i]
          BY <3>2, <4>1, <5>1
        <5> QED
          BY <1>1, <3>5, <5>1, <5>2
      <4> QED
        BY <3>3, <4>1, <4>2, <4>3, <4>4
    <3> QED
      BY <3>2, <3>3, <3>7, <3>8, <3>9
  <2> QED
    BY <2>1, <2>2
<1> HIDE DEF w, n
<1>5. /\ t \in Seq(Coroutines) /\ t # <<>> /\ Len(t) = n + 1 /\ t[n + 1] = c
      /\ \A i \in 1..n : t[i] = w[i]
  BY <1>4 DEF n
<1> HIDE DEF t
<1>6. previous'[t[1]] = NoCo
  <2>1. 1 \in 1..n
    BY <1>4
  <2> QED
    BY <1>4, <1>5, <2>1
<1>7. ASSUME NEW i \in 2..Len(t) PROVE previous'[t[i]] = t[i - 1]
  <2>1. CASE i = n + 1
    <3>1. i - 1 = n /\ n \in 1..n
      BY <1>4, <2>1
    <3> QED
      BY <1>2, <1>4, <1>5, <2>1, <3>1
  <2>2. CASE i # n + 1
    <3>1. i \in 2..n /\ i \in 1..n /\ i - 1 \in 1..n
      BY <1>4, <1>5, <2>2
    <3> QED
      BY <1>4, <1>5, <3>1
  <2> QED
    BY <2>1, <2>2
<1>8. Spells(t, current', previous')
  BY <1>4, <1>5, <1>6, <1>7 DEF Spells
<1> QED
  BY <1>8 DEF t, w, s

\* Where nobody lies below, the sequence is the current coroutine alone.
LEMMA AloneOrOnTop ==
    ASSUME Shape, Spelled
    PROVE  /\ Len(StackOf) > 1 <=> previous[current] # NoCo
           /\ Len(StackOf) > 1 => previous[current] = StackOf[Len(StackOf) - 1]
           /\ ~(Len(StackOf) > 1) => ToSet(StackOf) = {current}
<1> USE CoroutineAssumption
<1>1. CASE Len(StackOf) > 1
  <2>1. Len(StackOf) \in 2..Len(StackOf) /\ Len(StackOf) - 1 \in 1..Len(StackOf)
    BY <1>1, StackFacts
  <2>2. previous[current] = StackOf[Len(StackOf) - 1]
    BY <2>1, StackFacts DEF Spelled, Spells
  <2>3. StackOf[Len(StackOf) - 1] \in Coroutines
    BY <2>1, StackFacts
  <2> QED
    BY <1>1, <2>2, <2>3
<1>2. CASE ~(Len(StackOf) > 1)
  <2>1. Len(StackOf) = 1
    <3>1. \A n \in Nat \ {0} : ~(n > 1) => n = 1
      OBVIOUS
    <3> QED
      BY <1>2, <3>1, StackFacts, Zenon
  <2>2. previous[current] = NoCo
    BY <2>1, StackFacts DEF Spelled, Spells
  <2>3. ToSet(StackOf) = {current}
    BY <2>1, StackFacts DEF ToSet
  <2> QED
    BY <1>2, <2>2, <2>3
<1> QED
  BY <1>1, <1>2

\* A yield and an end cut the sequence, or start a new one at the scheduler.
LEMMA BackSpelled ==
    ASSUME Shape, Spelled, YieldTarget # NoCo, Unlink(YieldTarget), current' = YieldTarget
    PROVE  Spells(IF Len(StackOf) > 1 THEN Front(StackOf) ELSE <<scheduler>>,
                  current', previous')
<1> USE CoroutineAssumption
<1>1. CASE Len(StackOf) > 1
  <2> DEFINE s == StackOf
             f == Front(s)
  <2>1. /\ s \in Seq(Coroutines) /\ s # <<>> /\ IsInjective(s)
        /\ Len(s) \in Nat \ {0} /\ s[Len(s)] = current /\ previous[s[1]] = NoCo
        /\ \A i \in 2..Len(s) : previous[s[i]] = s[i - 1]
        /\ \A i \in 1..Len(s) : s[i] \in Coroutines
    BY StackFacts DEF Spelled, Spells
  <2>2. /\ f \in Seq(Coroutines) /\ Len(f) = Len(s) - 1
        /\ \A i \in 1..(Len(s) - 1) : f[i] = s[i]
    BY <2>1, FrontProperties
  <2>3. current' = s[Len(s) - 1]
    BY <1>1, AloneOrOnTop DEF YieldTarget
  <2> HIDE DEF s, f
  <2>4. ASSUME NEW i \in 1..(Len(s) - 1) PROVE previous'[s[i]] = previous[s[i]]
    <3>1. i \in 1..Len(s) /\ i # Len(s) /\ Len(s) \in 1..Len(s)
      BY <2>1
    <3>2. s[i] # current /\ s[i] \in Coroutines
      BY <2>1, <3>1 DEF IsInjective
    <3> QED
      BY <3>2 DEF Unlink, Shape, TypeOK
  <2>5. Len(s) - 1 \in 1..(Len(s) - 1) /\ 1 \in 1..(Len(s) - 1)
    BY <1>1, <2>1 DEF s
  <2>6. f[Len(f)] = current' /\ previous'[f[1]] = NoCo
    BY <2>1, <2>2, <2>3, <2>4, <2>5
  <2>7. ASSUME NEW i \in 2..Len(f) PROVE previous'[f[i]] = f[i - 1]
    <3>1. i \in 1..(Len(s) - 1) /\ i - 1 \in 1..(Len(s) - 1) /\ i \in 2..Len(s)
      BY <2>1, <2>2
    <3> QED
      BY <2>1, <2>2, <2>4, <3>1
  <2>8. f # <<>>
    BY <2>2, <2>5
  <2>9. Spells(f, current', previous')
    BY <2>2, <2>6, <2>7, <2>8 DEF Spells
  <2> QED
    BY <1>1, <2>9 DEF f, s
<1>2. CASE ~(Len(StackOf) > 1)
  <2>1. previous[current] = NoCo /\ scheduler = YieldTarget /\ scheduler # current
    BY <1>2, AloneOrOnTop DEF YieldTarget
  <2>2. scheduler \in Coroutines
    BY <2>1 DEF Shape, TypeOK, Pointers
  <2>3. previous[scheduler] = NoCo
    BY <2>1, YieldTargetWaits
  <2>4. previous'[scheduler] = NoCo
    BY <2>1, <2>2, <2>3 DEF Unlink, Shape, TypeOK
  <2>5. Spells(<<scheduler>>, current', previous')
    BY <2>1, <2>2, <2>4 DEF Spells
  <2> QED
    BY <1>2, <2>5
<1> QED
  BY <1>1, <1>2

LEMMA BackIsBack ==
    ASSUME Shape, Spelled, Shape', YieldTarget # NoCo, Unlink(YieldTarget),
           current' = YieldTarget, current # scheduler, UNCHANGED scheduler,
           Live' \cup {current} = Live
    PROVE  /\ Spelled'
           /\ Live' = Live => Abstract!Leave
           /\ Live' = Live \ {current} /\ current # Main => Abstract!End
<1> DEFINE s == StackOf
           t == IF Len(s) > 1 THEN Front(s) ELSE <<scheduler>>
<1>1. /\ s \in Seq(Coroutines) /\ s # <<>> /\ IsInjective(s) /\ Last(s) = current
      /\ ToSet(s) \subseteq Live /\ current \in ToSet(s) /\ ParkedOf = Live \ ToSet(s)
  BY StackFacts
<1>2. s' = t /\ Spelled' /\ ParkedOf' = Live' \ ToSet(t)
  <2>1. Spells(t, current', previous')
    BY BackSpelled
  <2> HIDE DEF t
  <2> QED
    BY <2>1, NextStackFacts
<1>3. ASSUME NEW rest, rest = Live' \ (ToSet(s) \ {current})
      PROVE  Abstract!Back(rest)
  <2>1. CASE Len(s) > 1
    <3>1. s' = Front(s) /\ ParkedOf' = Live' \ ToSet(Front(s))
      BY <1>2, <2>1
    <3>2. ToSet(Front(s)) = ToSet(s) \ {current}
      BY <1>1, FrontProperties
    <3> HIDE DEF s, t
    <3>3. ParkedOf' = rest
      BY <1>3, <3>1, <3>2
    <3> QED
      BY <1>1, <2>1, <3>1, <3>3, ControlOperators DEF Abstract!Back, s
  <2>2. CASE ~(Len(s) > 1)
    <3>1. s' = <<scheduler>> /\ ParkedOf' = Live' \ {scheduler}
      <4>1. t = <<scheduler>>
        BY <2>2
      <4>2. scheduler \in Coroutines
        BY <2>2, AloneOrOnTop DEF YieldTarget, Shape, TypeOK, Pointers
      <4>3. ToSet(<<scheduler>>) = {scheduler}
        BY <4>2, SingleProperties
      <4> QED
        BY <1>2, <4>1, <4>3
    <3>2. ToSet(s) = {current} /\ scheduler \in Live
      BY <2>2, AloneOrOnTop DEF YieldTarget, Shape, Lasting, OneRunning
    <3> HIDE DEF s, t
    <3>3. scheduler \in ParkedOf /\ ParkedOf' = rest \ {scheduler}
      BY <1>1, <1>3, <3>1, <3>2
    <3> QED
      BY <1>1, <2>2, <3>1, <3>3, ControlOperators DEF Abstract!Back, s
  <2> QED
    BY <2>1, <2>2
<1>4. ASSUME Live' = Live PROVE Abstract!Leave
  <2>1. ParkedOf \cup {Abstract!Top} = Live' \ (ToSet(s) \ {current})
    BY <1>1, <1>4, ControlOperators
  <2> QED
    BY <1>3, <2>1 DEF Abstract!Leave
<1>5. ASSUME Live' = Live \ {current}, current # Main PROVE Abstract!End
  <2>1. ParkedOf = Live' \ (ToSet(s) \ {current})
    BY <1>1, <1>5
  <2> QED
    BY <1>1, <1>3, <1>5, <2>1, ControlOperators DEF Abstract!End
<1> QED
  BY <1>2, <1>4, <1>5

\* Changes outside the list.
LEMMA ListStays ==
    ASSUME Shape, Spelled, Shape', UNCHANGED <<current, previous>>
    PROVE  Spelled' /\ StackOf' = StackOf /\ ParkedOf' = Live' \ ToSet(StackOf)
<1>1. Spells(StackOf, current', previous')
  BY DEF Spelled
<1> QED
  BY <1>1, NextStackFacts

\* Where everybody has begun and ended but the main coroutine and the scheduler, the
\* sequence without the scheduler is the main coroutine.
LEMMA CloseSpelled ==
    ASSUME IInv, Spelled, SchedulerClose
    PROVE  /\ Without(StackOf, scheduler) = <<Main>>
           /\ Spells(<<Main>>, current', previous')
           /\ ToSet(StackOf) \cup {scheduler} = {Main, scheduler}
<1> USE CoroutineAssumption
<1> DEFINE w == Without(StackOf, scheduler)
<1>1. /\ current = Main /\ scheduler # NoCo /\ scheduler # Main /\ count = 1
      /\ started \subseteq {Main, scheduler} /\ Shape
  <2>1. Shape /\ CountIsExact
    BY DEF IInv
  <2> QED
    BY <2>1, OnlyMainLeft DEF SchedulerClose, Shape, Lasting
<1>2. ToSet(StackOf) \subseteq {Main, scheduler} /\ Main \in ToSet(StackOf)
  <2>1. \A c \in Coroutines : InList(c) => c \in started
    BY <1>1 DEF InList, Shape, TypeOK, OneRunning, OneList, Answered, NoDanglingLink,
                Pointers
  <2>2. \A c \in ToSet(StackOf) : c \in Coroutines
    BY <1>1, StackFacts DEF Live
  <2>3. \A c \in Coroutines : c \in ToSet(StackOf) <=> InList(c)
    BY <1>1, StackFacts
  <2>4. current \in ToSet(StackOf)
    BY <1>1, StackFacts
  <2> QED
    BY <1>1, <2>1, <2>2, <2>3, <2>4
<1>3. w \in Seq(Coroutines) /\ IsInjective(w) /\ ToSet(w) = {Main}
  <2>1. StackOf \in Seq(Coroutines) /\ IsInjective(StackOf)
    BY <1>1, StackFacts
  <2>2. CASE scheduler \in ToSet(StackOf)
    BY <1>1, <1>2, <2>1, <2>2, WithoutProperties
  <2>3. CASE scheduler \notin ToSet(StackOf)
    BY <1>1, <1>2, <2>1, <2>3, WithoutStranger
  <2> QED
    BY <2>2, <2>3
<1> HIDE DEF w
<1>4. w = <<Main>>
  <2>1. w # <<>> /\ DOMAIN w = 1..Len(w) /\ Len(w) \in Nat
    BY <1>3, EmptyQueue
  <2>2. \A i \in 1..Len(w) : w[i] = Main
    BY <1>3 DEF ToSet
  <2>3. 1 \in 1..Len(w) /\ Len(w) \in 1..Len(w)
    BY <1>3, <2>1
  <2>4. Len(w) = 1
    BY <1>3, <2>1, <2>2, <2>3, Zenon DEF IsInjective
  <2> QED
    BY <1>3, <2>2, <2>4
<1>5. current' = Main /\ previous'[Main] = NoCo
  <2>1. previous[Main] # NoCo => previous[Main] = scheduler
    BY <1>1 DEF Shape, TypeOK, OneList, Answered, NoDanglingLink, OneTop, Pointers
  <2> QED
    BY <1>1, <2>1 DEF SchedulerClose, Shape, TypeOK, Pointers
<1>6. Spells(<<Main>>, current', previous')
  BY <1>5 DEF Spells
<1> QED
  BY <1>2, <1>4, <1>6 DEF w

\* A sequence that spells the list is there in every reachable state.
RInv == IInv /\ Spelled

LEMMA SpelledInit == Init => RInv /\ Abstract!Init
<1> SUFFICES ASSUME Init PROVE RInv /\ Abstract!Init
  OBVIOUS
<1> USE CoroutineAssumption
<1>1. IInv
  <2>1. started \ {scheduler} = {Main}
    BY DEF Init
  <2> QED
    BY <2>1, ShapeInit, FS_Singleton DEF Init, CountIsExact, IInv
<1>2. Spells(<<Main>>, current, previous)
  BY DEF Init, Spells
<1>3. StackOf = <<Main>>
  BY <1>1, <1>2, StackIs DEF IInv
<1>4. Spelled /\ ParkedOf = {}
  BY <1>2, <1>3 DEF Spelled, ParkedOf, Live, InList, Init
<1> QED
  BY <1>1, <1>3, <1>4 DEF RInv, Abstract!Init, Init

LEMMA SpelledStep ==
    ASSUME RInv, [Next]_vars
    PROVE  RInv' /\ (Abstract!Next \/ UNCHANGED <<StackOf, ParkedOf, scheduler>>)
<1> USE CoroutineAssumption
<1> DEFINE Step == Abstract!Next \/ UNCHANGED <<StackOf, ParkedOf, scheduler>>
<1>1. IInv /\ Shape /\ Spelled /\ IInv' /\ Shape'
  BY ShapeStep, CountStep DEF RInv, IInv
<1>2. /\ StackOf \in Seq(Coroutines) /\ IsInjective(StackOf) /\ Last(StackOf) = current
      /\ ToSet(StackOf) \subseteq Live /\ ParkedOf = Live \ ToSet(StackOf)
      /\ current \in Coroutines /\ current \in Live
  <2>1. current \in Coroutines
    BY <1>1 DEF Shape, TypeOK
  <2> QED
    BY <1>1, <2>1, StackFacts
<1>3. ASSUME UNCHANGED <<current, previous, scheduler, state>>
      PROVE  Spelled' /\ Step
  <2>1. Live' = Live
    BY <1>3 DEF Live
  <2> QED
    BY <1>1, <1>2, <1>3, <2>1, ListStays
<1>4. ASSUME NEW c \in Coroutines, Create(c) \/ SchedulerRun(c) PROVE Spelled' /\ Step
  <2>1. c \notin Live /\ Live' = Live \cup {c} /\ c \notin started
    BY <1>1, <1>4 DEF Create, SchedulerRun, Live, Shape, TypeOK, OneRunning
  <2>2. UNCHANGED <<current, previous>>
    <3>1. previous[c] = NoCo
      BY <1>1, <2>1, StrangersHaveNoLinks
    <3> QED
      BY <1>1, <1>4, <3>1 DEF Create, SchedulerRun, globals, Shape, TypeOK
  <2>3. Spelled' /\ StackOf' = StackOf /\ ParkedOf' = ParkedOf \cup {c}
        /\ c \notin ToSet(StackOf) \cup ParkedOf
    BY <1>1, <1>2, <2>1, <2>2, ListStays
  <2>4. CASE Create(c)
    <3>1. Abstract!Spawn(c)
      BY <2>3, <2>4, ControlOperators DEF Abstract!Spawn, Create, globals
    <3> QED
      BY <2>3, <3>1 DEF Abstract!Next
  <2>5. CASE SchedulerRun(c)
    <3>1. Abstract!Install(c)
      BY <2>3, <2>5, ControlOperators DEF Abstract!Install, SchedulerRun
    <3> QED
      BY <2>3, <3>1 DEF Abstract!Next
  <2> QED
    BY <1>4, <2>4, <2>5
<1>5. ASSUME NEW c \in Coroutines, Close(c) PROVE Spelled' /\ Step
  <2>1. /\ Live' = Live \ {c} /\ c \in Live /\ c \notin started /\ c # scheduler
        /\ UNCHANGED <<current, previous, scheduler>>
    BY <1>1, <1>5 DEF Close, globals, links, Live, Shape, TypeOK, Lasting
  <2>2. c \notin ToSet(StackOf)
    BY <1>1, <2>1, StackFacts, StrangersHaveNoLinks DEF InList
  <2>3. Spelled' /\ StackOf' = StackOf /\ ParkedOf' = ParkedOf \ {c} /\ c \in ParkedOf
    BY <1>1, <1>2, <2>1, <2>2, ListStays
  <2>4. Abstract!Discard(c)
    BY <2>1, <2>3 DEF Abstract!Discard
  <2> QED
    BY <2>3, <2>4 DEF Abstract!Next
<1>6. ASSUME NEW c \in Coroutines, NEW retval \in BOOLEAN, Resume(c, retval)
      PROVE  Spelled' /\ Step
  <2> DEFINE t == Append(Without(StackOf, c), c)
  <2>1. /\ c # current /\ c \in Live /\ Live' = Live /\ Link(c) /\ current' = c
        /\ (c = scheduler => SchedulerExposed) /\ scheduler' = scheduler
    BY <1>1, <1>6 DEF Resume, Jump, IsResumable, Live, Shape, TypeOK, OneRunning
  <2>2. Spells(t, current', previous')
    BY <1>1, <2>1, ResumeSpelled
  <2>3. ToSet(t) = ToSet(StackOf) \cup {c}
    BY <1>2, MoveToEnd
  <2>4. Spelled' /\ StackOf' = t /\ ParkedOf' = Live' \ ToSet(t)
    <3> HIDE DEF t
    <3> QED
      BY <1>1, <2>2, NextStackFacts
  <2>5. ParkedOf' = ParkedOf \ {c}
    BY <1>2, <2>1, <2>3, <2>4
  <2>6. c \in (ToSet(StackOf) \cup ParkedOf) \ {Last(StackOf)}
    BY <1>2, <2>1
  <2>7. Abstract!Enter(c)
    BY <2>1, <2>4, <2>5, <2>6, ControlOperators DEF Abstract!Enter
  <2> QED
    BY <2>4, <2>7 DEF Abstract!Next
<1>7. ASSUME NEW retval \in BOOLEAN, Yield(retval) PROVE Spelled' /\ Step
  <2>1. /\ YieldTarget # NoCo /\ Unlink(YieldTarget) /\ current' = YieldTarget
        /\ current # scheduler /\ UNCHANGED scheduler /\ Live' = Live
    <3>1. state[YieldTarget] = "waiting"
      BY <1>1, <1>7, YieldTargetWaits DEF Yield
    <3> QED
      BY <1>1, <1>2, <1>7, <3>1 DEF Yield, Jump, Live, Shape, TypeOK
  <2>2. Spelled' /\ Abstract!Leave
    BY <1>1, <1>2, <2>1, BackIsBack
  <2> QED
    BY <2>2 DEF Abstract!Next
<1>8. ASSUME Finish PROVE Spelled' /\ Step
  <2>1. /\ YieldTarget # NoCo /\ Unlink(YieldTarget) /\ current' = YieldTarget
        /\ current # scheduler /\ UNCHANGED scheduler /\ Live' = Live \ {current}
        /\ current # Main
    <3>1. state[YieldTarget] = "waiting" /\ YieldTarget # current
      BY <1>1, <1>8, YieldTargetWaits DEF Finish
    <3> QED
      BY <1>1, <1>2, <1>8, <3>1 DEF Finish, JumpDead, Live, Shape, TypeOK
  <2>2. Spelled' /\ Abstract!End
    BY <1>1, <1>2, <2>1, BackIsBack
  <2> QED
    BY <2>2 DEF Abstract!Next
<1>9. ASSUME SchedulerClose PROVE Spelled' /\ Step
  <2>1. /\ Without(StackOf, scheduler) = <<Main>> /\ Spells(<<Main>>, current', previous')
        /\ ToSet(StackOf) \cup {scheduler} = {Main, scheduler}
    BY <1>1, <1>9, CloseSpelled
  <2>2. ToSet(<<Main>>) = {Main} /\ Last(<<Main>>) = Main /\ <<Main>> # <<>>
    BY SingleProperties
  <2>3. Spelled' /\ StackOf' = <<Main>> /\ ParkedOf' = Live' \ {Main}
    BY <1>1, <2>1, <2>2, NextStackFacts
  <2>4. scheduler # NoCo /\ scheduler' = NoCo /\ Live' = Live \ {scheduler}
    BY <1>1, <1>9 DEF SchedulerClose, Live, Shape, TypeOK
  <2>5. ParkedOf' = ParkedOf \ {scheduler}
    BY <1>2, <2>1, <2>3, <2>4
  <2>6. Abstract!Uninstall
    BY <2>1, <2>2, <2>3, <2>4, <2>5, ControlOperators DEF Abstract!Uninstall
  <2> QED
    BY <2>3, <2>6 DEF Abstract!Next
<1> HIDE DEF Step
<1>10. ASSUME SwitchDeny \/ SwitchAllow \/ UNCHANGED vars PROVE Spelled' /\ Step
  BY <1>3, <1>10 DEF SwitchDeny, SwitchAllow, links, vars
<1>11. Spelled' /\ Step
  BY <1>4, <1>5, <1>6, <1>7, <1>8, <1>9, <1>10, Zenon DEF Next
<1> QED
  BY <1>1, <1>11 DEF RInv, Step

\* Seen through the links, control is the call stack of CallStack, whatever cross
\* resumes, yields and ends came before (cat_coroutine_resume, cat_coroutine_yield).
THEOREM LinksImplementCallStack == Spec => ImplementsCallStack
<1>1. RInv /\ [Next]_vars => RInv' /\ [Abstract!Next]_(Abstract!vars)
  BY SpelledStep DEF Abstract!vars
<1> QED
  BY <1>1, SpelledInit, PTL DEF Spec, ImplementsCallStack, Abstract!Spec
=============================================================================
