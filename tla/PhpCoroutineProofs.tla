-------------------------- MODULE PhpCoroutineProofs --------------------------
(***************************************************************************)
(* For any set of coroutines and any bounds on ids and steps, the          *)
(* invariants of PhpCoroutine.tla hold in every reachable state.           *)
(*                                                                         *)
(* Every switch moves a living coroutine to the end of the stack or takes  *)
(* the last one off it, so that three lemmas about the stack carry most of *)
(* the proof (Moved, Uncovered, SameBelow).  A victim stays the same       *)
(* because ids are never given out again (IdsAreNew): whoever has the id   *)
(* that a kill recorded is the coroutine it recorded.  And the end of the  *)
(* script leaves nobody because an object that was visited can only live   *)
(* as long as the main coroutine is busy killing it (VisitedAreKilled).    *)
(***************************************************************************)
EXTENDS PhpCoroutine, QueueProofs, SequenceTheorems, TLAPS

CallTypes == [op : {"none", "yield", "wait", "resume", "throw"} \cup Killing,
              target : Coroutines \cup {NoCo}, id : 0..MaxId]

Exceptions == {"none", "thrown", "unwind"}

-----------------------------------------------------------------------------
(* The stack *)

\* Whom the frames of c continue in, when c lies in the stack above somebody, ...
LEMMA BelowAt ==
    ASSUME NEW S, NEW s \in Seq(S), IsInjective(s), NEW k \in 2..Len(s)
    PROVE  Below(s, s[k]) = IF s[k - 1] # Scheduler THEN s[k - 1] ELSE NoCo
<1> DEFINE P(i) == s[i] = s[k]
           at == CHOOSE i \in 2..Len(s) : P(i)
<1>1. \A i \in 2..Len(s) : P(i) => i = k
  BY DEF IsInjective
<1>2. at = k
  BY <1>1
<1>3. (\E i \in 2..Len(s) : s[i] = s[k] /\ s[i - 1] # Scheduler) <=> s[k - 1] # Scheduler
  BY <1>1
<1>4. Below(s, s[k]) = IF \E i \in 2..Len(s) : s[i] = s[k] /\ s[i - 1] # Scheduler
                         THEN s[at - 1] ELSE NoCo
  BY DEF Below
<1> HIDE DEF at, P
<1> QED
  BY <1>2, <1>3, <1>4

\* ... and when it does not.
LEMMA BelowNobody ==
    ASSUME NEW s, NEW c, \A i \in 2..Len(s) : s[i] # c
    PROVE  Below(s, c) = NoCo
BY DEF Below

LEMMA BelowType ==
    ASSUME NEW s \in Seq(Coroutines \cup {Scheduler}), IsInjective(s), NEW c
    PROVE  Below(s, c) \in Coroutines \cup {NoCo}
<1>1. CASE \E i \in 2..Len(s) : s[i] = c
  <2>1. PICK k \in 2..Len(s) : s[k] = c
    BY <1>1
  <2>2. s[k - 1] \in Coroutines \cup {Scheduler}
    OBVIOUS
  <2> QED
    BY <2>1, <2>2, BelowAt
<1> QED
  BY <1>1, BelowNobody

\* Two stacks that agree up to n agree on what is below those who lie there and
\* below those who lie nowhere.
LEMMA SameBelow ==
    ASSUME NEW S, NEW s \in Seq(S), IsInjective(s), NEW t \in Seq(S), IsInjective(t),
           NEW n \in Nat, n <= Len(s), n <= Len(t),
           \A i \in 1..n : t[i] = s[i],
           NEW x,
           \A i \in 1..Len(s) : i > n => s[i] # x,
           \A i \in 1..Len(t) : i > n => t[i] # x
    PROVE  Below(t, x) = Below(s, x)
<1>1. CASE \E i \in 2..n : s[i] = x
  <2>1. PICK k \in 2..n : s[k] = x
    BY <1>1
  <2>2. /\ k \in 2..Len(s) /\ k \in 2..Len(t)
        /\ t[k] = x /\ t[k - 1] = s[k - 1]
    BY <2>1
  <2>3. Below(s, s[k]) = IF s[k - 1] # Scheduler THEN s[k - 1] ELSE NoCo
    BY <2>2, BelowAt
  <2>4. Below(t, t[k]) = IF t[k - 1] # Scheduler THEN t[k - 1] ELSE NoCo
    BY <2>2, BelowAt
  <2> QED
    BY <2>1, <2>2, <2>3, <2>4
<1>2. CASE \A i \in 2..n : s[i] # x
  <2>1. (\A i \in 2..Len(s) : s[i] # x) /\ (\A i \in 2..Len(t) : t[i] # x)
    BY <1>2
  <2> QED
    BY <2>1, BelowNobody
<1> QED
  BY <1>1, <1>2

-----------------------------------------------------------------------------
(* The inductive invariant *)

\* Ids are given out once, and only objects have one.
IdsAreNew ==
    /\ last_id >= 1
    /\ \A c \in Coroutines : id[c] <= last_id /\ (status[c] # "none" => id[c] >= 1)
    /\ \A c, d \in Coroutines : id[c] = id[d] /\ id[c] # 0 => c = d

\* The id that a call records is that of its target, or of nobody any more.
IsAimed(r) ==
    r.op \in Killing /\ r.target # NoCo =>
        /\ r.id \in 1..last_id
        /\ \A x \in Coroutines : id[x] = r.id => x = r.target

\* Only the main coroutine goes through the end of the script.
PhasesAreOwn ==
    \A c \in Coroutines \ {Main} : phase[c] \notin {"exit", "closed"}

IInv ==
    /\ TypeOK
    /\ stack # <<>> /\ IsInjective(stack)
    /\ TraceIsCallStackUncrossed
    /\ OnlyTheLivingHaveControl
    /\ IdsAreNew
    /\ \A c \in Coroutines : IsAimed(call[c])
    /\ PhasesAreOwn
    /\ status[Main] = "alive"

\* Control moves to d.
LEMMA Moved ==
    ASSUME IInv, NEW d \in Coroutines,
           NEW c \in Coroutines \cup {Scheduler}, c = Top,
           stack' = Append(Without(stack, d), d),
           ~crossed' => ~crossed /\ \A i \in 1..(Len(stack) - 2) : stack[i] # d,
           Relink(c, d)
    PROVE  /\ stack' \in Seq(Coroutines \cup {Scheduler})
           /\ stack' # <<>> /\ IsInjective(stack')
           /\ ToSet(stack') = OnStack \cup {d}
           /\ below' \in [Coroutines -> Coroutines \cup {NoCo}]
           /\ TraceIsCallStackUncrossed'
<1> DEFINE S == Coroutines \cup {Scheduler}
<1>1. /\ stack \in Seq(S) /\ stack # <<>> /\ IsInjective(stack)
      /\ Len(stack) \in 1..Len(stack) /\ stack[Len(stack)] = c
  BY DEF IInv, TypeOK, Top, Last
<1>2. /\ stack' \in Seq(S) /\ stack' # <<>> /\ IsInjective(stack')
      /\ ToSet(stack') = OnStack \cup {d}
  <2>1. d \in S
    OBVIOUS
  <2> HIDE DEF S
  <2>2. /\ Append(Without(stack, d), d) \in Seq(S)
        /\ Append(Without(stack, d), d) # <<>>
        /\ IsInjective(Append(Without(stack, d), d))
        /\ ToSet(Append(Without(stack, d), d)) = ToSet(stack) \cup {d}
    BY <1>1, <2>1, MoveToEnd
  <2> QED
    BY <2>2, Zenon DEF OnStack
<1>3. below' \in [Coroutines -> Coroutines \cup {NoCo}]
  BY <1>2, BelowType DEF Relink, IInv, TypeOK
<1>4. ASSUME ~crossed', NEW x \in Coroutines PROVE below'[x] = Below(stack', x)
  <2>1. ~crossed /\ below[x] = Below(stack, x)
    BY <1>4 DEF IInv, TraceIsCallStackUncrossed, TraceIsCallStack
  <2>2. CASE x \in {c, d}
    BY <2>2 DEF Relink
  <2>3. CASE x \notin {c, d}
    <3>1. below'[x] = Below(stack, x)
      BY <2>1, <2>3 DEF Relink
    <3>2. CASE d \notin OnStack
      <4>1. stack' = Append(stack, d)
        BY <3>2, WithoutStranger DEF OnStack
      <4> DEFINE n == Len(stack)
      <4>2. /\ n \in Nat /\ n <= Len(stack) /\ n <= Len(stack')
            /\ \A i \in 1..n : stack'[i] = stack[i]
            /\ \A i \in 1..Len(stack) : i > n => stack[i] # x
            /\ \A i \in 1..Len(stack') : i > n => stack'[i] # x
        BY <1>1, <2>3, <4>1
      <4> HIDE DEF n
      <4> QED
        BY <1>1, <1>2, <3>1, <4>2, SameBelow
    <3>3. CASE d \in OnStack
      <4>1. PICK k \in 1..Len(stack) : stack[k] = d
        BY <3>3 DEF OnStack, ToSet
      <4>2. k >= Len(stack) - 1
        BY <1>1, <1>4, <4>1
      <4> DEFINE w == Without(stack, d)
      <4>3. /\ w \in Seq(S) /\ Len(w) = Len(stack) - 1
            /\ \A i \in 1..(Len(stack) - 1) : w[i] = IF i < k THEN stack[i] ELSE stack[i + 1]
        BY <1>1, <4>1, WithoutAt
      <4>4. stack' = Append(w, d)
        OBVIOUS
      <4> HIDE DEF w
      <4>5. /\ Len(stack') = Len(stack)
            /\ \A i \in 1..(Len(stack) - 1) : stack'[i] = w[i]
            /\ stack'[Len(stack)] = d
        BY <1>1, <4>3, <4>4
      <4> DEFINE n == k - 1
      <4>6. n \in Nat /\ n <= Len(stack) /\ n <= Len(stack')
        BY <1>1, <4>5
      <4>7. \A i \in 1..n : stack'[i] = stack[i]
        BY <1>1, <4>3, <4>5
      <4>8. \A i \in 1..Len(stack) : i > n => stack[i] # x
        BY <1>1, <2>3, <4>1, <4>2
      <4>9. \A i \in 1..Len(stack') : i > n => stack'[i] # x
        BY <1>1, <2>3, <4>1, <4>2, <4>3, <4>5
      <4> HIDE DEF n
      <4> QED
        BY <1>1, <1>2, <3>1, <4>6, <4>7, <4>8, <4>9, SameBelow
    <3> QED
      BY <3>2, <3>3
  <2> QED
    BY <2>2, <2>3
<1> QED
  BY <1>2, <1>3, <1>4 DEF TraceIsCallStackUncrossed, TraceIsCallStack

\* Control goes back to the one below c.
LEMMA Uncovered ==
    ASSUME IInv, NEW c \in Coroutines, c = Top, GiveUp(c)
    PROVE  /\ stack' \in Seq(Coroutines \cup {Scheduler})
           /\ stack' # <<>> /\ IsInjective(stack')
           /\ ToSet(stack') \subseteq (OnStack \ {c}) \cup {Scheduler}
           /\ below' \in [Coroutines -> Coroutines \cup {NoCo}]
           /\ TraceIsCallStackUncrossed'
<1> USE PhpCoroutineAssumption
<1> DEFINE S == Coroutines \cup {Scheduler}
<1>1. /\ stack \in Seq(S) /\ stack # <<>> /\ IsInjective(stack)
      /\ Len(stack) \in 1..Len(stack) /\ stack[Len(stack)] = c /\ Last(stack) = c
  BY DEF IInv, TypeOK, Top, Last
<1>2. /\ stack' \in Seq(S) /\ stack' # <<>> /\ IsInjective(stack')
      /\ ToSet(stack') \subseteq (OnStack \ {c}) \cup {Scheduler}
  <2>1. CASE Len(stack) > 1
    <3>1. /\ Front(stack) \in Seq(S) /\ IsInjective(Front(stack))
          /\ Len(Front(stack)) = Len(stack) - 1
          /\ ToSet(Front(stack)) = ToSet(stack) \ {c}
      BY <1>1, FrontProperties
    <3>2. Front(stack) # <<>>
      BY <2>1, <3>1
    <3> QED
      BY <2>1, <3>1, <3>2 DEF GiveUp, OnStack
  <2>2. CASE ~(Len(stack) > 1)
    <3>1. stack' = <<Scheduler>>
      BY <2>2 DEF GiveUp
    <3> QED
      BY <3>1, SingleProperties
  <2> QED
    BY <2>1, <2>2
<1>3. below' \in [Coroutines -> Coroutines \cup {NoCo}]
  BY <1>2, BelowType DEF GiveUp, Relink, IInv, TypeOK
<1>4. ASSUME ~crossed', NEW x \in Coroutines PROVE below'[x] = Below(stack', x)
  <2>1. below[x] = Below(stack, x)
    BY <1>4 DEF GiveUp, IInv, TraceIsCallStackUncrossed, TraceIsCallStack
  <2>2. CASE x = c \/ x = Last(stack')
    BY <2>2 DEF GiveUp, Relink
  <2>3. CASE x # c /\ x # Last(stack')
    <3>1. below'[x] = Below(stack, x)
      BY <2>1, <2>3 DEF GiveUp, Relink
    <3>2. CASE Len(stack) > 1
      <4>1. /\ stack' = Front(stack)
            /\ Len(stack') = Len(stack) - 1
            /\ \A i \in 1..Len(stack') : stack'[i] = stack[i]
        BY <1>1, <3>2, FrontProperties DEF GiveUp
      <4>2. \A i \in 1..Len(stack) : i > Len(stack') => stack[i] # x
        BY <1>1, <2>3, <4>1
      <4>3. Len(stack') \in Nat /\ Len(stack') <= Len(stack)
        BY <1>1, <1>2, <4>1
      <4>4. \A i \in 1..Len(stack') : i > Len(stack') => stack'[i] # x
        BY <4>3
      <4>5. Below(stack', x) = Below(stack, x)
        BY <1>1, <1>2, <4>1, <4>2, <4>3, <4>4, SameBelow, SMTT(30)
      <4> QED
        BY <3>1, <4>5
    <3>3. CASE ~(Len(stack) > 1)
      <4>1. stack' = <<Scheduler>> /\ Len(stack) = 1
        BY <1>1, <3>3 DEF GiveUp
      <4> QED
        BY <3>1, <4>1, BelowNobody
    <3> QED
      BY <3>2, <3>3
  <2> QED
    BY <2>2, <2>3
<1> QED
  BY <1>2, <1>3, <1>4 DEF TraceIsCallStackUncrossed, TraceIsCallStack

-----------------------------------------------------------------------------
(* The steps *)

LEMMA InvInit == Init => IInv
<1> SUFFICES ASSUME Init PROVE IInv
  OBVIOUS
<1> USE PhpCoroutineAssumption DEF Init
<1>1. /\ stack \in Seq(Coroutines \cup {Scheduler}) /\ stack # <<>>
      /\ IsInjective(stack) /\ OnStack = {Main}
  BY SingleProperties DEF OnStack
<1>2. TypeOK
  BY <1>1 DEF TypeOK, Phases, Idle, Killing
<1>3. TraceIsCallStackUncrossed
  <2>1. Len(stack) = 1
    OBVIOUS
  <2>2. \A c \in Coroutines : Below(stack, c) = NoCo
    BY <2>1, BelowNobody
  <2> QED
    BY <2>2 DEF TraceIsCallStackUncrossed, TraceIsCallStack
<1>4. OnlyTheLivingHaveControl
  BY <1>1 DEF OnlyTheLivingHaveControl
<1>5. IdsAreNew
  BY DEF IdsAreNew
<1>6. \A c \in Coroutines : IsAimed(call[c])
  BY DEF IsAimed, Idle, Killing
<1> QED
  BY <1>1, <1>2, <1>3, <1>4, <1>5, <1>6 DEF IInv, PhasesAreOwn

\* A step of one coroutine that has control, with no switch and no change of an
\* object.
LEMMA StayInv ==
    ASSUME IInv, UNCHANGED <<control, objects>>,
           NEW c \in Coroutines, c = Top,
           NEW r \in CallTypes, call' = [call EXCEPT ![c] = r], IsAimed(r),
           NEW e \in Exceptions, exception' = [exception EXCEPT ![c] = e],
           NEW a \in Exceptions, aside' = [aside EXCEPT ![c] = a],
           phase' \in [Coroutines -> Phases], PhasesAreOwn',
           budget' \in 0..Budget, visited' \subseteq Coroutines
    PROVE  IInv'
<1> USE DEF control, objects
<1>1. c \in OnStack /\ status[c] = "alive"
  <2>1. c \in OnStack
    BY FrontProperties DEF IInv, TypeOK, OnStack, Top
  <2> QED
    BY <2>1 DEF IInv, OnlyTheLivingHaveControl
<1>2. TypeOK'
  BY DEF IInv, TypeOK, CallTypes, Exceptions
<1>3. TraceIsCallStackUncrossed'
  BY DEF IInv, TraceIsCallStackUncrossed, TraceIsCallStack
<1>4. OnlyTheLivingHaveControl'
  BY <1>1 DEF IInv, TypeOK, OnlyTheLivingHaveControl, OnStack
<1>5. IdsAreNew'
  BY DEF IInv, IdsAreNew
<1>6. \A x \in Coroutines : IsAimed(call[x])'
  BY DEF IInv, TypeOK, IsAimed
<1> QED
  BY <1>2, <1>3, <1>4, <1>5, <1>6 DEF IInv

\* A switch to a coroutine that lives.
LEMMA SwitchInv ==
    ASSUME IInv, NEW c \in Coroutines \cup {Scheduler}, c = Top,
           NEW d \in Coroutines, status[d] = "alive",
           NEW how \in CallTypes, IsAimed(how), NEW what \in Exceptions,
           Switch(c, d, how, what), UNCHANGED objects,
           budget' \in 0..Budget, visited' \subseteq Coroutines
    PROVE  IInv'
<1> USE PhpCoroutineAssumption DEF Switch, objects, PhasesAreOwn
<1>1. /\ stack' \in Seq(Coroutines \cup {Scheduler})
      /\ stack' # <<>> /\ IsInjective(stack')
      /\ ToSet(stack') = OnStack \cup {d}
      /\ below' \in [Coroutines -> Coroutines \cup {NoCo}]
      /\ TraceIsCallStackUncrossed'
  <2>1. ~crossed' => ~crossed /\ \A i \in 1..(Len(stack) - 2) : stack[i] # d
    BY Zenon
  <2> QED
    BY <2>1, Moved
<1>2. c \in Coroutines => status[c] = "alive"
  <2>1. c \in OnStack
    BY FrontProperties DEF IInv, TypeOK, OnStack, Top
  <2> QED
    BY <2>1 DEF IInv, OnlyTheLivingHaveControl
<1>3. Idle \in CallTypes /\ IsAimed(Idle)
  BY DEF Idle, CallTypes, IsAimed, Killing
<1>4. /\ call' \in [Coroutines -> CallTypes]
      /\ \A x \in Coroutines : call'[x] \in {how, Idle, call[x]}
      /\ \A x \in Coroutines : x # c => call'[x] \in {Idle, call[x]}
  BY <1>3 DEF IInv, TypeOK, CallTypes, Return
<1>5. exception' \in [Coroutines -> Exceptions]
  BY DEF IInv, TypeOK, Exceptions, Deliver
<1>6. TypeOK'
  BY <1>1, <1>4, <1>5 DEF IInv, TypeOK, CallTypes, Exceptions
<1>7. OnlyTheLivingHaveControl'
  <2> SUFFICES ASSUME NEW x \in Coroutines,
                      x \in ToSet(stack') \/ call'[x] # Idle
                          \/ exception'[x] # "none" \/ aside'[x] # "none"
               PROVE  status[x] = "alive"
    BY DEF OnlyTheLivingHaveControl, OnStack
  <2>1. CASE x \in {c, d}
    BY <1>2, <2>1
  <2>2. CASE x \notin {c, d}
    <3>1. x \in OnStack \/ call[x] # Idle \/ exception[x] # "none" \/ aside[x] # "none"
      BY <1>1, <1>4, <2>2 DEF IInv, TypeOK
    <3> QED
      BY <3>1 DEF IInv, OnlyTheLivingHaveControl
  <2> QED
    BY <2>1, <2>2
<1>8. IdsAreNew'
  BY DEF IInv, IdsAreNew
<1>9. \A x \in Coroutines : IsAimed(call[x])'
  BY <1>3, <1>4 DEF IInv, IsAimed
<1> QED
  BY <1>1, <1>6, <1>7, <1>8, <1>9 DEF IInv

\* A coroutine that waits.
LEMMA SuspendInv ==
    ASSUME IInv, NEW c \in Coroutines, c = Top,
           NEW how \in {"yield", "wait"}, Suspend(c, how), UNCHANGED objects,
           budget' \in 0..Budget, UNCHANGED visited
    PROVE  IInv'
<1> USE PhpCoroutineAssumption DEF Suspend, objects, PhasesAreOwn
<1>1. /\ stack' \in Seq(Coroutines \cup {Scheduler})
      /\ stack' # <<>> /\ IsInjective(stack')
      /\ ToSet(stack') \subseteq (OnStack \ {c}) \cup {Scheduler}
      /\ below' \in [Coroutines -> Coroutines \cup {NoCo}]
      /\ TraceIsCallStackUncrossed'
  BY Uncovered
<1>2. status[c] = "alive"
  <2>1. c \in OnStack
    BY FrontProperties DEF IInv, TypeOK, OnStack, Top
  <2> QED
    BY <2>1 DEF IInv, OnlyTheLivingHaveControl
<1> DEFINE r == [Idle EXCEPT !.op = how]
<1>3. Idle \in CallTypes /\ IsAimed(Idle) /\ r \in CallTypes /\ IsAimed(r)
  BY DEF Idle, CallTypes, IsAimed, Killing
<1>4. /\ call' \in [Coroutines -> CallTypes]
      /\ \A x \in Coroutines : call'[x] \in {r, Idle, call[x]}
      /\ \A x \in Coroutines : x # c => call'[x] \in {Idle, call[x]}
  BY <1>3 DEF IInv, TypeOK, CallTypes, Return
<1> HIDE DEF r
<1>5. TypeOK'
  BY <1>1, <1>4 DEF IInv, TypeOK, CallTypes
<1>6. OnlyTheLivingHaveControl'
  BY <1>1, <1>2, <1>4 DEF IInv, OnlyTheLivingHaveControl, OnStack
<1>7. IdsAreNew'
  BY DEF IInv, IdsAreNew
<1>8. \A x \in Coroutines : IsAimed(call[x])'
  <2>1. \A x \in Coroutines : IsAimed(call'[x])
    BY <1>3, <1>4 DEF IInv
  <2> QED
    BY <2>1 DEF IsAimed
<1> QED
  BY <1>1, <1>5, <1>6, <1>7, <1>8 DEF IInv

\* Only objects that never started or have ended come and go.
LEMMA NewInv ==
    ASSUME IInv, NEW c \in Coroutines, NEW d \in Coroutines, New(c, d)
    PROVE  IInv'
<1> USE PhpCoroutineAssumption DEF New, Spend, control, PhasesAreOwn
<1>1. last_id' = last_id + 1 /\ last_id \in 1..(MaxId - 1)
  BY DEF IInv, TypeOK, IdsAreNew
<1>2. TypeOK'
  BY <1>1 DEF IInv, TypeOK
<1>3. TraceIsCallStackUncrossed'
  BY DEF IInv, TraceIsCallStackUncrossed, TraceIsCallStack
<1>4. OnlyTheLivingHaveControl'
  BY DEF IInv, TypeOK, OnlyTheLivingHaveControl, OnStack
<1>5. IdsAreNew'
  BY <1>1 DEF IInv, TypeOK, IdsAreNew
<1>6. \A x \in Coroutines : IsAimed(call[x])'
  BY <1>1 DEF IInv, TypeOK, IsAimed, IdsAreNew
<1>7. PhasesAreOwn' /\ status'[Main] = "alive"
  BY DEF IInv, TypeOK
<1> QED
  BY <1>2, <1>3, <1>4, <1>5, <1>6, <1>7 DEF IInv

LEMMA ReleaseInv ==
    ASSUME IInv, NEW c \in Coroutines, NEW d \in Coroutines, Release(c, d)
    PROVE  IInv'
<1> USE PhpCoroutineAssumption DEF Release, control, PhasesAreOwn
<1>1. TypeOK'
  BY DEF IInv, TypeOK
<1>2. TraceIsCallStackUncrossed'
  BY DEF IInv, TraceIsCallStackUncrossed, TraceIsCallStack
<1>3. OnlyTheLivingHaveControl'
  BY DEF IInv, TypeOK, OnlyTheLivingHaveControl, OnStack
<1>4. IdsAreNew'
  BY DEF IInv, TypeOK, IdsAreNew
<1>5. \A x \in Coroutines : IsAimed(call[x])'
  BY DEF IInv, TypeOK, IsAimed
<1>6. PhasesAreOwn' /\ status'[Main] = "alive"
  BY DEF IInv, TypeOK
<1> QED
  BY <1>1, <1>2, <1>3, <1>4, <1>5, <1>6 DEF IInv

LEMMA StartInv ==
    ASSUME IInv, NEW c \in Coroutines, NEW d \in Coroutines, Start(c, d)
    PROVE  IInv'
<1> USE PhpCoroutineAssumption DEF Start, Spend, Runs, Current
<1>1. d \notin OnStack
  BY DEF IInv, OnlyTheLivingHaveControl
<1>2. /\ stack' = Append(Without(stack, d), d)
      /\ ~crossed' => ~crossed /\ \A i \in 1..(Len(stack) - 2) : stack[i] # d
  <2>1. Without(stack, d) = stack
    BY <1>1, WithoutStranger DEF OnStack
  <2>2. Len(stack) \in Nat /\ DOMAIN stack = 1..Len(stack)
    BY DEF IInv, TypeOK
  <2>3. \A i \in 1..(Len(stack) - 2) : stack[i] # d
    BY <1>1, <2>2 DEF OnStack, ToSet
  <2> QED
    BY <2>1, <2>3
<1>3. /\ stack' \in Seq(Coroutines \cup {Scheduler})
      /\ stack' # <<>> /\ IsInjective(stack')
      /\ ToSet(stack') = OnStack \cup {d}
      /\ below' \in [Coroutines -> Coroutines \cup {NoCo}]
      /\ TraceIsCallStackUncrossed'
  BY <1>2, Moved
<1>4. status[c] = "alive"
  <2>1. c \in OnStack
    BY FrontProperties DEF IInv, TypeOK, OnStack, Top
  <2> QED
    BY <2>1 DEF IInv, OnlyTheLivingHaveControl
<1>5. TypeOK'
  <2>1. On("resume", d) \in CallTypes
    BY DEF IInv, TypeOK, On, CallTypes
  <2>2. call' \in [Coroutines -> CallTypes]
    BY <2>1 DEF IInv, TypeOK, CallTypes
  <2> QED
    BY <1>3, <2>2 DEF IInv, TypeOK, Phases, CallTypes
<1>6. OnlyTheLivingHaveControl'
  BY <1>3, <1>4 DEF IInv, TypeOK, OnlyTheLivingHaveControl, OnStack
<1>7. IdsAreNew'
  BY DEF IInv, TypeOK, IdsAreNew
<1>8. \A x \in Coroutines : IsAimed(call[x])'
  BY DEF IInv, TypeOK, IsAimed, On, Killing
<1>9. PhasesAreOwn' /\ status'[Main] = "alive"
  BY DEF IInv, TypeOK, PhasesAreOwn
<1> QED
  BY <1>3, <1>5, <1>6, <1>7, <1>8, <1>9 DEF IInv

LEMMA DieInv ==
    ASSUME IInv, NEW c \in Coroutines, NEW freed \in BOOLEAN, Die(c, freed)
    PROVE  IInv'
<1> USE PhpCoroutineAssumption DEF Die, Current
<1>1. /\ stack' \in Seq(Coroutines \cup {Scheduler})
      /\ stack' # <<>> /\ IsInjective(stack')
      /\ ToSet(stack') \subseteq (OnStack \ {c}) \cup {Scheduler}
      /\ below' \in [Coroutines -> Coroutines \cup {NoCo}]
      /\ TraceIsCallStackUncrossed'
  BY Uncovered
<1>2. Idle \in CallTypes /\ IsAimed(Idle)
  BY DEF Idle, CallTypes, IsAimed, Killing
<1>3. /\ call' \in [Coroutines -> CallTypes]
      /\ \A x \in Coroutines : call'[x] \in {Idle, call[x]}
  BY <1>2 DEF IInv, TypeOK, CallTypes, Return
<1>4. /\ id' \in [Coroutines -> 0..MaxId]
      /\ \A x \in Coroutines : id'[x] = id[x] \/ (x = c /\ id'[x] = 0 /\ status'[x] = "none")
  <2>1. CASE freed
    BY <2>1 DEF IInv, TypeOK
  <2>2. CASE ~freed
    BY <2>2 DEF IInv, TypeOK
  <2> QED
    BY <2>1, <2>2
<1>5. /\ status' \in [Coroutines -> {"none", "created", "alive", "dead"}]
      /\ \A x \in Coroutines : x # c => status'[x] = status[x]
  BY DEF IInv, TypeOK
<1>6. /\ TypeOK' /\ OnlyTheLivingHaveControl' /\ IdsAreNew'
      /\ PhasesAreOwn' /\ status'[Main] = "alive"
  <2>1. TypeOK'
    BY <1>1, <1>3, <1>4, <1>5 DEF IInv, TypeOK, CallTypes
  <2>2. OnlyTheLivingHaveControl'
    BY <1>1, <1>3, <1>5 DEF IInv, TypeOK, OnlyTheLivingHaveControl, OnStack
  <2>3. status[c] = "alive"
    BY FrontProperties DEF IInv, TypeOK, OnStack, Top, OnlyTheLivingHaveControl
  <2>4. IdsAreNew'
    BY <1>4, <1>5, <2>3 DEF IInv, TypeOK, IdsAreNew
  <2>5. PhasesAreOwn' /\ status'[Main] = "alive"
    BY <1>5 DEF IInv, PhasesAreOwn
  <2> QED
    BY <2>1, <2>2, <2>4, <2>5
<1>7. \A x \in Coroutines : IsAimed(call[x])'
  BY <1>2, <1>3, <1>4 DEF IInv, TypeOK, IsAimed
<1> QED
  BY <1>1, <1>6, <1>7 DEF IInv

\* Kill and its like: what they throw at lives, and what they record is its id.
LEMMA KillInv ==
    ASSUME IInv, NEW c \in Coroutines, NEW d \in Coroutines,
           \/ Kill(c, d) \/ KillNext(c, d)
           \/ d = c /\ (KillAgain(c) \/ KillDone(c) \/ KillAll(c) \/ KilledAll(c))
           \/ c = Main /\ Destruct(d)
    PROVE  IInv'
<1> USE PhpCoroutineAssumption
<1>1. ASSUME NEW x \in Coroutines, status[x] = "alive", NEW what \in Killing
      PROVE  On(what, x) \in CallTypes /\ IsAimed(On(what, x))
  BY <1>1 DEF IInv, TypeOK, IdsAreNew, On, CallTypes, IsAimed
<1>2. ASSUME NEW what \in {"none", "killAll"}
      PROVE  [Idle EXCEPT !.op = what] \in CallTypes /\ IsAimed([Idle EXCEPT !.op = what])
  BY DEF Idle, CallTypes, Killing, IsAimed
<1>3. Idle \in CallTypes /\ IsAimed(Idle)
  BY DEF Idle, CallTypes, Killing, IsAimed
<1>4. /\ budget \in 0..Budget /\ (Spend => budget' \in 0..Budget)
      /\ visited \subseteq Coroutines
      /\ \A x \in Coroutines : call[x] \in CallTypes /\ IsAimed(call[x])
      /\ \A x \in Coroutines : exception[x] \in Exceptions /\ aside[x] \in Exceptions
      /\ exception \in [Coroutines -> Exceptions] /\ aside \in [Coroutines -> Exceptions]
      /\ phase \in [Coroutines -> Phases] /\ (UNCHANGED phase => PhasesAreOwn')
      /\ call \in [Coroutines -> CallTypes]
  BY DEF IInv, TypeOK, Spend, CallTypes, Exceptions, PhasesAreOwn
<1>5. /\ exception = [exception EXCEPT ![c] = exception[c]]
      /\ aside = [aside EXCEPT ![c] = aside[c]]
  BY <1>4
<1>6. CASE Kill(c, d)
  BY <1>1, <1>4, <1>6, SwitchInv
     DEF Kill, Runs, Current, Executing, Alive, Killing, Exceptions
<1>7. CASE KillNext(c, d)
  BY <1>1, <1>4, <1>7, SwitchInv DEF KillNext, Alive, Killing, Exceptions
<1>8. CASE KillAgain(c)
  <2>1. call[c].target \in Coroutines /\ status[call[c].target] = "alive"
    BY <1>4, <1>8 DEF KillAgain, Executing, Alive, CallTypes
  <2> QED
    BY <1>4, <1>8, <2>1, SwitchInv DEF KillAgain, Exceptions
<1>9. CASE KillDone(c)
  <2> DEFINE r == IF call[c].op = "killAll" THEN [Idle EXCEPT !.op = "killAll"] ELSE Idle
  <2>1. r \in CallTypes /\ IsAimed(r)
    BY <1>2, <1>3
  <2>2. call' = [call EXCEPT ![c] = r]
    BY <1>4, <1>9 DEF KillDone
  <2> HIDE DEF r
  <2> QED
    BY <1>4, <1>5, <1>9, <2>1, <2>2, StayInv DEF KillDone
<1>10. CASE KillAll(c)
  <2> DEFINE r == [Idle EXCEPT !.op = "killAll"]
  <2>1. r \in CallTypes /\ IsAimed(r) /\ call' = [call EXCEPT ![c] = r]
    BY <1>2, <1>10 DEF KillAll
  <2> HIDE DEF r
  <2> QED
    BY <1>4, <1>5, <1>10, <2>1, StayInv DEF KillAll, Runs, Current
<1>11. CASE KilledAll(c)
  BY <1>3, <1>4, <1>5, <1>11, StayInv DEF KilledAll
<1>12. CASE c = Main /\ Destruct(d)
  <2>1. d \in Coroutines /\ c = Top
    BY <1>12 DEF Destruct, Runs, Current
  <2>2. CASE status[d] = "alive" /\ Switch(Main, d, On("destruct", d), "unwind")
    BY <1>1, <1>4, <1>12, <2>1, <2>2, SwitchInv DEF Destruct, Killing, Exceptions
  <2>3. CASE UNCHANGED <<control, phase, exception, aside, call>>
    <3>1. call = [call EXCEPT ![c] = call[c]]
      BY <1>4
    <3> QED
      BY <1>4, <1>5, <1>12, <2>1, <2>3, <3>1, StayInv DEF Destruct
  <2> QED
    BY <1>12, <2>2, <2>3 DEF Destruct
<1> QED
  BY <1>6, <1>7, <1>8, <1>9, <1>10, <1>11, <1>12

\* What PHP code does otherwise.
LEMMA CodeInv ==
    ASSUME IInv, NEW c \in Coroutines, NEW d \in Coroutines,
           \/ Resume(c, d) \/ Throw(c, d) \/ EndPhase(c) \/ Yield(c) \/ Wait(c) \/ Event(c)
           \/ Raise(c) \/ Catch(c) \/ Exit(c) \/ EnterDestructor(c) \/ LeaveDestructor(c)
           \/ c = Main /\ (EndScript \/ Close)
    PROVE  IInv'
<1> USE PhpCoroutineAssumption
<1>1. ASSUME NEW x \in Coroutines, NEW what \in {"resume", "throw"}
      PROVE  On(what, x) \in CallTypes /\ IsAimed(On(what, x))
  BY <1>1 DEF IInv, TypeOK, On, CallTypes, IsAimed, Killing
<1>2. Idle \in CallTypes /\ IsAimed(Idle)
  BY DEF Idle, CallTypes, Killing, IsAimed
<1>3. /\ budget \in 0..Budget /\ (Spend => budget' \in 0..Budget)
      /\ visited \subseteq Coroutines
      /\ call[c] \in CallTypes /\ IsAimed(call[c])
      /\ exception[c] \in Exceptions /\ aside[c] \in Exceptions
      /\ phase \in [Coroutines -> Phases] /\ PhasesAreOwn
      /\ (UNCHANGED phase => PhasesAreOwn')
  BY DEF IInv, TypeOK, Spend, CallTypes, Exceptions, PhasesAreOwn
<1>4. /\ call = [call EXCEPT ![c] = call[c]]
      /\ exception = [exception EXCEPT ![c] = exception[c]]
      /\ aside = [aside EXCEPT ![c] = aside[c]]
  BY DEF IInv, TypeOK
<1>5. "none" \in Exceptions /\ "thrown" \in Exceptions /\ "unwind" \in Exceptions
  BY DEF Exceptions
<1>6. CASE Resume(c, d)
  BY <1>1, <1>3, <1>5, <1>6, SwitchInv DEF Resume, Runs, Current
<1>7. CASE Throw(c, d)
  BY <1>1, <1>3, <1>5, <1>7, SwitchInv DEF Throw, Runs, Current, Executing, Alive
<1>8. CASE Yield(c)
  BY <1>3, <1>8, SuspendInv DEF Yield, Runs, Current
<1>9. CASE Wait(c)
  BY <1>3, <1>9, SuspendInv DEF Wait, Current
<1>10. CASE Event(c)
  <2>1. status[c] = "alive"
    BY <1>10 DEF Event, Idle, IInv, OnlyTheLivingHaveControl
  <2> QED
    BY <1>2, <1>3, <1>5, <1>10, <2>1, SwitchInv DEF Event
<1>11. CASE EndPhase(c)
  <2>1. phase' \in [Coroutines -> Phases] /\ PhasesAreOwn'
    <3>1. phase[c] \in {"body", "destructor", "callable"}
      BY <1>3, <1>11 DEF EndPhase, Phases, PhasesAreOwn
    <3>2. PICK p \in {"destructor", "callable", "properties"} : phase' = [phase EXCEPT ![c] = p]
      BY <1>11, <3>1 DEF EndPhase
    <3> QED
      BY <1>3, <3>2 DEF Phases, PhasesAreOwn
  <2> QED
    BY <1>3, <1>4, <1>5, <1>11, <2>1, StayInv DEF EndPhase, Current
<1>12. CASE Raise(c) \/ Catch(c) \/ Exit(c)
  BY <1>3, <1>4, <1>5, <1>12, StayInv DEF Raise, Catch, Exit, Runs, Current
<1>13. CASE EnterDestructor(c)
  BY <1>3, <1>4, <1>5, <1>13, StayInv DEF EnterDestructor, Current
<1>14. CASE LeaveDestructor(c)
  <2>1. PICK e \in Exceptions : exception' = [exception EXCEPT ![c] = e]
    BY <1>3, <1>14 DEF LeaveDestructor
  <2> QED
    BY <1>3, <1>4, <1>5, <1>14, <2>1, StayInv DEF LeaveDestructor, Current
<1>15. CASE c = Main /\ EndScript
  <2>1. phase' \in [Coroutines -> Phases] /\ PhasesAreOwn'
    BY <1>3, <1>15 DEF EndScript, Phases, PhasesAreOwn
  <2> QED
    BY <1>3, <1>4, <1>5, <1>15, <2>1, StayInv DEF EndScript, Current
<1>16. CASE c = Main /\ Close
  <2>1. phase' \in [Coroutines -> Phases] /\ PhasesAreOwn'
    BY <1>3, <1>16 DEF Close, Phases, PhasesAreOwn
  <2> QED
    BY <1>3, <1>4, <1>16, <2>1, StayInv DEF Close, Runs, Current
<1> QED
  BY <1>6, <1>7, <1>8, <1>9, <1>10, <1>11, <1>12, <1>13, <1>14, <1>15, <1>16

LEMMA InvStep == IInv /\ [Next]_vars => IInv'
<1> SUFFICES ASSUME IInv, [Next]_vars PROVE IInv'
  OBVIOUS
<1> USE PhpCoroutineAssumption
<1>1. CASE UNCHANGED vars
  BY <1>1 DEF vars, IInv, TypeOK, TraceIsCallStackUncrossed, TraceIsCallStack,
              OnlyTheLivingHaveControl, OnStack, IdsAreNew, IsAimed, PhasesAreOwn
<1>2. ASSUME NEW c \in Coroutines, NEW d \in Coroutines, New(c, d) \/ Release(c, d) \/ Start(c, d)
      PROVE  IInv'
  BY <1>2, NewInv, ReleaseInv, StartInv
<1>3. ASSUME NEW c \in Coroutines, NEW freed \in BOOLEAN, Die(c, freed) PROVE IInv'
  BY <1>3, DieInv
<1>4. ASSUME NEW d \in Coroutines, Destruct(d) PROVE IInv'
  BY <1>4, KillInv
<1> QED
  BY <1>1, <1>2, <1>3, <1>4, KillInv, CodeInv, Zenon DEF Next

-----------------------------------------------------------------------------
(* The end of the script *)

\* An object that was visited lives only as long as the main coroutine kills it.
VisitedAreKilled ==
    \A d \in visited :
        /\ d # Main
        /\ status[d] = "alive" =>
              call[Main].op = "destruct" /\ call[Main].target = d /\ call[Main].id = id[d]

OnlyMainDestructs ==
    \A c \in Coroutines : call[c].op = "destruct" => c = Main /\ call[c].target # NoCo

ClosedIsLast ==
    phase[Main] = "closed" => Top = Main /\ call[Main] = Idle /\ Alive = {Main}

EndInv == VisitedAreKilled /\ OnlyMainDestructs /\ ClosedIsLast

\* Nothing happens after the main coroutine has closed the extension.
LEMMA NothingAfterClose ==
    ASSUME IInv, EndInv, phase[Main] = "closed", Next
    PROVE  FALSE
<1> USE PhpCoroutineAssumption
<1>1. Top = Main /\ call[Main] = Idle /\ Main # Scheduler
      /\ Idle.op \notin Killing /\ Idle.op # "wait"
  BY DEF EndInv, ClosedIsLast, Idle, Killing
<1>2. \A c \in Coroutines : ~Current(c)
  BY <1>1 DEF Current
<1> QED
  BY <1>1, <1>2, Zenon
     DEF Next, New, Release, Start, Resume, Throw, Kill, KillNext, EndPhase, Yield, Wait,
         Event, Raise, Catch, Exit, EnterDestructor, LeaveDestructor, KillAgain, KillDone,
         KillAll, KilledAll, Destruct, Die, EndScript, Close, Runs, Killing

\* A step that touches neither what the main coroutine destructs nor what it has
\* visited.
LEMMA KeptEnd ==
    ASSUME EndInv,
           \A x \in Coroutines :
              call[x].op = "destruct" \/ call'[x].op = "destruct" => call'[x] = call[x],
           visited' \subseteq visited,
           \A d \in visited' : status'[d] = "alive" => status[d] = "alive" /\ id'[d] = id[d],
           phase'[Main] # "closed"
    PROVE  EndInv'
<1>1. Main \in Coroutines
  BY PhpCoroutineAssumption
<1> QED
  BY <1>1 DEF EndInv, VisitedAreKilled, OnlyMainDestructs, ClosedIsLast

\* What a switch does to the calls.
LEMMA SwitchKeepsDestruct ==
    ASSUME IInv, NEW c, NEW d \in Coroutines, NEW how \in CallTypes, NEW what,
           how.op # "destruct", c \in Coroutines => call[c].op # "destruct",
           Switch(c, d, how, what), NEW x \in Coroutines,
           call[x].op = "destruct" \/ call'[x].op = "destruct"
    PROVE  call'[x] = call[x]
BY DEF Switch, Return, Killing, Idle, IInv, TypeOK

LEMMA EndStep ==
    ASSUME LateStarts = FALSE, IInv, EndInv, [Next]_vars
    PROVE  EndInv'
<1> USE PhpCoroutineAssumption
<1>1. CASE UNCHANGED vars
  BY <1>1 DEF vars, EndInv, VisitedAreKilled, OnlyMainDestructs, ClosedIsLast, Top, Alive
<1> SUFFICES ASSUME Next, phase[Main] # "closed" PROVE EndInv'
  BY <1>1, NothingAfterClose
<1>2. /\ call \in [Coroutines -> CallTypes] /\ phase \in [Coroutines -> Phases]
      /\ visited \subseteq Coroutines
      /\ \A c \in Coroutines : call[c] = Idle => call[c].op \notin {"destruct", "killAll"}
  BY DEF IInv, TypeOK, CallTypes, Idle
<1>3. ASSUME NEW c \in Coroutines, NEW d \in Coroutines,
             \/ New(c, d) \/ Release(c, d) \/ Start(c, d)
             \/ EndPhase(c) \/ Yield(c) \/ Wait(c)
             \/ Raise(c) \/ Catch(c) \/ Exit(c) \/ EnterDestructor(c) \/ LeaveDestructor(c)
             \/ KillAll(c) \/ KilledAll(c) \/ EndScript
      PROVE  EndInv'
  <2>1. \A x \in Coroutines :
           call[x].op = "destruct" \/ call'[x].op = "destruct" => call'[x] = call[x]
    BY <1>2, <1>3
       DEF New, Release, Start, EndPhase, Yield, Wait, Raise, Catch, Exit, EnterDestructor,
           LeaveDestructor, KillAll, KilledAll, EndScript, Runs, Current, Suspend, On, Idle,
           Return, Killing, control, objects
  <2>2. visited' \subseteq visited
    BY <1>3
       DEF New, Release, Start, EndPhase, Yield, Wait, Raise, Catch, Exit, EnterDestructor,
           LeaveDestructor, KillAll, KilledAll, EndScript
  <2>3. \A x \in visited' : status'[x] = "alive" => status[x] = "alive" /\ id'[x] = id[x]
    BY <1>2, <1>3
       DEF New, Release, Start, EndPhase, Yield, Wait, Raise, Catch, Exit, EnterDestructor,
           LeaveDestructor, KillAll, KilledAll, EndScript, objects, IInv, TypeOK
  <2>4. phase'[Main] # "closed"
    BY <1>2, <1>3
       DEF New, Release, Start, EndPhase, Yield, Wait, Raise, Catch, Exit, EnterDestructor,
           LeaveDestructor, KillAll, KilledAll, EndScript, Suspend
  <2> QED
    BY <2>1, <2>2, <2>3, <2>4, KeptEnd
<1>4. ASSUME NEW c \in Coroutines, NEW freed \in BOOLEAN, Die(c, freed) PROVE EndInv'
  <2>1. \A x \in Coroutines :
           call[x].op = "destruct" \/ call'[x].op = "destruct" => call'[x] = call[x]
    BY <1>2, <1>4 DEF Die, Return, Killing, Idle
  <2>2. visited' \subseteq visited
    BY <1>4 DEF Die
  <2>3. \A x \in visited' : status'[x] = "alive" => status[x] = "alive" /\ id'[x] = id[x]
    BY <1>2, <1>4 DEF Die, IInv, TypeOK
  <2>4. phase'[Main] # "closed"
    BY <1>4 DEF Die
  <2> QED
    BY <2>1, <2>2, <2>3, <2>4, KeptEnd
<1>5. ASSUME NEW c, NEW d \in Coroutines, NEW how \in CallTypes, NEW what,
             how.op # "destruct", c \in Coroutines => call[c].op # "destruct",
             Switch(c, d, how, what), UNCHANGED objects, UNCHANGED visited
      PROVE  EndInv'
  <2>1. \A x \in Coroutines :
           call[x].op = "destruct" \/ call'[x].op = "destruct" => call'[x] = call[x]
    BY <1>5, SwitchKeepsDestruct
  <2>2. phase'[Main] # "closed"
    BY <1>5 DEF Switch
  <2> QED
    BY <1>5, <2>1, <2>2, KeptEnd DEF objects
<1>6. ASSUME NEW c \in Coroutines, NEW d \in Coroutines,
             NEW what \in {"resume", "throw", "kill", "killAll"}
      PROVE  On(what, d) \in CallTypes /\ On(what, d).op # "destruct"
  BY <1>6 DEF On, CallTypes, Killing, IInv, TypeOK
<1>7. ASSUME NEW c \in Coroutines, NEW d \in Coroutines,
             Resume(c, d) \/ Throw(c, d) \/ Kill(c, d) \/ KillNext(c, d) \/ Event(c)
      PROVE  EndInv'
  <2>1. CASE Event(c)
    <3>1. Idle \in CallTypes /\ Idle.op # "destruct"
      BY DEF Idle, CallTypes
    <3> QED
      BY <1>5, <2>1, <3>1 DEF Event
  <2>2. CASE Resume(c, d) \/ Throw(c, d) \/ Kill(c, d)
    BY <1>2, <1>5, <1>6, <2>2 DEF Resume, Throw, Kill, Runs, Current
  <2>3. CASE KillNext(c, d)
    BY <1>2, <1>5, <1>6, <2>3 DEF KillNext
  <2> QED
    BY <1>7, <2>1, <2>2, <2>3
<1>8. ASSUME NEW c \in Coroutines, KillAgain(c) PROVE EndInv'
  <2>1. call[c].target \in Coroutines /\ call[c] \in CallTypes
    BY <1>2, <1>8 DEF KillAgain, CallTypes
  <2> DEFINE d == call[c].target
  <2>2. \A x \in Coroutines :
           call[x].op = "destruct" \/ call'[x].op = "destruct" => call'[x] = call[x]
    BY <1>2, <1>8 DEF KillAgain, Switch, Return, Killing, Idle
  <2>3. phase'[Main] # "closed"
    BY <1>8 DEF KillAgain, Switch
  <2> QED
    BY <1>8, <2>2, <2>3, KeptEnd DEF KillAgain, objects
<1>9. ASSUME NEW c \in Coroutines, KillDone(c) PROVE EndInv'
  <2> USE DEF KillDone, control, objects
  <2>1. CASE call[c].op # "destruct"
    <3>1. \A x \in Coroutines :
             call[x].op = "destruct" \/ call'[x].op = "destruct" => call'[x] = call[x]
      BY <1>2, <1>9, <2>1 DEF Idle
    <3> QED
      BY <1>9, <3>1, KeptEnd
  <2>2. CASE call[c].op = "destruct"
    <3>1. c = Main
      BY <2>2 DEF EndInv, OnlyMainDestructs
    <3>2. ASSUME NEW d \in visited PROVE d # Main /\ status[d] # "alive"
      <4>1. d \in Coroutines /\ d # Main /\ call[d].op # "destruct"
        BY <1>2 DEF EndInv, VisitedAreKilled, OnlyMainDestructs
      <4>2. ASSUME status[d] = "alive" PROVE FALSE
        <5>1. call[c].target = d /\ call[c].id = id[d]
          BY <3>1, <4>2 DEF EndInv, VisitedAreKilled
        <5>2. Found(call[c].id) /\ Executing(call[c].target)
          BY <4>1, <4>2, <5>1 DEF Found, Executing, Alive
        <5> QED
          BY <1>9, <5>2
      <4> QED
        BY <4>1, <4>2
    <3>3. \A x \in Coroutines : call'[x].op = "destruct" => call'[x] = call[x]
      BY <1>2, <1>9, <2>2 DEF Idle
    <3> QED
      BY <1>9, <3>2, <3>3 DEF EndInv, VisitedAreKilled, OnlyMainDestructs, ClosedIsLast
  <2> QED
    BY <2>1, <2>2
<1>10. ASSUME NEW d \in Coroutines, Destruct(d) PROVE EndInv'
  <2> USE DEF Destruct, Runs, Current, control, objects
  <2>1. \A x \in visited : status[x] # "alive"
    BY <1>2, <1>10 DEF EndInv, VisitedAreKilled
  <2>2. CASE status[d] = "alive" /\ Switch(Main, d, On("destruct", d), "unwind")
    <3>1. call'[Main] = [op |-> "destruct", target |-> d, id |-> id[d]]
      BY <1>2, <2>2 DEF Switch, On
    <3>2. \A x \in Coroutines \ {Main} : call'[x].op # "destruct"
      BY <1>2, <2>2 DEF Switch, Return, Idle, EndInv, OnlyMainDestructs
    <3>3. phase'[Main] # "closed"
      BY <2>2 DEF Switch
    <3>4. /\ visited' = visited \cup {d} /\ d # Main
          /\ status' = status /\ id' = id /\ d \in Coroutines
      BY <1>10
    <3>5. VisitedAreKilled'
      BY <2>1, <3>1, <3>4 DEF EndInv, VisitedAreKilled
    <3>6. OnlyMainDestructs'
      BY <3>1, <3>2, <3>4 DEF OnlyMainDestructs
    <3> QED
      BY <3>3, <3>5, <3>6 DEF EndInv, ClosedIsLast
  <2>3. CASE status[d] = "created" /\ UNCHANGED <<control, phase, exception, aside, call>>
    BY <1>10, <2>1, <2>3 DEF EndInv, VisitedAreKilled, OnlyMainDestructs, ClosedIsLast
  <2> QED
    BY <1>10, <2>2, <2>3
<1>11. CASE Close
  <2> USE DEF Close, Runs, Current, control, objects
  <2>1. \A x \in Coroutines \ {Main} : status[x] # "alive"
    BY <1>2, <1>11 DEF EndInv, VisitedAreKilled
  <2>2. Alive = {Main}
    BY <2>1 DEF Alive, IInv
  <2> QED
    BY <1>11, <2>2 DEF EndInv, VisitedAreKilled, OnlyMainDestructs, ClosedIsLast, Alive, Top
<1> QED
  BY <1>3, <1>4, <1>7, <1>8, <1>9, <1>10, <1>11, Zenon DEF Next

-----------------------------------------------------------------------------
(* The theorems *)

\* The inductive invariant holds in every reachable state.
THEOREM PhpCoroutineInvariant == Spec => []IInv
BY InvInit, InvStep, PTL DEF Spec

\* The variables keep their types.
THEOREM TypeCorrect == Spec => []TypeOK
BY PhpCoroutineInvariant, PTL DEF IInv

\* Until the first cross resume, the PHP frames of every coroutine continue in those
\* of the coroutine below it (swow_coroutine_switch_executor).
THEOREM TraceFollowsTheStack == Spec => []TraceIsCallStackUncrossed
BY PhpCoroutineInvariant, PTL DEF IInv

\* Nobody but a coroutine in the map can get control or an exception
\* (swow_coroutine_jump_standard, swow_coroutine_shutdown).
THEOREM ControlStaysWithTheLiving == Spec => []OnlyTheLivingHaveControl
BY PhpCoroutineInvariant, PTL DEF IInv

\* Kill never ends another coroutine that got the memory of its victim
\* (swow_coroutine_kill).
THEOREM KillHitsItsVictim == Spec => []VictimIsTheSame
<1>1. IInv => VictimIsTheSame
  BY DEF IInv, IsAimed, VictimIsTheSame, Found, Alive
<1> QED
  BY <1>1, PhpCoroutineInvariant, PTL

\* When the extension shuts down no coroutine but the main one lives
\* (swow_coroutine_main_dtor_object, swow_coroutine_dtor_object), in a program that
\* does not start coroutines whose object was destructed already.
THEOREM ShutdownLeavesNobody ==
    ASSUME LateStarts = FALSE
    PROVE  Spec => []ShutdownKillsAll
<1>1. Init => EndInv
  BY PhpCoroutineAssumption
     DEF Init, EndInv, VisitedAreKilled, OnlyMainDestructs, ClosedIsLast, Idle
<1>2. IInv /\ EndInv /\ [Next]_vars => EndInv'
  BY EndStep
<1>3. EndInv => ShutdownKillsAll
  BY DEF EndInv, ClosedIsLast, ShutdownKillsAll
<1> QED
  BY <1>1, <1>2, <1>3, PhpCoroutineInvariant, PTL DEF Spec
=============================================================================
