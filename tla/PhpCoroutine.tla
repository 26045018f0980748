----------------------------- MODULE PhpCoroutine -----------------------------
(***************************************************************************)
(* The PHP side of coroutines (swow_coroutine.c): the life of a Coroutine  *)
(* object, the map of the living, the PHP frames that are linked along     *)
(* with the switches, exceptions thrown into other coroutines, kill, exit  *)
(* and the end of the main script.                                         *)
(*                                                                         *)
(* Control is a call stack here (CallStack.tla, which Coroutine.tla        *)
(* implements).  PHP code takes steps as long as a budget lasts; an action  *)
(* is what happens up to the next point where another coroutine can get    *)
(* control, with the code of swow_coroutine_jump_standard() that follows   *)
(* the switch in the coroutine it arrives at.                              *)
(***************************************************************************)
EXTENDS Naturals, Sequences, FiniteSets, SequencesExt, Queues

CONSTANTS Coroutines,  \* the coroutine structures, the main one among them
          Main,
          Scheduler,   \* the scheduler coroutine, which runs no PHP code
          NoCo,        \* the null pointer
          MaxId,       \* how many coroutines are created in all
          Budget,      \* how many steps of PHP code the coroutines take in all
          MutualKills, \* whether a coroutine is killed that is killing another
          LateStarts   \* whether a coroutine is started after its object was
                       \* destructed at the end of the script

ASSUME PhpCoroutineAssumption ==
    /\ IsFiniteSet(Coroutines)
    /\ Main \in Coroutines
    /\ Scheduler \notin Coroutines
    /\ NoCo \notin Coroutines \cup {Scheduler}
    /\ MaxId \in Nat \ {0} /\ Budget \in Nat
    /\ MutualKills \in BOOLEAN /\ LateStarts \in BOOLEAN

VARIABLES
    stack,     \* who can get control back, top last
    below,     \* executor->root_execute_data->prev_execute_data, as the
               \* coroutine whose frame it points to
    status,    \* of the object: "none", "created", "alive" (started and in
               \* SWOW_COROUTINE_G(map)), or "dead"
    id,        \* coroutine->id, 0 if there is none
    last_id,   \* the last id given out
    phase,     \* how far swow_coroutine_function(), or the main script, has come
    exception, \* executor->exception, or EG(exception) of the one that runs
    aside,     \* the exception put aside while a destructor or defer task runs
    call,      \* the switching function each coroutine is in
    budget,    \* the steps of PHP code that are left
    visited,   \* objects that were destructed at the end of the script
    crossed    \* history: a coroutine was resumed from under two others

control == <<stack, below, crossed>>
objects == <<status, id, last_id>>
vars == <<stack, below, status, id, last_id, phase, exception, aside, call,
          budget, visited, crossed>>

Phases == {"body", "destructor", "callable", "properties", "exit", "closed"}
Killing == {"kill", "killAll", "destruct"}
Idle == [op |-> "none", target |-> NoCo, id |-> 0]
On(what, d) == [op |-> what, target |-> d, id |-> id[d]]

Top == Last(stack)
OnStack == ToSet(stack)
Alive == {c \in Coroutines : status[c] = "alive"}

\* swow_coroutine_runtime_init() and swow_coroutine_main_create()
Init ==
    /\ stack = <<Main>>
    /\ below = [c \in Coroutines |-> NoCo]
    /\ status = [c \in Coroutines |-> IF c = Main THEN "alive" ELSE "none"]
    /\ id = [c \in Coroutines |-> IF c = Main THEN 1 ELSE 0]
    /\ last_id = 1
    /\ phase = [c \in Coroutines |-> "body"]
    /\ exception = [c \in Coroutines |-> "none"]
    /\ aside = [c \in Coroutines |-> "none"]
    /\ call = [c \in Coroutines |-> Idle]
    /\ budget = Budget
    /\ visited = {}
    /\ crossed = FALSE

\* Coroutine c runs; it is not inside a switching function.
Current(c) == Top = c /\ call[c] = Idle /\ phase[c] # "closed"

\* It runs PHP code: of its function, of a destructor or of an object it frees.
Runs(c) == Current(c) /\ exception[c] = "none"

Spend ==
    /\ budget > 0
    /\ budget' = budget - 1

\* swow_coroutine_is_executing() of another coroutine: the main coroutine has no
\* frame while it destructs the others.
Executing(d) == d \in Alive /\ call[d].op # "destruct"

-----------------------------------------------------------------------------
\* What a switch does.

\* The coroutine below c in s whose frames c continues; the scheduler has none.
Below(s, c) ==
    IF \E i \in 2..Len(s) : s[i] = c /\ s[i - 1] # Scheduler
      THEN s[(CHOOSE i \in 2..Len(s) : s[i] = c) - 1]
      ELSE NoCo

\* A wrong Relink that leaves the coroutine that is left as it was, kept to show
\* that TraceIsCallStackUncrossed can fail.
RelinkTarget(c, d) ==
    below' = [x \in Coroutines |-> IF x = d THEN Below(stack', x) ELSE below[x]]

\* swow_coroutine_switch_executor(): only the coroutines of the switch are
\* linked anew.
Relink(c, d) ==
    below' = [x \in Coroutines |-> IF x \in {c, d} THEN Below(stack', x) ELSE below[x]]

\* The call d was in, when control comes back: kill and its like go on.
Return(d) == IF call[d].op \in Killing THEN call[d] ELSE Idle

\* swow_coroutine_handle_cross_exception(): a kill finds no room where another
\* exception is on its way, and nothing replaces a kill that is.
Deliver(d, what) == IF exception[d] = "none" THEN what ELSE exception[d]

\* c, in function "how", switches to the living coroutine d, where exception
\* "what" is thrown.
Switch(c, d, how, what) ==
    /\ stack' = Append(Without(stack, d), d)
    /\ crossed' = (crossed \/ \E i \in 1..(Len(stack) - 2) : stack[i] = d)
    /\ Relink(c, d)
    /\ call' = [x \in Coroutines |-> IF x = c THEN how
                                     ELSE IF x = d THEN Return(d) ELSE call[x]]
    /\ exception' = [exception EXCEPT ![d] = Deliver(d, what)]
    /\ UNCHANGED <<phase, aside>>

\* cat_coroutine_yield() from c.
GiveUp(c) ==
    /\ stack' = IF Len(stack) > 1 THEN Front(stack) ELSE <<Scheduler>>
    /\ Relink(c, Last(stack'))
    /\ UNCHANGED crossed

\* c waits in function "how" for somebody to resume it.
Suspend(c, how) ==
    /\ GiveUp(c)
    /\ call' = [x \in Coroutines |-> IF x = c THEN [Idle EXCEPT !.op = how]
                                     ELSE IF x = Last(stack') THEN Return(x) ELSE call[x]]
    /\ UNCHANGED <<phase, exception, aside>>

-----------------------------------------------------------------------------
\* The life of an object.

\* A wrong New that gives the same id out again, kept to show that
\* VictimIsTheSame can fail.
NewSameId(c, d) ==
    /\ Runs(c) /\ Spend
    /\ status[d] = "none"
    /\ last_id < MaxId
    /\ last_id' = 2
    /\ id' = [id EXCEPT ![d] = last_id']
    /\ status' = [status EXCEPT ![d] = "created"]
    /\ UNCHANGED <<control, phase, exception, aside, call, visited>>

\* swow_coroutine_create_object() and swow_coroutine_construct()
New(c, d) ==
    /\ Runs(c) /\ Spend
    /\ status[d] = "none"
    /\ last_id < MaxId
    /\ last_id' = last_id + 1
    /\ id' = [id EXCEPT ![d] = last_id']
    /\ status' = [status EXCEPT ![d] = "created"]
    /\ UNCHANGED <<control, phase, exception, aside, call, visited>>

\* A wrong Release, as if the map held no reference, kept to show that
\* OnlyTheLivingHaveControl can fail.
ReleaseLiving(c, d) ==
    /\ Current(c)
    /\ status[d] # "none"
    /\ \A x \in Coroutines : call[x].op \in {"resume", "throw", "kill"} => call[x].target # d
    /\ status' = [status EXCEPT ![d] = "none"]
    /\ id' = [id EXCEPT ![d] = 0]
    /\ visited' = visited \ {d}
    /\ UNCHANGED <<control, last_id, phase, exception, aside, call, budget>>

\* The program gives up its last reference to d, which never started or has
\* ended; a method that runs on d holds a reference of its own.
Release(c, d) ==
    /\ Current(c)
    /\ status[d] \in {"created", "dead"}
    /\ \A x \in Coroutines : call[x].op \in {"resume", "throw", "kill"} => call[x].target # d
    /\ status' = [status EXCEPT ![d] = "none"]
    /\ id' = [id EXCEPT ![d] = 0]
    /\ visited' = visited \ {d}
    /\ UNCHANGED <<control, last_id, phase, exception, aside, call, budget>>

\* Coroutine::run(), or the first resume(), and the start of
\* swow_coroutine_function().
Start(c, d) ==
    /\ Runs(c) /\ Spend
    /\ status[d] = "created"
    /\ LateStarts \/ d \notin visited
    /\ stack' = Append(stack, d)
    /\ Relink(c, d)
    /\ UNCHANGED crossed
    /\ status' = [status EXCEPT ![d] = "alive"]
    /\ phase' = [phase EXCEPT ![d] = "body"]
    /\ call' = [call EXCEPT ![c] = On("resume", d)]
    /\ UNCHANGED <<id, last_id, exception, aside, visited>>

\* The next part of swow_coroutine_function(): the function, __destruct(), the
\* release of the callable and of the properties each end, by themselves or by
\* an exception, which is reported and forgotten.
EndPhase(c) ==
    /\ Current(c) /\ c # Main
    /\ aside[c] = "none"
    /\ phase[c] # "properties"
    /\ phase' = [phase EXCEPT ![c] = CASE @ = "body" -> "destructor"
                                       [] @ = "destructor" -> "callable"
                                       [] @ = "callable" -> "properties"]
    /\ exception' = [exception EXCEPT ![c] = "none"]
    /\ UNCHANGED <<control, objects, aside, call, budget, visited>>

\* The end of swow_coroutine_function().  Whoever gets control shuts the executor
\* down and takes d out of the map, which frees the object if nobody else has it.
Die(c, freed) ==
    /\ Current(c) /\ c # Main
    /\ aside[c] = "none"
    /\ phase[c] = "properties"
    /\ freed => \A x \in Coroutines :
                   call[x].op \in {"resume", "throw", "kill"} => call[x].target # c
    /\ GiveUp(c)
    /\ status' = [status EXCEPT ![c] = IF freed THEN "none" ELSE "dead"]
    /\ id' = IF freed THEN [id EXCEPT ![c] = 0] ELSE id
    /\ visited' = IF freed THEN visited \ {c} ELSE visited
    /\ call' = [x \in Coroutines |-> IF x = Last(stack') THEN Return(x) ELSE call[x]]
    /\ exception' = [exception EXCEPT ![c] = "none"]
    /\ UNCHANGED <<last_id, phase, aside, budget>>

-----------------------------------------------------------------------------
\* What PHP code does.

\* resume() of a coroutine that has started
Resume(c, d) ==
    /\ Runs(c) /\ Spend
    /\ d # c /\ status[d] = "alive"
    /\ Switch(c, d, On("resume", d), "none")
    /\ UNCHANGED <<objects, visited>>

\* yield()
Yield(c) ==
    /\ Runs(c) /\ Spend
    /\ Suspend(c, "yield")
    /\ UNCHANGED <<objects, visited>>

\* A wait for a timer or for I/O.  Internal code waits with an exception on its
\* way too, in the handler that frees an object.
Wait(c) ==
    /\ Current(c) /\ Spend
    /\ Suspend(c, "wait")
    /\ UNCHANGED <<objects, visited>>

\* The event loop, in the scheduler, ends the wait.
Event(c) ==
    /\ Top = Scheduler
    /\ call[c].op = "wait"
    /\ Switch(Scheduler, c, Idle, "none")
    /\ UNCHANGED <<objects, budget, visited>>

\* throw()
Throw(c, d) ==
    /\ Runs(c) /\ Spend
    /\ d # c /\ Executing(d)
    /\ Switch(c, d, On("throw", d), "thrown")
    /\ UNCHANGED <<objects, visited>>

\* PHP code throws, or one of the functions here fails.
Raise(c) ==
    /\ Runs(c) /\ Spend
    /\ exception' = [exception EXCEPT ![c] = "thrown"]
    /\ UNCHANGED <<control, objects, phase, aside, call, visited>>

Catch(c) ==
    /\ Current(c)
    /\ exception[c] = "thrown"
    /\ exception' = [exception EXCEPT ![c] = "none"]
    /\ UNCHANGED <<control, objects, phase, aside, call, budget, visited>>

\* exit(), or kill() of the coroutine itself: nothing catches the unwind exit.
Exit(c) ==
    /\ Runs(c) /\ Spend
    /\ exception' = [exception EXCEPT ![c] = "unwind"]
    /\ UNCHANGED <<control, objects, phase, aside, call, visited>>

\* An object with a destructor, or with defer tasks, goes while an exception is
\* on its way: swow_call_function_anyway().
EnterDestructor(c) ==
    /\ Current(c) /\ Spend
    /\ exception[c] # "none" /\ aside[c] = "none"
    /\ aside' = [aside EXCEPT ![c] = exception[c]]
    /\ exception' = [exception EXCEPT ![c] = "none"]
    /\ UNCHANGED <<control, objects, phase, call, visited>>

\* An exception of the destructor drops the unwind exit it was called in.
LeaveDestructor(c) ==
    /\ Current(c)
    /\ aside[c] # "none"
    /\ exception' = [exception EXCEPT ![c] = IF @ = "none" THEN aside[c] ELSE @]
    /\ aside' = [aside EXCEPT ![c] = "none"]
    /\ UNCHANGED <<control, objects, phase, call, budget, visited>>

-----------------------------------------------------------------------------
\* kill() and killAll(): a loop, because a coroutine may not end at once.

\* kill() of another coroutine, the first time round
Kill(c, d) ==
    /\ Runs(c) /\ Spend
    /\ d # c /\ Executing(d)
    /\ call[d].op \in Killing => MutualKills
    /\ Switch(c, d, On("kill", d), "unwind")
    /\ UNCHANGED <<objects, visited>>

\* zend_hash_index_find() in the map
Found(i) == \E c \in Alive : id[c] = i

\* A wrong KillAgain that kills the main coroutine whatever it does, kept to show
\* that KillReturns can fail.
KillAgainMain(c) ==
    LET d == call[c].target IN
    /\ Top = c
    /\ call[c].op \in Killing /\ d # NoCo
    /\ Found(call[c].id)
    /\ Switch(c, d, call[c], "unwind")
    /\ UNCHANGED <<objects, budget, visited>>

\* The coroutine lives: once more.
KillAgain(c) ==
    LET d == call[c].target IN
    /\ Top = c
    /\ call[c].op \in Killing /\ d # NoCo
    /\ Found(call[c].id) /\ Executing(d)
    /\ Switch(c, d, call[c], "unwind")
    /\ UNCHANGED <<objects, budget, visited>>

\* A wrong KillDone that throws just once, kept to show that ShutdownKillsAll can
\* fail.
KillDoneOnce(c) ==
    /\ Top = c
    /\ call[c].op \in Killing /\ call[c].target # NoCo
    /\ call' = [call EXCEPT ![c] = IF @.op = "killAll" THEN [Idle EXCEPT !.op = "killAll"]
                                   ELSE Idle]
    /\ UNCHANGED <<control, objects, phase, exception, aside, budget, visited>>

\* It is gone, or it is the main coroutine and destructs the others.
KillDone(c) ==
    /\ Top = c
    /\ call[c].op \in Killing /\ call[c].target # NoCo
    /\ ~(Found(call[c].id) /\ Executing(call[c].target))
    /\ call' = [call EXCEPT ![c] = IF @.op = "killAll" THEN [Idle EXCEPT !.op = "killAll"]
                                   ELSE Idle]
    /\ UNCHANGED <<control, objects, phase, exception, aside, budget, visited>>

KillAll(c) ==
    /\ Runs(c) /\ Spend
    /\ (\E x \in Coroutines : call[x].target = c /\ call[x].op \in Killing) => MutualKills
    /\ call' = [call EXCEPT ![c] = [Idle EXCEPT !.op = "killAll"]]
    /\ UNCHANGED <<control, objects, phase, exception, aside, visited>>

KillNext(c, d) ==
    /\ Top = c
    /\ call[c].op = "killAll" /\ call[c].target = NoCo
    /\ d \in Alive \ {c, Main}
    /\ Switch(c, d, On("killAll", d), "unwind")
    /\ UNCHANGED <<objects, budget, visited>>

KilledAll(c) ==
    /\ Top = c
    /\ call[c].op = "killAll" /\ call[c].target = NoCo
    /\ Alive \subseteq {c, Main}
    /\ call' = [call EXCEPT ![c] = Idle]
    /\ UNCHANGED <<control, objects, phase, exception, aside, budget, visited>>

-----------------------------------------------------------------------------
\* The end of the main script: php_request_shutdown() destructs every object,
\* coroutines and others in any order, and swow_coroutine_main_dtor_object() and
\* swow_coroutine_dtor_object() kill the coroutines that live.

EndScript ==
    /\ Current(Main)
    /\ aside[Main] = "none"
    /\ phase[Main] \in {"body", "exit"}
    /\ exception[Main] # "none" \/ phase[Main] = "body"
    /\ phase' = [phase EXCEPT ![Main] = "exit"]
    /\ exception' = [exception EXCEPT ![Main] = "none"]
    /\ UNCHANGED <<control, objects, aside, call, budget, visited>>

Destruct(d) ==
    /\ Runs(Main) /\ aside[Main] = "none"
    /\ phase[Main] = "exit"
    /\ d \in Coroutines \ (visited \cup {Main})
    /\ visited' = visited \cup {d}
    /\ \/ /\ status[d] = "alive"
          /\ Switch(Main, d, On("destruct", d), "unwind")
       \/ /\ status[d] = "created"
          /\ UNCHANGED <<control, phase, exception, aside, call>>
    /\ UNCHANGED <<objects, budget>>

\* Nothing is left to destruct: the extension shuts down.
Close ==
    /\ Runs(Main) /\ aside[Main] = "none"
    /\ phase[Main] = "exit"
    /\ \A d \in Coroutines \ {Main} : status[d] \in {"created", "alive"} => d \in visited
    /\ phase' = [phase EXCEPT ![Main] = "closed"]
    /\ UNCHANGED <<control, objects, exception, aside, call, budget, visited>>

-----------------------------------------------------------------------------
Next ==
    \/ \E c, d \in Coroutines :
          New(c, d) \/ Release(c, d) \/ Start(c, d) \/ Resume(c, d) \/ Throw(c, d)
          \/ Kill(c, d) \/ KillNext(c, d)
    \/ \E c \in Coroutines :
          \/ EndPhase(c) \/ Yield(c) \/ Wait(c) \/ Event(c) \/ Raise(c) \/ Catch(c)
          \/ Exit(c) \/ EnterDestructor(c) \/ LeaveDestructor(c)
          \/ KillAgain(c) \/ KillDone(c) \/ KillAll(c) \/ KilledAll(c) \/ Destruct(c)
    \/ \E c \in Coroutines, freed \in BOOLEAN : Die(c, freed)
    \/ EndScript \/ Close

Spec == Init /\ [][Next]_vars

\* Fairness: whoever has control goes on.
FairSpec == Spec /\ WF_vars(Next)

-----------------------------------------------------------------------------
TypeOK ==
    /\ stack \in Seq(Coroutines \cup {Scheduler})
    /\ below \in [Coroutines -> Coroutines \cup {NoCo}]
    /\ status \in [Coroutines -> {"none", "created", "alive", "dead"}]
    /\ id \in [Coroutines -> 0..MaxId]
    /\ last_id \in 0..MaxId
    /\ phase \in [Coroutines -> Phases]
    /\ exception \in [Coroutines -> {"none", "thrown", "unwind"}]
    /\ aside \in [Coroutines -> {"none", "thrown", "unwind"}]
    /\ call \in [Coroutines ->
          [op : {"none", "yield", "wait", "resume", "throw"} \cup Killing,
           target : Coroutines \cup {NoCo}, id : 0..MaxId]]
    /\ budget \in 0..Budget
    /\ visited \subseteq Coroutines

\* The frames of the coroutine that runs continue in those of the coroutines
\* below it, in order, down to the first or to the scheduler; the frames of a
\* coroutine off the stack continue nowhere.
TraceIsCallStack == \A c \in Coroutines : below[c] = Below(stack, c)

\* So it is until the first cross resume, which relinks the two coroutines of the
\* switch but not the one that lay right above the target.
TraceIsCallStackUncrossed == crossed \/ TraceIsCallStack

\* The coroutine that kill throws at is the one it was called for, as long as the
\* map has its id, even if the object was freed and its memory used again.
VictimIsTheSame ==
    \A c \in Coroutines :
        call[c].op \in Killing /\ call[c].target # NoCo /\ Found(call[c].id)
            => status[call[c].target] = "alive" /\ id[call[c].target] = call[c].id

\* Nobody but the living can get control back or has an exception to handle.
OnlyTheLivingHaveControl ==
    \A c \in Coroutines :
        c \in OnStack \/ call[c] # Idle \/ exception[c] # "none" \/ aside[c] # "none"
            => status[c] = "alive"

\* When the main coroutine is closed, it is the only one that lives.
ShutdownKillsAll == phase[Main] = "closed" => Alive = {Main}

\* Whoever kills somebody gets done with it.
KillReturns == \A c \in Coroutines : call[c].op \in Killing ~> call[c].op \notin Killing
=============================================================================
