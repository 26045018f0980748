------------------------------ MODULE Coroutine ------------------------------
(***************************************************************************)
(* The switching core of libcat (cat_coroutine.c): creation, resume,       *)
(* yield, the end of a coroutine, and the scheduler coroutine that catches *)
(* whoever has nowhere else to go.                                         *)
(*                                                                         *)
(* All coroutines of a thread share one processor: exactly one of them is  *)
(* current, and the others lie in a doubly linked list (previous/next)     *)
(* below it or are parked outside of it.  Each action is what happens      *)
(* between two points at which a coroutine can lose control, so it is      *)
(* atomic in the program too.                                              *)
(***************************************************************************)
EXTENDS Naturals, FiniteSets

CONSTANTS Coroutines,  \* the coroutine structures that can be in use at once
          Main,        \* the coroutine the thread starts with
          SchedulerExposed, \* whether the program resumes the scheduler too:
                       \* getPrevious() of a coroutine that was woken by an
                       \* event returns it, and nothing guards it then
          NoCo         \* the null pointer

ASSUME CoroutineAssumption ==
    /\ IsFiniteSet(Coroutines)
    /\ Main \in Coroutines
    /\ NoCo \notin Coroutines
    /\ SchedulerExposed \in BOOLEAN

VARIABLES
    current,       \* CAT_COROUTINE_G(current)
    scheduler,     \* CAT_COROUTINE_G(scheduler)
    count,         \* CAT_COROUTINE_G(count)
    switch_denied, \* CAT_COROUTINE_G(switch_denied)
    state,         \* coroutine->state; "none" also stands for freed memory
    started,       \* coroutines whose function has begun (start_time > 0)
    previous,      \* coroutine->previous
    next,          \* coroutine->next
    from,          \* coroutine->from, which nothing keeps valid
    accept_data,   \* coroutines with CAT_COROUTINE_FLAG_ACCEPT_DATA
    awaiting       \* coroutines that take the data of the switch to them: not
                   \* yet started, or switched out with retval # NULL

globals == <<current, scheduler, count, switch_denied>>
links == <<previous, next>>
vars == <<current, scheduler, count, switch_denied, state, started,
          previous, next, from, accept_data, awaiting>>

States == {"none", "waiting", "running", "dead"}
Pointers == Coroutines \cup {NoCo}

-----------------------------------------------------------------------------
\* cat_coroutine_runtime_init(): the main coroutine is running and counted.
Init ==
    /\ current = Main
    /\ scheduler = NoCo
    /\ count = 1
    /\ switch_denied = FALSE
    /\ state = [c \in Coroutines |-> IF c = Main THEN "running" ELSE "none"]
    /\ started = {Main}
    /\ previous = [c \in Coroutines |-> NoCo]
    /\ next = [c \in Coroutines |-> NoCo]
    /\ from = [c \in Coroutines |-> NoCo]
    /\ accept_data = {}
    /\ awaiting = {}

\* cat_coroutine_create(): a structure in use gets a stack, not control.
Create(c) ==
    /\ state[c] = "none"
    /\ state' = [state EXCEPT ![c] = "waiting"]
    /\ previous' = [previous EXCEPT ![c] = NoCo]
    /\ next' = [next EXCEPT ![c] = NoCo]
    /\ from' = [from EXCEPT ![c] = NoCo]
    /\ accept_data' = accept_data \cup {c}
    /\ awaiting' = awaiting \cup {c}
    /\ UNCHANGED <<globals, started>>

\* cat_coroutine_close(): only a coroutine that never ran can be closed by hand
\* (a dead one is EBADF, a started one EBUSY).
Close(c) ==
    /\ state[c] = "waiting"
    /\ c \notin started
    /\ state' = [state EXCEPT ![c] = "none"]
    /\ accept_data' = accept_data \ {c}
    /\ awaiting' = awaiting \ {c}
    /\ UNCHANGED <<globals, started, links, from>>

\* cat_coroutine_switch_deny() and cat_coroutine_switch_allow(), one flag.
SwitchDeny ==
    /\ switch_denied' = TRUE
    /\ UNCHANGED <<current, scheduler, count, state, started, links, from,
                   accept_data, awaiting>>

SwitchAllow ==
    /\ switch_denied' = FALSE
    /\ UNCHANGED <<current, scheduler, count, state, started, links, from,
                   accept_data, awaiting>>

-----------------------------------------------------------------------------
\* cat_coroutine_jump_standard() up to the context switch and the first code
\* that runs after it: in a coroutine that has run before, the return from its
\* own jump (which clears its accept-data flag); in a new one,
\* cat_coroutine_context_function() (which counts it).
Jump(c, retval) ==
    /\ current' = c
    /\ from' = [from EXCEPT ![c] = current]
    /\ state' = [state EXCEPT ![current] = "waiting", ![c] = "running"]
    /\ started' = started \cup {c}
    /\ count' = IF c \in started THEN count ELSE count + 1
    /\ accept_data' = (IF retval THEN accept_data \cup {current} ELSE accept_data)
                          \ (IF c \in started THEN {c} ELSE {})
    /\ awaiting' = (awaiting \ {c}) \cup (IF retval THEN {current} ELSE {})

\* A wrong JumpDead that does not count, kept to show that CountIsExact can fail.
JumpDeadNotCounted(c) ==
    /\ current' = c
    /\ from' = [from EXCEPT ![c] = current]
    /\ state' = [state EXCEPT ![current] = "none", ![c] = "running"]
    /\ started' = started \ {current}
    /\ accept_data' = accept_data \ {current, c}
    /\ awaiting' = awaiting \ {current, c}
    /\ UNCHANGED count

\* The same for a coroutine whose function has returned: the coroutine that
\* gets control finds its from dead and frees it.
JumpDead(c) ==
    /\ current' = c
    /\ from' = [from EXCEPT ![c] = current]
    /\ state' = [state EXCEPT ![current] = "none", ![c] = "running"]
    /\ started' = started \ {current}
    /\ count' = count - 1
    /\ accept_data' = accept_data \ {current, c}
    /\ awaiting' = awaiting \ {current, c}

\* A wrong Link that does not take c out first, kept to show that OneList can
\* fail.
LinkOnly(c) ==
    /\ previous' = [previous EXCEPT ![c] = current]
    /\ next' = [next EXCEPT ![c] = NoCo, ![current] = c]

\* Take c out of the list, then put it on top of the current coroutine.
Link(c) ==
    /\ previous' = [d \in Coroutines |->
                       IF d = c THEN current
                       ELSE IF d = next[c] THEN previous[c] ELSE previous[d]]
    /\ next' = [d \in Coroutines |->
                   IF d = c THEN NoCo
                   ELSE IF d = current THEN c
                   ELSE IF d = previous[c] THEN next[c] ELSE next[d]]

\* cat_coroutine_check_resumability(): running, dead and unused are errors.
IsResumable(c) == state[c] = "waiting"

\* cat_coroutine_resume().
Resume(c, retval) ==
    /\ ~switch_denied
    /\ c = scheduler => SchedulerExposed
    /\ IsResumable(c)
    /\ Link(c)
    /\ Jump(c, retval)
    /\ UNCHANGED <<scheduler, switch_denied>>

\* A wrong YieldTarget that goes back to who resumed last, kept to show that
\* ImplementsCallStack can fail.
YieldToFrom ==
    IF previous[current] # NoCo /\ from[current] # NoCo THEN from[current]
    ELSE IF scheduler # current THEN scheduler
    ELSE NoCo

\* Where a yield goes: the coroutine below, else the scheduler, else nowhere.
YieldTarget ==
    IF previous[current] # NoCo THEN previous[current]
    ELSE IF scheduler # current THEN scheduler
    ELSE NoCo

Unlink(c) ==
    /\ previous' = [previous EXCEPT ![current] = NoCo]
    /\ next' = [next EXCEPT ![c] = NoCo]

\* cat_coroutine_yield() by user code; nowhere to go is an error.
Yield(retval) ==
    /\ ~switch_denied
    /\ current # scheduler
    /\ YieldTarget # NoCo
    /\ Unlink(YieldTarget)
    /\ Jump(YieldTarget, retval)
    /\ UNCHANGED <<scheduler, switch_denied>>

\* The end of cat_coroutine_context_function(): the coroutine is dead and
\* yields for the last time.  Denied sections are bracketed by the code that
\* opens them, so none is open here.
Finish ==
    /\ ~switch_denied
    /\ current \notin {Main, scheduler}
    /\ YieldTarget # NoCo
    /\ Unlink(YieldTarget)
    /\ JumpDead(YieldTarget)
    /\ UNCHANGED <<scheduler, switch_denied>>

-----------------------------------------------------------------------------
\* cat_coroutine_scheduler_run(): create the scheduler coroutine and run it up
\* to its first yield, which comes straight back to the caller.
SchedulerRun(c) ==
    /\ ~switch_denied
    /\ scheduler = NoCo
    /\ state[c] = "none"
    /\ scheduler' = c
    /\ state' = [state EXCEPT ![c] = "waiting"]
    /\ started' = started \cup {c}
    /\ previous' = [previous EXCEPT ![c] = NoCo]
    /\ next' = [next EXCEPT ![c] = NoCo]
    /\ from' = [from EXCEPT ![c] = current, ![current] = c]
    /\ accept_data' = (accept_data \cup {c}) \ {current}
    /\ awaiting' = awaiting \ {c}
    /\ UNCHANGED <<current, count, switch_denied>>

\* cat_coroutine_scheduler_close() after its wait_all: every other coroutine
\* has finished.  The main coroutine resumes the scheduler, which leaves its
\* loop, dies, and gives control back.  How the scheduler gets there, and what
\* happens when other coroutines wait too, is the subject of Scheduler.tla.
SchedulerClose ==
    /\ ~switch_denied
    /\ scheduler # NoCo
    /\ current = Main
    /\ count = 1
    /\ scheduler' = NoCo
    /\ state' = [state EXCEPT ![scheduler] = "none"]
    /\ started' = started \ {scheduler}
    /\ previous' = [[previous EXCEPT ![current] = IF @ = scheduler THEN NoCo ELSE @]
                        EXCEPT ![scheduler] = NoCo]
    /\ next' = [next EXCEPT ![scheduler] = NoCo]
    /\ from' = [from EXCEPT ![scheduler] = current, ![current] = scheduler]
    /\ accept_data' = accept_data \ {scheduler, current}
    /\ awaiting' = awaiting \ {scheduler}
    /\ UNCHANGED <<current, count, switch_denied>>

Next ==
    \/ \E c \in Coroutines :
          \/ Create(c)
          \/ Close(c)
          \/ \E retval \in BOOLEAN : Resume(c, retval)
          \/ SchedulerRun(c)
    \/ \E retval \in BOOLEAN : Yield(retval)
    \/ Finish
    \/ SwitchDeny
    \/ SwitchAllow
    \/ SchedulerClose

Spec == Init /\ [][Next]_vars

-----------------------------------------------------------------------------
Live == {c \in Coroutines : state[c] # "none"}

\* In the list: the coroutine on top, and whoever has one on top of it.
InList(c) == c = current \/ next[c] # NoCo

\* The variables have their types; in particular a dead coroutine is freed
\* before any other code runs, so none is ever seen.
TypeOK ==
    /\ current \in Coroutines
    /\ scheduler \in Pointers
    /\ count \in Nat
    /\ switch_denied \in BOOLEAN
    /\ state \in [Coroutines -> States \ {"dead"}]
    /\ started \in SUBSET Coroutines
    /\ previous \in [Coroutines -> Pointers]
    /\ next \in [Coroutines -> Pointers]
    /\ from \in [Coroutines -> Pointers]
    /\ accept_data \in SUBSET Coroutines
    /\ awaiting \in SUBSET Coroutines

\* One processor: exactly the current coroutine is running, whatever chain of
\* resumes, yields and ends led here, and it has been counted as started.
OneRunning ==
    /\ \A c \in Coroutines : state[c] = "running" <=> c = current
    /\ current \in started
    /\ started \subseteq Live

\* The links are one doubly linked list that ends at the current coroutine:
\* each link is answered by its counterpart, no link leads to a coroutine that
\* was freed or has not started, and there is one top and one bottom.  This is
\* what cross resumes (resuming a coroutine that lies below) could tear.
Answered == \A c, d \in Coroutines : previous[c] = d <=> next[d] = c

NoDanglingLink ==
    \A c \in Coroutines : /\ previous[c] # NoCo => previous[c] \in started
                          /\ next[c] # NoCo => next[c] \in started

OneTop ==
    /\ next[current] = NoCo
    /\ \A c \in Coroutines : next[c] = NoCo /\ previous[c] # NoCo => c = current

OneBottom ==
    \A c, d \in Coroutines :
        InList(c) /\ InList(d) /\ previous[c] = NoCo /\ previous[d] = NoCo => c = d

\* Walking down from any coroutine comes to an end: every set of coroutines has
\* one whose previous is not in it.
NoCycle ==
    \A S \in (SUBSET Coroutines) \ {{}} : \E c \in S : previous[c] \notin S

OneList == Answered /\ NoDanglingLink /\ OneTop /\ OneBottom /\ NoCycle

\* As long as the program leaves it alone, the scheduler has nobody below it: a
\* coroutine below it would expect control that the scheduler never gives back.
SchedulerAtBottom ==
    scheduler # NoCo => /\ scheduler \in started
                        /\ previous[scheduler] = NoCo

\* count is the number of coroutines that have begun and not ended, without
\* the scheduler: it is what the scheduler compares with the number of
\* wait_all() callers to tell an idle program from a deadlocked one.
CountIsExact == count = Cardinality(started \ {scheduler})

-----------------------------------------------------------------------------
\* The list read from the top: the n-th coroutine below the current one.
Below[n \in 0..Cardinality(Coroutines)] ==
    IF n = 0 THEN current
    ELSE IF Below[n - 1] = NoCo THEN NoCo ELSE previous[Below[n - 1]]

Depth == Cardinality({n \in 0..Cardinality(Coroutines) : Below[n] # NoCo})
StackOf == [i \in 1..Depth |-> Below[Depth - i]]
ParkedOf == {c \in Live : ~InList(c)}

Abstract == INSTANCE CallStack WITH stack <- StackOf, parked <- ParkedOf

\* Refinement: seen through the links, control is a call stack; the list has no
\* cycle and a yield returns to the most recent resumer that has not itself
\* been pulled out from below.
ImplementsCallStack == Abstract!Spec

=============================================================================
