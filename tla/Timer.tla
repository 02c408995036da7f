------------------------------- MODULE Timer --------------------------------
(***************************************************************************)
(* The hard timers of the kernel (rt-thread/src/timer.c): thread delays,   *)
(* and the capacity timer of the deferrable server.  The timers that run   *)
(* are kept in one list, RT_TIMER_SKIP_LIST_LEVEL being 1, in the order in *)
(* which they are due; the tick interrupt looks at the first only.  The    *)
(* tick counter wraps around.                                              *)
(*                                                                         *)
(* Every operation runs with interrupts disabled and is one step.  The     *)
(* tick interrupt is several: a timeout function, called in the middle of  *)
(* rt_timer_check, may itself start or stop any timer.                     *)
(***************************************************************************)
EXTENDS Integers, SequencesExt

CONSTANTS
    Timer,          \* the timer objects
    Periodic,       \* those initialised with RT_TIMER_FLAG_PERIODIC
    NoTimer,
    TickMax,        \* RT_TICK_MAX
    Time            \* the values of init_tick

Half == TickMax \div 2

(* rt_timer_start asserts the upper bound.  A periodic timer of 0 ticks    *)
(* would be due again at once; nobody starts one.                          *)
ASSUME TimerAssumption ==
    /\ TickMax \in Nat /\ Time \subseteq 1..(Half - 1) /\ Time # {}
    /\ Periodic \subseteq Timer /\ NoTimer \notin Timer

VARIABLES
    tick,           \* rt_tick
    list,           \* rt_timer_list
    attached,       \* the timers that are initialised, and not detached
    activated,      \* those with RT_TIMER_FLAG_ACTIVATED
    timeout_tick,   \* of the timers in the list; 0 for the others, where nobody reads it
    init_tick,
    isr,            \* where the tick interrupt is; "none" when a thread runs
    fired,          \* the timer in rt_timer_check's own list, NoTimer if it is empty
    age,            \* history: ticks since a timer that runs was started
    asked,          \* history: its init_tick at that time
    started         \* history: the timers that run, in the order they were started

objects == <<attached, init_tick>>
history == <<age, asked, started>>
vars == <<tick, list, activated, timeout_tick, objects, isr, fired, history>>

Tick == 0..TickMax
Running == {list[k] : k \in 1..Len(list)}

TypeOK ==
    /\ tick \in Tick
    /\ list \in Seq(Timer) /\ started \in Seq(Timer)
    /\ attached \subseteq Timer /\ activated \subseteq Timer
    /\ timeout_tick \in [Timer -> Tick]
    /\ init_tick \in [Timer -> Time]
    /\ isr \in {"none", "check", "callback"}
    /\ fired \in Timer \cup {NoTimer}
    /\ age \in [Timer -> Nat] /\ asked \in [Timer -> Nat]

(* rt_system_timer_init; no timer is initialised yet. *)
Init ==
    /\ tick \in Tick
    /\ list = <<>> /\ started = <<>>
    /\ attached = {} /\ activated = {}
    /\ timeout_tick = [t \in Timer |-> 0]
    /\ init_tick \in [Timer -> {CHOOSE n \in Time : TRUE}]
    /\ isr = "none" /\ fired = NoTimer
    /\ age = [t \in Timer |-> 0] /\ asked = [t \in Timer |-> 0]

(* a - b in rt_tick_t. *)
Sub(a, b) == (a + (TickMax + 1) - b) % (TickMax + 1)

-----------------------------------------------------------------------------
(* For n ticks, with the flag that Periodic says; t must not be in use.    *)
rt_timer_init(t, n) ==
    /\ t \notin attached
    /\ attached' = attached \cup {t}
    /\ activated' = activated \ {t}
    /\ init_tick' = [init_tick EXCEPT ![t] = n]
    /\ UNCHANGED <<tick, list, timeout_tick, isr, fired, history>>

(* rt_list_remove takes one node out of the list it is in; a node that is  *)
(* in no list points at itself, and nothing changes.                       *)
Without(s, t) ==
    IF \E k \in 1..Len(s) : s[k] = t
    THEN RemoveAt(s, CHOOSE k \in 1..Len(s) : s[k] = t) ELSE s

(* _rt_timer_remove: off the list of running timers, or off the list of    *)
(* rt_timer_check.                                                         *)
Removed(t) == Without(list, t)
Forgotten(t) == /\ timeout_tick' = [timeout_tick EXCEPT ![t] = 0]
                /\ age' = [age EXCEPT ![t] = 0]
                /\ asked' = [asked EXCEPT ![t] = 0]
                /\ started' = Without(started, t)

StopKeepsFlag(t) ==         \* a faulty stop: the flag is left
    /\ list' = Removed(t)
    /\ fired' = IF fired = t THEN NoTimer ELSE fired
    /\ Forgotten(t)
    /\ UNCHANGED <<tick, activated, isr>>

Stop(t) ==
    /\ list' = Removed(t)
    /\ fired' = IF fired = t THEN NoTimer ELSE fired
    /\ activated' = activated \ {t}
    /\ Forgotten(t)
    /\ UNCHANGED <<tick, isr>>

(* The flag is tested before interrupts are disabled; to stop a timer that *)
(* expired in between changes nothing.                                     *)
rt_timer_stop(t) ==
    /\ t \in attached /\ t \in activated
    /\ Stop(t)
    /\ UNCHANGED objects

rt_timer_detach(t) ==
    /\ t \in attached
    /\ Stop(t)
    /\ attached' = attached \ {t}
    /\ UNCHANGED init_tick

(* RT_TIMER_CTRL_SET_TIME; the other commands that change a timer are used *)
(* by nobody.                                                              *)
rt_timer_control(t, n) ==
    /\ t \in attached
    /\ init_tick' = [init_tick EXCEPT ![t] = n]
    /\ UNCHANGED <<tick, list, attached, activated, timeout_tick, isr, fired, history>>

(* A faulty test, which goes before timers due at the same tick. *)
LaterOrEqual(t, when) == Sub(timeout_tick[t], when) < Half

(* The loop of rt_timer_start stops before timer t. *)
Later(t, when) == Sub(timeout_tick[t], when) # 0 /\ Sub(timeout_tick[t], when) < Half

(* The place of a timer due at when in list l: before the first timer that *)
(* is due later, at the end if there is none.                              *)
Place(l, when) ==
    CHOOSE k \in 1..(Len(l) + 1) :
        /\ k \in 1..Len(l) => Later(l[k], when)
        /\ \A j \in 1..(k - 1) : ~Later(l[j], when)

DueLate(t) == (tick + init_tick[t] + 1) % (TickMax + 1)     \* a tick late

(* The tick at which timer t, started now, is due. *)
Due(t) == (tick + init_tick[t]) % (TickMax + 1)

(* rt_timer_start, up to the list of rt_timer_check. *)
Start(t) ==
    LET others == Removed(t)
        when == Due(t)
    IN  /\ timeout_tick' = [timeout_tick EXCEPT ![t] = when]
        /\ list' = InsertAt(others, Place(others, when), t)
        /\ activated' = activated \cup {t}
        /\ age' = [age EXCEPT ![t] = 0]
        /\ asked' = [asked EXCEPT ![t] = init_tick[t]]
        /\ started' = Append(Without(started, t), t)
        /\ UNCHANGED <<tick, attached, init_tick>>

rt_timer_start(t) ==
    /\ t \in attached
    /\ Start(t)
    /\ fired' = IF fired = t THEN NoTimer ELSE fired
    /\ UNCHANGED isr

-----------------------------------------------------------------------------
(* rt_tick_increase, in the tick interrupt. *)
rt_tick_increase ==
    /\ isr = "none"
    /\ tick' = (tick + 1) % (TickMax + 1)
    /\ isr' = "check"
    /\ age' = [t \in Timer |-> IF t \in Running THEN age[t] + 1 ELSE age[t]]
    /\ UNCHANGED <<list, activated, timeout_tick, objects, fired, asked, started>>

(* The first timer leaves the list; a timer that is not periodic is no     *)
(* longer activated.                                                       *)
Expire(t) ==
    /\ list' = Tail(list)
    /\ activated' = IF t \in Periodic THEN activated ELSE activated \ {t}

(* rt_timer_check: the first timer is due, and its function is called ...  *)
CheckFirst ==
    /\ isr = "check" /\ list # <<>>
    /\ Sub(tick, timeout_tick[Head(list)]) < Half
    /\ Expire(Head(list))
    /\ fired' = Head(list)
    /\ started' = Without(started, Head(list))
    /\ timeout_tick' = [timeout_tick EXCEPT ![Head(list)] = 0]
    /\ isr' = "callback"
    /\ UNCHANGED <<tick, objects, age, asked>>

(* ... and it returns.  If the timer is still in the list of               *)
(* rt_timer_check it is taken out, and a periodic one is started again.    *)
CallbackReturn ==
    /\ isr = "callback"
    /\ isr' = "check"
    /\ fired' = NoTimer
    /\ CASE fired = NoTimer -> UNCHANGED <<tick, list, activated, timeout_tick, objects, history>>
         [] fired \in Periodic \cap activated -> Start(fired)
         [] OTHER -> Forgotten(fired) /\ UNCHANGED <<tick, list, activated, objects>>

CheckSpins ==               \* the break is forgotten: only an empty list ends the loop
    /\ isr = "check"
    /\ list # <<>> => Sub(tick, timeout_tick[Head(list)]) >= Half
    /\ isr' = IF list = <<>> THEN "none" ELSE "check"
    /\ UNCHANGED <<tick, list, activated, timeout_tick, objects, fired, history>>

CheckEnd ==
    /\ isr = "check"
    /\ list # <<>> => Sub(tick, timeout_tick[Head(list)]) >= Half
    /\ isr' = "none"
    /\ UNCHANGED <<tick, list, activated, timeout_tick, objects, fired, history>>

(* A thread, or a timeout function, uses the timers. *)
Call ==
    /\ isr # "check"
    /\ \E t \in Timer :
          \/ rt_timer_start(t) \/ rt_timer_stop(t) \/ rt_timer_detach(t)
          \/ \E n \in Time : rt_timer_init(t, n) \/ rt_timer_control(t, n)

Interrupt == rt_tick_increase \/ CheckFirst \/ CallbackReturn \/ CheckEnd

Next == Call \/ Interrupt

Spec == Init /\ [][Next]_vars

(* The loop of rt_timer_check goes on, and timeout functions return. *)
FairSpec == Spec /\ WF_vars(CheckFirst) /\ WF_vars(CallbackReturn) /\ WF_vars(CheckEnd)

-----------------------------------------------------------------------------
(* A timer fires exactly init_tick ticks after it was started, never early *)
(* and never late, also when the tick counter wraps around in between, and *)
(* although the interrupt looks at the first timer only and its functions  *)
(* start and stop others: no timer is overdue when the interrupt ends.     *)
Punctual ==
    /\ \A t \in Running : IF isr = "none" THEN age[t] < asked[t] ELSE age[t] <= asked[t]
    /\ fired # NoTimer => age[fired] = asked[fired]

(* What is left of the time of a timer that runs. *)
Left(t) == asked[t] - age[t]
StartedBefore(t, u) ==
    \E a, b \in 1..Len(started) : a < b /\ started[a] = t /\ started[b] = u

(* The comment of rt_timer_start: of two timers due at the same time the   *)
(* one inserted early is called early.  So the list is ordered by the time *)
(* that is left, and among equals by the order of the calls.               *)
EarlyFirst ==
    \A j, k \in 1..Len(list) : j < k =>
        \/ Left(list[j]) < Left(list[k])
        \/ Left(list[j]) = Left(list[k]) /\ StartedBefore(list[j], list[k])

(* A timer is in the list exactly once if it is activated, and not at all  *)
(* otherwise, whatever its function did: rt_timer_stop and RT_TIMER_CTRL_  *)
(* GET_STATE rely on the flag, and a detached timer must be in no list.    *)
FlagTrue ==
    /\ \A j, k \in 1..Len(list) : list[j] = list[k] => j = k
    /\ activated = Running \cup (IF fired \in Periodic THEN {fired} ELSE {})
    /\ activated \subseteq attached /\ fired \notin Running

(* rt_timer_check ends: a function that starts its own timer, and a        *)
(* periodic timer, do not keep the interrupt in its loop.                  *)
InterruptEnds == (isr # "none") ~> (isr = "none")
=============================================================================
