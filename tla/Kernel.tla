------------------------------- MODULE Kernel -------------------------------
(***************************************************************************)
(* The part of the RT-Thread kernel the threads of the application use:    *)
(* priority scheduling on one processor, delays, start and end of a        *)
(* thread, and mutexes with a FIFO waiting list (RT_IPC_FLAG_FIFO).        *)
(*                                                                         *)
(* Every operation runs with interrupts disabled, or up to its last        *)
(* instruction before rt_schedule, and is one step.  A lower number is a   *)
(* higher priority.  No thread of the application takes a mutex it owns,   *)
(* so the hold count is 1 exactly when there is an owner.                  *)
(***************************************************************************)
EXTENDS Naturals, Sequences

CONSTANTS Thread, Mutex, InitPriority, Nobody

ASSUME KernelAssumption ==
    Nobody \notin Thread \cup Mutex /\ InitPriority \in [Thread -> Nat]

VARIABLES
    stat,       \* the state of each thread; READY stands for RUNNING too
    prio,       \* current_priority
    timer,      \* the threads whose thread_timer runs
    owner,      \* of each mutex
    orig,       \* original_priority of each mutex
    waiters     \* suspend_thread of each mutex

kvars == <<stat, prio, timer, owner, orig, waiters>>

KernelTypeOK ==
    /\ stat \in [Thread -> {"INIT", "READY", "SUSPEND", "CLOSE"}]
    /\ prio \in [Thread -> Nat]
    /\ timer \subseteq Thread
    /\ owner \in [Mutex -> Thread \cup {Nobody}]
    /\ orig \in [Mutex -> Nat]
    /\ waiters \in [Mutex -> Seq(Thread)]

(* rt_mutex_create, and main's rt_thread_init and rt_thread_startup.  A    *)
(* thread that main does not start is as if it had ended.                  *)
KernelInit(Started, Suspended) ==
    /\ stat = [t \in Thread |-> IF t \in Started THEN "READY"
                                ELSE IF t \in Suspended THEN "SUSPEND" ELSE "CLOSE"]
    /\ prio = InitPriority
    /\ timer = {}
    /\ owner = [m \in Mutex |-> Nobody]
    /\ orig = [m \in Mutex |-> 255]
    /\ waiters = [m \in Mutex |-> <<>>]

(* rt_schedule switches to a ready thread of the highest priority; among   *)
(* several the timeslice decides, which may end at any tick.               *)
rt_schedule(t) ==
    /\ stat[t] = "READY"
    /\ \A u \in Thread : stat[u] = "READY" => prio[t] <= prio[u]

(* The thread that has waited least goes first. *)
TakeLifo(t, m) ==
    IF owner[m] = Nobody
    THEN /\ owner' = [owner EXCEPT ![m] = t]
         /\ orig' = [orig EXCEPT ![m] = prio[t]]
         /\ UNCHANGED <<stat, prio, timer, waiters>>
    ELSE /\ prio' = IF prio[t] < prio[owner[m]]
                    THEN [prio EXCEPT ![owner[m]] = prio[t]]
                    ELSE prio
         /\ waiters' = [waiters EXCEPT ![m] = <<t>> \o @]
         /\ stat' = [stat EXCEPT ![t] = "SUSPEND"]
         /\ UNCHANGED <<timer, owner, orig>>

rt_mutex_take(t, m) ==
    IF owner[m] = Nobody
    THEN /\ owner' = [owner EXCEPT ![m] = t]
         /\ orig' = [orig EXCEPT ![m] = prio[t]]
         /\ UNCHANGED <<stat, prio, timer, waiters>>
    ELSE /\ prio' = IF prio[t] < prio[owner[m]]
                    THEN [prio EXCEPT ![owner[m]] = prio[t]]
                    ELSE prio
         /\ waiters' = [waiters EXCEPT ![m] = Append(@, t)]
         /\ stat' = [stat EXCEPT ![t] = "SUSPEND"]
         /\ UNCHANGED <<timer, owner, orig>>

(* The owner keeps the priority it was lent.                               *)
ReleaseKeepsPriority(t, m) ==
    IF owner[m] # t THEN UNCHANGED kvars
    ELSE /\ UNCHANGED <<prio, timer>>
         /\ IF waiters[m] = <<>>
            THEN /\ owner' = [owner EXCEPT ![m] = Nobody]
                 /\ orig' = [orig EXCEPT ![m] = 255]
                 /\ UNCHANGED <<stat, waiters>>
            ELSE LET next == Head(waiters[m]) IN
                 /\ owner' = [owner EXCEPT ![m] = next]
                 /\ orig' = [orig EXCEPT ![m] = prio[next]]
                 /\ stat' = [stat EXCEPT ![next] = "READY"]
                 /\ waiters' = [waiters EXCEPT ![m] = Tail(@)]

(* Wakes up none of the waiting threads. *)
ReleaseNoWake(t, m) ==
    IF owner[m] # t THEN UNCHANGED kvars
    ELSE /\ prio' = [prio EXCEPT ![t] = orig[m]]
         /\ owner' = [owner EXCEPT ![m] = Nobody]
         /\ orig' = [orig EXCEPT ![m] = 255]
         /\ UNCHANGED <<stat, timer, waiters>>

(* Restores the priority of the owner, and hands the mutex to the thread   *)
(* that has waited longest.                                                *)
rt_mutex_release(t, m) ==
    IF owner[m] # t THEN UNCHANGED kvars
    ELSE /\ prio' = [prio EXCEPT ![t] = orig[m]]
         /\ UNCHANGED timer
         /\ IF waiters[m] = <<>>
            THEN /\ owner' = [owner EXCEPT ![m] = Nobody]
                 /\ orig' = [orig EXCEPT ![m] = 255]
                 /\ UNCHANGED <<stat, waiters>>
            ELSE LET next == Head(waiters[m]) IN
                 /\ owner' = [owner EXCEPT ![m] = next]
                 /\ orig' = [orig EXCEPT ![m] = prio[next]]
                 /\ stat' = [stat EXCEPT ![next] = "READY"]
                 /\ waiters' = [waiters EXCEPT ![m] = Tail(@)]

rt_thread_mdelay(t) ==
    /\ stat' = [stat EXCEPT ![t] = "SUSPEND"]
    /\ timer' = timer \cup {t}
    /\ UNCHANGED <<prio, owner, orig, waiters>>

(* In the tick interrupt, at some time after the delay began. *)
rt_thread_timeout(t) ==
    /\ t \in timer
    /\ timer' = timer \ {t}
    /\ stat' = [stat EXCEPT ![t] = "READY"]
    /\ UNCHANGED <<prio, owner, orig, waiters>>

rt_thread_init(Threads) ==
    /\ stat' = [t \in Thread |-> IF t \in Threads THEN "INIT" ELSE stat[t]]
    /\ prio' = [t \in Thread |-> IF t \in Threads THEN InitPriority[t] ELSE prio[t]]
    /\ UNCHANGED <<timer, owner, orig, waiters>>

rt_thread_startup(t) ==
    /\ stat' = [stat EXCEPT ![t] = "READY"]
    /\ prio' = [prio EXCEPT ![t] = InitPriority[t]]
    /\ UNCHANGED <<timer, owner, orig, waiters>>

(* RT_THREAD_CTRL_CHANGE_PRIORITY, of a thread in any state. *)
rt_thread_control(t, p) ==
    /\ prio' = [prio EXCEPT ![t] = p]
    /\ UNCHANGED <<stat, timer, owner, orig, waiters>>

rt_thread_exit(t) ==
    /\ stat' = [stat EXCEPT ![t] = "CLOSE"]
    /\ UNCHANGED <<prio, timer, owner, orig, waiters>>

(* rt_thread_suspend by the thread itself, and rt_thread_resume of it. *)
rt_thread_suspend(t) ==
    /\ stat' = [stat EXCEPT ![t] = "SUSPEND"]
    /\ UNCHANGED <<prio, timer, owner, orig, waiters>>

rt_thread_resume(t) ==
    /\ stat' = [stat EXCEPT ![t] = "READY"]
    /\ UNCHANGED <<prio, timer, owner, orig, waiters>>
=============================================================================
