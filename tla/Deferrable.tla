----------------------------- MODULE Deferrable -----------------------------
(***************************************************************************)
(* The deferrable server of applications/deferrable.c and the two button   *)
(* interrupt handlers that feed it (applications/procedure.c).             *)
(*                                                                         *)
(* The server thread runs with interrupts enabled, so a button interrupt   *)
(* can fall between any two of its memory accesses: the thread is modelled *)
(* one access, or one kernel call, at a time.  A kernel call that disables *)
(* interrupts, and an interrupt handler, are single steps: the two button  *)
(* lines share one NVIC priority, and the tick handler, which may preempt  *)
(* them, shares no list or flag with them.                                 *)
(*                                                                         *)
(* The body of a task (procedure.c) is seen from the server: it takes a    *)
(* mutex, which may block it, works, and releases it.  Its critical        *)
(* section, and who else takes the mutex, is the subject of other modules. *)
(***************************************************************************)
EXTENDS RtList, Integers, FiniteSets

CONSTANTS
    Button,             \* the button lines: raw and bench
    Root,               \* &deferrable_server.asyncTask, the head of the queue
    ServerPriority,     \* THREAD_PRIORITY_DEF
    WaiterPriority,     \* the priority of the producer, which waits for mutexes
    Capacity,           \* the capacity given to rt_thread_deferrable_init
    PriorityByte,       \* values the byte at address RT_THREAD_PRIORITY_MAX-1 may have
    InRemoval,          \* may a press fall in the racy accesses of rt_list_remove?
    BeforeSuspend,      \* may a press fall between the last test and the suspension?
    Repeat,             \* may a press re-insert a task that is still linked?
    MaxQueue            \* bound on unserved requests, for model checking

(* Every button has two tasks, raw[0..1] or bench[0..1]: write, then read. *)
Task == Button \X {0, 1}
Node == Task \cup {Root}

ASSUME RootAssumption == Root \notin Task
ASSUME PriorityAssumption == /\ PriorityByte \subseteq Nat
                             /\ ServerPriority \in Nat
                             /\ WaiterPriority \in Nat
ASSUME BoundAssumption == MaxQueue \in Nat /\ Capacity \in Nat
ASSUME SwitchAssumption == {InRemoval, BeforeSuspend, Repeat} \subseteq BOOLEAN

VARIABLES
    list,           \* the links of asyncTask and of the tlist of every task
    RWn,            \* the static RWn of each button handler
    pc,             \* where the server thread is
    task,           \* its local variable task
    reg,            \* the register rt_list_remove holds n->next in
    active,         \* the static flag active
    stat,           \* the thread state of the server
    current,        \* is the server rt_current_thread?
    prio,           \* its current_priority
    armed,          \* is tim_capacity running?
    capacity_left,
    mutex,          \* the mutex of the task being run, seen by the server
    orig,           \* that mutex's original_priority
    queue,          \* history: the requests accepted and not yet served
    spent           \* history: has the capacity run out in this activation?

lvars  == <<list, RWn, queue>>
kvars  == <<stat, current>>
bvars  == <<armed, capacity_left, spent>>
mvars  == <<mutex, orig, prio>>
vars   == <<lvars, pc, task, reg, active, kvars, bvars, mvars>>

PC == {"entry", "check", "pick", "call", "crit", "load1", "store1", "load2",
       "store2", "store3", "store4", "test", "stop", "suspend", "clear",
       "schedule", "fault"}

TypeOK ==
    /\ list \in [next : [Node -> Node], prev : [Node -> Node]]
    /\ RWn \in [Button -> {0, 1}]
    /\ pc \in PC
    /\ task \in Node /\ reg \in Node
    /\ active \in {0, 1}
    /\ stat \in {"SUSPEND", "READY", "RUNNING"}
    /\ current \in BOOLEAN
    /\ prio \in Nat /\ orig \in Nat
    /\ armed \in BOOLEAN /\ spent \in BOOLEAN
    /\ capacity_left \in {0, Capacity}
    /\ mutex \in {"none", "waiting", "held"}
    /\ queue \in Seq(Task)

-----------------------------------------------------------------------------
(***************************************************************************)
(* rt_thread_deferrable_init.  The server is started and suspended by main *)
(* before it first runs (main has the higher priority), so its first       *)
(* resumption begins at the entry function.  tim_server is initialised and *)
(* started nowhere: rt_timer_deferrable_period never runs.                 *)
(***************************************************************************)
rt_thread_deferrable_init ==
    /\ list = [next |-> [n \in Node |-> n], prev |-> [n \in Node |-> n]]
    /\ RWn = [b \in Button |-> 0]
    /\ pc = "entry" /\ task = Root /\ reg = Root
    /\ active = 0
    /\ stat = "SUSPEND" /\ current = FALSE
    /\ prio = ServerPriority /\ orig = ServerPriority
    /\ armed = FALSE /\ capacity_left = Capacity /\ spent = FALSE
    /\ mutex = "none"
    /\ queue = <<>>

(***************************************************************************)
(* rt_thread_resume on the server.  It fails on a thread that is not       *)
(* suspended.  It does not look at what the thread waits for: a server     *)
(* blocked in rt_mutex_take is taken off the mutex's waiting list, and     *)
(* rt_mutex_take then returns RT_EOK.                                      *)
(***************************************************************************)
rt_thread_resume ==
    IF stat = "SUSPEND"
    THEN /\ stat' = IF current THEN "RUNNING" ELSE "READY"
         /\ mutex' = IF mutex = "waiting" THEN "none" ELSE mutex
    ELSE UNCHANGED <<stat, mutex>>

(* Is task t in the queue, or still being unlinked by the server? *)
Removing == {"load1", "store1", "load2", "store2", "store3", "store4"}
Linked(t) == \/ \E i \in 1..Len(queue) : queue[i] = t
             \/ pc \in Removing /\ task = t

(* The server is about to store through pointers to the head of the queue  *)
(* it read when the task it removes was the last.                          *)
RemovingLast == pc \in {"store1", "load2", "store2"} /\ list.next[task] = Root

(* Faulty insertions: the queue is tested after the task is in it; the     *)
(* server is resumed whether or not the queue was empty.                   *)
InsertThenTest(t) ==
    /\ list' = rt_list_insert_before(rt_list_init(list, t), Root, t)
    /\ queue' = Append(queue, t)
    /\ IF rt_list_isempty(list', list'.next[Root])
       THEN rt_thread_resume
       ELSE UNCHANGED <<stat, mutex>>
InsertAlwaysResume(t) ==
    /\ list' = rt_list_insert_before(rt_list_init(list, t), Root, t)
    /\ queue' = Append(queue, t)
    /\ rt_thread_resume

(***************************************************************************)
(* rt_thread_deferrable_insert_task(t), in the interrupt.  The two         *)
(* branches differ in the resumption only.                                 *)
(***************************************************************************)
rt_thread_deferrable_insert_task(t) ==
    /\ list' = rt_list_insert_before(rt_list_init(list, t), Root, t)
    /\ queue' = Append(queue, t)
    /\ IF rt_list_isempty(list, list.next[Root])
       THEN rt_thread_resume
       ELSE UNCHANGED <<stat, mutex>>

(* RWn ^= 1, and a faulty RWn += 1. *)
ToggleByAdding(x) == x + 1
Toggle(x) == 1 - x

(* button_raw_async_handler and button_bench_async_handler.  The switches  *)
(* say which interleavings and sequences of presses are considered.        *)
button_async_handler(b) ==
    LET t == <<b, RWn[b]>> IN
    /\ Len(queue) < MaxQueue
    /\ RemovingLast => InRemoval
    /\ pc \in {"stop", "suspend"} => BeforeSuspend
    /\ Linked(t) => Repeat
    /\ rt_thread_deferrable_insert_task(t)
    /\ RWn' = [RWn EXCEPT ![b] = Toggle(RWn[b])]
    /\ UNCHANGED <<pc, task, reg, active, current, bvars, orig, prio>>

(* rt_timer_deferrable_capacity, in the tick interrupt: the constant       *)
(* RT_THREAD_PRIORITY_MAX-1 is passed as the pointer to the priority, so   *)
(* the new priority is the byte stored at that address.                    *)
rt_timer_deferrable_capacity ==
    /\ armed
    /\ armed' = FALSE
    /\ capacity_left' = 0
    /\ spent' = TRUE
    /\ prio' \in PriorityByte
    /\ UNCHANGED <<lvars, pc, task, reg, active, kvars, mutex, orig>>

-----------------------------------------------------------------------------
(***************************************************************************)
(* The server thread, rt_thread_deferrable_entry.                          *)
(***************************************************************************)
At(from, to) == /\ current
                /\ pc = from
                /\ pc' = to

Entry ==            \* active = 0
    /\ At("entry", "check")
    /\ active' = 0
    /\ UNCHANGED <<lvars, task, reg, kvars, bvars, mvars>>

CheckActive ==      \* if (!active) { rt_timer_start(&tim_capacity); active = 1; }
    /\ At("check", "pick")
    /\ active' = 1
    /\ armed' = (armed \/ active = 0)
    /\ UNCHANGED <<lvars, task, reg, kvars, capacity_left, spent, mvars>>

(* A faulty pick: the newest task instead of the oldest. *)
PickNewest ==
    /\ task' = list.prev[Root]
    /\ At("pick", IF task' = Root THEN "fault" ELSE "call")
    /\ UNCHANGED <<lvars, reg, active, kvars, bvars, mvars>>

(* The first node is taken for a task without a test for an empty queue.   *)
(* The head itself is no task: calling through it runs whatever lies       *)
(* before the head in memory.                                              *)
PickTask ==
    /\ task' = list.next[Root]
    /\ At("pick", IF task' = Root THEN "fault" ELSE "call")
    /\ UNCHANGED <<lvars, reg, active, kvars, bvars, mvars>>

BodyTake ==         \* rt_mutex_take in the body, the mutex is free
    /\ At("call", "crit")
    /\ mutex' = "held" /\ orig' = prio
    /\ UNCHANGED <<lvars, task, reg, active, kvars, bvars, prio>>

BodyBlock ==        \* rt_mutex_take in the body, the mutex is taken
    /\ At("call", "crit")
    /\ mutex' = "waiting"
    /\ stat' = "SUSPEND" /\ current' = FALSE
    /\ UNCHANGED <<lvars, task, reg, active, bvars, orig, prio>>

ReleaseKeepsBoost ==    \* a faulty release: the lent priority is kept
    /\ At("crit", "load1")
    /\ mutex' = "none"
    /\ prio' = IF mutex = "held" /\ prio # WaiterPriority THEN orig ELSE prio
    /\ queue' = IF queue = <<>> THEN <<>> ELSE Tail(queue)
    /\ UNCHANGED <<list, RWn, task, reg, active, kvars, bvars, orig>>

(* rt_mutex_release in the body, and its return.  The release by a thread  *)
(* that is not the owner fails; the owner gets its original priority back. *)
BodyRelease ==
    /\ At("crit", "load1")
    /\ mutex' = "none"
    /\ prio' = IF mutex = "held" THEN orig ELSE prio
    /\ queue' = IF queue = <<>> THEN <<>> ELSE Tail(queue)
    /\ UNCHANGED <<list, RWn, task, reg, active, kvars, bvars, orig>>

(* rt_list_remove(&task->tlist), access by access. *)
RemoveStep(from, to, newlist, newreg) ==
    /\ At(from, to)
    /\ list' = newlist
    /\ reg' = newreg
    /\ UNCHANGED <<RWn, queue, task, active, kvars, bvars, mvars>>

rt_list_remove ==
    \/ RemoveStep("load1",  "store1", list, list.next[task])
    \/ RemoveStep("store1", "load2",  RemoveStore1(list, task, reg), reg)
    \/ RemoveStep("load2",  "store2", list, list.next[task])
    \/ RemoveStep("store2", "store3", RemoveStore2(list, task, reg), reg)
    \/ RemoveStep("store3", "store4", RemoveStore3(list, task), reg)
    \/ RemoveStep("store4", "test",   RemoveStore4(list, task), reg)

StopAfterOne ==     \* a faulty end: the server stops after every task
    /\ At("test", "stop")
    /\ UNCHANGED <<lvars, task, reg, active, kvars, bvars, mvars>>

TestEmpty ==        \* if (rt_list_isempty(asyncTask.next))
    /\ At("test", IF rt_list_isempty(list, list.next[Root]) THEN "stop" ELSE "check")
    /\ UNCHANGED <<lvars, task, reg, active, kvars, bvars, mvars>>

StopTimer ==        \* rt_timer_stop(&tim_capacity)
    /\ At("stop", "suspend")
    /\ armed' = FALSE /\ spent' = FALSE
    /\ UNCHANGED <<lvars, task, reg, active, kvars, capacity_left, mvars>>

Suspend ==          \* rt_thread_suspend(&deferrable): it goes on running
    /\ At("suspend", "clear")
    /\ stat' = "SUSPEND"
    /\ UNCHANGED <<lvars, task, reg, active, current, bvars, mvars>>

KeepActive ==       \* a faulty end: active = 0 is forgotten
    /\ At("clear", "schedule")
    /\ UNCHANGED <<lvars, task, reg, active, kvars, bvars, mvars>>

ClearActive ==      \* active = 0
    /\ At("clear", "schedule")
    /\ active' = 0
    /\ UNCHANGED <<lvars, task, reg, kvars, bvars, mvars>>

(* rt_schedule(): switch away if the server is still suspended, otherwise  *)
(* (an interrupt resumed it in between) go on.                             *)
Schedule ==
    /\ At("schedule", "check")
    /\ current' = (stat # "SUSPEND")
    /\ UNCHANGED <<lvars, task, reg, active, stat, bvars, mvars>>

Server == \/ Entry \/ CheckActive \/ PickTask
          \/ BodyTake \/ BodyBlock \/ BodyRelease
          \/ rt_list_remove \/ TestEmpty
          \/ StopTimer \/ Suspend \/ ClearActive \/ Schedule

-----------------------------------------------------------------------------
(***************************************************************************)
(* The kernel and the other threads, seen from the server.                 *)
(***************************************************************************)
Preempt ==          \* rt_schedule in the tick interrupt switches away
    /\ current
    /\ current' = FALSE
    /\ stat' = IF stat = "RUNNING" THEN "READY" ELSE stat
    /\ UNCHANGED <<lvars, pc, task, reg, active, bvars, mvars>>

Dispatch ==         \* rt_schedule switches to the server
    /\ stat = "READY"
    /\ stat' = "RUNNING" /\ current' = TRUE
    /\ UNCHANGED <<lvars, pc, task, reg, active, bvars, mvars>>

MutexGrant ==       \* the owner's rt_mutex_release hands the mutex to the server
    /\ mutex = "waiting"
    /\ mutex' = "held" /\ orig' = prio
    /\ stat' = "READY"
    /\ UNCHANGED <<lvars, pc, task, reg, active, current, bvars, prio>>

MutexBoost ==       \* rt_mutex_take of a waiter with a higher priority
    /\ mutex = "held"
    /\ WaiterPriority < prio
    /\ prio' = WaiterPriority
    /\ UNCHANGED <<lvars, pc, task, reg, active, kvars, bvars, mutex, orig>>

Environment == \/ \E b \in Button : button_async_handler(b)
               \/ rt_timer_deferrable_capacity
               \/ Preempt \/ Dispatch \/ MutexGrant \/ MutexBoost

Init == rt_thread_deferrable_init
Next == Server \/ Environment
Spec == Init /\ [][Next]_vars

(* The server is dispatched when it is ready, and again after a preemption *)
(* (the threads above it sleep or block in every cycle of theirs), and the *)
(* owner of a mutex releases it.  Nothing is assumed of the buttons, nor   *)
(* of the capacity timer.                                                  *)
Fairness == SF_vars(Server) /\ WF_vars(Dispatch) /\ WF_vars(MutexGrant)
FairSpec == Spec /\ Fairness

-----------------------------------------------------------------------------
(***************************************************************************)
(* Properties                                                              *)
(***************************************************************************)
Asleep == stat = "SUSPEND" /\ mutex # "waiting"

(* The links are the queue of accepted requests, whenever the server is    *)
(* not in the middle of rt_list_remove: no interleaving of the interrupt's *)
(* rt_list_insert_before with the server's unlocked removal loses a task   *)
(* or resurrects one.                                                      *)
QueueIntact == pc \notin Removing => Ring(list, Root, queue)

(* The server runs the oldest request, never the head of the list taken    *)
(* for a task, although it picks without testing for an empty queue.       *)
RunsOldest == /\ pc # "fault"
              /\ pc \in {"call", "crit"} => queue # <<>> /\ task = queue[1]

(* No lost wake-up: the server is never suspended (other than on a mutex)  *)
(* while a request waits, and it never runs on an empty queue.             *)
NoLostWakeup == /\ Asleep => queue = <<>>
                /\ pc = "pick" => queue # <<>>

(* The body of a task is in its critical section only as the owner of the  *)
(* mutex: the interrupt's rt_thread_resume never wakes a server that is    *)
(* blocked in rt_mutex_take.                                               *)
BodyOwnsMutex == pc = "crit" /\ stat # "SUSPEND" => mutex = "held"

(* Every activation is budgeted: while the server has work the capacity    *)
(* timer runs, or it has run out; while the server sleeps it is stopped.   *)
Budgeted == /\ pc \in {"pick", "call", "crit", "test"} \cup Removing => armed \/ spent
            /\ Asleep => ~armed

(* A lent priority ends with the critical section: the server outside it   *)
(* has its own priority, or one the capacity timer gave it, whatever the   *)
(* order of the loan, the timer and the release, and although the release  *)
(* restores a priority that was saved when the mutex was taken.            *)
OwnPriority == PriorityByte \cup {ServerPriority}
BoostReturned == mutex # "held" => prio \in OwnPriority

(***************************************************************************)
(* The inductive invariant behind the first five: the state of the links, of   *)
(* the thread, of the work and of the budget at every point of the server. *)
(***************************************************************************)
ListInv ==
    LET First == NodeAt(Root, queue, 1) IN
    /\ Injective(queue)
    /\ Chain(list, Root, queue)
    /\ pc \in Removing => task \in Task /\ \A i \in 1..Len(queue) : queue[i] # task
    /\ pc \in {"load1", "store1"} => Link(list, Root, task) /\ Link(list, task, First)
    /\ pc \in {"load2", "store2"} =>
          /\ list.next[Root] = task /\ list.prev[task] = Root
          /\ list.next[task] = First /\ list.prev[First] = Root
    /\ pc \notin {"load1", "store1", "load2", "store2"} => Link(list, Root, First)
    /\ pc \in {"store1", "store2"} => reg = First

ThreadInv ==
    /\ stat = "RUNNING" => current
    /\ stat = "READY" => ~current
    /\ current /\ stat = "SUSPEND" => pc \in {"clear", "schedule"}
    /\ stat = "SUSPEND" => mutex = "waiting" \/ pc \in {"entry", "clear", "schedule", "check"}
    /\ mutex = "waiting" => pc = "crit" /\ stat = "SUSPEND"
    /\ mutex = "held" => pc = "crit" /\ stat # "SUSPEND"
    /\ pc = "crit" => mutex # "none"

WorkInv ==
    /\ pc # "fault"
    /\ pc \in {"entry", "check", "clear", "schedule"} => (stat = "SUSPEND" <=> queue = <<>>)
    /\ pc \in {"pick", "call", "crit"} => queue # <<>>
    /\ pc \in {"call", "crit"} => task = queue[1]
    /\ pc \in {"stop", "suspend"} => queue = <<>>

BudgetInv ==
    /\ pc \in {"pick", "call", "crit", "test", "stop"} \cup Removing =>
          active = 1 /\ (armed \/ spent)
    /\ pc \in {"entry", "suspend", "clear", "schedule"} => ~armed
    /\ pc = "schedule" => active = 0
    /\ pc = "check" => IF active = 0 THEN ~armed ELSE stat # "SUSPEND" /\ (armed \/ spent)

(* At every access of the server thread, and whatever interrupt preceded   *)
(* it, the links, the thread state, the queued work and the capacity timer *)
(* agree.                                                                  *)
ServerInv == ListInv /\ ThreadInv /\ WorkInv /\ BudgetInv

(* The server implements the FIFO server of AperiodicServer. *)
Abstract == INSTANCE AperiodicServer
                WITH NoTask  <- Root,
                     serving <- IF pc \in {"call", "crit"} THEN task ELSE Root,
                     awake   <- ~Asleep
ImplementsFifo == Abstract!Spec

(* ... with its liveness: a request is begun, and what is begun ends. *)
ImplementsFairFifo == Abstract!FairSpec

(* Every accepted request is eventually served. *)
EveryRequestServed ==
    \A t \in Task : (\E i \in 1..Len(queue) : queue[i] = t)
                        ~> ~(\E i \in 1..Len(queue) : queue[i] = t)
=============================================================================
