-------------------------- MODULE DeferrableProofs --------------------------
(***************************************************************************)
(* Proofs about the deferrable server, for every set of buttons.           *)
(***************************************************************************)
EXTENDS Deferrable, TLAPS

ListType == [next : [Node -> Node], prev : [Node -> Node]]

(* The task a press of button b inserts is a task. *)
LEMMA PressedTask ==
    ASSUME TypeOK, NEW b \in Button
    PROVE  <<b, RWn[b]>> \in Task
  BY DEF TypeOK, Task

(* A single store keeps the links well-typed. *)
LEMMA StoreType ==
    ASSUME NEW l \in ListType, NEW n \in Node, NEW v \in Node
    PROVE  /\ SetNext(l, n, v) \in ListType
           /\ SetPrev(l, n, v) \in ListType
  BY DEF ListType, SetNext, SetPrev

(* So does the insertion of a task at the tail. *)
LEMMA InsertType ==
    ASSUME NEW l \in ListType, NEW t \in Task
    PROVE  rt_list_insert_before(rt_list_init(l, t), Root, t) \in ListType
  <1> t \in Node /\ Root \in Node
    BY DEF Node
  <1> DEFINE l0 == rt_list_init(l, t)
             l1 == SetNext(l0, l0.prev[Root], t)
             l2 == SetPrev(l1, t, l1.prev[Root])
             l3 == SetPrev(l2, Root, t)
  <1>0. l0 \in ListType
    BY StoreType DEF rt_list_init
  <1>1. l1 \in ListType
    <2> l0.prev[Root] \in Node BY <1>0 DEF ListType
    <2> QED BY <1>0, StoreType
  <1>2. l2 \in ListType
    <2> l1.prev[Root] \in Node BY <1>1 DEF ListType
    <2> QED BY <1>1, StoreType
  <1>3. l3 \in ListType
    BY <1>2, StoreType
  <1>4. SetNext(l3, t, Root) \in ListType
    BY <1>3, StoreType
  <1> QED
    BY <1>4 DEF rt_list_insert_before

(* Every step keeps the state well-typed, wherever interrupts fall. *)
LEMMA TypeStep ==
    ASSUME TypeOK, [Next]_vars
    PROVE  TypeOK'
  <1> USE DEF TypeOK, PC, lvars, kvars, bvars, mvars
  <1> Root \in Node /\ list \in ListType
    BY DEF Node, ListType
  <1>1. CASE UNCHANGED vars
    BY <1>1 DEF vars
  <1>2. ASSUME NEW b \in Button, button_async_handler(b)
        PROVE  TypeOK'
    <2> DEFINE t == <<b, RWn[b]>>
    <2>1. t \in Task
      BY PressedTask
    <2>2. list' \in ListType
      BY <1>2, <2>1, InsertType DEF button_async_handler, rt_thread_deferrable_insert_task
    <2>3. queue' \in Seq(Task)
      BY <1>2, <2>1 DEF button_async_handler, rt_thread_deferrable_insert_task
    <2>4. stat' \in {"SUSPEND", "READY", "RUNNING"} /\ mutex' \in {"none", "waiting", "held"}
      BY <1>2 DEF button_async_handler, rt_thread_deferrable_insert_task, rt_thread_resume
    <2>5. RWn' \in [Button -> {0, 1}]
      BY <1>2 DEF button_async_handler, Toggle
    <2> QED
      BY <1>2, <2>2, <2>3, <2>4, <2>5 DEF button_async_handler, ListType
  <1>3. CASE rt_timer_deferrable_capacity
    BY <1>3, PriorityAssumption DEF rt_timer_deferrable_capacity
  <1>4. CASE Preempt
    BY <1>4 DEF Preempt
  <1>5. CASE Dispatch
    BY <1>5 DEF Dispatch
  <1>6. CASE MutexGrant
    BY <1>6 DEF MutexGrant
  <1>7. CASE MutexBoost
    BY <1>7, PriorityAssumption DEF MutexBoost
  <1>8. CASE Entry
    BY <1>8 DEF Entry, At
  <1>9. CASE CheckActive
    BY <1>9 DEF CheckActive, At
  <1>10. CASE PickTask
    BY <1>10 DEF PickTask, At
  <1>11. CASE BodyTake
    BY <1>11 DEF BodyTake, At
  <1>12. CASE BodyBlock
    BY <1>12 DEF BodyBlock, At
  <1>13. CASE BodyRelease
    <2>1. queue' \in Seq(Task)
      BY <1>13 DEF BodyRelease
    <2> QED
      BY <1>13, <2>1 DEF BodyRelease, At
  <1>14. CASE rt_list_remove
    <2>1. /\ list.next[task] \in Node /\ list.prev[task] \in Node
          /\ RemoveStore1(list, task, reg) \in ListType
          /\ RemoveStore2(list, task, reg) \in ListType
          /\ RemoveStore3(list, task) \in ListType
          /\ RemoveStore4(list, task) \in ListType
      BY StoreType DEF RemoveStore1, RemoveStore2, RemoveStore3, RemoveStore4, ListType
    <2>2. list' \in ListType /\ reg' \in Node /\ pc' \in PC
      BY <1>14, <2>1 DEF rt_list_remove, RemoveStep, At
    <2>3. UNCHANGED <<RWn, queue, task, active, kvars, bvars, mvars>>
      BY <1>14 DEF rt_list_remove, RemoveStep
    <2> QED
      BY <2>2, <2>3 DEF ListType
  <1>15. CASE TestEmpty
    BY <1>15 DEF TestEmpty, At
  <1>16. CASE StopTimer
    BY <1>16 DEF StopTimer, At
  <1>17. CASE Suspend
    BY <1>17 DEF Suspend, At
  <1>18. CASE ClearActive
    BY <1>18 DEF ClearActive, At
  <1>19. CASE Schedule
    BY <1>19 DEF Schedule, At
  <1> QED
    BY <1>1, <1>2, <1>3, <1>4, <1>5, <1>6, <1>7, <1>8, <1>9, <1>10, <1>11, <1>12, <1>13,
       <1>14, <1>15, <1>16, <1>17, <1>18, <1>19
    DEF Next, Server, Environment

LEMMA TypeInit == Init => TypeOK
  <1> SUFFICES ASSUME Init PROVE TypeOK
    OBVIOUS
  <1> USE DEF Init, rt_thread_deferrable_init
  <1>1. list \in [next : [Node -> Node], prev : [Node -> Node]]
    OBVIOUS
  <1>2. RWn \in [Button -> {0, 1}]
    OBVIOUS
  <1>3. queue \in Seq(Task)
    OBVIOUS
  <1>4. Root \in Node
    BY DEF Node
  <1>5. prio \in Nat /\ orig \in Nat
    BY PriorityAssumption
  <1>6. capacity_left \in {0, Capacity}
    OBVIOUS
  <1> QED
    BY <1>1, <1>2, <1>3, <1>4, <1>5, <1>6 DEF TypeOK, PC

(* Type correctness, with every switch on or off: no access of the server, *)
(* interleaved with any presses, leads the links out of the nodes.         *)
THEOREM TypeCorrect == Spec => []TypeOK
  BY TypeInit, TypeStep, PTL DEF Spec

-----------------------------------------------------------------------------
(***************************************************************************)
(* The loan of a priority.  The mutex is the server's only in the critical *)
(* section, and what it saved there was the server's own priority.         *)
(***************************************************************************)
BoostInv == /\ mutex # "none" => pc = "crit"
            /\ orig \in OwnPriority
            /\ BoostReturned

(* Every step keeps this: only MutexBoost gives a priority that is not the *)
(* server's own, and only while it holds the mutex.                        *)
LEMMA BoostStep ==
    ASSUME TypeOK, BoostInv, [Next]_vars
    PROVE  BoostInv'
  <1> USE DEF BoostInv, BoostReturned, lvars, kvars, bvars, mvars
  <1>1. CASE UNCHANGED vars
    BY <1>1 DEF vars
  <1>2. ASSUME NEW b \in Button, button_async_handler(b)
        PROVE  BoostInv'
    <2>1. rt_thread_resume \/ mutex' = mutex
      BY <1>2 DEF button_async_handler, rt_thread_deferrable_insert_task
    <2>2. mutex' = mutex \/ mutex' = "none"
      BY <2>1 DEF rt_thread_resume
    <2>3. UNCHANGED <<pc, orig, prio>>
      BY <1>2 DEF button_async_handler
    <2>4. rt_thread_resume => mutex' = mutex \/ mutex = "waiting"
      BY DEF rt_thread_resume
    <2> QED
      BY <2>1, <2>2, <2>3, <2>4
  <1>3. CASE rt_timer_deferrable_capacity
    BY <1>3 DEF rt_timer_deferrable_capacity, OwnPriority
  <1>4. CASE Preempt \/ Dispatch
    BY <1>4 DEF Preempt, Dispatch
  <1>5. CASE MutexGrant
    BY <1>5 DEF MutexGrant
  <1>6. CASE MutexBoost
    BY <1>6 DEF MutexBoost
  <1>7. CASE BodyTake
    BY <1>7 DEF BodyTake, At
  <1>8. CASE BodyBlock
    BY <1>8 DEF BodyBlock, At
  <1>9. CASE BodyRelease
    BY <1>9 DEF BodyRelease, At
  <1>10. CASE rt_list_remove
    <2>1. pc # "crit" /\ UNCHANGED <<mutex, orig, prio>>
      BY <1>10 DEF rt_list_remove, RemoveStep, At
    <2> QED
      BY <2>1
  <1>11. CASE Entry \/ CheckActive \/ PickTask \/ TestEmpty
    BY <1>11 DEF Entry, CheckActive, PickTask, TestEmpty, At
  <1>12. CASE StopTimer \/ Suspend \/ ClearActive \/ Schedule
    BY <1>12 DEF StopTimer, Suspend, ClearActive, Schedule, At
  <1> QED
    BY <1>1, <1>2, <1>3, <1>4, <1>5, <1>6, <1>7, <1>8, <1>9, <1>10, <1>11, <1>12
    DEF Next, Server, Environment

(* No lent priority outlives the critical section of a body, with every    *)
(* switch on or off, and wherever the capacity runs out.                   *)
THEOREM BoostCorrect == Spec => []BoostReturned
  <1>1. Init => BoostInv
    BY DEF Init, rt_thread_deferrable_init, BoostInv, BoostReturned, OwnPriority
  <1>2. TypeOK /\ BoostInv /\ [Next]_vars => BoostInv'
    BY BoostStep
  <1>3. BoostInv => BoostReturned
    BY DEF BoostInv
  <1> QED
    BY <1>1, <1>2, <1>3, TypeCorrect, PTL DEF Spec

-----------------------------------------------------------------------------
(***************************************************************************)
(* What the list operations do to a chain of tasks.                        *)
(***************************************************************************)

(* rt_list_insert_before, link by link, for a task that is not the last.   *)
LEMMA InsertEffect ==
    ASSUME NEW l \in ListType, NEW t \in Task, l.prev[Root] # t,
           NEW m, m = rt_list_insert_before(rt_list_init(l, t), Root, t)
    PROVE  /\ \A n \in Node : m.next[n] = IF n = t THEN Root
                                          ELSE IF n = l.prev[Root] THEN t ELSE l.next[n]
           /\ \A n \in Node : m.prev[n] = IF n = Root THEN t
                                          ELSE IF n = t THEN l.prev[Root] ELSE l.prev[n]
  <1> t \in Node /\ Root \in Node /\ t # Root /\ l.prev[Root] \in Node
    BY RootAssumption DEF Node, ListType
  <1> DEFINE l0 == rt_list_init(l, t)
             l1 == SetNext(l0, l0.prev[Root], t)
             l2 == SetPrev(l1, t, l1.prev[Root])
             l3 == SetPrev(l2, Root, t)
  <1>0. /\ l0.next = [l.next EXCEPT ![t] = t] /\ l0.prev = [l.prev EXCEPT ![t] = t]
        /\ l0.prev[Root] = l.prev[Root]
    BY DEF rt_list_init, SetNext, SetPrev, ListType
  <1>1. l1.next = [l0.next EXCEPT ![l.prev[Root]] = t] /\ l1.prev = l0.prev
    BY <1>0 DEF SetNext
  <1>2. l2.next = l1.next /\ l2.prev = [l0.prev EXCEPT ![t] = l.prev[Root]]
    BY <1>0, <1>1 DEF SetPrev
  <1>3. l3.next = l1.next /\ l3.prev = [l2.prev EXCEPT ![Root] = t]
    BY <1>2 DEF SetPrev
  <1>4. m.next = [l1.next EXCEPT ![t] = Root] /\ m.prev = l3.prev
    BY <1>3 DEF rt_list_insert_before, SetNext
  <1> QED
    BY <1>0, <1>1, <1>2, <1>3, <1>4 DEF ListType

(* The insertion extends the chain by the new task. *)
LEMMA ChainAppend ==
    ASSUME NEW l \in ListType, NEW q \in Seq(Task), NEW t \in Task,
           Injective(q), \A i \in 1..Len(q) : q[i] # t,
           Chain(l, Root, q), l.prev[Root] # t,
           NEW m, m = rt_list_insert_before(rt_list_init(l, t), Root, t)
    PROVE  /\ Chain(m, Root, Append(q, t))
           /\ Injective(Append(q, t))
           /\ q # <<>> => /\ NodeAt(Root, Append(q, t), 1) = NodeAt(Root, q, 1)
                          /\ l.prev[Root] \in Task
                          /\ \E i \in 1..Len(q) : l.prev[Root] = q[i]
                          /\ m.next[Root] = l.next[Root]
                          /\ m.prev[NodeAt(Root, q, 1)] = l.prev[NodeAt(Root, q, 1)]
           /\ q = <<>> => NodeAt(Root, Append(q, t), 1) = t
  <1> DEFINE a == Append(q, t)
             n == Len(q)
  <1>0. n \in Nat /\ Len(a) = n + 1 /\ a[n + 1] = t /\ \A i \in 1..n : a[i] = q[i] /\ q[i] \in Task
    OBVIOUS
  <1>1. /\ \A x \in Node : m.next[x] = IF x = t THEN Root
                                       ELSE IF x = l.prev[Root] THEN t ELSE l.next[x]
        /\ \A x \in Node : m.prev[x] = IF x = Root THEN t
                                       ELSE IF x = t THEN l.prev[Root] ELSE l.prev[x]
    BY InsertEffect
  <1>2. t # Root /\ Task \subseteq Node /\ Root \in Node /\ Root \notin Task
    BY RootAssumption DEF Node
  <1>3. q # <<>> => n \in 1..n /\ l.prev[Root] = q[n]
    <2> SUFFICES ASSUME q # <<>> PROVE n \in 1..n /\ l.prev[Root] = q[n]
      OBVIOUS
    <2>1. n \in 1..n
      BY <1>0
    <2>2. Link(l, q[n], NodeAt(Root, q, n + 1))
      BY <2>1 DEF Chain
    <2>3. NodeAt(Root, q, n + 1) = Root
      BY <1>0 DEF NodeAt
    <2> QED
      BY <2>1, <2>2, <2>3 DEF Link
  <1>4. Chain(m, Root, a)
    <2> SUFFICES ASSUME NEW i \in 1..Len(a) PROVE Link(m, a[i], NodeAt(Root, a, i + 1))
      BY DEF Chain
    <2>1. CASE i = n + 1
      <3>1. NodeAt(Root, a, i + 1) = Root
        BY <1>0, <2>1 DEF NodeAt
      <3> QED
        BY <1>0, <1>1, <1>2, <2>1, <3>1 DEF Link
    <2>2. CASE i = n
      <3>1. NodeAt(Root, a, i + 1) = t /\ a[i] = q[n] /\ q # <<>>
        BY <1>0, <2>2 DEF NodeAt
      <3>2. m.next[q[n]] = t
        BY <1>0, <1>1, <1>2, <1>3, <3>1
      <3>3. m.prev[t] = q[n]
        BY <1>0, <1>1, <1>2, <1>3, <3>1
      <3> QED
        BY <3>1, <3>2, <3>3 DEF Link
    <2>3. CASE i < n
      <3>1. i \in 1..n /\ i + 1 \in 1..n /\ q # <<>>
        BY <1>0, <2>3
      <3>2. NodeAt(Root, a, i + 1) = q[i + 1] /\ a[i] = q[i] /\ NodeAt(Root, q, i + 1) = q[i + 1]
        BY <1>0, <3>1 DEF NodeAt
      <3>3. Link(l, q[i], q[i + 1])
        BY <3>1, <3>2 DEF Chain
      <3>4. q[i] # q[n] /\ q[i] # t /\ q[i + 1] # t /\ q[i + 1] # Root
        BY <1>0, <1>2, <1>3, <2>3, <3>1 DEF Injective
      <3>5. q[i] \in Node /\ q[i + 1] \in Node
        BY <1>0, <1>2, <3>1
      <3> QED
        BY <1>1, <1>3, <3>1, <3>2, <3>3, <3>4, <3>5 DEF Link
    <2> QED
      BY <1>0, <2>1, <2>2, <2>3
  <1>5. Injective(a)
    BY <1>0 DEF Injective
  <1>6. ASSUME q # <<>>
        PROVE  /\ NodeAt(Root, a, 1) = NodeAt(Root, q, 1)
               /\ l.prev[Root] \in Task
               /\ \E i \in 1..n : l.prev[Root] = q[i]
               /\ m.next[Root] = l.next[Root]
               /\ m.prev[NodeAt(Root, q, 1)] = l.prev[NodeAt(Root, q, 1)]
    <2>1. 1 \in 1..n /\ 1 \in 1..Len(a)
      BY <1>0, <1>6
    <2>2. NodeAt(Root, a, 1) = q[1] /\ NodeAt(Root, q, 1) = q[1]
      BY <1>0, <2>1 DEF NodeAt
    <2>3. l.prev[Root] \in Task /\ m.next[Root] = l.next[Root]
      BY <1>0, <1>1, <1>2, <1>3, <1>6
    <2>4. m.prev[q[1]] = l.prev[q[1]]
      BY <1>0, <1>1, <1>2, <2>1
    <2> QED
      BY <1>3, <1>6, <2>2, <2>3, <2>4
  <1>7. q = <<>> => NodeAt(Root, a, 1) = t
    BY <1>0 DEF NodeAt
  <1> QED
    BY <1>4, <1>5, <1>6, <1>7

-----------------------------------------------------------------------------
(***************************************************************************)
(* The presses the invariant is about: none in the racy accesses of        *)
(* rt_list_remove, none between the last test and the suspension, and none *)
(* that re-inserts a task still linked.                                    *)
(***************************************************************************)
Calm == ~InRemoval /\ ~BeforeSuspend /\ ~Repeat

(* A press keeps the links in step with the requests, at every point of    *)
(* the server.                                                             *)
LEMMA PressList ==
    ASSUME Calm, TypeOK, ListInv, NEW b \in Button, button_async_handler(b)
    PROVE  ListInv'
  <1> DEFINE t == <<b, RWn[b]>>
             First == NodeAt(Root, queue, 1)
  <1>0. /\ t \in Task /\ t # Root /\ Root \in Node /\ t \in Node
        /\ list \in ListType /\ queue \in Seq(Task)
    BY PressedTask, RootAssumption DEF TypeOK, ListType, Node
  <1>1. /\ list' = rt_list_insert_before(rt_list_init(list, t), Root, t)
        /\ queue' = Append(queue, t)
        /\ UNCHANGED <<pc, task, reg>>
        /\ ~Linked(t) /\ ~RemovingLast
    BY DEF Calm, button_async_handler, rt_thread_deferrable_insert_task
  <1>2. /\ Injective(queue) /\ Chain(list, Root, queue)
        /\ \A i \in 1..Len(queue) : queue[i] # t
    BY <1>1 DEF ListInv, Linked
  <1>3. pc \in Removing => task # t /\ task \in Task
    BY <1>1 DEF ListInv, Linked
  <1>4. queue = <<>> => First = Root
    BY DEF NodeAt
  <1>5. list.prev[Root] # t
    <2>1. CASE queue = <<>>
      <3>1. pc \in {"load1", "store1"} => list.prev[Root] = task
        BY <1>4, <2>1 DEF ListInv, Link
      <3>2. pc \notin {"load1", "store1"} => list.prev[Root] = Root
        BY <1>4, <2>1 DEF ListInv, Link
      <3> QED
        BY <1>0, <1>3, <3>1, <3>2 DEF Removing
    <2>2. CASE queue # <<>>
      <3> DEFINE n == Len(queue)
      <3>1. n \in 1..n /\ NodeAt(Root, queue, n + 1) = Root
        BY <1>0, <2>2 DEF NodeAt
      <3>2. list.prev[Root] = queue[n]
        BY <1>2, <3>1 DEF Chain, Link
      <3> QED
        BY <1>2, <3>1, <3>2
    <2> QED
      BY <2>1, <2>2
  <1>6. /\ Chain(list', Root, queue') /\ Injective(queue')
        /\ queue # <<>> => /\ NodeAt(Root, queue', 1) = First
                           /\ list.prev[Root] \in Task
                           /\ \E i \in 1..Len(queue) : list.prev[Root] = queue[i]
                           /\ list'.next[Root] = list.next[Root]
                           /\ list'.prev[First] = list.prev[First]
        /\ queue = <<>> => NodeAt(Root, queue', 1) = t
    <2> DEFINE m == rt_list_insert_before(rt_list_init(list, t), Root, t)
               a == Append(queue, t)
    <2>1. /\ Chain(m, Root, a) /\ Injective(a)
          /\ queue # <<>> => /\ NodeAt(Root, a, 1) = First
                             /\ list.prev[Root] \in Task
                             /\ \E i \in 1..Len(queue) : list.prev[Root] = queue[i]
                             /\ m.next[Root] = list.next[Root]
                             /\ m.prev[First] = list.prev[First]
          /\ queue = <<>> => NodeAt(Root, a, 1) = t
      <3> HIDE DEF t
      <3> QED
        BY <1>0, <1>2, <1>5, ChainAppend, SMTT(30)
    <2>2. list' = m /\ queue' = a
      BY <1>1
    <2> HIDE DEF m, a
    <2> QED
      BY <2>1, <2>2
  <1>7. /\ \A n \in Node : list'.next[n] = IF n = t THEN Root
                                          ELSE IF n = list.prev[Root] THEN t ELSE list.next[n]
        /\ \A n \in Node : list'.prev[n] = IF n = Root THEN t
                                          ELSE IF n = t THEN list.prev[Root] ELSE list.prev[n]
    BY <1>0, <1>1, <1>5, InsertEffect
  <1>8. pc \in Removing => \A i \in 1..Len(queue') : queue'[i] # task
    <2> SUFFICES ASSUME pc \in Removing, NEW i \in 1..Len(queue') PROVE queue'[i] # task
      OBVIOUS
    <2>1. queue'[i] = t \/ (i \in 1..Len(queue) /\ queue'[i] = queue[i])
      BY <1>0, <1>1
    <2> QED
      BY <1>3, <2>1 DEF ListInv
  <1>9. CASE pc \in {"load1", "store1", "load2", "store2"}
    <2>0. task \in Task /\ task # t /\ task # Root /\ task \in Node /\ \A i \in 1..Len(queue) : queue[i] # task
      BY <1>3, <1>9, RootAssumption DEF Removing, Node, ListInv
    <2>1. list.next[task] = First /\ list.prev[task] = Root /\ list.next[Root] = task
      BY <1>9 DEF ListInv, Link
    <2>2. pc # "load1" => queue # <<>>
      BY <1>1, <1>4, <1>9, <2>1 DEF RemovingLast
    <2>3. CASE queue # <<>>
      <3>1. list'.next[task] = First /\ list'.prev[task] = Root
        BY <1>6, <1>7, <2>0, <2>1, <2>3
      <3> QED
        BY <1>1, <1>3, <1>6, <1>8, <1>9, <2>1, <2>3, <3>1 DEF ListInv, Link, Removing
    <2>4. CASE queue = <<>>
      <3>1. pc = "load1" /\ list.prev[Root] = task
        BY <1>4, <1>9, <2>2, <2>4 DEF ListInv, Link
      <3>2. list'.next[task] = t /\ list'.prev[t] = task /\ list'.prev[task] = Root
        BY <1>0, <1>7, <2>0, <2>1, <3>1
      <3>3. list'.next[Root] = task
        BY <1>0, <1>7, <2>0, <2>1, <3>1
      <3> QED
        BY <1>1, <1>3, <1>6, <1>8, <2>4, <3>1, <3>2, <3>3 DEF ListInv, Link, Removing
    <2> QED
      BY <2>3, <2>4
  <1>10. CASE pc \notin {"load1", "store1", "load2", "store2"}
    <2>1. Link(list, Root, First)
      BY <1>10 DEF ListInv
    <2>2. Link(list', Root, NodeAt(Root, queue', 1))
      <3>1. CASE queue # <<>>
        BY <1>6, <2>1, <3>1 DEF Link
      <3>2. CASE queue = <<>>
        BY <1>0, <1>4, <1>6, <1>7, <2>1, <3>2 DEF Link
      <3> QED
        BY <3>1, <3>2
    <2> QED
      BY <1>1, <1>3, <1>6, <1>8, <1>10, <2>2 DEF ListInv
  <1> QED
    BY <1>9, <1>10

(* The end of a body: its task becomes the one to unlink. *)
LEMMA ReleaseList ==
    ASSUME TypeOK, ListInv, WorkInv, BodyRelease
    PROVE  ListInv'
  <1> DEFINE q == Tail(queue)
             n == Len(queue)
  <1>1. /\ pc = "crit" /\ pc' = "load1" /\ queue # <<>> /\ task = queue[1]
        /\ UNCHANGED <<list, task, reg>> /\ queue' = q /\ queue \in Seq(Task)
    BY DEF BodyRelease, At, WorkInv, TypeOK
  <1>2. /\ n \in Nat /\ 1 \in 1..n /\ Len(q) = n - 1 /\ q \in Seq(Task)
        /\ \A i \in 1..Len(q) : i + 1 \in 1..n /\ q[i] = queue[i + 1]
    BY <1>1
  <1>3. \A i \in 0..Len(q) : NodeAt(Root, q, i + 1) = NodeAt(Root, queue, i + 2)
    BY <1>2 DEF NodeAt
  <1>4. task = NodeAt(Root, queue, 1)
    BY <1>1, <1>2 DEF NodeAt
  <1>5. Link(list, Root, task)
    BY <1>1, <1>4 DEF ListInv
  <1>6. Link(list, task, NodeAt(Root, q, 1))
    <2>1. Link(list, queue[1], NodeAt(Root, queue, 2))
      BY <1>2 DEF ListInv, Chain
    <2> QED
      BY <1>1, <1>2, <1>3, <2>1
  <1>7. Chain(list, Root, q)
    <2> SUFFICES ASSUME NEW i \in 1..Len(q) PROVE Link(list, q[i], NodeAt(Root, q, i + 1))
      BY DEF Chain
    <2>1. Link(list, queue[i + 1], NodeAt(Root, queue, (i + 1) + 1))
      BY <1>2 DEF ListInv, Chain
    <2> QED
      BY <1>2, <1>3, <2>1
  <1>8. Injective(q)
    <2>1. Injective(queue)
      BY DEF ListInv
    <2> QED
      BY <1>2, <2>1 DEF Injective
  <1>9. task \in Task /\ \A i \in 1..Len(q) : q[i] # task
    <2>1. Injective(queue)
      BY DEF ListInv
    <2> QED
      BY <1>1, <1>2, <2>1 DEF Injective
  <1> QED
    BY <1>1, <1>5, <1>6, <1>7, <1>8, <1>9 DEF ListInv

(* The unlinking, one access at a time. *)
LEMMA RemoveList ==
    ASSUME TypeOK, ListInv, rt_list_remove
    PROVE  ListInv'
  <1> DEFINE First == NodeAt(Root, queue, 1)
             n == Len(queue)
  <1>0. /\ UNCHANGED <<queue, task>> /\ pc \in Removing
        /\ list \in ListType /\ queue \in Seq(Task) /\ n \in Nat
    BY DEF rt_list_remove, RemoveStep, At, Removing, TypeOK, ListType
  <1>1. /\ Injective(queue) /\ Chain(list, Root, queue)
        /\ task \in Task /\ \A i \in 1..n : queue[i] # task
    BY <1>0 DEF ListInv
  <1>2. /\ Root \notin Task /\ Root \in Node /\ task \in Node /\ Task \subseteq Node
        /\ First \in Node /\ First # task
    BY <1>0, <1>1, RootAssumption DEF Node, NodeAt
  <1>3. \A i \in 1..n : /\ NodeAt(Root, queue, i + 1) \in Node
                        /\ NodeAt(Root, queue, i + 1) # First
                        /\ NodeAt(Root, queue, i + 1) # task
                        /\ queue[i] \in Node /\ queue[i] # Root /\ queue[i] # task
    <2> SUFFICES ASSUME NEW i \in 1..n
                 PROVE  /\ NodeAt(Root, queue, i + 1) \in Node
                        /\ NodeAt(Root, queue, i + 1) # First
                        /\ NodeAt(Root, queue, i + 1) # task
                        /\ queue[i] \in Node /\ queue[i] # Root /\ queue[i] # task
      OBVIOUS
    <2>1. First = queue[1] /\ 1 \in 1..n /\ queue[1] \in Task /\ queue[i] \in Task
      BY <1>0 DEF NodeAt
    <2>2. CASE i + 1 \in 1..n
      <3>1. NodeAt(Root, queue, i + 1) = queue[i + 1] /\ queue[i + 1] \in Task /\ i + 1 # 1
        BY <1>0, <2>2 DEF NodeAt
      <3>2. queue[i + 1] # queue[1]
        BY <1>0, <1>1, <2>1, <2>2, <3>1 DEF Injective
      <3> QED
        BY <1>1, <1>2, <2>1, <2>2, <3>1, <3>2
    <2>3. CASE i + 1 \notin 1..n
      BY <1>1, <1>2, <2>1, <2>3 DEF NodeAt
    <2> QED
      BY <2>2, <2>3
  <1>4. ASSUME NEW m,
               \A i \in 1..n : /\ m.next[queue[i]] = list.next[queue[i]]
                               /\ m.prev[NodeAt(Root, queue, i + 1)]
                                    = list.prev[NodeAt(Root, queue, i + 1)]
        PROVE  Chain(m, Root, queue)
    BY <1>1, <1>4 DEF Chain, Link
  <1>5. CASE RemoveStep("load1", "store1", list, list.next[task])
    BY <1>0, <1>1, <1>5 DEF RemoveStep, At, ListInv, Link, Removing
  <1>6. CASE RemoveStep("store1", "load2", RemoveStore1(list, task, reg), reg)
    <2>1. /\ list.next[Root] = task /\ list.prev[task] = Root
          /\ list.next[task] = First /\ reg = First
      BY <1>6 DEF RemoveStep, At, ListInv, Link
    <2>2. list'.next = list.next /\ list'.prev = [list.prev EXCEPT ![First] = Root]
      BY <1>6, <2>1 DEF RemoveStep, RemoveStore1, SetPrev
    <2>3. Chain(list', Root, queue)
      <3>1. \A i \in 1..n : list'.prev[NodeAt(Root, queue, i + 1)]
                              = list.prev[NodeAt(Root, queue, i + 1)]
        BY <1>0, <1>3, <2>2 DEF ListType
      <3> QED
        BY <1>4, <2>2, <3>1
    <2>4. list'.prev[task] = Root /\ list'.prev[First] = Root
      BY <1>0, <1>2, <2>1, <2>2 DEF ListType
    <2>5. pc' = "load2"
      BY <1>6 DEF RemoveStep, At
    <2> QED
      BY <1>0, <1>1, <2>1, <2>2, <2>3, <2>4, <2>5 DEF ListInv, Removing
  <1>7. CASE RemoveStep("load2", "store2", list, list.next[task])
    BY <1>0, <1>1, <1>7 DEF RemoveStep, At, ListInv, Link, Removing
  <1>8. CASE RemoveStep("store2", "store3", RemoveStore2(list, task, reg), reg)
    <2>1. list.prev[task] = Root /\ reg = First /\ list.prev[First] = Root
      BY <1>8 DEF RemoveStep, At, ListInv
    <2>2. list'.prev = list.prev /\ list'.next = [list.next EXCEPT ![Root] = First]
      BY <1>8, <2>1 DEF RemoveStep, RemoveStore2, SetNext
    <2>3. Chain(list', Root, queue)
      <3>1. \A i \in 1..n : list'.next[queue[i]] = list.next[queue[i]]
        BY <1>0, <1>3, <2>2 DEF ListType
      <3> QED
        BY <1>4, <2>2, <3>1
    <2>4. Link(list', Root, First)
      BY <1>0, <1>2, <2>1, <2>2 DEF Link, ListType
    <2>5. pc' = "store3"
      BY <1>8 DEF RemoveStep, At
    <2> QED
      BY <1>0, <1>1, <2>3, <2>4, <2>5 DEF ListInv
  <1>9. CASE RemoveStep("store3", "store4", RemoveStore3(list, task), reg)
    <2>1. list'.next = list.next /\ list'.prev = [list.prev EXCEPT ![task] = task]
      BY <1>9 DEF RemoveStep, RemoveStore3, SetPrev
    <2>2. Chain(list', Root, queue)
      <3>1. \A i \in 1..n : list'.prev[NodeAt(Root, queue, i + 1)]
                              = list.prev[NodeAt(Root, queue, i + 1)]
        BY <1>0, <1>3, <2>1 DEF ListType
      <3> QED
        BY <1>4, <2>1, <3>1
    <2>3. Link(list, Root, First)
      BY <1>9 DEF RemoveStep, At, ListInv
    <2>4. Link(list', Root, First)
      BY <1>0, <1>2, <2>1, <2>3 DEF Link, ListType
    <2>5. pc' = "store4"
      BY <1>9 DEF RemoveStep, At
    <2> QED
      BY <1>0, <1>1, <2>2, <2>4, <2>5 DEF ListInv
  <1>10. CASE RemoveStep("store4", "test", RemoveStore4(list, task), reg)
    <2>1. list'.prev = list.prev /\ list'.next = [list.next EXCEPT ![task] = task]
      BY <1>10 DEF RemoveStep, RemoveStore4, SetNext
    <2>2. Chain(list', Root, queue)
      <3>1. \A i \in 1..n : list'.next[queue[i]] = list.next[queue[i]]
        BY <1>0, <1>3, <2>1 DEF ListType
      <3> QED
        BY <1>4, <2>1, <3>1
    <2>3. Link(list, Root, First)
      BY <1>10 DEF RemoveStep, At, ListInv
    <2>4. Link(list', Root, First)
      BY <1>0, <1>1, <1>2, <2>1, <2>3 DEF Link, ListType
    <2>5. pc' = "test"
      BY <1>10 DEF RemoveStep, At
    <2> QED
      BY <1>0, <1>1, <2>2, <2>4, <2>5 DEF ListInv, Removing
  <1> QED
    BY <1>5, <1>6, <1>7, <1>8, <1>9, <1>10 DEF rt_list_remove

(* Steps that leave the links alone and stay outside rt_list_remove. *)
LEMMA KeepList ==
    ASSUME ListInv, UNCHANGED <<list, queue>>,
           \/ UNCHANGED <<pc, task, reg>>
           \/ pc \notin Removing /\ pc' \notin Removing
    PROVE  ListInv'
  BY DEF ListInv, Removing

(* The test of the server and of the interrupt is right: outside           *)
(* rt_list_remove, rt_list_isempty(asyncTask.next) if and only if there is *)
(* no request.                                                             *)
LEMMA EmptyTest ==
    ASSUME TypeOK, ListInv, pc \notin {"load1", "store1", "load2", "store2"}
    PROVE  /\ rt_list_isempty(list, list.next[Root]) <=> queue = <<>>
           /\ list.next[Root] = Root <=> queue = <<>>
           /\ queue # <<>> => list.next[Root] = queue[1]
  <1>0. queue \in Seq(Task) /\ Link(list, Root, NodeAt(Root, queue, 1)) /\ Chain(list, Root, queue)
    BY DEF TypeOK, ListInv
  <1>1. CASE queue = <<>>
    BY <1>0, <1>1 DEF NodeAt, Link, rt_list_isempty
  <1>2. CASE queue # <<>>
    <2>1. 1 \in 1..Len(queue) /\ NodeAt(Root, queue, 1) = queue[1] /\ queue[1] \in Task
      BY <1>0, <1>2 DEF NodeAt
    <2>2. Link(list, queue[1], NodeAt(Root, queue, 2))
      BY <1>0, <2>1 DEF Chain
    <2>3. NodeAt(Root, queue, 2) # queue[1]
      <3>1. Injective(queue)
        BY DEF ListInv
      <3> QED
        BY <1>0, <2>1, <3>1, RootAssumption DEF NodeAt, Injective
    <2> QED
      BY <1>0, <1>2, <2>1, <2>2, <2>3, RootAssumption DEF Link, rt_list_isempty
  <1> QED
    BY <1>1, <1>2

-----------------------------------------------------------------------------
(* The initial state satisfies the invariant. *)
LEMMA InvInit == Init => ServerInv
  <1> SUFFICES ASSUME Init PROVE ServerInv
    OBVIOUS
  <1> USE DEF Init, rt_thread_deferrable_init
  <1>1. queue = <<>> /\ Len(queue) = 0 /\ NodeAt(Root, queue, 1) = Root
    BY DEF NodeAt
  <1>2. Link(list, Root, Root)
    BY DEF Link, Node
  <1>3. ListInv
    BY <1>1, <1>2 DEF ListInv, Injective, Chain, Removing
  <1>4. ThreadInv /\ WorkInv
    BY DEF ThreadInv, WorkInv
  <1>5. BudgetInv
    BY DEF BudgetInv, Removing
  <1> QED
    BY <1>3, <1>4, <1>5 DEF ServerInv

(* Every step, a press at any point included, preserves the invariant. *)
LEMMA InvStep ==
    ASSUME Calm, TypeOK, ServerInv, [Next]_vars
    PROVE  ServerInv'
  <1> USE DEF lvars, kvars, bvars, mvars
  <1>0. ListInv /\ ThreadInv /\ WorkInv /\ BudgetInv
    BY DEF ServerInv
  <1>1. CASE UNCHANGED vars
    <2>1. ListInv'
      BY <1>0, <1>1, KeepList DEF vars
    <2> QED
      BY <1>0, <1>1, <2>1 DEF vars, ServerInv, ThreadInv, WorkInv, BudgetInv
  <1>2. ASSUME NEW b \in Button, button_async_handler(b)
        PROVE  ServerInv'
    <2>1. ListInv'
      BY <1>0, <1>2, PressList
    <2>2. /\ UNCHANGED <<pc, task, active, current, bvars>>
          /\ pc \notin {"stop", "suspend"}
          /\ queue' = Append(queue, <<b, RWn[b]>>)
      BY <1>2 DEF Calm, button_async_handler, rt_thread_deferrable_insert_task
    <2>3. queue' # <<>> /\ (queue # <<>> => queue'[1] = queue[1])
      <3>1. queue \in Seq(Task) /\ <<b, RWn[b]>> \in Task
        BY PressedTask DEF TypeOK
      <3> QED
        BY <2>2, <3>1
    <2>4. CASE stat = "SUSPEND" /\ queue = <<>>
      <3>1. pc \in {"entry", "clear", "schedule", "check"} /\ mutex = "none"
        BY <1>0, <2>4 DEF ThreadInv, WorkInv, TypeOK
      <3>2. stat' = (IF current THEN "RUNNING" ELSE "READY") /\ mutex' = mutex
        BY <1>0, <1>2, <2>4, <3>1, EmptyTest
        DEF button_async_handler, rt_thread_deferrable_insert_task, rt_thread_resume
      <3>3. ThreadInv' /\ WorkInv'
        BY <1>0, <2>2, <2>3, <3>1, <3>2 DEF ThreadInv, WorkInv
      <3>4. BudgetInv'
        BY <1>0, <2>2, <3>1, <3>2 DEF BudgetInv, Removing
      <3> QED
        BY <2>1, <3>3, <3>4 DEF ServerInv
    <2>5. CASE ~(stat = "SUSPEND" /\ queue = <<>>)
      <3>1. UNCHANGED <<stat, mutex>>
        <4>1. CASE stat # "SUSPEND"
          BY <1>2, <4>1
          DEF button_async_handler, rt_thread_deferrable_insert_task, rt_thread_resume
        <4>2. CASE stat = "SUSPEND"
          <5>1. pc = "crit" /\ queue # <<>>
            BY <1>0, <2>5, <4>2 DEF ThreadInv, WorkInv
          <5>2. ~rt_list_isempty(list, list.next[Root])
            BY <1>0, <5>1, EmptyTest
          <5> QED
            BY <1>2, <5>2 DEF button_async_handler, rt_thread_deferrable_insert_task
        <4> QED
          BY <4>1, <4>2
      <3>2. ThreadInv'
        BY <1>0, <2>2, <3>1 DEF ThreadInv
      <3>3. WorkInv'
        BY <1>0, <2>2, <2>3, <2>5, <3>1 DEF WorkInv
      <3>4. BudgetInv'
        BY <1>0, <2>2, <3>1 DEF BudgetInv
      <3> QED
        BY <2>1, <3>2, <3>3, <3>4 DEF ServerInv
    <2> QED
      BY <2>4, <2>5
  <1>3. CASE rt_timer_deferrable_capacity
    <2>1. ListInv'
      BY <1>0, <1>3, KeepList DEF rt_timer_deferrable_capacity
    <2> QED
      BY <1>0, <1>3, <2>1
      DEF rt_timer_deferrable_capacity, ServerInv, ThreadInv, WorkInv, BudgetInv
  <1>4. CASE Preempt
    <2>1. ListInv'
      BY <1>0, <1>4, KeepList DEF Preempt
    <2> QED
      BY <1>0, <1>4, <2>1 DEF Preempt, ServerInv, ThreadInv, WorkInv, BudgetInv, TypeOK
  <1>5. CASE Dispatch
    <2>1. ListInv'
      BY <1>0, <1>5, KeepList DEF Dispatch
    <2> QED
      BY <1>0, <1>5, <2>1 DEF Dispatch, ServerInv, ThreadInv, WorkInv, BudgetInv
  <1>6. CASE MutexGrant
    <2>1. ListInv'
      BY <1>0, <1>6, KeepList DEF MutexGrant
    <2> QED
      BY <1>0, <1>6, <2>1 DEF MutexGrant, ServerInv, ThreadInv, WorkInv, BudgetInv
  <1>7. CASE MutexBoost
    <2>1. ListInv'
      BY <1>0, <1>7, KeepList DEF MutexBoost
    <2> QED
      BY <1>0, <1>7, <2>1 DEF MutexBoost, ServerInv, ThreadInv, WorkInv, BudgetInv
  <1>8. CASE Entry
    <2>1. ListInv'
      BY <1>0, <1>8, KeepList DEF Entry, At, Removing
    <2> QED
      BY <1>0, <1>8, <2>1 DEF Entry, At, ServerInv, ThreadInv, WorkInv, BudgetInv, Removing
  <1>9. CASE CheckActive
    <2>1. ListInv'
      BY <1>0, <1>9, KeepList DEF CheckActive, At, Removing
    <2> QED
      BY <1>0, <1>9, <2>1
      DEF CheckActive, At, ServerInv, ThreadInv, WorkInv, BudgetInv, Removing, TypeOK
  <1>10. CASE PickTask
    <2>1. pc = "pick" /\ list.next[Root] = queue[1] /\ list.next[Root] # Root
      BY <1>0, <1>10, EmptyTest DEF PickTask, At, WorkInv
    <2>2. task' = queue[1] /\ pc' = "call"
      BY <1>10, <2>1 DEF PickTask, At
    <2>3. ListInv'
      BY <1>0, <1>10, <2>1, <2>2, KeepList DEF PickTask, At, Removing
    <2> QED
      BY <1>0, <1>10, <2>1, <2>2, <2>3
      DEF PickTask, At, ServerInv, ThreadInv, WorkInv, BudgetInv, Removing
  <1>11. CASE BodyTake
    <2>1. ListInv'
      BY <1>0, <1>11, KeepList DEF BodyTake, At, Removing
    <2> QED
      BY <1>0, <1>11, <2>1 DEF BodyTake, At, ServerInv, ThreadInv, WorkInv, BudgetInv, Removing
  <1>12. CASE BodyBlock
    <2>1. ListInv'
      BY <1>0, <1>12, KeepList DEF BodyBlock, At, Removing
    <2> QED
      BY <1>0, <1>12, <2>1 DEF BodyBlock, At, ServerInv, ThreadInv, WorkInv, BudgetInv, Removing
  <1>13. CASE BodyRelease
    <2>1. ListInv'
      BY <1>0, <1>13, ReleaseList
    <2> QED
      BY <1>0, <1>13, <2>1
      DEF BodyRelease, At, ServerInv, ThreadInv, WorkInv, BudgetInv, Removing
  <1>14. CASE rt_list_remove
    <2>1. ListInv'
      BY <1>0, <1>14, RemoveList
    <2>2. /\ pc \in Removing /\ pc' \in Removing \cup {"test"}
          /\ UNCHANGED <<queue, task, active, kvars, bvars, mvars>>
      BY <1>14 DEF rt_list_remove, RemoveStep, At, Removing
    <2> QED
      BY <1>0, <2>1, <2>2 DEF ServerInv, ThreadInv, WorkInv, BudgetInv, Removing
  <1>15. CASE TestEmpty
    <2>1. pc = "test" /\ pc' = IF queue = <<>> THEN "stop" ELSE "check"
      BY <1>0, <1>15, EmptyTest DEF TestEmpty, At
    <2>2. ListInv'
      BY <1>0, <1>15, <2>1, KeepList DEF TestEmpty, Removing
    <2>3. current /\ stat = "RUNNING"
      BY <1>0, <1>15, <2>1 DEF TestEmpty, At, ThreadInv, TypeOK
    <2> QED
      BY <1>0, <1>15, <2>1, <2>2, <2>3
      DEF TestEmpty, ServerInv, ThreadInv, WorkInv, BudgetInv, Removing
  <1>16. CASE StopTimer
    <2>1. ListInv'
      BY <1>0, <1>16, KeepList DEF StopTimer, At, Removing
    <2> QED
      BY <1>0, <1>16, <2>1 DEF StopTimer, At, ServerInv, ThreadInv, WorkInv, BudgetInv, Removing
  <1>17. CASE Suspend
    <2>1. ListInv'
      BY <1>0, <1>17, KeepList DEF Suspend, At, Removing
    <2> QED
      BY <1>0, <1>17, <2>1 DEF Suspend, At, ServerInv, ThreadInv, WorkInv, BudgetInv, Removing
  <1>18. CASE ClearActive
    <2>1. ListInv'
      BY <1>0, <1>18, KeepList DEF ClearActive, At, Removing
    <2> QED
      BY <1>0, <1>18, <2>1
      DEF ClearActive, At, ServerInv, ThreadInv, WorkInv, BudgetInv, Removing
  <1>19. CASE Schedule
    <2>1. ListInv'
      BY <1>0, <1>19, KeepList DEF Schedule, At, Removing
    <2> QED
      BY <1>0, <1>19, <2>1 DEF Schedule, At, ServerInv, ThreadInv, WorkInv, BudgetInv, Removing
  <1> QED
    BY <1>1, <1>2, <1>3, <1>4, <1>5, <1>6, <1>7, <1>8, <1>9, <1>10, <1>11, <1>12, <1>13,
       <1>14, <1>15, <1>16, <1>17, <1>18, <1>19
    DEF Next, Server, Environment

-----------------------------------------------------------------------------
(* The links, the thread, the work and the budget of the server agree at   *)
(* every access, for every set of buttons, as long as presses are calm.    *)
THEOREM ServerCorrect ==
    ASSUME Calm
    PROVE  Spec => []ServerInv
  <1>1. TypeOK /\ ServerInv /\ [Next]_vars => ServerInv'
    BY InvStep
  <1> QED
    BY <1>1, InvInit, TypeCorrect, PTL DEF Spec

(* The invariant gives the safety properties of the server.                *)
LEMMA InvImplies ==
    ASSUME TypeOK, ServerInv
    PROVE  QueueIntact /\ RunsOldest /\ NoLostWakeup /\ BodyOwnsMutex /\ Budgeted
  <1> USE DEF ServerInv
  <1>1. QueueIntact
    BY DEF QueueIntact, ListInv, Ring, Removing
  <1>2. RunsOldest
    BY DEF RunsOldest, WorkInv
  <1>3. NoLostWakeup
    BY DEF NoLostWakeup, Asleep, ThreadInv, WorkInv
  <1>4. BodyOwnsMutex
    BY DEF BodyOwnsMutex, ThreadInv, TypeOK
  <1>5. Budgeted
    BY DEF Budgeted, Asleep, ThreadInv, BudgetInv
  <1> QED
    BY <1>1, <1>2, <1>3, <1>4, <1>5

(* No request is lost or resurrected: the list is the queue. *)
THEOREM QueueCorrect ==
    ASSUME Calm
    PROVE  Spec => []QueueIntact
  BY InvImplies, ServerCorrect, TypeCorrect, PTL

(* No request is run out of turn, and the head is never taken for a task. *)
THEOREM OrderCorrect ==
    ASSUME Calm
    PROVE  Spec => []RunsOldest
  BY InvImplies, ServerCorrect, TypeCorrect, PTL

(* The server never sleeps on a request. *)
THEOREM WakeupCorrect ==
    ASSUME Calm
    PROVE  Spec => []NoLostWakeup
  BY InvImplies, ServerCorrect, TypeCorrect, PTL

(* A body works only as the owner of its mutex. *)
THEOREM BodyCorrect ==
    ASSUME Calm
    PROVE  Spec => []BodyOwnsMutex
  BY InvImplies, ServerCorrect, TypeCorrect, PTL

(* Every activation of the server runs under its capacity timer. *)
THEOREM BudgetCorrect ==
    ASSUME Calm
    PROVE  Spec => []Budgeted
  BY InvImplies, ServerCorrect, TypeCorrect, PTL

(* Every step of the server is a step of the FIFO server, or none. *)
LEMMA RefinementStep ==
    ASSUME Calm, TypeOK, ServerInv, ServerInv', [Next]_vars
    PROVE  [Abstract!Next]_(Abstract!vars)
  <1> DEFINE serving == IF pc \in {"call", "crit"} THEN task ELSE Root
  <1> USE DEF lvars, kvars, bvars, mvars
  <1> SUFFICES \/ Abstract!Next
               \/ /\ UNCHANGED queue
                  /\ Asleep' = Asleep
                  /\ serving' = serving
    BY DEF Abstract!vars
  <1>0. ListInv /\ ThreadInv /\ WorkInv /\ queue \in Seq(Task)
    BY DEF ServerInv, TypeOK
  <1>1. CASE UNCHANGED vars
    BY <1>1 DEF vars, Asleep
  <1>2. ASSUME NEW b \in Button, button_async_handler(b)
        PROVE  Abstract!Next
    <2> DEFINE t == <<b, RWn[b]>>
    <2>1. t \in Task /\ queue' = Append(queue, t) /\ UNCHANGED <<pc, task>> /\ ~Linked(t)
      BY <1>2, PressedTask DEF Calm, button_async_handler, rt_thread_deferrable_insert_task
    <2>2. queue' # <<>>
      BY <1>0, <2>1
    <2>3. ~Asleep'
      BY <2>2 DEF ServerInv, ThreadInv, WorkInv, Asleep
    <2>4. Abstract!Request(t)
      BY <2>1, <2>3 DEF Abstract!Request, Linked
    <2> QED
      BY <2>1, <2>4 DEF Abstract!Next
  <1>3. CASE rt_timer_deferrable_capacity
    BY <1>3 DEF rt_timer_deferrable_capacity, Asleep
  <1>4. CASE Preempt
    BY <1>4 DEF Preempt, Asleep
  <1>5. CASE Dispatch
    BY <1>0, <1>5 DEF Dispatch, Asleep
  <1>6. CASE MutexGrant
    BY <1>0, <1>6 DEF MutexGrant, Asleep
  <1>7. CASE MutexBoost
    BY <1>7 DEF MutexBoost, Asleep
  <1>8. CASE Entry
    BY <1>8 DEF Entry, At, Asleep
  <1>9. CASE CheckActive
    BY <1>9 DEF CheckActive, At, Asleep
  <1>10. CASE PickTask
    <2>1. pc = "pick" /\ queue # <<>> /\ list.next[Root] = queue[1] /\ list.next[Root] # Root
      BY <1>0, <1>10, EmptyTest DEF PickTask, At, WorkInv
    <2>2. task' = Head(queue) /\ pc' = "call" /\ UNCHANGED <<queue, stat, mutex>>
      BY <1>0, <1>10, <2>1 DEF PickTask, At
    <2>3. ~Asleep /\ ~Asleep'
      BY <1>0, <2>1, <2>2 DEF ThreadInv, Asleep
    <2>4. Abstract!Begin
      BY <2>1, <2>2, <2>3 DEF Abstract!Begin
    <2> QED
      BY <2>4 DEF Abstract!Next
  <1>11. CASE BodyTake
    BY <1>0, <1>11 DEF BodyTake, At, Asleep, ThreadInv
  <1>12. CASE BodyBlock
    BY <1>0, <1>12 DEF BodyBlock, At, Asleep, ThreadInv
  <1>13. CASE BodyRelease
    <2>1. /\ pc = "crit" /\ pc' = "load1" /\ queue # <<>> /\ task = Head(queue)
          /\ queue' = Tail(queue) /\ current /\ UNCHANGED <<stat, current>>
      BY <1>0, <1>13 DEF BodyRelease, At, WorkInv
    <2>2. ~Asleep /\ ~Asleep'
      BY <1>0, <2>1 DEF ThreadInv, Asleep
    <2>3. Abstract!Finish
      BY <2>1, <2>2 DEF Abstract!Finish
    <2> QED
      BY <2>3 DEF Abstract!Next
  <1>14. CASE rt_list_remove
    BY <1>14 DEF rt_list_remove, RemoveStep, At, Asleep
  <1>15. CASE TestEmpty
    BY <1>15 DEF TestEmpty, At, Asleep
  <1>16. CASE StopTimer
    BY <1>16 DEF StopTimer, At, Asleep
  <1>17. CASE Suspend
    <2>1. pc = "suspend" /\ pc' = "clear" /\ queue = <<>> /\ UNCHANGED <<queue, mutex>>
      BY <1>0, <1>17 DEF Suspend, At, WorkInv
    <2>2. ~Asleep /\ Asleep'
      BY <1>0, <1>17, <2>1 DEF Suspend, At, ThreadInv, Asleep
    <2>3. Abstract!Sleep
      BY <2>1, <2>2 DEF Abstract!Sleep
    <2> QED
      BY <2>3 DEF Abstract!Next
  <1>18. CASE ClearActive
    BY <1>18 DEF ClearActive, At, Asleep
  <1>19. CASE Schedule
    BY <1>19 DEF Schedule, At, Asleep
  <1> QED
    BY <1>1, <1>2, <1>3, <1>4, <1>5, <1>6, <1>7, <1>8, <1>9, <1>10, <1>11, <1>12, <1>13,
       <1>14, <1>15, <1>16, <1>17, <1>18, <1>19
    DEF Next, Server, Environment

(* With calm presses the server of deferrable.c implements the FIFO server *)
(* of AperiodicServer: requests are served in order, and it sleeps only    *)
(* when none is left.                                                      *)
THEOREM Refinement ==
    ASSUME Calm
    PROVE  Spec => ImplementsFifo
  <1>1. Init => Abstract!Init
    BY DEF Init, rt_thread_deferrable_init, Abstract!Init, Asleep
  <1>2. TypeOK /\ ServerInv /\ ServerInv' /\ [Next]_vars => [Abstract!Next]_(Abstract!vars)
    BY RefinementStep
  <1> QED
    BY <1>1, <1>2, ServerCorrect, TypeCorrect, PTL DEF Spec, ImplementsFifo, Abstract!Spec
=============================================================================
