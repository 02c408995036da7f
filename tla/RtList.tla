------------------------------- MODULE RtList -------------------------------
(***************************************************************************)
(* The intrusive doubly linked list of RT-Thread (rtservice.h), the queue  *)
(* of the deferrable server.  A list is a record of two functions, the     *)
(* successor and the predecessor of every node; a node that is in no list  *)
(* points at itself.  The operators are the inline functions of the        *)
(* kernel, composed from single stores, in the order of the C statements.  *)
(*                                                                         *)
(* Interrupt handlers run a whole operation without interruption; a thread *)
(* that calls rt_list_remove with interrupts enabled can be interrupted    *)
(* between any two of its accesses, so the module also names these.        *)
(***************************************************************************)
EXTENDS Naturals, Sequences

(* One store: n->next = v and n->prev = v. *)
SetNext(l, n, v) == [next |-> [l.next EXCEPT ![n] = v], prev |-> l.prev]
SetPrev(l, n, v) == [next |-> l.next, prev |-> [l.prev EXCEPT ![n] = v]]

(* l->next = l->prev = l *)
rt_list_init(l, n) == SetNext(SetPrev(l, n, n), n, n)

(* A faulty insertion: l->prev = n is forgotten, so the tail stays behind. *)
InsertBeforeNoTail(l, h, n) ==
    LET l1 == SetNext(l, l.prev[h], n)
        l2 == SetPrev(l1, n, l1.prev[h])
    IN  SetNext(l2, n, h)

(* Put n before node h, that is, at the tail of the list whose head is h. *)
rt_list_insert_before(l, h, n) ==
    LET l1 == SetNext(l, l.prev[h], n)
        l2 == SetPrev(l1, n, l1.prev[h])
        l3 == SetPrev(l2, h, n)
    IN  SetNext(l3, n, h)

(* A faulty removal: the successor's prev is left alone. *)
RemoveStore1Skipped(l, n, r) == l

(* The accesses of rt_list_remove(n): the successor is loaded into a       *)
(* register, then stored through; then the same for the predecessor; then  *)
(* n is made to point at itself.                                           *)
RemoveStore1(l, n, r) == SetPrev(l, r, l.prev[n])   \* n->next->prev = n->prev
RemoveStore2(l, n, r) == SetNext(l, l.prev[n], r)   \* n->prev->next = n->next
RemoveStore3(l, n)    == SetPrev(l, n, n)           \* n->prev = n
RemoveStore4(l, n)    == SetNext(l, n, n)           \* n->next = n

rt_list_isempty(l, n) == l.next[n] = n

-----------------------------------------------------------------------------
(***************************************************************************)
(* What a list stands for.  Ring(l, h, q): from the head h, in both        *)
(* directions, the nodes are exactly the elements of the sequence q.       *)
(***************************************************************************)
Link(l, a, b) == l.next[a] = b /\ l.prev[b] = a

NodeAt(h, q, i) == IF i \in 1..Len(q) THEN q[i] ELSE h

Chain(l, h, q) == \A i \in 1..Len(q) : Link(l, q[i], NodeAt(h, q, i + 1))

Ring(l, h, q) == Link(l, h, NodeAt(h, q, 1)) /\ Chain(l, h, q)

Injective(q) == \A i, j \in 1..Len(q) : q[i] = q[j] => i = j
=============================================================================
