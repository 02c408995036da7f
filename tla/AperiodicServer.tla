-------------------------- MODULE AperiodicServer ---------------------------
(***************************************************************************)
(* What a server of aperiodic tasks promises, as the comments of           *)
(* applications/deferrable.c and procedure.c describe it: a request is     *)
(* queued and wakes the server, the server runs the requests one at a time *)
(* in the order of their arrival, and it goes to sleep only when no        *)
(* request is left.                                                        *)
(***************************************************************************)
EXTENDS Sequences, Naturals

CONSTANTS Task,     \* the tasks that can be requested
          NoTask    \* not a task: nothing is being served

VARIABLES queue,    \* the requests not served yet, the one being served included
          serving,  \* the task being run, or NoTask
          awake     \* is the server ready to run?

vars == <<queue, serving, awake>>

Init == queue = <<>> /\ serving = NoTask /\ awake = FALSE

Request(t) == /\ \A i \in 1..Len(queue) : queue[i] # t
              /\ queue' = Append(queue, t)
              /\ awake' = TRUE
              /\ UNCHANGED serving

Begin == /\ awake /\ serving = NoTask /\ queue # <<>>
         /\ serving' = Head(queue)
         /\ UNCHANGED <<queue, awake>>

Finish == /\ awake /\ queue # <<>> /\ serving = Head(queue)
          /\ serving' = NoTask
          /\ queue' = Tail(queue)
          /\ UNCHANGED awake

Sleep == /\ awake /\ serving = NoTask /\ queue = <<>>
         /\ awake' = FALSE
         /\ UNCHANGED <<queue, serving>>

Next == (\E t \in Task : Request(t)) \/ Begin \/ Finish \/ Sleep

Spec == Init /\ [][Next]_vars

FairSpec == Spec /\ WF_vars(Begin) /\ WF_vars(Finish)
=============================================================================
