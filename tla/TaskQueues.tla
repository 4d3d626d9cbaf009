----------------------------- MODULE TaskQueues -----------------------------
(***************************************************************************)
(* The lists of tasks as the kernel uses them: a FIFO of ready tasks per   *)
(* priority and a FIFO of blocked senders per receiver.  TaskLists, the    *)
(* linked lists of the source, is shown to implement it.                   *)
(***************************************************************************)
EXTENDS Integers, Sequences

CONSTANTS Tid, Priority, PriorityOf

VARIABLES readyQ, sendersOf

qvars == <<readyQ, sendersOf>>

Members(s) == {s[i] : i \in DOMAIN s}

\* The tasks in some list.
Listed == UNION ({Members(readyQ[p]) : p \in Priority}
                   \cup {Members(sendersOf[r]) : r \in Tid})

Empty ==
  /\ readyQ = [p \in Priority |-> <<>>]
  /\ sendersOf = [r \in Tid |-> <<>>]

PutReady(t) ==
  /\ t \notin Listed
  /\ readyQ' = [readyQ EXCEPT ![PriorityOf[t]] = Append(@, t)]
  /\ UNCHANGED sendersOf

\* Only the first task of the most urgent non-empty queue is ever taken.
TakeReady(p) ==
  /\ readyQ[p] # <<>>
  /\ \A q \in Priority : q < p => readyQ[q] = <<>>
  /\ readyQ' = [readyQ EXCEPT ![p] = Tail(@)]
  /\ UNCHANGED sendersOf

PutSender(s, r) ==
  /\ s \notin Listed
  /\ sendersOf' = [sendersOf EXCEPT ![r] = Append(@, s)]
  /\ UNCHANGED readyQ

TakeSender(r) ==
  /\ sendersOf[r] # <<>>
  /\ sendersOf' = [sendersOf EXCEPT ![r] = Tail(@)]
  /\ UNCHANGED readyQ

Step ==
  \/ \E t \in Tid : PutReady(t)
  \/ \E p \in Priority : TakeReady(p)
  \/ \E s, r \in Tid : PutSender(s, r)
  \/ \E r \in Tid : TakeSender(r)

Spec == Empty /\ [][Step]_qvars
=============================================================================
