----------------------------- MODULE Rendezvous -----------------------------
(***************************************************************************)
(* What the kernel promises its tasks, without queues or scheduling: a     *)
(* message passes from its sender to its receiver in one step when both    *)
(* are there, a Receive waits only while nobody is sending to the caller,  *)
(* and a sender continues only after its message was taken and a Reply     *)
(* was made to it.  Kernel is shown to implement this.                     *)
(***************************************************************************)
EXTENDS Integers

CONSTANTS
  Tid,         \* every task there can ever be
  First,       \* the tasks that exist at the start
  Silent,      \* the task that makes no system call
  None         \* no task

VARIABLES
  phase,       \* what each task is doing
  peer         \* the task a sender deals with

Phase == {"absent", "runnable", "sending", "awaiting", "receiving",
          "paused", "stranded", "gone"}

rvars == <<phase, peer>>

Start ==
  /\ phase = [t \in Tid |-> IF t \in First THEN "runnable" ELSE "absent"]
  /\ peer = [t \in Tid |-> None]

Become(t, from, to) ==
  /\ phase[t] = from
  /\ phase' = [phase EXCEPT ![t] = to]
  /\ UNCHANGED peer

Appear(t) == Become(t, "absent", "runnable")
Depart(t) == Become(t, "runnable", "gone")
Strand(t) == Become(t, "runnable", "stranded")
Pause(t)  == Become(t, "runnable", "paused")
Resume(t) == Become(t, "paused", "runnable")

\* s finds r receiving: the message passes at once.
Meet(s, r) ==
  /\ s # r
  /\ phase[s] = "runnable"
  /\ phase[r] = "receiving"
  /\ phase' = [phase EXCEPT ![s] = "awaiting", ![r] = "runnable"]
  /\ peer' = [peer EXCEPT ![s] = r]

\* r exists and is doing something else: s waits for r to receive.
Offer(s, r) ==
  /\ s # r
  /\ phase[s] = "runnable"
  /\ phase[r] \notin {"absent", "gone", "receiving"}
  /\ phase' = [phase EXCEPT ![s] = "sending"]
  /\ peer' = [peer EXCEPT ![s] = r]

\* r takes the message of one of the tasks sending to it.
Take(r, s) ==
  /\ phase[r] = "runnable"
  /\ phase[s] = "sending"
  /\ peer[s] = r
  /\ phase' = [phase EXCEPT ![s] = "awaiting"]
  /\ UNCHANGED peer

\* r waits, and only while no task is sending to it.
Listen(r) ==
  /\ \A s \in Tid : ~(phase[s] = "sending" /\ peer[s] = r)
  /\ Become(r, "runnable", "receiving")

\* Any runnable task may answer a sender whose message was taken.
Answer(q, s) ==
  /\ phase[q] = "runnable"
  /\ phase[s] = "awaiting"
  /\ phase' = [phase EXCEPT ![s] = "runnable"]
  /\ peer' = [peer EXCEPT ![s] = None]

Step ==
  \/ \E t \in Tid : Appear(t) \/ Resume(t)
  \/ \E t \in Tid \ {Silent} : Depart(t) \/ Strand(t) \/ Pause(t) \/ Listen(t)
  \/ \E t \in Tid \ {Silent}, u \in Tid :
       Meet(t, u) \/ Offer(t, u) \/ Take(t, u) \/ Answer(t, u)

Spec == Start /\ [][Step]_rvars
=============================================================================
