----------------------------- MODULE TaskLists ------------------------------
(***************************************************************************)
(* The linked lists of the kernel, pointer by pointer.  A task descriptor  *)
(* has one link, `next`, used both by the ready queue it is in (TaskQueue.c*)
(* keeps begin and end) and by the sendQ it is in (the receiver keeps the  *)
(* head).  queueFullMask picks the queue through the De Bruijn table.      *)
(*                                                                         *)
(* The callers' discipline, which Kernel keeps, is in the guards: only a   *)
(* task in no list is linked, and only the running task becomes a sender.  *)
(* That matters: kernel_send links the sender without clearing its `next`, *)
(* which next_ready_task cleared, while kernel_receive leaves the `next`   *)
(* of the sender it takes dangling until append_task clears it.            *)
(***************************************************************************)
EXTENDS Integers, Sequences, FiniteSets

CONSTANTS
  MaxTask,       \* NUM_MAX_TASK
  LastPriority,  \* LOWEST_PRIORITY
  PriorityOf     \* the priority field, set once by kernel_createtask

Tid      == 0 .. MaxTask - 1
Priority == 0 .. LastPriority
NULL     == -1

ASSUME TaskListsAssumption ==
  /\ MaxTask \in Nat \ {0}
  /\ LastPriority \in 0 .. 30
  /\ PriorityOf \in [Tid -> Priority]

VARIABLES
  next,           \* the link of each task
  begin, end,     \* taskReadyQueues[p].begin and .end
  queueFullMask,  \* the set of bits that are 1
  sendQ,          \* the first sender queued on each task
  place           \* history: where each task was last put

lists == <<next, begin, end, queueFullMask, sendQ>>
vars  == <<lists, place>>

-----------------------------------------------------------------------------
(* The lookup of the lowest bit, in 32-bit unsigned arithmetic. *)

MultiplyDeBruijnBitPosition ==
  <<0, 1, 28, 2, 29, 14, 24, 3, 30, 22, 20, 15, 25, 17, 4, 8,
    31, 27, 13, 23, 21, 19, 16, 7, 26, 12, 18, 6, 11, 5, 10, 9>>

DeBruijn == 125613361    \* 0x077CB531

\* (2^k * DeBruijn) % 2^32 >> 27: the five bits of the constant below bit 32 - k.
\* (The constant has 27 bits, so nothing is cut off while k <= 5.)
TopFiveBits(k) ==
  LET low == IF k <= 5 THEN DeBruijn ELSE DeBruijn % (2^(32 - k))
  IN  IF k <= 27 THEN low \div (2^(27 - k)) ELSE low * (2^(k - 27))

\* queueFullMask & -queueFullMask is 0 for an empty mask, and 0 * c >> 27 is 0.
QueueIndex(mask) ==
  IF mask = {} THEN MultiplyDeBruijnBitPosition[1]
  ELSE MultiplyDeBruijnBitPosition[
         1 + TopFiveBits(CHOOSE k \in mask : \A m \in mask : k <= m)]

-----------------------------------------------------------------------------
Init ==
  /\ next = [t \in Tid |-> NULL]
  /\ begin = [p \in Priority |-> NULL]
  /\ end = [p \in Priority |-> NULL]
  /\ queueFullMask = {}
  /\ sendQ = [t \in Tid |-> NULL]
  /\ place = [t \in Tid |-> "unlinked"]

\* queueFullMask |= 1 << p
SetBit(p) == queueFullMask' = queueFullMask \cup {p}

\* Mutant: append_task does not clear the stale link.
LinkLastOnly(t, p) ==
  IF begin[p] = NULL
  THEN begin' = [begin EXCEPT ![p] = t] /\ UNCHANGED next
  ELSE next' = [next EXCEPT ![end[p]] = t] /\ UNCHANGED begin

LinkLast(t, p) ==
  IF begin[p] = NULL
  THEN begin' = [begin EXCEPT ![p] = t] /\ next' = [next EXCEPT ![t] = NULL]
  ELSE next' = [next EXCEPT ![t] = NULL, ![end[p]] = t] /\ UNCHANGED begin

append_task(t) ==
  /\ place[t] \in {"unlinked", "running", "taken"}
  /\ SetBit(PriorityOf[t])
  /\ LinkLast(t, PriorityOf[t])
  /\ end' = [end EXCEPT ![PriorityOf[t]] = t]
  /\ place' = [place EXCEPT ![t] = "ready"]
  /\ UNCHANGED sendQ

\* result->next = NULL
KeepLink(t)  == t \in Tid /\ UNCHANGED next    \* mutant
ClearLink(t) == next' = [next EXCEPT ![t] = NULL]

next_ready_task ==
  LET i == QueueIndex(queueFullMask)
      result == begin[i]
  IN /\ result # NULL
     /\ begin' = [begin EXCEPT ![i] = next[result]]
     /\ IF next[result] = NULL
        THEN /\ end' = [end EXCEPT ![i] = NULL]
             /\ queueFullMask' = queueFullMask \ {i}
        ELSE UNCHANGED <<end, queueFullMask>>
     /\ ClearLink(result)
     /\ place' = [place EXCEPT ![result] = "running"]
     /\ UNCHANGED sendQ

\* The chain of tasks from h along the links nx, cut after MaxTask links.
ChainIn(nx, h) ==
  LET walk[n \in 0 .. MaxTask] ==
        [t \in Tid \cup {NULL} |->
           IF n = 0 \/ t = NULL THEN <<>> ELSE <<t>> \o walk[n - 1][nx[t]]]
  IN walk[MaxTask][h]
Chain(h) == ChainIn(next, h)

\* kernel_send: the sender is linked after the last task of the receiver's list.
SendLink(s, r) ==
  /\ place[s] = "running"
  /\ IF sendQ[r] = NULL
     THEN sendQ' = [sendQ EXCEPT ![r] = s] /\ UNCHANGED next
     ELSE LET last == Chain(sendQ[r])[Len(Chain(sendQ[r]))] IN
          next' = [next EXCEPT ![last] = s] /\ UNCHANGED sendQ
  /\ place' = [place EXCEPT ![s] = "sending"]
  /\ UNCHANGED <<begin, end, queueFullMask>>

\* kernel_receive: the head goes, its link stays.
ReceiveUnlink(r) ==
  /\ sendQ[r] # NULL
  /\ sendQ' = [sendQ EXCEPT ![r] = next[sendQ[r]]]
  /\ place' = [place EXCEPT ![sendQ[r]] = "taken"]
  /\ UNCHANGED <<next, begin, end, queueFullMask>>

Next ==
  \/ \E t \in Tid : append_task(t)
  \/ next_ready_task
  \/ \E s, r \in Tid : s # r /\ SendLink(s, r)
  \/ \E r \in Tid : ReceiveUnlink(r)

Spec == Init /\ [][Next]_vars

-----------------------------------------------------------------------------
(* Properties *)

\* The links from the head of this list come to NULL, through no task twice.
Ends(list) ==
  /\ next[list[Len(list)]] = NULL
  /\ \A i, j \in DOMAIN list : list[i] = list[j] => i = j

\* Whatever stale link a task carries when it is put in a list, the list ends:
\* each ready queue at its `end`, through ready tasks of its priority only, each
\* sendQ after its last sender, through sending tasks only.
ListsEnd ==
  /\ \A p \in Priority : begin[p] # NULL =>
       /\ Ends(Chain(begin[p]))
       /\ Chain(begin[p])[Len(Chain(begin[p]))] = end[p]
       /\ \A i \in DOMAIN Chain(begin[p]) :
            place[Chain(begin[p])[i]] = "ready" /\ PriorityOf[Chain(begin[p])[i]] = p
  /\ \A r \in Tid : sendQ[r] # NULL =>
       /\ Ends(Chain(sendQ[r]))
       /\ \A i \in DOMAIN Chain(sendQ[r]) : place[Chain(sendQ[r])[i]] = "sending"

Q == INSTANCE TaskQueues WITH
       readyQ    <- [p \in Priority |-> Chain(begin[p])],
       sendersOf <- [r \in Tid |-> Chain(sendQ[r])]

\* The linked lists behave as FIFOs: every task linked is found again, once,
\* in its turn, and the task taken is the first of the most urgent queue.
ImplementsQueues == Q!Spec
=============================================================================
