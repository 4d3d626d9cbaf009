---------------------------- MODULE KernelProofs ----------------------------
(***************************************************************************)
(* Theorems about the microkernel, for any number of tasks, priorities and *)
(* interrupt lines.                                                        *)
(***************************************************************************)
EXTENDS Kernel, TLAPS, WellFoundedInduction, SequenceTheorems

(***************************************************************************)
(* Queues: what appending to a queue and removing its head do to the       *)
(* elements of a family of queues.                                         *)
(***************************************************************************)

\* Families of queues.  Kept folded: a lemma about [S -> Seq(T)] for any S and T
\* can only be applied where the provers see both sets.
Queues(S, T) == [S -> Seq(T)]

\* Appending t to queue x adds t there and nothing else, and repeats nothing
\* if t was not in it (Enqueue, and the link kernel_send makes).
LEMMA AppendToQueue ==
  ASSUME NEW S, NEW T, NEW q \in Queues(S, T), NEW x \in S, NEW t \in T
  PROVE  LET r == Enqueue(q, x, t) IN
         /\ r \in Queues(S, T)
         /\ r[x] # <<>>
         /\ \A y \in S : y # x => r[y] = q[y]
         /\ \A y \in S, u \in T : Holds(r, y, u) <=> Holds(q, y, u) \/ (y = x /\ u = t)
         /\ NoRepeats(q) /\ ~Holds(q, x, t) => NoRepeats(r)
<1> DEFINE r == Enqueue(q, x, t)
<1>1. r = [y \in S |-> IF y = x THEN Append(q[x], t) ELSE q[y]]
  BY DEF Enqueue, Queues
<1>2. /\ q[x] \in Seq(T)
      /\ Append(q[x], t) \in Seq(T)
      /\ Append(q[x], t) # <<>>
      /\ Len(q[x]) \in Nat
      /\ Len(Append(q[x], t)) = Len(q[x]) + 1
      /\ \A i \in 1 .. Len(q[x]) : Append(q[x], t)[i] = q[x][i]
      /\ Append(q[x], t)[Len(q[x]) + 1] = t
  BY AppendProperties, LenProperties DEF Queues
<1>5. r \in Queues(S, T)
  BY <1>1, <1>2 DEF Queues
<1>3. \A y \in S, u \in T : Holds(r, y, u) <=> Holds(q, y, u) \/ (y = x /\ u = t)
  <2> SUFFICES ASSUME NEW y \in S, NEW u \in T
               PROVE  Holds(r, y, u) <=> Holds(q, y, u) \/ (y = x /\ u = t)
    OBVIOUS
  <2>1. CASE y # x
    BY <1>1, <2>1 DEF Holds
  <2>2. CASE y = x
    BY <1>1, <1>2, <2>2, LenProperties DEF Holds
  <2> QED BY <2>1, <2>2
<1>4. ASSUME NoRepeats(q), ~Holds(q, x, t) PROVE NoRepeats(r)
  <2> SUFFICES ASSUME NEW y \in S, NEW i \in DOMAIN r[y], NEW j \in DOMAIN r[y],
                      r[y][i] = r[y][j]
               PROVE  i = j
    BY <1>1 DEF NoRepeats, Queues
  <2>1. CASE y # x
    BY <1>1, <1>4, <2>1 DEF NoRepeats, Queues
  <2>2. CASE y = x
    <3>1. /\ DOMAIN r[x] = 1 .. Len(q[x]) + 1
          /\ DOMAIN q[x] = 1 .. Len(q[x])
          /\ r[x] = Append(q[x], t)
      BY <1>1, <1>2, LenProperties
    <3>2. \A k \in 1 .. Len(q[x]) : q[x][k] # t
      BY <1>4, <3>1 DEF Holds
    <3>3. \A k, l \in 1 .. Len(q[x]) : q[x][k] = q[x][l] => k = l
      BY <1>4, <3>1 DEF NoRepeats, Queues
    <3>4. i \in 1 .. Len(q[x]) + 1 /\ j \in 1 .. Len(q[x]) + 1
      BY <2>2, <3>1
    <3> QED BY <1>2, <2>2, <3>1, <3>2, <3>3, <3>4
  <2> QED BY <2>1, <2>2
<1> QED BY <1>1, <1>2, <1>3, <1>4, <1>5

\* Removing the head of a queue without repetitions removes just that task
\* (next_ready_task, and the unlinking in kernel_receive).
LEMMA TakeFromQueue ==
  ASSUME NEW S, NEW T, NEW q \in Queues(S, T), NEW x \in S, q[x] # <<>>, NoRepeats(q)
  PROVE  LET r == Dequeue(q, x) IN
         /\ r \in Queues(S, T)
         /\ \A y \in S : y # x => r[y] = q[y]
         /\ Head(q[x]) \in T
         /\ Holds(q, x, Head(q[x]))
         /\ NoRepeats(r)
         /\ \A y \in S, u \in T :
              Holds(r, y, u) <=> Holds(q, y, u) /\ ~(y = x /\ u = Head(q[x]))
<1> DEFINE r == Dequeue(q, x)
<1>1. /\ q[x] \in Seq(T)
      /\ Head(q[x]) = q[x][1]
      /\ Tail(q[x]) \in Seq(T)
      /\ Len(q[x]) \in Nat \ {0}
      /\ Len(Tail(q[x])) = Len(q[x]) - 1
      /\ DOMAIN q[x] = 1 .. Len(q[x])
      /\ DOMAIN Tail(q[x]) = 1 .. Len(q[x]) - 1
      /\ \A i \in 1 .. Len(q[x]) - 1 : Tail(q[x])[i] = q[x][i + 1]
  BY HeadTailProperties, LenProperties, EmptySeq DEF Queues
<1>2. /\ r \in Queues(S, T)
      /\ r = [y \in S |-> IF y = x THEN Tail(q[x]) ELSE q[y]]
  BY <1>1 DEF Queues, Dequeue
<1>3. Head(q[x]) \in T /\ Holds(q, x, Head(q[x]))
  BY <1>1 DEF Holds
<1>4. \A k, l \in 1 .. Len(q[x]) : q[x][k] = q[x][l] => k = l
  BY <1>1 DEF NoRepeats, Queues
<1>5. NoRepeats(r)
  <2> SUFFICES ASSUME NEW y \in S, NEW i \in DOMAIN r[y], NEW j \in DOMAIN r[y],
                      r[y][i] = r[y][j]
               PROVE  i = j
    BY <1>2 DEF NoRepeats
  <2>1. CASE y # x
    BY <1>2, <2>1 DEF NoRepeats, Queues
  <2>2. CASE y = x
    <3>1. i \in 1 .. Len(q[x]) - 1 /\ j \in 1 .. Len(q[x]) - 1
      BY <1>1, <1>2, <2>2
    <3>2. q[x][i + 1] = q[x][j + 1]
      BY <1>1, <1>2, <2>2, <3>1
    <3>3. i + 1 = j + 1
      BY <1>1, <1>4, <3>1, <3>2
    <3> QED BY <3>1, <3>3
  <2> QED BY <2>1, <2>2
<1>6. ASSUME NEW y \in S, NEW u \in T
      PROVE  Holds(r, y, u) <=> Holds(q, y, u) /\ ~(y = x /\ u = Head(q[x]))
  <2>1. CASE y # x
    BY <1>2, <2>1 DEF Holds
  <2>2. CASE y = x
    <3>1. Holds(r, x, u) <=> \E i \in 1 .. Len(q[x]) - 1 : q[x][i + 1] = u
      BY <1>1, <1>2 DEF Holds
    <3>2. ASSUME Holds(r, x, u) PROVE Holds(q, x, u) /\ u # Head(q[x])
      <4>1. PICK i \in 1 .. Len(q[x]) - 1 : q[x][i + 1] = u
        BY <3>1, <3>2
      <4>2. i + 1 \in 1 .. Len(q[x]) /\ i + 1 # 1 /\ 1 \in 1 .. Len(q[x])
        BY <1>1
      <4> QED BY <1>1, <1>4, <4>1, <4>2 DEF Holds
    <3>3. ASSUME Holds(q, x, u), u # Head(q[x]) PROVE Holds(r, x, u)
      <4>1. PICK k \in 1 .. Len(q[x]) : q[x][k] = u
        BY <1>1, <3>3 DEF Holds
      <4>2. k - 1 \in 1 .. Len(q[x]) - 1 /\ q[x][(k - 1) + 1] = u
        BY <1>1, <3>3, <4>1
      <4> QED BY <3>1, <4>2
    <3> QED BY <2>2, <3>2, <3>3
  <2> QED BY <2>1, <2>2
<1> QED BY <1>2, <1>3, <1>5, <1>6

\* Nothing is in an empty queue.
LEMMA EmptyQueueHoldsNothing ==
  ASSUME NEW S, NEW T, NEW q \in Queues(S, T), NEW x \in S
  PROVE  q[x] = <<>> <=> \A t \in T : ~Holds(q, x, t)
<1>1. q[x] \in Seq(T) /\ DOMAIN q[x] = 1 .. Len(q[x]) /\ Len(q[x]) \in Nat
  BY LenProperties DEF Queues
<1>2. CASE q[x] = <<>>
  BY <1>1, <1>2, EmptySeq DEF Holds
<1>3. CASE q[x] # <<>>
  <2>1. 1 \in DOMAIN q[x] /\ q[x][1] \in T
    BY <1>1, <1>3, EmptySeq, ElementOfSeq
  <2> QED BY <1>3, <2>1 DEF Holds
<1> QED BY <1>2, <1>3

\* The De Bruijn lookup yields a priority: the lowest bit set, or 0.
LEMMA LowestBitIsLeast ==
  ASSUME NEW mask \in SUBSET Priority
  PROVE  /\ LowestBit(mask) \in Priority
         /\ mask # {} => LowestBit(mask) \in mask /\ \A q \in mask : LowestBit(mask) <= q
<1>1. CASE mask = {}
  BY <1>1, KernelAssumption DEF LowestBit, Priority
<1>2. CASE mask # {}
  <2>1. mask \subseteq Nat
    BY DEF Priority
  <2>2. PICK p \in mask : \A q \in mask : ~(<<q, p>> \in OpToRel(<, Nat))
    BY <1>2, <2>1, WFMin, NatLessThanWellFounded
  <2>3. \A q \in mask : ~(q < p)
    BY <2>1, <2>2 DEF OpToRel
  <2>4. \A q \in mask : p <= q
    BY <2>1, <2>3
  <2> QED BY <1>2, <2>4 DEF LowestBit
<1> QED BY <1>1, <1>2

(***************************************************************************)
(* The ready queues under the three ways the handlers change them.         *)
(***************************************************************************)

QueuesTyped ==
  taskReadyQueues \in Queues(Priority, Tid) /\ queueFullMask \in SUBSET Priority

\* Two tasks in no ready queue are appended, one after the other.
LEMMA AppendBoth ==
  ASSUME QueuesTyped, MaskMatchesQueues, NoRepeats(taskReadyQueues),
         NEW p \in Priority, NEW r \in Priority, NEW t \in Tid, NEW u \in Tid, t # u,
         ~Holds(taskReadyQueues, p, t), ~Holds(taskReadyQueues, r, u),
         taskReadyQueues' = Enqueue(Enqueue(taskReadyQueues, p, t), r, u),
         queueFullMask' = queueFullMask \cup {p, r}
  PROVE  /\ QueuesTyped' /\ MaskMatchesQueues' /\ NoRepeats(taskReadyQueues')
         /\ \A x \in Priority, v \in Tid : Holds(taskReadyQueues', x, v) <=>
              Holds(taskReadyQueues, x, v) \/ (x = p /\ v = t) \/ (x = r /\ v = u)
<1> DEFINE q1 == Enqueue(taskReadyQueues, p, t)
<1>1. /\ q1 \in Queues(Priority, Tid)
      /\ q1[p] # <<>>
      /\ \A y \in Priority : y # p => q1[y] = taskReadyQueues[y]
      /\ \A x \in Priority, v \in Tid :
           Holds(q1, x, v) <=> Holds(taskReadyQueues, x, v) \/ (x = p /\ v = t)
      /\ NoRepeats(q1)
  BY AppendToQueue DEF QueuesTyped
<1>2. taskReadyQueues' = Enqueue(q1, r, u)
  OBVIOUS
<1> HIDE DEF q1
<1>3. ~Holds(q1, r, u)
  BY <1>1
<1> DEFINE q2 == Enqueue(q1, r, u)
<1>4. /\ q2 \in Queues(Priority, Tid)
      /\ q2[r] # <<>>
      /\ \A y \in Priority : y # r => q2[y] = q1[y]
      /\ \A x \in Priority, v \in Tid :
           Holds(q2, x, v) <=> Holds(q1, x, v) \/ (x = r /\ v = u)
      /\ NoRepeats(q2)
  BY <1>1, <1>3, AppendToQueue
<1> HIDE DEF q2
<1>5. MaskMatchesQueues'
  BY <1>1, <1>2, <1>4 DEF MaskMatchesQueues, QueuesTyped, q2
<1> QED BY <1>1, <1>2, <1>4, <1>5 DEF QueuesTyped, q2

\* One task in no ready queue is appended.
LEMMA AppendSingle ==
  ASSUME QueuesTyped, MaskMatchesQueues, NoRepeats(taskReadyQueues),
         priority \in [Tid -> Priority],
         NEW t \in Tid, ~Holds(taskReadyQueues, priority[t], t), AppendOne(t)
  PROVE  /\ QueuesTyped' /\ MaskMatchesQueues' /\ NoRepeats(taskReadyQueues')
         /\ \A x \in Priority, v \in Tid : Holds(taskReadyQueues', x, v) <=>
              Holds(taskReadyQueues, x, v) \/ (x = priority[t] /\ v = t)
<1>1. /\ taskReadyQueues' = Enqueue(taskReadyQueues, priority[t], t)
      /\ queueFullMask' = queueFullMask \cup {priority[t]}
      /\ priority[t] \in Priority
  BY DEF AppendOne
<1>2. /\ taskReadyQueues' \in Queues(Priority, Tid)
      /\ taskReadyQueues'[priority[t]] # <<>>
      /\ \A y \in Priority : y # priority[t] => taskReadyQueues'[y] = taskReadyQueues[y]
      /\ \A x \in Priority, v \in Tid : Holds(taskReadyQueues', x, v) <=>
           Holds(taskReadyQueues, x, v) \/ (x = priority[t] /\ v = t)
      /\ NoRepeats(taskReadyQueues')
  BY <1>1, AppendToQueue, SMTT(30) DEF QueuesTyped
<1>3. MaskMatchesQueues'
  BY <1>1, <1>2 DEF MaskMatchesQueues, QueuesTyped
<1> QED BY <1>1, <1>2, <1>3 DEF QueuesTyped

\* The head of the most urgent queue is unlinked.
LEMMA TakeReady ==
  ASSUME QueuesTyped, MaskMatchesQueues, NoRepeats(taskReadyQueues), next_ready_task
  PROVE  /\ QueuesTyped' /\ MaskMatchesQueues' /\ NoRepeats(taskReadyQueues')
         /\ NextTask \in Tid
         /\ LowestBit(queueFullMask) \in Priority
         /\ Holds(taskReadyQueues, LowestBit(queueFullMask), NextTask)
         /\ \A x \in Priority : x < LowestBit(queueFullMask) => taskReadyQueues[x] = <<>>
         /\ \A x \in Priority, v \in Tid : Holds(taskReadyQueues', x, v) <=>
              /\ Holds(taskReadyQueues, x, v)
              /\ ~(x = LowestBit(queueFullMask) /\ v = NextTask)
<1> DEFINE i == LowestBit(queueFullMask)
<1>1. /\ i \in Priority
      /\ queueFullMask # {} => i \in queueFullMask /\ \A q \in queueFullMask : i <= q
  BY LowestBitIsLeast DEF QueuesTyped
<1>2. /\ taskReadyQueues[i] # <<>>
      /\ taskReadyQueues' = Dequeue(taskReadyQueues, i)
      /\ queueFullMask' = IF Tail(taskReadyQueues[i]) = <<>>
                           THEN queueFullMask \ {i} ELSE queueFullMask
      /\ NextTask = Head(taskReadyQueues[i])
  BY DEF next_ready_task, NextTask
<1> HIDE DEF i
<1>3. /\ taskReadyQueues' \in Queues(Priority, Tid)
      /\ \A y \in Priority : y # i => taskReadyQueues'[y] = taskReadyQueues[y]
      /\ NextTask \in Tid
      /\ Holds(taskReadyQueues, i, NextTask)
      /\ NoRepeats(taskReadyQueues')
      /\ \A x \in Priority, v \in Tid : Holds(taskReadyQueues', x, v) <=>
           Holds(taskReadyQueues, x, v) /\ ~(x = i /\ v = NextTask)
  BY <1>1, <1>2, TakeFromQueue DEF QueuesTyped
<1>4. i \in queueFullMask /\ taskReadyQueues'[i] = Tail(taskReadyQueues[i])
  BY <1>1, <1>2 DEF MaskMatchesQueues, QueuesTyped, Queues, Dequeue
<1>5. MaskMatchesQueues'
  BY <1>1, <1>2, <1>3, <1>4 DEF MaskMatchesQueues, QueuesTyped
<1>6. \A x \in Priority : x < i => taskReadyQueues[x] = <<>>
  BY <1>1, <1>4 DEF MaskMatchesQueues, Priority
<1>7. QueuesTyped'
  BY <1>2, <1>3 DEF QueuesTyped
<1> QED BY <1>1, <1>3, <1>5, <1>6, <1>7 DEF i

(***************************************************************************)
(* The inductive invariant, action by action.                              *)
(***************************************************************************)

\* What a handler starts from: the running task is in no list, and waits for
\* nothing.
LEMMA RunningTaskUnlinked ==
  ASSUME KernelInv, mode = "user"
  PROVE  /\ QueuesTyped /\ NoRepeats(taskReadyQueues) /\ sendQ \in Queues(Tid, Tid)
         /\ currentRunningTask \in Tid /\ currentRunningTask \in Created
         /\ state[currentRunningTask] = "ACTIVE"
         /\ priority[currentRunningTask] \in Priority
         /\ \A p \in Priority : ~Holds(taskReadyQueues, p, currentRunningTask)
         /\ \A r \in Tid : ~Holds(sendQ, r, currentRunningTask)
         /\ \A x \in Event : eventWaitingTask[x] # currentRunningTask
         /\ Created \subseteq Tid
         /\ idleTid \in Created
<1>1. currentRunningTask \in Created /\ state[currentRunningTask] = "ACTIVE"
  BY DEF KernelInv, RunningTaskActive
<1>2. currentRunningTask \in Tid
  BY <1>1, KernelAssumption DEF KernelInv, TypeOK, Created, Tid, NULL
<1>3. \A p \in Priority : ~Holds(taskReadyQueues, p, currentRunningTask)
  BY <1>1, <1>2 DEF KernelInv, LinkedOnce, ReadyTasksLinked
<1>4. \A r \in Tid : ~Holds(sendQ, r, currentRunningTask)
  BY <1>1, <1>2 DEF KernelInv, LinkedOnce, SendersLinked
<1>5. \A x \in Event : eventWaitingTask[x] # currentRunningTask
  BY <1>1, <1>2, KernelAssumption DEF KernelInv, LinkedOnce, WaitersRegistered, NULL, Tid
<1>6. Created \subseteq Tid /\ idleTid \in Created
  BY KernelAssumption DEF KernelInv, TypeOK, Created, Tid, idleTid
<1> QED BY <1>1, <1>2, <1>3, <1>4, <1>5, <1>6
     DEF KernelInv, LinkedOnce, ReadyTasksLinked, TypeOK, QueuesTyped, Queues

LEMMA RequeueKeeps ==
  ASSUME KernelInv, mode = "user", Requeue
  PROVE  KernelInv'
<1> DEFINE c == currentRunningTask
<1>0. /\ state' = [state EXCEPT ![c] = "READY"]
      /\ AppendOne(c)
      /\ mode' = "kernel"
      /\ UNCHANGED <<notQuit, tid_counter, currentRunningTask, priority, sendQ,
                     eventWaitingTask, pending, server>>
  BY DEF Requeue, events
<1>1. /\ QueuesTyped /\ NoRepeats(taskReadyQueues)
      /\ c \in Tid /\ c \in Created /\ state[c] = "ACTIVE" /\ priority[c] \in Priority
      /\ ~Holds(taskReadyQueues, priority[c], c)
      /\ \A x \in Tid : ~Holds(sendQ, x, c)
      /\ \A x \in Event : eventWaitingTask[x] # c
      /\ Created \subseteq Tid
  BY RunningTaskUnlinked
<1>2. /\ QueuesTyped' /\ MaskMatchesQueues' /\ NoRepeats(taskReadyQueues')
      /\ \A x \in Priority, v \in Tid : Holds(taskReadyQueues', x, v) <=>
           Holds(taskReadyQueues, x, v) \/ (x = priority[c] /\ v = c)
  BY <1>0, <1>1, AppendSingle DEF KernelInv, TypeOK
<1> HIDE DEF c
<1>3. TypeOK'
  BY <1>0, <1>1, <1>2 DEF KernelInv, TypeOK, TaskState, QueuesTyped, Queues
<1>4. ReadyTasksLinked'
  BY <1>0, <1>1, <1>2 DEF KernelInv, TypeOK, LinkedOnce, ReadyTasksLinked, Created
<1>5. SendersLinked'
  BY <1>0, <1>1, <1>2 DEF KernelInv, TypeOK, LinkedOnce, SendersLinked, Created
<1>6. WaitersRegistered'
  BY <1>0, <1>1, <1>2 DEF KernelInv, TypeOK, LinkedOnce, WaitersRegistered, Created
<1>7. NoTaskLost'
  BY <1>0, <1>1, <1>2 DEF KernelInv, TypeOK, NoTaskLost, Created
<1>8. NoMissedRendezvous'
  BY <1>0, <1>1, <1>2 DEF KernelInv, TypeOK, NoMissedRendezvous, Created
<1>9. ReplyAwaitedFromReceiver'
  BY <1>0, <1>1, <1>2 DEF KernelInv, TypeOK, ReplyAwaitedFromReceiver, Created
<1>10. RunningTaskActive' /\ IdleReady'
  BY <1>0, <1>1, <1>2 DEF KernelInv, TypeOK, IdleReady, RunningTaskActive, c, Created
<1> QED BY <1>2, <1>3, <1>4, <1>5, <1>6, <1>7, <1>8, <1>9, <1>10
     DEF KernelInv, LinkedOnce

\* The loop head: the first task of the most urgent queue gets the CPU.
LEMMA ScheduleKeeps ==
  ASSUME KernelInv, Schedule
  PROVE  KernelInv'
<1> DEFINE c == NextTask
           b == LowestBit(queueFullMask)
<1>0. /\ mode = "kernel" /\ next_ready_task
      /\ currentRunningTask' = c
      /\ state' = [state EXCEPT ![c] = "ACTIVE"]
      /\ mode' = "user"
      /\ UNCHANGED <<notQuit, tid_counter, priority, sendQ, eventWaitingTask, pending, server>>
  BY DEF Schedule, events
<1>1. /\ QueuesTyped /\ NoRepeats(taskReadyQueues)
      /\ Created \subseteq Tid /\ idleTid \in Created
  BY KernelAssumption DEF KernelInv, TypeOK, LinkedOnce, ReadyTasksLinked, QueuesTyped, Queues,
                          Created, Tid, idleTid
<1>2. /\ QueuesTyped' /\ MaskMatchesQueues' /\ NoRepeats(taskReadyQueues')
      /\ c \in Tid /\ b \in Priority /\ Holds(taskReadyQueues, b, c)
      /\ \A x \in Priority, v \in Tid : Holds(taskReadyQueues', x, v) <=>
           Holds(taskReadyQueues, x, v) /\ ~(x = b /\ v = c)
  BY <1>0, <1>1, TakeReady DEF KernelInv
<1> HIDE DEF c, b
<1>a. c \in Created /\ state[c] = "READY" /\ priority[c] = b
  BY <1>2 DEF KernelInv, LinkedOnce, ReadyTasksLinked
<1>3. TypeOK'
  BY <1>0, <1>1, <1>2, <1>a DEF KernelInv, TypeOK, TaskState, QueuesTyped, Queues, Created
<1>4. ReadyTasksLinked'
  BY <1>0, <1>1, <1>2, <1>a DEF KernelInv, TypeOK, LinkedOnce, ReadyTasksLinked, Created
<1>5. SendersLinked'
  BY <1>0, <1>1, <1>2, <1>a DEF KernelInv, TypeOK, LinkedOnce, SendersLinked, Created
<1>6. WaitersRegistered'
  BY <1>0, <1>1, <1>2, <1>a DEF KernelInv, TypeOK, LinkedOnce, WaitersRegistered, Created
<1>7. NoTaskLost'
  BY <1>0, <1>1, <1>2, <1>a DEF KernelInv, TypeOK, NoTaskLost, Created
<1>8. NoMissedRendezvous'
  BY <1>0, <1>1, <1>2, <1>a DEF KernelInv, TypeOK, NoMissedRendezvous, Created
<1>9. ReplyAwaitedFromReceiver'
  BY <1>0, <1>1, <1>2, <1>a DEF KernelInv, TypeOK, ReplyAwaitedFromReceiver, Created
<1>10. RunningTaskActive' /\ IdleReady'
  BY <1>0, <1>1, <1>2, <1>a DEF KernelInv, TypeOK, IdleReady, RunningTaskActive, Created
<1> QED BY <1>2, <1>3, <1>4, <1>5, <1>6, <1>7, <1>8, <1>9, <1>10
     DEF KernelInv, LinkedOnce

\* The end of the loop after kernel_quit.
LEMMA CloseKeeps ==
  ASSUME KernelInv, Close
  PROVE  KernelInv'
<1> DEFINE c == NextTask
           b == LowestBit(queueFullMask)
<1>0. /\ mode = "kernel" /\ next_ready_task
      /\ mode' = "closed"
      /\ UNCHANGED <<notQuit, tid_counter, currentRunningTask, state, priority, sendQ,
                     eventWaitingTask, pending, server>>
  BY DEF Close, tasks, events
<1>1. /\ QueuesTyped /\ NoRepeats(taskReadyQueues)
      /\ Created \subseteq Tid /\ idleTid \in Created
  BY KernelAssumption DEF KernelInv, TypeOK, LinkedOnce, ReadyTasksLinked, QueuesTyped, Queues,
                          Created, Tid, idleTid
<1>2. /\ QueuesTyped' /\ MaskMatchesQueues' /\ NoRepeats(taskReadyQueues')
      /\ c \in Tid /\ b \in Priority /\ Holds(taskReadyQueues, b, c)
      /\ \A x \in Priority, v \in Tid : Holds(taskReadyQueues', x, v) <=>
           Holds(taskReadyQueues, x, v) /\ ~(x = b /\ v = c)
  BY <1>0, <1>1, TakeReady DEF KernelInv
<1> HIDE DEF c, b
<1>a. c \in Created /\ state[c] = "READY" /\ priority[c] = b
  BY <1>2 DEF KernelInv, LinkedOnce, ReadyTasksLinked
<1>3. TypeOK'
  BY <1>0, <1>1, <1>2, <1>a DEF KernelInv, TypeOK, TaskState, QueuesTyped, Queues, Created
<1>4. ReadyTasksLinked'
  BY <1>0, <1>1, <1>2, <1>a DEF KernelInv, TypeOK, LinkedOnce, ReadyTasksLinked, Created
<1>5. SendersLinked'
  BY <1>0, <1>1, <1>2, <1>a DEF KernelInv, TypeOK, LinkedOnce, SendersLinked, Created
<1>6. WaitersRegistered'
  BY <1>0, <1>1, <1>2, <1>a DEF KernelInv, TypeOK, LinkedOnce, WaitersRegistered, Created
<1>7. NoTaskLost'
  BY <1>0, <1>1, <1>2, <1>a DEF KernelInv, TypeOK, NoTaskLost, Created
<1>8. NoMissedRendezvous'
  BY <1>0, <1>1, <1>2, <1>a DEF KernelInv, TypeOK, NoMissedRendezvous, Created
<1>9. ReplyAwaitedFromReceiver'
  BY <1>0, <1>1, <1>2, <1>a DEF KernelInv, TypeOK, ReplyAwaitedFromReceiver, Created
<1>10. RunningTaskActive' /\ IdleReady'
  BY <1>0, <1>1, <1>2, <1>a DEF KernelInv, TypeOK, IdleReady, RunningTaskActive, Created
<1> QED BY <1>2, <1>3, <1>4, <1>5, <1>6, <1>7, <1>8, <1>9, <1>10
     DEF KernelInv, LinkedOnce

\* kernel_exit: the task is left in no list, and no list has it.
LEMMA ExitKeeps ==
  ASSUME KernelInv, kernel_exit
  PROVE  KernelInv'
<1> DEFINE c == currentRunningTask
<1>0. /\ mode = "user" /\ c # idleTid
      /\ state' = [state EXCEPT ![c] = "ZOMBIE"]
      /\ mode' = "kernel"
      /\ UNCHANGED <<notQuit, tid_counter, currentRunningTask, priority, taskReadyQueues,
                     queueFullMask, sendQ, eventWaitingTask, pending, server>>
  BY DEF kernel_exit, Syscall, ready, events
<1>1. /\ QueuesTyped /\ NoRepeats(taskReadyQueues) /\ sendQ \in Queues(Tid, Tid)
      /\ c \in Tid /\ c \in Created /\ state[c] = "ACTIVE" /\ priority[c] \in Priority
      /\ \A x \in Priority : ~Holds(taskReadyQueues, x, c)
      /\ \A x \in Tid : ~Holds(sendQ, x, c)
      /\ \A x \in Event : eventWaitingTask[x] # c
      /\ Created \subseteq Tid /\ idleTid \in Created
  BY <1>0, RunningTaskUnlinked
<1>2. QueuesTyped' /\ MaskMatchesQueues' /\ NoRepeats(taskReadyQueues')
  BY <1>0, <1>1 DEF KernelInv, MaskMatchesQueues, QueuesTyped
<1> HIDE DEF c
<1>3. TypeOK'
  BY <1>0, <1>1, <1>2 DEF KernelInv, TypeOK, TaskState, QueuesTyped, Queues, Created
<1>4. ReadyTasksLinked'
  BY <1>0, <1>1, <1>2 DEF KernelInv, TypeOK, LinkedOnce, ReadyTasksLinked, Created
<1>5. SendersLinked'
  BY <1>0, <1>1, <1>2 DEF KernelInv, TypeOK, LinkedOnce, SendersLinked, Created
<1>6. WaitersRegistered'
  BY <1>0, <1>1, <1>2 DEF KernelInv, TypeOK, LinkedOnce, WaitersRegistered, Created
<1>7. NoTaskLost'
  BY <1>0, <1>1, <1>2 DEF KernelInv, TypeOK, NoTaskLost, Created
<1>8. NoMissedRendezvous'
  BY <1>0, <1>1, <1>2 DEF KernelInv, TypeOK, NoMissedRendezvous, Created
<1>9. ReplyAwaitedFromReceiver'
  BY <1>0, <1>1, <1>2 DEF KernelInv, TypeOK, ReplyAwaitedFromReceiver, Created
<1>10. RunningTaskActive' /\ IdleReady'
  BY <1>0, <1>1, <1>2 DEF KernelInv, TypeOK, IdleReady, RunningTaskActive, c, Created
<1> QED BY <1>2, <1>3, <1>4, <1>5, <1>6, <1>7, <1>8, <1>9, <1>10
     DEF KernelInv, LinkedOnce

\* kernel_receive with no sender queued.
LEMMA ReceiveWaitKeeps ==
  ASSUME KernelInv, ReceiveWait
  PROVE  KernelInv'
<1> DEFINE c == currentRunningTask
<1>0. /\ mode = "user" /\ c # idleTid /\ sendQ[c] = <<>>
      /\ state' = [state EXCEPT ![c] = "SEND_BLOCK"]
      /\ mode' = "kernel"
      /\ UNCHANGED <<notQuit, tid_counter, currentRunningTask, priority, taskReadyQueues,
                     queueFullMask, sendQ, eventWaitingTask, pending, server>>
  BY DEF ReceiveWait, Syscall, ready, events
<1>1. /\ QueuesTyped /\ NoRepeats(taskReadyQueues) /\ sendQ \in Queues(Tid, Tid)
      /\ c \in Tid /\ c \in Created /\ state[c] = "ACTIVE" /\ priority[c] \in Priority
      /\ \A x \in Priority : ~Holds(taskReadyQueues, x, c)
      /\ \A x \in Tid : ~Holds(sendQ, x, c)
      /\ \A x \in Event : eventWaitingTask[x] # c
      /\ Created \subseteq Tid /\ idleTid \in Created
  BY <1>0, RunningTaskUnlinked
<1>2. QueuesTyped' /\ MaskMatchesQueues' /\ NoRepeats(taskReadyQueues')
  BY <1>0, <1>1 DEF KernelInv, MaskMatchesQueues, QueuesTyped
<1> HIDE DEF c
<1>3. TypeOK'
  BY <1>0, <1>1, <1>2 DEF KernelInv, TypeOK, TaskState, QueuesTyped, Queues, Created
<1>4. ReadyTasksLinked'
  BY <1>0, <1>1, <1>2 DEF KernelInv, TypeOK, LinkedOnce, ReadyTasksLinked, Created
<1>5. SendersLinked'
  BY <1>0, <1>1, <1>2 DEF KernelInv, TypeOK, LinkedOnce, SendersLinked, Created
<1>6. WaitersRegistered'
  BY <1>0, <1>1, <1>2 DEF KernelInv, TypeOK, LinkedOnce, WaitersRegistered, Created
<1>7. NoTaskLost'
  BY <1>0, <1>1, <1>2 DEF KernelInv, TypeOK, NoTaskLost, Created
<1>8. NoMissedRendezvous'
  BY <1>0, <1>1, <1>2 DEF KernelInv, TypeOK, NoMissedRendezvous, Created
<1>9. ReplyAwaitedFromReceiver'
  BY <1>0, <1>1, <1>2 DEF KernelInv, TypeOK, ReplyAwaitedFromReceiver, Created
<1>10. RunningTaskActive' /\ IdleReady'
  BY <1>0, <1>1, <1>2 DEF KernelInv, TypeOK, IdleReady, RunningTaskActive, c, Created
<1> QED BY <1>2, <1>3, <1>4, <1>5, <1>6, <1>7, <1>8, <1>9, <1>10
     DEF KernelInv, LinkedOnce

\* kernel_awaitevent: the task becomes the subscriber of the event.
LEMMA AwaitAcceptedKeeps ==
  ASSUME KernelInv, NEW e \in Event, AwaitAccepted(e)
  PROVE  KernelInv'
<1> DEFINE c == currentRunningTask
<1>0. /\ mode = "user" /\ c # idleTid /\ eventWaitingTask[e] = NULL
      /\ state' = [state EXCEPT ![c] = "EVENT_BLOCK"]
      /\ eventWaitingTask' = [eventWaitingTask EXCEPT ![e] = c]
      /\ mode' = "kernel"
      /\ UNCHANGED <<notQuit, tid_counter, currentRunningTask, priority, taskReadyQueues,
                     queueFullMask, sendQ, pending, server>>
  BY DEF AwaitAccepted, Syscall, ready
<1>1. /\ QueuesTyped /\ NoRepeats(taskReadyQueues) /\ sendQ \in Queues(Tid, Tid)
      /\ c \in Tid /\ c \in Created /\ state[c] = "ACTIVE" /\ priority[c] \in Priority
      /\ \A x \in Priority : ~Holds(taskReadyQueues, x, c)
      /\ \A x \in Tid : ~Holds(sendQ, x, c)
      /\ \A x \in Event : eventWaitingTask[x] # c
      /\ Created \subseteq Tid /\ idleTid \in Created
  BY <1>0, RunningTaskUnlinked
<1>2. QueuesTyped' /\ MaskMatchesQueues' /\ NoRepeats(taskReadyQueues')
  BY <1>0, <1>1 DEF KernelInv, MaskMatchesQueues, QueuesTyped
<1> HIDE DEF c
<1>3. TypeOK'
  BY <1>0, <1>1, <1>2 DEF KernelInv, TypeOK, TaskState, QueuesTyped, Queues, Created
<1>4. ReadyTasksLinked'
  BY <1>0, <1>1, <1>2 DEF KernelInv, TypeOK, LinkedOnce, ReadyTasksLinked, Created
<1>5. SendersLinked'
  BY <1>0, <1>1, <1>2 DEF KernelInv, TypeOK, LinkedOnce, SendersLinked, Created
<1>6. WaitersRegistered'
  BY <1>0, <1>1, <1>2 DEF KernelInv, TypeOK, LinkedOnce, WaitersRegistered, Created
<1>7. NoTaskLost'
  <2>1. eventWaitingTask'[e] = c
    BY <1>0, <1>1 DEF KernelInv, TypeOK
  <2>2. ASSUME NEW t \in Created, t # c, state[t] = "EVENT_BLOCK"
        PROVE  \E f \in Event : eventWaitingTask'[f] = t
    <3>1. PICK f \in Event : eventWaitingTask[f] = t
      BY <1>0, <2>2 DEF KernelInv, NoTaskLost
    <3>2. f # e
      BY <1>0, <1>1, <2>2, <3>1, KernelAssumption DEF NULL, Tid
    <3> QED BY <1>0, <3>1, <3>2 DEF KernelInv, TypeOK
  <2> QED BY <1>0, <1>1, <2>1, <2>2 DEF KernelInv, TypeOK, NoTaskLost, Created
<1>8. NoMissedRendezvous'
  BY <1>0, <1>1, <1>2 DEF KernelInv, TypeOK, NoMissedRendezvous, Created
<1>9. ReplyAwaitedFromReceiver'
  BY <1>0, <1>1, <1>2 DEF KernelInv, TypeOK, ReplyAwaitedFromReceiver, Created
<1>10. RunningTaskActive' /\ IdleReady'
  BY <1>0, <1>1, <1>2 DEF KernelInv, TypeOK, IdleReady, RunningTaskActive, c, Created
<1> QED BY <1>2, <1>3, <1>4, <1>5, <1>6, <1>7, <1>8, <1>9, <1>10
     DEF KernelInv, LinkedOnce

\* Handlers that change no table: a refused AwaitEvent, and the two halts.
LEMMA OnlyModeKeeps ==
  ASSUME KernelInv, mode = "user", currentRunningTask # idleTid,
         mode' \in {"kernel", "asserted", "corrupt"},
         UNCHANGED <<notQuit, tasks, ready, sendQ, events, server>>
  PROVE  KernelInv'
<1> DEFINE c == currentRunningTask
<1>0. /\ c # idleTid
      /\ UNCHANGED <<notQuit, tid_counter, currentRunningTask, state, priority, taskReadyQueues,
                     queueFullMask, sendQ, eventWaitingTask, pending, server>>
  BY DEF tasks, ready, events
<1>1. /\ QueuesTyped /\ NoRepeats(taskReadyQueues) /\ sendQ \in Queues(Tid, Tid)
      /\ c \in Tid /\ c \in Created /\ state[c] = "ACTIVE" /\ priority[c] \in Priority
      /\ \A x \in Priority : ~Holds(taskReadyQueues, x, c)
      /\ \A x \in Tid : ~Holds(sendQ, x, c)
      /\ \A x \in Event : eventWaitingTask[x] # c
      /\ Created \subseteq Tid /\ idleTid \in Created
  BY <1>0, RunningTaskUnlinked
<1>2. QueuesTyped' /\ MaskMatchesQueues' /\ NoRepeats(taskReadyQueues')
  BY <1>0, <1>1 DEF KernelInv, MaskMatchesQueues, QueuesTyped
<1> HIDE DEF c
<1>3. TypeOK'
  BY <1>0, <1>1, <1>2 DEF KernelInv, TypeOK, TaskState, QueuesTyped, Queues, Created
<1>4. ReadyTasksLinked'
  BY <1>0, <1>1, <1>2 DEF KernelInv, TypeOK, LinkedOnce, ReadyTasksLinked, Created
<1>5. SendersLinked'
  BY <1>0, <1>1, <1>2 DEF KernelInv, TypeOK, LinkedOnce, SendersLinked, Created
<1>6. WaitersRegistered'
  BY <1>0, <1>1, <1>2 DEF KernelInv, TypeOK, LinkedOnce, WaitersRegistered, Created
<1>7. NoTaskLost'
  BY <1>0, <1>1, <1>2 DEF KernelInv, TypeOK, NoTaskLost, Created
<1>8. NoMissedRendezvous'
  BY <1>0, <1>1, <1>2 DEF KernelInv, TypeOK, NoMissedRendezvous, Created
<1>9. ReplyAwaitedFromReceiver'
  BY <1>0, <1>1, <1>2 DEF KernelInv, TypeOK, ReplyAwaitedFromReceiver, Created
<1>10. RunningTaskActive' /\ IdleReady'
  BY <1>0, <1>1, <1>2 DEF KernelInv, TypeOK, IdleReady, RunningTaskActive, c, Created
<1> QED BY <1>2, <1>3, <1>4, <1>5, <1>6, <1>7, <1>8, <1>9, <1>10
     DEF KernelInv, LinkedOnce

\* kernel_send to a task that waits in Receive.
LEMMA SendToWaitingKeeps ==
  ASSUME KernelInv, NEW r \in Tid, SendToWaiting(r)
  PROVE  KernelInv'
<1> DEFINE c == currentRunningTask
<1>0. /\ mode = "user" /\ c # idleTid /\ r \in Created /\ r # c /\ state[r] = "SEND_BLOCK"
      /\ state' = [state EXCEPT ![r] = "READY", ![c] = "REPLY_BLOCK"]
      /\ AppendOne(r)
      /\ server' = [server EXCEPT ![c] = r]
      /\ mode' = "kernel"
      /\ UNCHANGED <<notQuit, tid_counter, currentRunningTask, priority, sendQ,
                     eventWaitingTask, pending>>
  BY DEF SendToWaiting, Syscall, events
<1>1. /\ QueuesTyped /\ NoRepeats(taskReadyQueues) /\ sendQ \in Queues(Tid, Tid)
      /\ c \in Tid /\ c \in Created /\ state[c] = "ACTIVE" /\ priority[c] \in Priority
      /\ \A x \in Priority : ~Holds(taskReadyQueues, x, c)
      /\ \A x \in Tid : ~Holds(sendQ, x, c)
      /\ \A x \in Event : eventWaitingTask[x] # c
      /\ Created \subseteq Tid /\ idleTid \in Created
  BY <1>0, RunningTaskUnlinked
<1>a. ~Holds(taskReadyQueues, priority[r], r) /\ priority[r] \in Priority
  BY <1>0, <1>1 DEF KernelInv, TypeOK, LinkedOnce, ReadyTasksLinked
<1>2. /\ QueuesTyped' /\ MaskMatchesQueues' /\ NoRepeats(taskReadyQueues')
      /\ \A x \in Priority, v \in Tid : Holds(taskReadyQueues', x, v) <=>
           Holds(taskReadyQueues, x, v) \/ (x = priority[r] /\ v = r)
  BY <1>0, <1>1, <1>a, AppendSingle DEF KernelInv, TypeOK
<1> HIDE DEF c
<1>3. TypeOK'
  BY <1>0, <1>1, <1>2 DEF KernelInv, TypeOK, TaskState, QueuesTyped, Queues, Created
<1>4. ReadyTasksLinked'
  BY <1>0, <1>1, <1>2, SMTT(30) DEF KernelInv, TypeOK, LinkedOnce, ReadyTasksLinked, Created
<1>5. SendersLinked'
  BY <1>0, <1>1, <1>2, SMTT(30) DEF KernelInv, TypeOK, LinkedOnce, SendersLinked, Created
<1>6. WaitersRegistered'
  BY <1>0, <1>1, <1>2 DEF KernelInv, TypeOK, LinkedOnce, WaitersRegistered, Created
<1>7. NoTaskLost'
  BY <1>0, <1>1, <1>2 DEF KernelInv, TypeOK, NoTaskLost, Created
<1>8. NoMissedRendezvous'
  BY <1>0, <1>1, <1>2 DEF KernelInv, TypeOK, NoMissedRendezvous, Created
<1>9. ReplyAwaitedFromReceiver'
  BY <1>0, <1>1, <1>2 DEF KernelInv, TypeOK, ReplyAwaitedFromReceiver, Created
<1>10. RunningTaskActive' /\ IdleReady'
  BY <1>0, <1>1, <1>2 DEF KernelInv, TypeOK, IdleReady, RunningTaskActive, c, Created
<1> QED BY <1>2, <1>3, <1>4, <1>5, <1>6, <1>7, <1>8, <1>9, <1>10
     DEF KernelInv, LinkedOnce

\* kernel_send to a task that does not wait in Receive.
LEMMA SendToBusyKeeps ==
  ASSUME KernelInv, NEW r \in Tid, SendToBusy(r)
  PROVE  KernelInv'
<1> DEFINE c == currentRunningTask
<1>0. /\ mode = "user" /\ c # idleTid /\ r \in Created /\ r # c
      /\ state[r] \notin {"SEND_BLOCK", "ZOMBIE"}
      /\ state' = [state EXCEPT ![c] = "RECEIVE_BLOCK"]
      /\ sendQ' = Enqueue(sendQ, r, c)
      /\ mode' = "kernel"
      /\ UNCHANGED <<notQuit, tid_counter, currentRunningTask, priority, taskReadyQueues,
                     queueFullMask, eventWaitingTask, pending, server>>
  BY DEF SendToBusy, Syscall, ready, events
<1>1. /\ QueuesTyped /\ NoRepeats(taskReadyQueues) /\ sendQ \in Queues(Tid, Tid)
      /\ c \in Tid /\ c \in Created /\ state[c] = "ACTIVE" /\ priority[c] \in Priority
      /\ \A x \in Priority : ~Holds(taskReadyQueues, x, c)
      /\ \A x \in Tid : ~Holds(sendQ, x, c)
      /\ \A x \in Event : eventWaitingTask[x] # c
      /\ Created \subseteq Tid /\ idleTid \in Created
  BY <1>0, RunningTaskUnlinked
<1>a. /\ Enqueue(sendQ, r, c) \in Queues(Tid, Tid)
      /\ \A y \in Tid : y # r => Enqueue(sendQ, r, c)[y] = sendQ[y]
      /\ \A y, v \in Tid : Holds(Enqueue(sendQ, r, c), y, v) <=>
           Holds(sendQ, y, v) \/ (y = r /\ v = c)
      /\ NoRepeats(Enqueue(sendQ, r, c))
  <2>1. NoRepeats(sendQ) /\ ~Holds(sendQ, r, c)
    BY <1>1 DEF KernelInv, LinkedOnce, SendersLinked
  <2>2. c \in Tid /\ sendQ \in Queues(Tid, Tid)
    BY <1>1
  <2> HIDE DEF c
  <2> QED BY <2>1, <2>2, AppendToQueue
<1>2. /\ QueuesTyped' /\ MaskMatchesQueues' /\ NoRepeats(taskReadyQueues')
      /\ sendQ' \in Queues(Tid, Tid) /\ NoRepeats(sendQ')
      /\ \A y \in Tid : y # r => sendQ'[y] = sendQ[y]
      /\ \A y, v \in Tid : Holds(sendQ', y, v) <=> Holds(sendQ, y, v) \/ (y = r /\ v = c)
  BY <1>0, <1>1, <1>a DEF KernelInv, MaskMatchesQueues, QueuesTyped
<1> HIDE DEF c
<1>3. TypeOK'
  BY <1>0, <1>1, <1>2 DEF KernelInv, TypeOK, TaskState, QueuesTyped, Queues, Created
<1>4. ReadyTasksLinked'
  BY <1>0, <1>1, <1>2 DEF KernelInv, TypeOK, LinkedOnce, ReadyTasksLinked, Created
<1>5. SendersLinked'
  <2>1. ASSUME NEW y \in Tid, NEW v \in Tid, Holds(sendQ', y, v)
        PROVE  v \in Created \ {y} /\ state'[v] = "RECEIVE_BLOCK"
    BY <1>0, <1>1, <1>2, <2>1 DEF KernelInv, TypeOK, LinkedOnce, SendersLinked
  <2>2. ASSUME NEW y \in Tid, NEW z \in Tid, NEW v \in Tid,
               Holds(sendQ', y, v), Holds(sendQ', z, v)
        PROVE  y = z
    BY <1>1, <1>2, <2>2 DEF KernelInv, LinkedOnce, SendersLinked
  <2> QED BY <1>0, <1>2, <2>1, <2>2 DEF SendersLinked, Created
<1>6. WaitersRegistered'
  BY <1>0, <1>1, <1>2 DEF KernelInv, TypeOK, LinkedOnce, WaitersRegistered, Created
<1>7. NoTaskLost'
  BY <1>0, <1>1, <1>2 DEF KernelInv, TypeOK, NoTaskLost, Created
<1>8. NoMissedRendezvous'
  BY <1>0, <1>1, <1>2 DEF KernelInv, TypeOK, NoMissedRendezvous, Created
<1>9. ReplyAwaitedFromReceiver'
  BY <1>0, <1>1, <1>2 DEF KernelInv, TypeOK, ReplyAwaitedFromReceiver, Created
<1>10. RunningTaskActive' /\ IdleReady'
  BY <1>0, <1>1, <1>2 DEF KernelInv, TypeOK, IdleReady, RunningTaskActive, c, Created
<1> QED BY <1>2, <1>3, <1>4, <1>5, <1>6, <1>7, <1>8, <1>9, <1>10
     DEF KernelInv, LinkedOnce

\* kernel_receive with a sender queued.
LEMMA ReceiveQueuedKeeps ==
  ASSUME KernelInv, ReceiveQueued
  PROVE  KernelInv'
<1> DEFINE c == currentRunningTask
           s == Head(sendQ[c])
<1>0. /\ mode = "user" /\ c # idleTid /\ sendQ[c] # <<>>
      /\ state' = [state EXCEPT ![s] = "REPLY_BLOCK", ![c] = "READY"]
      /\ server' = [server EXCEPT ![s] = c]
      /\ sendQ' = Dequeue(sendQ, c)
      /\ AppendOne(c)
      /\ mode' = "kernel"
      /\ UNCHANGED <<notQuit, tid_counter, currentRunningTask, priority, eventWaitingTask, pending>>
  BY DEF ReceiveQueued, Syscall, events
<1>1. /\ QueuesTyped /\ NoRepeats(taskReadyQueues) /\ sendQ \in Queues(Tid, Tid)
      /\ c \in Tid /\ c \in Created /\ state[c] = "ACTIVE" /\ priority[c] \in Priority
      /\ \A x \in Priority : ~Holds(taskReadyQueues, x, c)
      /\ \A x \in Tid : ~Holds(sendQ, x, c)
      /\ \A x \in Event : eventWaitingTask[x] # c
      /\ Created \subseteq Tid /\ idleTid \in Created
  BY <1>0, RunningTaskUnlinked
<1>a. /\ Dequeue(sendQ, c) \in Queues(Tid, Tid)
      /\ \A y \in Tid : y # c => Dequeue(sendQ, c)[y] = sendQ[y]
      /\ s \in Tid
      /\ Holds(sendQ, c, s)
      /\ NoRepeats(Dequeue(sendQ, c))
      /\ \A y, v \in Tid : Holds(Dequeue(sendQ, c), y, v) <=>
           Holds(sendQ, y, v) /\ ~(y = c /\ v = s)
  BY <1>0, <1>1, TakeFromQueue DEF KernelInv, LinkedOnce, SendersLinked
<1>b. s # c /\ s \in Created /\ state[s] = "RECEIVE_BLOCK"
  BY <1>1, <1>a DEF KernelInv, LinkedOnce, SendersLinked
<1>2. /\ QueuesTyped' /\ MaskMatchesQueues' /\ NoRepeats(taskReadyQueues')
      /\ \A x \in Priority, v \in Tid : Holds(taskReadyQueues', x, v) <=>
           Holds(taskReadyQueues, x, v) \/ (x = priority[c] /\ v = c)
  BY <1>0, <1>1, AppendSingle DEF KernelInv, TypeOK
<1> HIDE DEF s
<1> HIDE DEF c
<1>3. TypeOK'
  BY <1>0, <1>1, <1>2, <1>a, <1>b DEF KernelInv, TypeOK, TaskState, QueuesTyped, Queues, Created
<1>4. ReadyTasksLinked'
  BY <1>0, <1>1, <1>2, <1>a, <1>b DEF KernelInv, TypeOK, LinkedOnce, ReadyTasksLinked, Created
<1>5. SendersLinked'
  BY <1>0, <1>1, <1>2, <1>a, <1>b, SMTT(30) DEF KernelInv, TypeOK, LinkedOnce, SendersLinked, Created
<1>6. WaitersRegistered'
  BY <1>0, <1>1, <1>2, <1>a, <1>b DEF KernelInv, TypeOK, LinkedOnce, WaitersRegistered, Created
<1>7. NoTaskLost'
  BY <1>0, <1>1, <1>2, <1>a, <1>b DEF KernelInv, TypeOK, NoTaskLost, Created
<1>8. NoMissedRendezvous'
  BY <1>0, <1>1, <1>2, <1>a, <1>b DEF KernelInv, TypeOK, NoMissedRendezvous, Created
<1>9. ReplyAwaitedFromReceiver'
  BY <1>0, <1>1, <1>2, <1>a, <1>b DEF KernelInv, TypeOK, ReplyAwaitedFromReceiver, Created
<1>10. RunningTaskActive' /\ IdleReady'
  BY <1>0, <1>1, <1>2, <1>a, <1>b DEF KernelInv, TypeOK, IdleReady, RunningTaskActive, c, Created
<1> QED BY <1>2, <1>3, <1>4, <1>5, <1>6, <1>7, <1>8, <1>9, <1>10
     DEF KernelInv, LinkedOnce

\* kernel_reply to a task that awaits a reply.
LEMMA ReplyDeliveredKeeps ==
  ASSUME KernelInv, NEW s \in Tid, ReplyDelivered(s)
  PROVE  KernelInv'
<1> DEFINE c == currentRunningTask
<1>0. /\ mode = "user" /\ c # idleTid /\ s \in Created /\ state[s] = "REPLY_BLOCK"
      /\ state' = [state EXCEPT ![s] = "READY", ![c] = "READY"]
      /\ taskReadyQueues' = Enqueue(Enqueue(taskReadyQueues, priority[s], s), priority[c], c)
      /\ queueFullMask' = queueFullMask \cup {priority[s], priority[c]}
      /\ server' = [server EXCEPT ![s] = NULL]
      /\ mode' = "kernel"
      /\ UNCHANGED <<notQuit, tid_counter, currentRunningTask, priority, sendQ,
                     eventWaitingTask, pending>>
  BY DEF ReplyDelivered, Syscall, AppendTwo, events
<1>1. /\ QueuesTyped /\ NoRepeats(taskReadyQueues) /\ sendQ \in Queues(Tid, Tid)
      /\ c \in Tid /\ c \in Created /\ state[c] = "ACTIVE" /\ priority[c] \in Priority
      /\ \A x \in Priority : ~Holds(taskReadyQueues, x, c)
      /\ \A x \in Tid : ~Holds(sendQ, x, c)
      /\ \A x \in Event : eventWaitingTask[x] # c
      /\ Created \subseteq Tid /\ idleTid \in Created
  BY <1>0, RunningTaskUnlinked
<1>a. s # c /\ ~Holds(taskReadyQueues, priority[s], s) /\ priority[s] \in Priority
  BY <1>0, <1>1 DEF KernelInv, TypeOK, LinkedOnce, ReadyTasksLinked
<1>2. /\ QueuesTyped' /\ MaskMatchesQueues' /\ NoRepeats(taskReadyQueues')
      /\ \A x \in Priority, v \in Tid : Holds(taskReadyQueues', x, v) <=>
           \/ Holds(taskReadyQueues, x, v)
           \/ (x = priority[s] /\ v = s) \/ (x = priority[c] /\ v = c)
  BY <1>0, <1>1, <1>a, AppendBoth DEF KernelInv
<1> HIDE DEF c
<1>3. TypeOK'
  BY <1>0, <1>1, <1>2, <1>a DEF KernelInv, TypeOK, TaskState, QueuesTyped, Queues, Created
<1>4. ReadyTasksLinked'
  BY <1>0, <1>1, <1>2, <1>a DEF KernelInv, TypeOK, LinkedOnce, ReadyTasksLinked, Created
<1>5. SendersLinked'
  BY <1>0, <1>1, <1>2, <1>a DEF KernelInv, TypeOK, LinkedOnce, SendersLinked, Created
<1>6. WaitersRegistered'
  BY <1>0, <1>1, <1>2, <1>a DEF KernelInv, TypeOK, LinkedOnce, WaitersRegistered, Created
<1>7. NoTaskLost'
  BY <1>0, <1>1, <1>2, <1>a DEF KernelInv, TypeOK, NoTaskLost, Created
<1>8. NoMissedRendezvous'
  BY <1>0, <1>1, <1>2, <1>a DEF KernelInv, TypeOK, NoMissedRendezvous, Created
<1>9. ReplyAwaitedFromReceiver'
  <2> SUFFICES ASSUME NEW t \in Tid
               PROVE  /\ t \in Created /\ state'[t] = "REPLY_BLOCK" <=> server'[t] # NULL
                      /\ server'[t] # t
    BY <1>0 DEF ReplyAwaitedFromReceiver, Created
  <2>1. CASE t = s
    BY <1>0, <1>1, <1>a, <2>1, KernelAssumption DEF KernelInv, TypeOK, NULL, Tid
  <2>2. CASE t # s
    BY <1>0, <1>1, <1>a, <2>2 DEF KernelInv, TypeOK, ReplyAwaitedFromReceiver
  <2> QED BY <2>1, <2>2
<1>10. RunningTaskActive' /\ IdleReady'
  BY <1>0, <1>1, <1>2, <1>a DEF KernelInv, TypeOK, IdleReady, RunningTaskActive, c, Created
<1> QED BY <1>2, <1>3, <1>4, <1>5, <1>6, <1>7, <1>8, <1>9, <1>10
     DEF KernelInv, LinkedOnce

\* kernel_createtask.
LEMMA CreateKeeps ==
  ASSUME KernelInv, NEW p \in Priority, kernel_createtask(p)
  PROVE  KernelInv'
<1> DEFINE c == currentRunningTask
           n == tid_counter
<1>0. /\ mode = "user" /\ c # idleTid /\ n < MaxTask
      /\ tid_counter' = n + 1
      /\ state' = [state EXCEPT ![n] = "READY", ![c] = "READY"]
      /\ priority' = [priority EXCEPT ![n] = p]
      /\ taskReadyQueues' = Enqueue(Enqueue(taskReadyQueues, p, n), priority[c], c)
      /\ queueFullMask' = queueFullMask \cup {p, priority[c]}
      /\ mode' = "kernel"
      /\ UNCHANGED <<notQuit, currentRunningTask, sendQ, eventWaitingTask, pending, server>>
  BY DEF kernel_createtask, Syscall, events
<1>1. /\ QueuesTyped /\ NoRepeats(taskReadyQueues) /\ sendQ \in Queues(Tid, Tid)
      /\ c \in Tid /\ c \in Created /\ state[c] = "ACTIVE" /\ priority[c] \in Priority
      /\ \A x \in Priority : ~Holds(taskReadyQueues, x, c)
      /\ \A x \in Tid : ~Holds(sendQ, x, c)
      /\ \A x \in Event : eventWaitingTask[x] # c
      /\ Created \subseteq Tid /\ idleTid \in Created
  BY <1>0, RunningTaskUnlinked
<1>a. /\ n \in Tid /\ n \notin Created /\ n # c
      /\ Created' = Created \cup {n} /\ tid_counter' \in 2 .. MaxTask
  BY <1>0, <1>1, KernelAssumption, SMTT(30) DEF KernelInv, TypeOK, Tid, Created
<1>b. /\ \A x \in Priority : ~Holds(taskReadyQueues, x, n)
      /\ \A x \in Tid : ~Holds(sendQ, x, n)
      /\ \A e \in Event : eventWaitingTask[e] # n
  BY <1>a, KernelAssumption DEF KernelInv, LinkedOnce, ReadyTasksLinked, SendersLinked,
                                WaitersRegistered, Tid, NULL
<1>2. /\ QueuesTyped' /\ MaskMatchesQueues' /\ NoRepeats(taskReadyQueues')
      /\ \A x \in Priority, v \in Tid : Holds(taskReadyQueues', x, v) <=>
           Holds(taskReadyQueues, x, v) \/ (x = p /\ v = n) \/ (x = priority[c] /\ v = c)
  BY <1>0, <1>1, <1>a, <1>b, AppendBoth DEF KernelInv
<1> HIDE DEF n
<1> HIDE DEF c
<1>3. TypeOK'
  BY <1>0, <1>1, <1>2, <1>a, <1>b DEF KernelInv, TypeOK, TaskState, QueuesTyped, Queues
<1>4. ReadyTasksLinked'
  BY <1>0, <1>1, <1>2, <1>a, <1>b DEF KernelInv, TypeOK, LinkedOnce, ReadyTasksLinked
<1>5. SendersLinked'
  BY <1>0, <1>1, <1>2, <1>a, <1>b DEF KernelInv, TypeOK, LinkedOnce, SendersLinked
<1>6. WaitersRegistered'
  BY <1>0, <1>1, <1>2, <1>a, <1>b DEF KernelInv, TypeOK, LinkedOnce, WaitersRegistered
<1>7. NoTaskLost'
  BY <1>0, <1>1, <1>2, <1>a, <1>b DEF KernelInv, TypeOK, NoTaskLost
<1>8. NoMissedRendezvous'
  BY <1>0, <1>1, <1>2, <1>a, <1>b DEF KernelInv, TypeOK, NoMissedRendezvous
<1>9. ReplyAwaitedFromReceiver'
  BY <1>0, <1>1, <1>2, <1>a, <1>b DEF KernelInv, TypeOK, ReplyAwaitedFromReceiver
<1>10. RunningTaskActive' /\ IdleReady'
  BY <1>0, <1>1, <1>2, <1>a, <1>b DEF KernelInv, TypeOK, IdleReady, RunningTaskActive, c
<1> QED BY <1>2, <1>3, <1>4, <1>5, <1>6, <1>7, <1>8, <1>9, <1>10
     DEF KernelInv, LinkedOnce

\* An interrupt whose event nobody waits for.
LEMMA DeliverLostKeeps ==
  ASSUME KernelInv, mode = "user", NEW e \in Event, eventWaitingTask[e] = NULL, Deliver(e),
         pending' \in SUBSET (Event \ {0})
  PROVE  KernelInv'
<1> DEFINE c == currentRunningTask
<1>0. /\ state' = [state EXCEPT ![c] = "READY"]
      /\ AppendOne(c)
      /\ eventWaitingTask' = [eventWaitingTask EXCEPT ![e] = NULL]
      /\ mode' = "kernel"
      /\ UNCHANGED <<notQuit, tid_counter, currentRunningTask, priority, sendQ, server>>
  BY DEF Deliver
<1>1. /\ QueuesTyped /\ NoRepeats(taskReadyQueues) /\ sendQ \in Queues(Tid, Tid)
      /\ c \in Tid /\ c \in Created /\ state[c] = "ACTIVE" /\ priority[c] \in Priority
      /\ \A x \in Priority : ~Holds(taskReadyQueues, x, c)
      /\ \A x \in Tid : ~Holds(sendQ, x, c)
      /\ \A x \in Event : eventWaitingTask[x] # c
      /\ Created \subseteq Tid /\ idleTid \in Created
  BY <1>0, RunningTaskUnlinked
<1>2. /\ QueuesTyped' /\ MaskMatchesQueues' /\ NoRepeats(taskReadyQueues')
      /\ \A x \in Priority, v \in Tid : Holds(taskReadyQueues', x, v) <=>
           Holds(taskReadyQueues, x, v) \/ (x = priority[c] /\ v = c)
  BY <1>0, <1>1, AppendSingle DEF KernelInv, TypeOK
<1> HIDE DEF c
<1>3. TypeOK'
  BY <1>0, <1>1, <1>2 DEF KernelInv, TypeOK, TaskState, QueuesTyped, Queues, Created
<1>4. ReadyTasksLinked'
  BY <1>0, <1>1, <1>2, SMTT(30) DEF KernelInv, TypeOK, LinkedOnce, ReadyTasksLinked, Created
<1>5. SendersLinked'
  BY <1>0, <1>1, <1>2 DEF KernelInv, TypeOK, LinkedOnce, SendersLinked, Created
<1>6. WaitersRegistered'
  BY <1>0, <1>1, <1>2 DEF KernelInv, TypeOK, LinkedOnce, WaitersRegistered, Created
<1>7. NoTaskLost'
  BY <1>0, <1>1, <1>2 DEF KernelInv, TypeOK, NoTaskLost, Created
<1>8. NoMissedRendezvous'
  BY <1>0, <1>1, <1>2 DEF KernelInv, TypeOK, NoMissedRendezvous, Created
<1>9. ReplyAwaitedFromReceiver'
  BY <1>0, <1>1, <1>2 DEF KernelInv, TypeOK, ReplyAwaitedFromReceiver, Created
<1>10. RunningTaskActive' /\ IdleReady'
  BY <1>0, <1>1, <1>2 DEF KernelInv, TypeOK, IdleReady, RunningTaskActive, c, Created
<1> QED BY <1>2, <1>3, <1>4, <1>5, <1>6, <1>7, <1>8, <1>9, <1>10
     DEF KernelInv, LinkedOnce

\* An interrupt whose event a task waits for.
LEMMA DeliverKeeps ==
  ASSUME KernelInv, mode = "user", NEW e \in Event, eventWaitingTask[e] # NULL, Deliver(e),
         pending' \in SUBSET (Event \ {0})
  PROVE  KernelInv'
<1> DEFINE c == currentRunningTask
           w == eventWaitingTask[e]
<1>0. /\ state' = [state EXCEPT ![c] = "READY", ![w] = "READY"]
      /\ taskReadyQueues' = Enqueue(Enqueue(taskReadyQueues, priority[c], c), priority[w], w)
      /\ queueFullMask' = queueFullMask \cup {priority[c], priority[w]}
      /\ eventWaitingTask' = [eventWaitingTask EXCEPT ![e] = NULL]
      /\ mode' = "kernel"
      /\ UNCHANGED <<notQuit, tid_counter, currentRunningTask, priority, sendQ, server>>
  BY DEF Deliver, AppendTwo
<1>1. /\ QueuesTyped /\ NoRepeats(taskReadyQueues) /\ sendQ \in Queues(Tid, Tid)
      /\ c \in Tid /\ c \in Created /\ state[c] = "ACTIVE" /\ priority[c] \in Priority
      /\ \A x \in Priority : ~Holds(taskReadyQueues, x, c)
      /\ \A x \in Tid : ~Holds(sendQ, x, c)
      /\ \A x \in Event : eventWaitingTask[x] # c
      /\ Created \subseteq Tid /\ idleTid \in Created
  BY <1>0, RunningTaskUnlinked
<1>a. /\ w \in Tid /\ w \in Created /\ w # c /\ state[w] = "EVENT_BLOCK"
      /\ priority[w] \in Priority
      /\ ~Holds(taskReadyQueues, priority[w], w)
      /\ \A f \in Event : eventWaitingTask[f] = w => f = e
  BY <1>1, KernelAssumption DEF KernelInv, TypeOK, LinkedOnce, WaitersRegistered, ReadyTasksLinked
<1>2. /\ QueuesTyped' /\ MaskMatchesQueues' /\ NoRepeats(taskReadyQueues')
      /\ \A x \in Priority, v \in Tid : Holds(taskReadyQueues', x, v) <=>
           \/ Holds(taskReadyQueues, x, v)
           \/ (x = priority[c] /\ v = c) \/ (x = priority[w] /\ v = w)
  BY <1>0, <1>1, <1>a, AppendBoth DEF KernelInv
<1> HIDE DEF w
<1> HIDE DEF c
<1>3. TypeOK'
  BY <1>0, <1>1, <1>2, <1>a DEF KernelInv, TypeOK, TaskState, QueuesTyped, Queues, Created
<1>4. ReadyTasksLinked'
  BY <1>0, <1>1, <1>2, <1>a DEF KernelInv, TypeOK, LinkedOnce, ReadyTasksLinked, Created
<1>5. SendersLinked'
  BY <1>0, <1>1, <1>2, <1>a DEF KernelInv, TypeOK, LinkedOnce, SendersLinked, Created
<1>6. WaitersRegistered'
  BY <1>0, <1>1, <1>2, <1>a, SMTT(30) DEF KernelInv, TypeOK, LinkedOnce, WaitersRegistered, Created
<1>7. NoTaskLost'
  <2>1. ASSUME NEW t \in Created, t # w, state[t] = "EVENT_BLOCK"
        PROVE  \E f \in Event : eventWaitingTask'[f] = t
    <3>1. PICK f \in Event : eventWaitingTask[f] = t
      BY <2>1 DEF KernelInv, NoTaskLost
    <3>2. f # e
      BY <2>1, <3>1 DEF w
    <3> QED BY <1>0, <3>1, <3>2 DEF KernelInv, TypeOK
  <2>2. ASSUME NEW t \in Created, state'[t] = "READY"
        PROVE  Holds(taskReadyQueues', priority[t], t)
    BY <1>0, <1>1, <1>2, <1>a, <2>2 DEF KernelInv, TypeOK, NoTaskLost
  <2>3. ASSUME NEW t \in Created, state'[t] \in {"RECEIVE_BLOCK", "EVENT_BLOCK"}
        PROVE  state[t] = state'[t] /\ t # w
    BY <1>0, <1>1, <1>a, <2>3 DEF KernelInv, TypeOK
  <2> QED BY <1>0, <2>1, <2>2, <2>3 DEF KernelInv, NoTaskLost, Created
<1>8. NoMissedRendezvous'
  BY <1>0, <1>1, <1>2, <1>a DEF KernelInv, TypeOK, NoMissedRendezvous, Created
<1>9. ReplyAwaitedFromReceiver'
  BY <1>0, <1>1, <1>2, <1>a DEF KernelInv, TypeOK, ReplyAwaitedFromReceiver, Created
<1>10. RunningTaskActive' /\ IdleReady'
  BY <1>0, <1>1, <1>2, <1>a DEF KernelInv, TypeOK, IdleReady, RunningTaskActive, c, Created
<1> QED BY <1>2, <1>3, <1>4, <1>5, <1>6, <1>7, <1>8, <1>9, <1>10
     DEF KernelInv, LinkedOnce

\* kernel_quit and a line going up change no table.
LEMMA QuitAndRaiseKeep ==
  ASSUME KernelInv, kernel_quit \/ \E e \in Event : Raise(e)
  PROVE  KernelInv'
<1>1. /\ UNCHANGED <<mode, tid_counter, currentRunningTask, state, priority, taskReadyQueues,
                     queueFullMask, sendQ, eventWaitingTask, server>>
      /\ notQuit' \in BOOLEAN /\ pending' \in SUBSET (Event \ {0})
  BY DEF KernelInv, TypeOK, kernel_quit, Raise, tasks, ready, events
<1> QED BY <1>1 DEF KernelInv, TypeOK, LinkedOnce, ReadyTasksLinked, SendersLinked,
       WaitersRegistered, NoTaskLost, NoMissedRendezvous, ReplyAwaitedFromReceiver,
       MaskMatchesQueues, RunningTaskActive, IdleReady, Created

\* A step that changes nothing.
LEMMA StutterKeeps ==
  ASSUME KernelInv, UNCHANGED vars
  PROVE  KernelInv'
BY DEF vars, tasks, ready, events, KernelInv, TypeOK, LinkedOnce, ReadyTasksLinked, SendersLinked,
       WaitersRegistered, NoTaskLost, NoMissedRendezvous, ReplyAwaitedFromReceiver,
       MaskMatchesQueues, RunningTaskActive, IdleReady, Created

\* idle_task and task1, each alone in its queue.
LEMMA InitEstablishes ==
  ASSUME Init
  PROVE  KernelInv
<1>0. /\ LowestPriority \in Priority /\ FirstPriority \in Priority
      /\ FirstPriority # LowestPriority /\ 0 \in Priority
      /\ idleTid \in Tid /\ task1Tid \in Tid /\ idleTid # task1Tid
      /\ Created = {idleTid, task1Tid}
      /\ NULL \notin Tid
  BY KernelAssumption DEF Init, Priority, Tid, idleTid, task1Tid, Created, NULL
<1>1. \A p \in Priority : taskReadyQueues[p] =
        IF p = LowestPriority THEN <<idleTid>>
        ELSE IF p = FirstPriority THEN <<task1Tid>> ELSE <<>>
  BY DEF Init
<1>2. \A p \in Priority, t \in Tid : Holds(taskReadyQueues, p, t) <=>
        (p = LowestPriority /\ t = idleTid) \/ (p = FirstPriority /\ t = task1Tid)
  BY <1>0, <1>1 DEF Holds
<1>3. NoRepeats(taskReadyQueues) /\ NoRepeats(sendQ)
  <2>1. DOMAIN taskReadyQueues = Priority /\ DOMAIN sendQ = Tid /\ \A t \in Tid : sendQ[t] = <<>>
    BY DEF Init
  <2>2. ASSUME NEW p \in Priority, NEW i \in DOMAIN taskReadyQueues[p],
               NEW j \in DOMAIN taskReadyQueues[p]
        PROVE  i = j
    BY <1>1, <2>2
  <2> QED BY <2>1, <2>2 DEF NoRepeats
<1>4. \A r, t \in Tid : ~Holds(sendQ, r, t)
  BY DEF Init, Holds
<1>5. TypeOK
  BY <1>0, KernelAssumption DEF Init, TypeOK, TaskState
<1>6. LinkedOnce
  BY <1>0, <1>2, <1>3, <1>4
     DEF Init, LinkedOnce, ReadyTasksLinked, SendersLinked, WaitersRegistered
<1>7. NoTaskLost
  BY <1>0, <1>2 DEF Init, NoTaskLost
<1>8. NoMissedRendezvous /\ ReplyAwaitedFromReceiver
  BY <1>0 DEF Init, NoMissedRendezvous, ReplyAwaitedFromReceiver
<1>9. MaskMatchesQueues
  BY <1>0, <1>1 DEF Init, MaskMatchesQueues
<1>10. RunningTaskActive /\ IdleReady
  BY <1>0 DEF Init, RunningTaskActive, IdleReady
<1> QED BY <1>5, <1>6, <1>7, <1>8, <1>9, <1>10 DEF KernelInv

\* One case for each way Next can be taken.
LEMMA NextKeeps ==
  ASSUME KernelInv, [Next]_vars
  PROVE  KernelInv'
<1>1. CASE Schedule
  BY <1>1, ScheduleKeeps
<1>2. CASE Close
  BY <1>2, CloseKeeps
<1>3. CASE UserStep
  <2>1. CASE \E p \in Priority : kernel_createtask(p)
    BY <2>1, CreateKeeps
  <2>2. CASE CreateExhausted
    BY <2>2, OnlyModeKeeps DEF CreateExhausted, Syscall
  <2>3. CASE kernel_pass
    BY <2>3, RequeueKeeps DEF kernel_pass, Syscall
  <2>4. CASE kernel_exit
    BY <2>4, ExitKeeps
  <2>5. ASSUME NEW r \in Tid, kernel_send(r)
        PROVE  KernelInv'
    <3>1. CASE SendRefused(r)
      BY <3>1, RequeueKeeps DEF SendRefused, Syscall
    <3>2. CASE SendToWaiting(r)
      BY <3>2, SendToWaitingKeeps
    <3>3. CASE SendToBusy(r)
      BY <3>3, SendToBusyKeeps
    <3> QED BY <2>5, <3>1, <3>2, <3>3 DEF kernel_send
  <2>6. CASE SendToSelf
    BY <2>6, OnlyModeKeeps DEF SendToSelf, Syscall
  <2>7. CASE kernel_receive
    BY <2>7, ReceiveQueuedKeeps, ReceiveWaitKeeps DEF kernel_receive
  <2>8. ASSUME NEW s \in Tid, kernel_reply(s)
        PROVE  KernelInv'
    <3>1. CASE ReplyRefused(s)
      BY <3>1, RequeueKeeps DEF ReplyRefused, Syscall
    <3>2. CASE ReplyDelivered(s)
      BY <3>2, ReplyDeliveredKeeps
    <3> QED BY <2>8, <3>1, <3>2 DEF kernel_reply
  <2>9. ASSUME NEW e \in Event \cup {BadEvent}, kernel_awaitevent(e)
        PROVE  KernelInv'
    <3>1. CASE AwaitRefused(e)
      BY <3>1, OnlyModeKeeps DEF AwaitRefused, Syscall
    <3>2. CASE AwaitAccepted(e)
      BY <3>2, AwaitAcceptedKeeps DEF AwaitAccepted
    <3> QED BY <2>9, <3>1, <3>2 DEF kernel_awaitevent
  <2> QED BY <1>3, <2>1, <2>2, <2>3, <2>4, <2>5, <2>6, <2>7, <2>8, <2>9 DEF UserStep
<1>4. CASE kernel_quit \/ \E e \in Event : Raise(e)
  BY <1>4, QuitAndRaiseKeep
<1>5. CASE InterruptStep
  <2>1. PICK e \in Event : mode = "user" /\ Deliver(e) /\ pending' \in SUBSET (Event \ {0})
    <3>1. 0 \in Event /\ pending \in SUBSET (Event \ {0})
      BY KernelAssumption DEF KernelInv, TypeOK, Event
    <3> QED BY <1>5, <3>1 DEF InterruptStep, kernel_handle_interrupt, SpuriousInterrupt
  <2> QED BY <2>1, DeliverLostKeeps, DeliverKeeps
<1>6. CASE UNCHANGED vars
  BY <1>6, StutterKeeps
<1> QED BY <1>1, <1>2, <1>3, <1>4, <1>5, <1>6 DEF Next

(***************************************************************************)
(* The theorems.                                                           *)
(***************************************************************************)

\* The inductive invariant holds in every state the kernel reaches.
THEOREM KernelInvariant == Spec => []KernelInv
<1>1. Init => KernelInv
  BY InitEstablishes
<1>2. KernelInv /\ [Next]_vars => KernelInv'
  BY NextKeeps
<1> QED BY <1>1, <1>2, PTL DEF Spec

\* Every variable keeps its type, whatever the tasks call.
THEOREM TypeCorrect == Spec => []TypeOK
<1>1. KernelInv => TypeOK
  BY DEF KernelInv
<1> QED BY <1>1, KernelInvariant, PTL

\* No task is ever in two of the lists that share its `next`, or in one twice.
THEOREM ListsNeverShareATask == Spec => []LinkedOnce
<1>1. KernelInv => LinkedOnce
  BY DEF KernelInv
<1> QED BY <1>1, KernelInvariant, PTL

\* While the kernel runs, a task that is ready or blocked in a list is in it.
THEOREM NoTaskIsLost == Spec => []NoTaskLost
<1>1. KernelInv => NoTaskLost
  BY DEF KernelInv
<1> QED BY <1>1, KernelInvariant, PTL

\* Send and Receive never pass each other by.
THEOREM NoRendezvousIsMissed == Spec => []NoMissedRendezvous
<1>1. KernelInv => NoMissedRendezvous
  BY DEF KernelInv
<1> QED BY <1>1, KernelInvariant, PTL

\* A task awaits a reply exactly while another task holds its message.
THEOREM RepliesComeFromReceivers == Spec => []ReplyAwaitedFromReceiver
<1>1. KernelInv => ReplyAwaitedFromReceiver
  BY DEF KernelInv
<1> QED BY <1>1, KernelInvariant, PTL

\* The mask and the queues of TaskQueue.c agree at every kernel entry and exit.
THEOREM MaskIsExact == Spec => []MaskMatchesQueues
<1>1. KernelInv => MaskMatchesQueues
  BY DEF KernelInv
<1> QED BY <1>1, KernelInvariant, PTL

\* kernel_runloop never runs out of tasks: scheduler_get never returns NULL.
THEOREM LoopNeverStarves == Spec => []SomeTaskReady
<1>1. ASSUME KernelInv, mode = "kernel"
      PROVE  taskReadyQueues[LowestBit(queueFullMask)] # <<>>
  <2>1. /\ idleTid \in Created /\ idleTid \in Tid
        /\ taskReadyQueues \in Queues(Priority, Tid) /\ queueFullMask \in SUBSET Priority
        /\ priority[idleTid] \in Priority
    BY <1>1, KernelAssumption DEF KernelInv, TypeOK, Created, Tid, idleTid, Queues
  <2>2. Holds(taskReadyQueues, priority[idleTid], idleTid)
    BY <1>1, <2>1 DEF KernelInv, IdleReady, NoTaskLost
  <2>3. taskReadyQueues[priority[idleTid]] # <<>>
    BY <2>1, <2>2, EmptyQueueHoldsNothing
  <2>4. queueFullMask # {}
    BY <1>1, <2>1, <2>3 DEF KernelInv, MaskMatchesQueues
  <2>5. LowestBit(queueFullMask) \in queueFullMask
    BY <2>1, <2>4, LowestBitIsLeast
  <2> QED BY <1>1, <2>5 DEF KernelInv, MaskMatchesQueues
<1>2. KernelInv => SomeTaskReady
  BY <1>1 DEF SomeTaskReady
<1> QED BY <1>2, KernelInvariant, PTL

\* The scheduler never picks a task while a more urgent one is ready.
THEOREM MostUrgentTaskRuns == Spec => HighestPriorityRuns
<1>1. ASSUME KernelInv, [Next]_vars, mode = "kernel", mode' = "user",
             NEW t \in Created, state[t] = "READY"
      PROVE  priority[currentRunningTask'] <= priority[t]
  <2>1. Schedule
    BY <1>1 DEF Next, vars, Close, UserStep, kernel_quit, Raise, InterruptStep,
         kernel_createtask, CreateExhausted, kernel_pass, kernel_exit, kernel_send, SendRefused,
         SendToSelf, SendToWaiting, SendToBusy, kernel_receive, ReceiveQueued, ReceiveWait,
         kernel_reply, ReplyRefused, ReplyDelivered, kernel_awaitevent, AwaitRefused,
         AwaitAccepted, kernel_handle_interrupt, SpuriousInterrupt, Syscall
  <2>2. /\ QueuesTyped /\ NoRepeats(taskReadyQueues) /\ taskReadyQueues \in Queues(Priority, Tid)
        /\ t \in Tid /\ priority[t] \in Priority
    BY <1>1, KernelAssumption DEF KernelInv, TypeOK, LinkedOnce, ReadyTasksLinked, QueuesTyped,
                                  Queues, Created, Tid
  <2>3. /\ currentRunningTask' = NextTask
        /\ NextTask \in Tid /\ LowestBit(queueFullMask) \in Priority
        /\ Holds(taskReadyQueues, LowestBit(queueFullMask), NextTask)
        /\ \A x \in Priority : x < LowestBit(queueFullMask) => taskReadyQueues[x] = <<>>
    BY <1>1, <2>1, <2>2, TakeReady DEF KernelInv, Schedule
  <2>4. priority[NextTask] = LowestBit(queueFullMask)
    BY <1>1, <2>3 DEF KernelInv, LinkedOnce, ReadyTasksLinked
  <2>5. taskReadyQueues[priority[t]] # <<>>
    BY <1>1, <2>2, EmptyQueueHoldsNothing DEF KernelInv, NoTaskLost
  <2> QED BY <2>2, <2>3, <2>4, <2>5 DEF Priority
<1>2. KernelInv /\ [Next]_vars =>
        [mode = "kernel" /\ mode' = "user" => \A t \in Created : state[t] = "READY" =>
           priority[currentRunningTask'] <= priority[t]]_vars
  BY <1>1
<1> QED BY <1>2, KernelInvariant, PTL DEF Spec, HighestPriorityRuns

\* What a kernel entry does to a task other than the one it serves: at most
\* wake it from a block; its senders stay queued.
LEMMA OthersOnlyWoken ==
  ASSUME KernelInv, mode = "user",
         UserStep \/ kernel_quit \/ (\E e \in Event : Raise(e)) \/ InterruptStep,
         NEW t \in Created, t # currentRunningTask
  PROVE  /\ t \in Created' /\ currentRunningTask' = currentRunningTask
         /\ state'[t] # state[t] =>
              state[t] \in {"SEND_BLOCK", "RECEIVE_BLOCK", "REPLY_BLOCK", "EVENT_BLOCK"}
         /\ \A u \in Tid : Holds(sendQ, t, u) => Holds(sendQ', t, u)
<1> DEFINE c == currentRunningTask
<1>1. /\ c \in Tid /\ t \in Tid /\ c \in Created /\ sendQ \in Queues(Tid, Tid)
      /\ state \in [Tid -> TaskState] /\ NoRepeats(sendQ) /\ tid_counter \in 2 .. MaxTask
      /\ Created \subseteq Tid
  BY RunningTaskUnlinked DEF KernelInv, TypeOK, LinkedOnce, SendersLinked
<1>2. CASE \E p \in Priority : kernel_createtask(p)
  <2>1. t # tid_counter /\ t \in Created'
    BY <1>1, <1>2 DEF Created, kernel_createtask
  <2> QED BY <1>1, <1>2, <2>1 DEF kernel_createtask
<1>3. CASE \/ CreateExhausted \/ SendToSelf \/ kernel_quit \/ \E e \in Event : Raise(e)
           \/ \E e \in Event \cup {BadEvent} : AwaitRefused(e)
  BY <1>1, <1>3 DEF CreateExhausted, SendToSelf, kernel_quit, Raise, AwaitRefused, tasks, Created
<1>4. CASE Requeue
  BY <1>1, <1>4 DEF Requeue, Created
<1>5. CASE \/ kernel_exit \/ ReceiveWait
           \/ \E e \in Event \cup {BadEvent} : AwaitAccepted(e)
  BY <1>1, <1>5 DEF kernel_exit, ReceiveWait, AwaitAccepted, Created
<1>6. ASSUME NEW r \in Tid, SendToWaiting(r)
      PROVE  /\ t \in Created' /\ currentRunningTask' = currentRunningTask
             /\ state'[t] # state[t] => state[t] = "SEND_BLOCK"
             /\ sendQ' = sendQ
  BY <1>1, <1>6 DEF SendToWaiting, Created
<1>7. ASSUME NEW r \in Tid, SendToBusy(r)
      PROVE  /\ t \in Created' /\ currentRunningTask' = currentRunningTask
             /\ state'[t] = state[t]
             /\ \A u \in Tid : Holds(sendQ, t, u) => Holds(sendQ', t, u)
  <2>1. sendQ' = Enqueue(sendQ, r, c)
    BY <1>7 DEF SendToBusy
  <2> HIDE DEF c
  <2>2. \A u \in Tid : Holds(Enqueue(sendQ, r, c), t, u) <=>
          Holds(sendQ, t, u) \/ (t = r /\ u = c)
    BY <1>1, AppendToQueue
  <2> QED BY <1>1, <1>7, <2>1, <2>2 DEF SendToBusy, Created, c
<1>8. CASE ReceiveQueued
  <2>1. /\ sendQ' = Dequeue(sendQ, c) /\ sendQ[c] # <<>>
        /\ state' = [state EXCEPT ![Head(sendQ[c])] = "REPLY_BLOCK", ![c] = "READY"]
        /\ currentRunningTask' = currentRunningTask /\ Created' = Created
    BY <1>8 DEF ReceiveQueued, Created
  <2>2. t # c
    OBVIOUS
  <2> HIDE DEF c
  <2>3. /\ Head(sendQ[c]) \in Tid /\ Holds(sendQ, c, Head(sendQ[c]))
        /\ Dequeue(sendQ, c)[t] = sendQ[t]
    BY <1>1, <2>1, <2>2, TakeFromQueue
  <2>4. state[Head(sendQ[c])] = "RECEIVE_BLOCK"
    BY <1>1, <2>3 DEF KernelInv, LinkedOnce, SendersLinked
  <2> QED BY <1>1, <2>1, <2>2, <2>3, <2>4 DEF Holds
<1>9. ASSUME NEW s \in Tid, ReplyDelivered(s)
      PROVE  /\ t \in Created' /\ currentRunningTask' = currentRunningTask
             /\ state'[t] # state[t] => state[t] = "REPLY_BLOCK"
             /\ sendQ' = sendQ
  BY <1>1, <1>9 DEF ReplyDelivered, Created
<1>10. ASSUME NEW e \in Event, Deliver(e)
       PROVE  /\ t \in Created' /\ currentRunningTask' = currentRunningTask
              /\ state'[t] # state[t] => state[t] = "EVENT_BLOCK"
              /\ sendQ' = sendQ
  BY <1>1, <1>10, KernelAssumption
     DEF Deliver, Created, KernelInv, LinkedOnce, WaitersRegistered, TypeOK
<1>11. 0 \in Event
  BY KernelAssumption DEF Event
<1> QED BY <1>2, <1>3, <1>4, <1>5, <1>6, <1>7, <1>8, <1>9, <1>10, <1>11
     DEF UserStep, kernel_pass, kernel_send, SendRefused, kernel_receive, kernel_reply,
         ReplyRefused, kernel_awaitevent, InterruptStep, kernel_handle_interrupt,
         SpuriousInterrupt

\* A caller of a refused AwaitEvent never runs again, whatever happens.
THEOREM RefusedAwaitStrandsForever == Spec => StrandedForever
<1>1. ASSUME KernelInv, [Next]_vars, NEW t \in Tid, Stranded(t)
      PROVE  Stranded(t)'
  <2>1. t \in Created /\ state[t] = "ACTIVE" /\ ~OnCpu(t)
    BY <1>1 DEF Stranded
  <2>2. CASE Schedule
    <3>1. /\ QueuesTyped /\ NoRepeats(taskReadyQueues)
      BY <1>1 DEF KernelInv, TypeOK, LinkedOnce, ReadyTasksLinked, QueuesTyped, Queues
    <3>2. state[NextTask] = "READY" /\ NextTask \in Tid
      BY <1>1, <2>2, <3>1, TakeReady DEF KernelInv, Schedule, LinkedOnce, ReadyTasksLinked
    <3> QED BY <1>1, <2>1, <2>2, <3>2
         DEF KernelInv, TypeOK, Schedule, Stranded, OnCpu, Created
  <2>3. CASE Close \/ UNCHANGED vars
    BY <2>1, <2>3 DEF Close, Stranded, OnCpu, Created, vars, tasks
  <2>4. CASE UserStep \/ kernel_quit \/ (\E e \in Event : Raise(e)) \/ InterruptStep
    <3>1. mode = "user"
      BY <2>4 DEF UserStep, kernel_quit, Raise, InterruptStep, kernel_createtask,
         CreateExhausted, kernel_pass, kernel_exit, kernel_send, SendRefused, SendToSelf,
         SendToWaiting, SendToBusy, kernel_receive, ReceiveQueued, ReceiveWait, kernel_reply,
         ReplyRefused, ReplyDelivered, kernel_awaitevent, AwaitRefused, AwaitAccepted,
         kernel_handle_interrupt, SpuriousInterrupt, Syscall
    <3>2. t # currentRunningTask
      BY <2>1, <3>1 DEF OnCpu
    <3>3. /\ t \in Created' /\ currentRunningTask' = currentRunningTask
          /\ state'[t] = "ACTIVE"
      BY <1>1, <2>1, <2>4, <3>1, <3>2, OthersOnlyWoken
    <3> QED BY <3>2, <3>3 DEF Stranded, OnCpu
  <2> QED BY <1>1, <2>2, <2>3, <2>4 DEF Next
<1>2. KernelInv /\ [Next]_vars => [\A t \in Tid : Stranded(t) => Stranded(t)']_vars
  BY <1>1
<1> QED BY <1>2, KernelInvariant, PTL DEF Spec, StrandedForever

\* A task queued on a receiver that has exited stays blocked there for good.
THEOREM OrphansAreNeverFreed == Spec => OrphansStayBlocked
<1>1. ASSUME KernelInv, [Next]_vars, NEW r \in Created, NEW t \in Tid,
             state[r] = "ZOMBIE", Holds(sendQ, r, t)
      PROVE  state'[r] = "ZOMBIE" /\ Holds(sendQ', r, t) /\ state'[t] = "RECEIVE_BLOCK"
  <2>0. r \in Tid
    BY <1>1, KernelAssumption DEF KernelInv, TypeOK, Created, Tid
  <2>1. KernelInv'
    BY <1>1, NextKeeps
  <2>2. state'[r] = "ZOMBIE" /\ Holds(sendQ', r, t)
    <3>1. CASE Schedule
      <4>1. QueuesTyped /\ NoRepeats(taskReadyQueues)
        BY <1>1 DEF KernelInv, TypeOK, LinkedOnce, ReadyTasksLinked, QueuesTyped, Queues
      <4>2. state[NextTask] = "READY" /\ NextTask \in Tid
        BY <1>1, <3>1, <4>1, TakeReady DEF KernelInv, Schedule, LinkedOnce, ReadyTasksLinked
      <4> QED BY <1>1, <2>0, <3>1, <4>2 DEF KernelInv, TypeOK, Schedule
    <3>2. CASE Close \/ UNCHANGED vars
      BY <1>1, <3>2 DEF Close, vars, tasks
    <3>3. CASE UserStep \/ kernel_quit \/ (\E e \in Event : Raise(e)) \/ InterruptStep
      <4>1. mode = "user"
        BY <3>3 DEF UserStep, kernel_quit, Raise, InterruptStep, kernel_createtask,
           CreateExhausted, kernel_pass, kernel_exit, kernel_send, SendRefused, SendToSelf,
           SendToWaiting, SendToBusy, kernel_receive, ReceiveQueued, ReceiveWait, kernel_reply,
           ReplyRefused, ReplyDelivered, kernel_awaitevent, AwaitRefused, AwaitAccepted,
           kernel_handle_interrupt, SpuriousInterrupt, Syscall
      <4>2. r # currentRunningTask
        BY <1>1, <4>1 DEF KernelInv, RunningTaskActive
      <4> QED BY <1>1, <3>3, <4>1, <4>2, OthersOnlyWoken
    <3> QED BY <1>1, <3>1, <3>2, <3>3 DEF Next
  <2>3. state'[t] = "RECEIVE_BLOCK"
    BY <2>0, <2>1, <2>2 DEF KernelInv, LinkedOnce, SendersLinked
  <2> QED BY <2>2, <2>3
<1>2. KernelInv /\ [Next]_vars =>
        [\A r \in Created, t \in Tid : state[r] = "ZOMBIE" /\ Holds(sendQ, r, t) =>
           state'[r] = "ZOMBIE" /\ Holds(sendQ, r, t)' /\ state'[t] = "RECEIVE_BLOCK"]_vars
  BY <1>1
<1> QED BY <1>2, KernelInvariant, PTL DEF Spec, OrphansStayBlocked

(***************************************************************************)
(* The refinement: the microkernel implements Send-Receive-Reply.  Every   *)
(* handler of kernel.c is one step of Rendezvous, or changes nothing a     *)
(* task can tell.                                                          *)
(***************************************************************************)

(***************************************************************************)
(* The mapping.                                                            *)
(***************************************************************************)

\* While the kernel serves a task, that task is runnable, and of the others
\* no state but ACTIVE depends on who has the CPU.
LEMMA PhasesInUserMode ==
  ASSUME KernelInv, mode = "user"
  PROVE  /\ PhaseOf(currentRunningTask) = "runnable"
         /\ \A t \in Tid : t # currentRunningTask =>
              PhaseOf(t) = IF t \notin Created THEN "absent"
                           ELSE IF state[t] = "ACTIVE" THEN "stranded" ELSE PhaseName[state[t]]
  BY RunningTaskUnlinked DEF PhaseOf, Stranded, OnCpu, PhaseName

\* Off the CPU, the phase of a task is given by its state alone.
LEMMA PhasesInKernelMode ==
  ASSUME mode \in {"kernel", "closed"}
  PROVE  \A t \in Tid :
           PhaseOf(t) = IF t \notin Created THEN "absent"
                        ELSE IF state[t] = "ACTIVE" THEN "stranded" ELSE PhaseName[state[t]]
  BY DEF PhaseOf, Stranded, OnCpu

\* The peer of a queued sender is the one task in whose sendQ it is; that of
\* any other task is the one that has its message.
LEMMA PeersInQueues ==
  ASSUME KernelInv, NEW t \in Tid
  PROVE  /\ \A r \in Tid : Holds(sendQ, r, t) => PeerOf(t) = r
         /\ (\A r \in Tid : ~Holds(sendQ, r, t)) => PeerOf(t) = server[t]
  BY DEF PeerOf, KernelInv, LinkedOnce, SendersLinked

\* A task whose phase is "sending" is in the sendQ of its peer.
LEMMA SendingTasksAreQueued ==
  ASSUME KernelInv, mode = "user", NEW t \in Tid, PhaseOf(t) = "sending"
  PROVE  Holds(sendQ, PeerOf(t), t)
<1>1. t \in Created /\ state[t] = "RECEIVE_BLOCK"
  BY PhasesInUserMode DEF PhaseOf, PhaseName, KernelInv, TypeOK, TaskState
<1>2. PICK r \in Tid : Holds(sendQ, r, t)
  BY <1>1 DEF KernelInv, NoTaskLost
<1> QED BY <1>2, PeersInQueues

Phases == [t \in Tid |-> PhaseOf(t)]
Peers  == [t \in Tid |-> PeerOf(t)]

\* A step that leaves every phase and peer as it is.
LEMMA Stutters ==
  ASSUME \A t \in Tid : PhaseOf(t)' = PhaseOf(t),
         \A t \in Tid : PeerOf(t)' = PeerOf(t)
  PROVE  [SRR!Step]_(SRR!rvars)
<1>1. Phases' = Phases /\ Peers' = Peers
  BY DEF Phases, Peers
<1> QED BY <1>1 DEF SRR!rvars, Phases, Peers

(***************************************************************************)
(* The steps of the kernel, handler by handler.                            *)
(***************************************************************************)

LEMMA ScheduleStutters ==
  ASSUME KernelInv, Schedule
  PROVE  [SRR!Step]_(SRR!rvars)
<1>1. /\ QueuesTyped /\ NoRepeats(taskReadyQueues)
  BY DEF KernelInv, TypeOK, LinkedOnce, ReadyTasksLinked, QueuesTyped, Queues
<1>2. NextTask \in Tid /\ NextTask \in Created /\ state[NextTask] = "READY"
  BY <1>1, TakeReady DEF KernelInv, Schedule, LinkedOnce, ReadyTasksLinked
<1>3. /\ mode = "kernel" /\ mode' = "user" /\ currentRunningTask' = NextTask
      /\ state' = [state EXCEPT ![NextTask] = "ACTIVE"]
      /\ UNCHANGED <<tid_counter, sendQ, server>>
  BY DEF Schedule
<1>4. ASSUME NEW t \in Tid PROVE PhaseOf(t)' = PhaseOf(t)
  <2>1. state \in [Tid -> TaskState] /\ Created' = Created
    BY <1>3 DEF KernelInv, TypeOK, Created
  <2>2. CASE t = NextTask
    BY <1>2, <1>3, <2>1, <2>2 DEF PhaseOf, Stranded, OnCpu, PhaseName
  <2>3. CASE t # NextTask
    BY <1>2, <1>3, <2>1, <2>3 DEF PhaseOf, Stranded, OnCpu
  <2> QED BY <2>2, <2>3
<1>5. \A t \in Tid : PeerOf(t)' = PeerOf(t)
  BY <1>3 DEF PeerOf, Holds
<1> QED BY <1>4, <1>5, Stutters

\* Close, and the ends of the model: what the tasks wait for stays as it is.
LEMMA EndsStutter ==
  ASSUME KernelInv, Close \/ CreateExhausted \/ SendToSelf \/ kernel_quit
                    \/ (\E e \in Event : Raise(e)) \/ UNCHANGED vars
  PROVE  [SRR!Step]_(SRR!rvars)
<1>1. UNCHANGED <<tid_counter, currentRunningTask, state, sendQ, server>>
  BY DEF Close, CreateExhausted, SendToSelf, kernel_quit, Raise, vars, tasks
<1>2. \/ mode' = mode
      \/ mode = "kernel" /\ mode' = "closed"
      \/ mode = "user" /\ mode' \in {"asserted", "corrupt"}
  BY DEF Close, CreateExhausted, SendToSelf, kernel_quit, Raise, vars, Syscall
<1>3. \A t \in Tid : PhaseOf(t)' = PhaseOf(t)
  BY <1>1, <1>2 DEF PhaseOf, Stranded, OnCpu, Created
<1>4. \A t \in Tid : PeerOf(t)' = PeerOf(t)
  BY <1>1 DEF PeerOf, Holds
<1> QED BY <1>3, <1>4, Stutters

\* The running task goes back to its queue (Pass and its like, a refused Send
\* or Reply, an interrupt nobody waits for), or exits, or is left in no list.
LEMMA OnlyCallerChanges ==
  ASSUME KernelInv, mode = "user", mode' = "kernel",
         UNCHANGED <<tid_counter, currentRunningTask, sendQ, server>>,
         NEW st \in TaskState, state' = [state EXCEPT ![currentRunningTask] = st]
  PROVE  /\ Phases' = [Phases EXCEPT ![currentRunningTask] =
                         IF st = "ACTIVE" THEN "stranded" ELSE PhaseName[st]]
         /\ Peers' = Peers
         /\ Phases[currentRunningTask] = "runnable"
<1> DEFINE c == currentRunningTask
<1>1. /\ c \in Tid /\ c \in Created /\ Created' = Created /\ state \in [Tid -> TaskState]
      /\ PhaseOf(c) = "runnable"
  BY RunningTaskUnlinked, PhasesInUserMode DEF KernelInv, TypeOK, Created
<1>2. \A t \in Tid : PhaseOf(t)' = IF t = c THEN IF st = "ACTIVE" THEN "stranded" ELSE PhaseName[st]
                                   ELSE PhaseOf(t)
  BY <1>1, PhasesInUserMode, PhasesInKernelMode DEF PhaseOf, Stranded, OnCpu
<1>3. \A t \in Tid : PeerOf(t)' = PeerOf(t)
  BY DEF PeerOf, Holds
<1> QED BY <1>1, <1>2, <1>3 DEF Phases, Peers

LEMMA RequeueStutters ==
  ASSUME KernelInv, mode = "user", Requeue
  PROVE  [SRR!Step]_(SRR!rvars)
<1>1. Phases' = [Phases EXCEPT ![currentRunningTask] = "runnable"] /\ Peers' = Peers
      /\ Phases[currentRunningTask] = "runnable"
  BY OnlyCallerChanges DEF Requeue, TaskState, PhaseName
<1>2. Phases' = Phases
  BY <1>1 DEF Phases
<1> QED BY <1>1, <1>2 DEF SRR!rvars, Phases, Peers

\* Exit is Depart, a refused AwaitEvent is Strand, an accepted one is Pause.
LEMMA CallerLeaves ==
  ASSUME KernelInv, mode = "user",
         kernel_exit \/ (\E e \in Event \cup {BadEvent} : kernel_awaitevent(e))
  PROVE  SRR!Step
<1> DEFINE c == currentRunningTask
<1>1. c \in Tid \ {idleTid}
  BY RunningTaskUnlinked DEF kernel_exit, kernel_awaitevent, AwaitRefused, AwaitAccepted, Syscall
<1>2. CASE kernel_exit
  <2>1. /\ Phases' = [Phases EXCEPT ![c] = "gone"] /\ Peers' = Peers
        /\ Phases[c] = "runnable"
    BY <1>2, OnlyCallerChanges DEF kernel_exit, TaskState, PhaseName
  <2>2. SRR!Depart(c)
    BY <2>1 DEF SRR!Depart, SRR!Become, Phases, Peers
  <2> QED BY <1>1, <2>2 DEF SRR!Step
<1>3. ASSUME NEW e \in Event \cup {BadEvent}, AwaitRefused(e) PROVE SRR!Step
  <2>1. /\ state \in [Tid -> TaskState] /\ state[c] = "ACTIVE"
        /\ mode' = "kernel" /\ UNCHANGED <<tid_counter, currentRunningTask, state, sendQ, server>>
    BY <1>3, RunningTaskUnlinked DEF AwaitRefused, tasks, KernelInv, TypeOK
  <2>2. "ACTIVE" \in TaskState /\ state' = [state EXCEPT ![c] = "ACTIVE"]
    BY <2>1 DEF TaskState
  <2>3. /\ Phases' = [Phases EXCEPT ![c] = "stranded"] /\ Peers' = Peers
        /\ Phases[c] = "runnable"
    BY <2>1, <2>2, OnlyCallerChanges
  <2>4. SRR!Strand(c)
    BY <2>3 DEF SRR!Strand, SRR!Become, Phases, Peers
  <2> QED BY <1>1, <2>4 DEF SRR!Step
<1>4. ASSUME NEW e \in Event \cup {BadEvent}, AwaitAccepted(e) PROVE SRR!Step
  <2>1. /\ Phases' = [Phases EXCEPT ![c] = "paused"] /\ Peers' = Peers
        /\ Phases[c] = "runnable"
    BY <1>4, OnlyCallerChanges DEF AwaitAccepted, TaskState, PhaseName
  <2>2. SRR!Pause(c)
    BY <2>1 DEF SRR!Pause, SRR!Become, Phases, Peers
  <2> QED BY <1>1, <2>2 DEF SRR!Step
<1> QED BY <1>2, <1>3, <1>4 DEF kernel_awaitevent

\* A Receive that finds no sender is Listen: no task is sending to the caller.
LEMMA ReceiveWaitListens ==
  ASSUME KernelInv, ReceiveWait
  PROVE  SRR!Step
<1> DEFINE c == currentRunningTask
<1>1. /\ mode = "user" /\ c # idleTid /\ c \in Tid /\ sendQ[c] = <<>>
      /\ sendQ \in Queues(Tid, Tid)
  BY RunningTaskUnlinked DEF ReceiveWait, Syscall
<1>2. /\ Phases' = [Phases EXCEPT ![c] = "receiving"] /\ Peers' = Peers
      /\ Phases[c] = "runnable"
  BY <1>1, OnlyCallerChanges DEF ReceiveWait, TaskState, PhaseName
<1>3. \A s \in Tid : ~(Phases[s] = "sending" /\ Peers[s] = c)
  BY <1>1, SendingTasksAreQueued, EmptyQueueHoldsNothing DEF Phases, Peers
<1>4. SRR!Listen(c)
  BY <1>2, <1>3 DEF SRR!Listen, SRR!Become, Phases, Peers
<1> QED BY <1>1, <1>4 DEF SRR!Step

\* A Send to a task that waits in Receive is Meet.
LEMMA SendToWaitingMeets ==
  ASSUME KernelInv, NEW r \in Tid, SendToWaiting(r)
  PROVE  SRR!Step
<1> DEFINE c == currentRunningTask
<1>1. /\ mode = "user" /\ c # idleTid /\ c \in Tid /\ c \in Created /\ r # c /\ r \in Created
      /\ state[r] = "SEND_BLOCK" /\ state \in [Tid -> TaskState]
      /\ server \in [Tid -> Tid \cup {NULL}]
      /\ PhaseOf(c) = "runnable" /\ mode' = "kernel"
      /\ state' = [state EXCEPT ![r] = "READY", ![c] = "REPLY_BLOCK"]
      /\ server' = [server EXCEPT ![c] = r]
      /\ UNCHANGED <<tid_counter, currentRunningTask, sendQ>> /\ Created' = Created
      /\ \A q \in Tid : ~Holds(sendQ, q, c)
  BY RunningTaskUnlinked, PhasesInUserMode
     DEF SendToWaiting, Syscall, KernelInv, TypeOK, Created
<1>2. PhaseOf(r) = "receiving"
  BY <1>1, PhasesInUserMode DEF PhaseName
<1>3. \A t \in Tid : PhaseOf(t)' = IF t = c THEN "awaiting" ELSE IF t = r THEN "runnable"
                                   ELSE PhaseOf(t)
  BY <1>1, PhasesInUserMode DEF PhaseOf, Stranded, OnCpu, PhaseName
<1>4. \A t \in Tid : PeerOf(t)' = IF t = c THEN r ELSE PeerOf(t)
  BY <1>1 DEF PeerOf, Holds
<1>5. /\ Phases[c] = "runnable" /\ Phases[r] = "receiving"
      /\ Phases' = [Phases EXCEPT ![c] = "awaiting", ![r] = "runnable"]
      /\ Peers' = [Peers EXCEPT ![c] = r]
  BY <1>1, <1>2, <1>3, <1>4 DEF Phases, Peers
<1>6. SRR!Meet(c, r)
  BY <1>1, <1>5 DEF SRR!Meet, Phases, Peers
<1> QED BY <1>1, <1>6 DEF SRR!Step

\* Enqueue adds one task to one queue.
LEMMA EnqueueAdds ==
  ASSUME NEW S, NEW T, NEW q \in Queues(S, T), NEW x \in S, NEW t \in T
  PROVE  \A y \in S, u \in T : Holds(Enqueue(q, x, t), y, u) <=> Holds(q, y, u) \/ (y = x /\ u = t)
  BY AppendToQueue

\* A Send to a busy task is Offer.
LEMMA SendToBusyOffers ==
  ASSUME KernelInv, NEW r \in Tid, SendToBusy(r)
  PROVE  SRR!Step
<1> DEFINE c == currentRunningTask
<1>1. /\ mode = "user" /\ c # idleTid /\ c \in Tid /\ c \in Created /\ r # c /\ r \in Created
      /\ state[r] \notin {"SEND_BLOCK", "ZOMBIE"} /\ state \in [Tid -> TaskState]
      /\ PhaseOf(c) = "runnable" /\ mode' = "kernel"
      /\ state' = [state EXCEPT ![c] = "RECEIVE_BLOCK"]
      /\ sendQ' = Enqueue(sendQ, r, c) /\ sendQ \in Queues(Tid, Tid)
      /\ UNCHANGED <<tid_counter, currentRunningTask, server>> /\ Created' = Created
      /\ \A q \in Tid : ~Holds(sendQ, q, c)
  BY RunningTaskUnlinked, PhasesInUserMode
     DEF SendToBusy, Syscall, KernelInv, TypeOK, Created
<1>2. PhaseOf(r) \notin {"absent", "gone", "receiving"}
  BY <1>1, PhasesInUserMode DEF PhaseName, TaskState
<1>3. \A t \in Tid : PhaseOf(t)' = IF t = c THEN "sending" ELSE PhaseOf(t)
  BY <1>1, PhasesInUserMode DEF PhaseOf, Stranded, OnCpu, PhaseName
<1>4. \A q, u \in Tid : Holds(sendQ', q, u) <=> Holds(sendQ, q, u) \/ (q = r /\ u = c)
  <2>1. sendQ \in Queues(Tid, Tid) /\ c \in Tid /\ sendQ' = Enqueue(sendQ, r, c)
    BY <1>1
  <2> HIDE DEF c
  <2>2. \A q, u \in Tid : Holds(Enqueue(sendQ, r, c), q, u) <=>
                           Holds(sendQ, q, u) \/ (q = r /\ u = c)
    BY <2>1, EnqueueAdds
  <2> QED BY <2>1, <2>2
<1>5. \A t \in Tid : PeerOf(t)' = IF t = c THEN r ELSE PeerOf(t)
  BY <1>1, <1>4 DEF PeerOf
<1>6. /\ Phases[c] = "runnable" /\ Phases[r] \notin {"absent", "gone", "receiving"}
      /\ Phases' = [Phases EXCEPT ![c] = "sending"]
      /\ Peers' = [Peers EXCEPT ![c] = r]
  BY <1>1, <1>2, <1>3, <1>5 DEF Phases, Peers
<1>7. SRR!Offer(c, r)
  BY <1>1, <1>6 DEF SRR!Offer, Phases, Peers
<1> QED BY <1>1, <1>7 DEF SRR!Step

\* A Receive that finds senders takes the message of one of them.
LEMMA ReceiveQueuedTakes ==
  ASSUME KernelInv, ReceiveQueued
  PROVE  SRR!Step
<1> DEFINE c == currentRunningTask
<1> DEFINE s == Head(sendQ[c])
<1>1. /\ mode = "user" /\ c # idleTid /\ c \in Tid /\ c \in Created
      /\ state \in [Tid -> TaskState] /\ server \in [Tid -> Tid \cup {NULL}]
      /\ PhaseOf(c) = "runnable" /\ mode' = "kernel"
      /\ state' = [state EXCEPT ![s] = "REPLY_BLOCK", ![c] = "READY"]
      /\ server' = [server EXCEPT ![s] = c]
      /\ sendQ' = Dequeue(sendQ, c) /\ sendQ \in Queues(Tid, Tid) /\ sendQ[c] # <<>>
      /\ UNCHANGED <<tid_counter, currentRunningTask>> /\ Created' = Created
      /\ NoRepeats(sendQ)
  BY RunningTaskUnlinked, PhasesInUserMode
     DEF ReceiveQueued, Syscall, KernelInv, TypeOK, Created, LinkedOnce, SendersLinked
<1>2. /\ s \in Tid /\ Holds(sendQ, c, s)
      /\ \A q, u \in Tid : Holds(sendQ', q, u) <=> Holds(sendQ, q, u) /\ ~(q = c /\ u = s)
  <2> HIDE DEF c
  <2> QED BY <1>1, TakeFromQueue
<1>3. /\ s \in Created \ {c} /\ state[s] = "RECEIVE_BLOCK"
      /\ \A q \in Tid : Holds(sendQ, q, s) => q = c
  BY <1>1, <1>2 DEF KernelInv, LinkedOnce, SendersLinked
<1>4. PhaseOf(s) = "sending" /\ PeerOf(s) = c
  BY <1>1, <1>2, <1>3, PhasesInUserMode, PeersInQueues DEF PhaseName
<1>5. \A t \in Tid : PhaseOf(t)' = IF t = s THEN "awaiting" ELSE PhaseOf(t)
  BY <1>1, <1>2, <1>3, PhasesInUserMode DEF PhaseOf, Stranded, OnCpu, PhaseName
<1>6. ASSUME NEW t \in Tid PROVE PeerOf(t)' = PeerOf(t)
  <2>1. CASE t = s
    <3>1. \A q \in Tid : ~Holds(sendQ', q, s)
      BY <1>2, <1>3
    <3> QED BY <1>1, <1>2, <1>4, <2>1, <3>1 DEF PeerOf
  <2>2. CASE t # s
    BY <1>1, <1>2, <2>2 DEF PeerOf
  <2> QED BY <2>1, <2>2
<1>7. /\ Phases[c] = "runnable" /\ Phases[s] = "sending" /\ Peers[s] = c
      /\ Phases' = [Phases EXCEPT ![s] = "awaiting"] /\ Peers' = Peers
  BY <1>1, <1>2, <1>4, <1>5, <1>6 DEF Phases, Peers
<1> HIDE DEF s
<1>8. SRR!Take(c, s)
  BY <1>7 DEF SRR!Take, Phases, Peers
<1> QED BY <1>1, <1>2, <1>8 DEF SRR!Step

\* A Reply that is not refused is Answer.
LEMMA ReplyDeliveredAnswers ==
  ASSUME KernelInv, NEW s \in Tid, ReplyDelivered(s)
  PROVE  SRR!Step
<1> DEFINE c == currentRunningTask
<1>1. /\ mode = "user" /\ c # idleTid /\ c \in Tid /\ c \in Created /\ s \in Created
      /\ state[s] = "REPLY_BLOCK" /\ state[c] = "ACTIVE"
      /\ state \in [Tid -> TaskState] /\ server \in [Tid -> Tid \cup {NULL}]
      /\ PhaseOf(c) = "runnable" /\ mode' = "kernel"
      /\ state' = [state EXCEPT ![s] = "READY", ![c] = "READY"]
      /\ server' = [server EXCEPT ![s] = NULL]
      /\ UNCHANGED <<tid_counter, currentRunningTask, sendQ>> /\ Created' = Created
  BY RunningTaskUnlinked, PhasesInUserMode
     DEF ReplyDelivered, Syscall, KernelInv, TypeOK, Created
<1>2. s # c /\ \A q \in Tid : ~Holds(sendQ, q, s)
  BY <1>1 DEF KernelInv, LinkedOnce, SendersLinked
<1>3. PhaseOf(s) = "awaiting"
  BY <1>1, <1>2, PhasesInUserMode DEF PhaseName
<1>4. \A t \in Tid : PhaseOf(t)' = IF t = s THEN "runnable" ELSE PhaseOf(t)
  BY <1>1, <1>2, PhasesInUserMode DEF PhaseOf, Stranded, OnCpu, PhaseName
<1>5. \A t \in Tid : PeerOf(t)' = IF t = s THEN NULL ELSE PeerOf(t)
  BY <1>1, <1>2 DEF PeerOf, Holds
<1>6. /\ Phases[c] = "runnable" /\ Phases[s] = "awaiting"
      /\ Phases' = [Phases EXCEPT ![s] = "runnable"]
      /\ Peers' = [Peers EXCEPT ![s] = NULL]
  BY <1>1, <1>3, <1>4, <1>5 DEF Phases, Peers
<1>7. SRR!Answer(c, s)
  BY <1>6 DEF SRR!Answer, Phases, Peers
<1> QED BY <1>1, <1>7 DEF SRR!Step

\* Create is Appear: the creator is runnable before and after.
LEMMA CreateAppears ==
  ASSUME KernelInv, NEW p \in Priority, kernel_createtask(p)
  PROVE  SRR!Step
<1> DEFINE c == currentRunningTask
<1> DEFINE n == tid_counter
<1>0. /\ mode = "user" /\ mode' = "kernel" /\ n < MaxTask
      /\ state' = [state EXCEPT ![n] = "READY", ![c] = "READY"]
      /\ UNCHANGED <<currentRunningTask, sendQ, server>>
  BY DEF kernel_createtask, Syscall
<1>1. /\ c \in Tid /\ c \in Created /\ n \in Tid /\ n \notin Created
      /\ state \in [Tid -> TaskState] /\ PhaseOf(c) = "runnable"
  <2>1. n \in Tid /\ n \notin Created
    BY <1>0, KernelAssumption DEF KernelInv, TypeOK, Created, Tid
  <2> QED BY <1>0, <2>1, RunningTaskUnlinked, PhasesInUserMode DEF KernelInv, TypeOK
<1>2. Created' = Created \cup {n}
  BY KernelAssumption DEF kernel_createtask, KernelInv, TypeOK, Created
<1>3. PhaseOf(n) = "absent"
  BY <1>1 DEF PhaseOf
<1>4. \A t \in Tid : PhaseOf(t)' = IF t = n THEN "runnable" ELSE PhaseOf(t)
  BY <1>0, <1>1, <1>2, PhasesInUserMode DEF PhaseOf, Stranded, OnCpu, PhaseName
<1>5. \A t \in Tid : PeerOf(t)' = PeerOf(t)
  BY <1>0 DEF PeerOf, Holds
<1>6. /\ Phases[n] = "absent" /\ Phases' = [Phases EXCEPT ![n] = "runnable"]
      /\ Peers' = Peers
  BY <1>1, <1>3, <1>4, <1>5 DEF Phases, Peers
<1>7. SRR!Appear(n)
  BY <1>6 DEF SRR!Appear, SRR!Become, Phases, Peers
<1> QED BY <1>1, <1>7 DEF SRR!Step

\* An interrupt resumes the subscriber of its event, if there is one.
LEMMA DeliverResumes ==
  ASSUME KernelInv, mode = "user", NEW e \in Event, Deliver(e)
  PROVE  [SRR!Step]_(SRR!rvars)
<1> DEFINE c == currentRunningTask
<1> DEFINE u == eventWaitingTask[e]
<1>1. CASE u = NULL
  <2>1. Phases' = [Phases EXCEPT ![c] = "runnable"] /\ Peers' = Peers
        /\ Phases[c] = "runnable"
    BY <1>1, OnlyCallerChanges DEF Deliver, TaskState, PhaseName
  <2>2. Phases' = Phases
    BY <2>1 DEF Phases
  <2> QED BY <2>1, <2>2 DEF SRR!rvars, Phases, Peers
<1>2. CASE u # NULL
  <2>1. /\ u \in Tid /\ u \in Created /\ state[u] = "EVENT_BLOCK" /\ u # c
        /\ c \in Tid /\ c \in Created /\ state \in [Tid -> TaskState]
        /\ PhaseOf(c) = "runnable" /\ mode' = "kernel"
        /\ state' = [state EXCEPT ![c] = "READY", ![u] = "READY"]
        /\ UNCHANGED <<tid_counter, currentRunningTask, sendQ, server>> /\ Created' = Created
    BY <1>2, RunningTaskUnlinked, PhasesInUserMode
       DEF Deliver, KernelInv, TypeOK, LinkedOnce, WaitersRegistered, Created
  <2>2. PhaseOf(u) = "paused"
    BY <2>1, PhasesInUserMode DEF PhaseName
  <2>3. \A t \in Tid : PhaseOf(t)' = IF t = u THEN "runnable" ELSE PhaseOf(t)
    BY <2>1, PhasesInUserMode DEF PhaseOf, Stranded, OnCpu, PhaseName
  <2>4. \A t \in Tid : PeerOf(t)' = PeerOf(t)
    BY <2>1 DEF PeerOf, Holds
  <2>5. /\ Phases[u] = "paused" /\ Phases' = [Phases EXCEPT ![u] = "runnable"]
        /\ Peers' = Peers
    BY <2>1, <2>2, <2>3, <2>4 DEF Phases, Peers
  <2>6. SRR!Resume(u)
    BY <2>5 DEF SRR!Resume, SRR!Become, Phases, Peers
  <2> QED BY <2>1, <2>6 DEF SRR!Step
<1> QED BY <1>1, <1>2

(***************************************************************************)
(* The theorem.                                                            *)
(***************************************************************************)

\* Every task starts runnable or absent, and deals with nobody.
LEMMA InitStarts == Init => SRR!Start
<1> SUFFICES ASSUME Init PROVE SRR!Start
  OBVIOUS
<1>1. Created = {idleTid, task1Tid} /\ Created \subseteq Tid
  BY KernelAssumption DEF Init, Created, Tid, idleTid, task1Tid
<1>2. \A t \in Tid : PhaseOf(t) = IF t \in {idleTid, task1Tid} THEN "runnable" ELSE "absent"
  BY <1>1 DEF PhaseOf, Stranded, PhaseName, Init
<1>3. \A t \in Tid : PeerOf(t) = NULL
  BY DEF PeerOf, Holds, Init
<1> QED BY <1>2, <1>3 DEF SRR!Start

LEMMA NextRefines ==
  ASSUME KernelInv, [Next]_vars
  PROVE  [SRR!Step]_(SRR!rvars)
<1>1. CASE Schedule
  BY <1>1, ScheduleStutters
<1>2. CASE Close \/ kernel_quit \/ (\E e \in Event : Raise(e)) \/ UNCHANGED vars
  BY <1>2, EndsStutter
<1>3. CASE UserStep
  <2>1. CASE \E p \in Priority : kernel_createtask(p)
    BY <2>1, CreateAppears
  <2>2. CASE CreateExhausted \/ SendToSelf
    BY <2>2, EndsStutter
  <2>3. CASE kernel_pass
    BY <2>3, RequeueStutters DEF kernel_pass, Syscall
  <2>4. CASE kernel_exit \/ (\E e \in Event \cup {BadEvent} : kernel_awaitevent(e))
    <3>1. mode = "user"
      BY <2>4 DEF kernel_exit, kernel_awaitevent, AwaitRefused, AwaitAccepted, Syscall
    <3> QED BY <2>4, <3>1, CallerLeaves
  <2>5. ASSUME NEW r \in Tid, kernel_send(r) PROVE [SRR!Step]_(SRR!rvars)
    BY <2>5, RequeueStutters, SendToWaitingMeets, SendToBusyOffers
       DEF kernel_send, SendRefused, Syscall
  <2>6. CASE kernel_receive
    BY <2>6, ReceiveQueuedTakes, ReceiveWaitListens DEF kernel_receive
  <2>7. ASSUME NEW s \in Tid, kernel_reply(s) PROVE [SRR!Step]_(SRR!rvars)
    BY <2>7, RequeueStutters, ReplyDeliveredAnswers DEF kernel_reply, ReplyRefused, Syscall
  <2> QED BY <1>3, <2>1, <2>2, <2>3, <2>4, <2>5, <2>6, <2>7 DEF UserStep
<1>4. CASE InterruptStep
  <2>1. PICK e \in Event : mode = "user" /\ Deliver(e)
    BY <1>4, KernelAssumption DEF InterruptStep, kernel_handle_interrupt, SpuriousInterrupt, Event
  <2> QED BY <2>1, DeliverResumes
<1> QED BY <1>1, <1>2, <1>3, <1>4 DEF Next

\* The microkernel keeps every promise of Rendezvous: a message is taken once,
\* a sender goes on only after it was answered, and no task waits in Receive
\* while another one is sending to it.
THEOREM KernelImplementsRendezvous == Spec => ImplementsRendezvous
<1>1. Init => SRR!Start
  BY InitStarts
<1>2. KernelInv /\ [Next]_vars => [SRR!Step]_(SRR!rvars)
  BY NextRefines
<1> QED BY <1>1, <1>2, KernelInvariant, PTL DEF Spec, ImplementsRendezvous, SRR!Spec
=============================================================================
