------------------------------- MODULE Kernel -------------------------------
(***************************************************************************)
(* The choochoo microkernel: the task table of kernel.c, the priority      *)
(* ready queues of TaskQueue.c behind Scheduler.c, synchronous message     *)
(* passing (Send, Receive, Reply), task creation and exit, and interrupts  *)
(* delivered to the one task that waits for the event.                     *)
(*                                                                         *)
(* The kernel runs with interrupts masked, so one turn of kernel_runloop   *)
(* is two steps: Schedule hands the CPU to a task, and one kernel entry    *)
(* (a system call of that task or an interrupt) runs its handler whole.    *)
(* User programs are left open: any task but idle_task may make any system *)
(* call with any arguments, so what holds here holds for every program.    *)
(*                                                                         *)
(* Abstracted: the message bytes, the saved registers, parent_id, and      *)
(* the idle-time accounting.  The intrusive lists are sequences here;      *)
(* TaskLists.tla models the pointers and is shown to implement them.       *)
(***************************************************************************)
EXTENDS Integers, Sequences

CONSTANTS
  MaxTask,         \* NUM_MAX_TASK, the size of tds
  LowestPriority,  \* LOWEST_PRIORITY; 0 is the most urgent
  FirstPriority,   \* the priority main gives task1
  LastEvent,       \* interrupt lines 1..LastEvent, in the order they are tested
  ModemEvent       \* the rank of INT_UART1 in that order

ASSUME KernelAssumption ==
  /\ MaxTask \in Nat /\ MaxTask >= 2
  /\ LowestPriority \in Nat
  /\ FirstPriority \in 0 .. LowestPriority - 1
  /\ LastEvent \in Nat
  /\ ModemEvent \in 1 .. LastEvent

Tid      == 0 .. MaxTask - 1
Priority == 0 .. LowestPriority
Event    == 0 .. LastEvent    \* 0: an interrupt whose cause was not found
NULL     == -1                \* (TaskDescriptor*)NULL
BadEvent == -1                \* any eventType outside 0..63
idleTid  == 0                 \* the task kernel_init creates
task1Tid == 1                 \* the task main creates

TaskState == {"ACTIVE", "READY", "ZOMBIE", "SEND_BLOCK",
              "RECEIVE_BLOCK", "REPLY_BLOCK", "EVENT_BLOCK"}

VARIABLES
  mode,              \* who has the CPU, or how the kernel stopped
  notQuit,           \* the loop condition kernel_quit clears
  tid_counter,       \* tasks created so far
  currentRunningTask,
  state, priority,   \* the fields of tds[t]
  taskReadyQueues,   \* one FIFO per priority
  queueFullMask,     \* the priorities whose bit is set
  sendQ,             \* tasks blocked sending to t, in order of arrival
  eventWaitingTask,  \* the subscriber of each event
  pending,           \* interrupt lines the hardware holds raised
  server             \* history: who received the message of a blocked sender

tasks  == <<tid_counter, currentRunningTask, state, priority>>
ready  == <<taskReadyQueues, queueFullMask>>
events == <<eventWaitingTask, pending>>
vars   == <<mode, notQuit, tasks, ready, sendQ, events, server>>

Created == 0 .. tid_counter - 1

(***************************************************************************)
(* Linking a task at the end of queue x of q and unlinking the head, as    *)
(* append_task and next_ready_task do with a ready queue, and kernel_send  *)
(* and kernel_receive with a sendQ.                                        *)
(***************************************************************************)
EnqueueFirst(q, x, t) == [q EXCEPT ![x] = <<t>> \o @]    \* mutant: a stack
Enqueue(q, x, t) == [q EXCEPT ![x] = Append(@, t)]
Dequeue(q, x)    == [q EXCEPT ![x] = Tail(@)]

\* Mutant: the mask's highest bit.
HighestBit(mask) ==
  IF mask = {} THEN 0 ELSE CHOOSE p \in mask : \A q \in mask : p >= q

\* What the De Bruijn table yields: the lowest bit, and 0 for an empty mask.
LowestBit(mask) ==
  IF mask = {} THEN 0 ELSE CHOOSE p \in mask : \A q \in mask : p <= q

\* scheduler_append(t)
AppendOne(t) ==
  /\ taskReadyQueues' = Enqueue(taskReadyQueues, priority[t], t)
  /\ queueFullMask' = queueFullMask \cup {priority[t]}

\* scheduler_append(t) and then scheduler_append(u)
AppendTwo(t, u) ==
  /\ taskReadyQueues' =
       Enqueue(Enqueue(taskReadyQueues, priority[t], t), priority[u], u)
  /\ queueFullMask' = queueFullMask \cup {priority[t], priority[u]}

(***************************************************************************)
(* kernel_init creates idle_task, main creates task1, and the loop starts. *)
(***************************************************************************)
Init ==
  /\ mode = "kernel"
  /\ notQuit = TRUE
  /\ tid_counter = 2
  /\ currentRunningTask = NULL
  /\ state = [t \in Tid |-> IF t \in {idleTid, task1Tid} THEN "READY" ELSE "ACTIVE"]
  /\ priority = [t \in Tid |-> IF t = idleTid THEN LowestPriority
                               ELSE IF t = task1Tid THEN FirstPriority ELSE 0]
  /\ taskReadyQueues = [p \in Priority |-> IF p = LowestPriority THEN <<idleTid>>
                                           ELSE IF p = FirstPriority THEN <<task1Tid>>
                                           ELSE <<>>]
  /\ queueFullMask = {LowestPriority, FirstPriority}
  /\ sendQ = [t \in Tid |-> <<>>]
  /\ eventWaitingTask = [e \in Event |-> NULL]
  /\ pending = {}
  /\ server = [t \in Tid |-> NULL]

-----------------------------------------------------------------------------
(* The loop head of kernel_runloop. *)

\* Mutant: the bit stays set when the queue runs empty.
next_ready_task_keeps_bit ==
  LET i == LowestBit(queueFullMask) IN
  /\ taskReadyQueues[i] # <<>>
  /\ taskReadyQueues' = Dequeue(taskReadyQueues, i)
  /\ UNCHANGED queueFullMask

\* scheduler_get unlinks a task before notQuit is tested.
next_ready_task ==
  LET i == LowestBit(queueFullMask) IN
  /\ taskReadyQueues[i] # <<>>
  /\ taskReadyQueues' = Dequeue(taskReadyQueues, i)
  /\ queueFullMask' = IF Tail(taskReadyQueues[i]) = <<>>
                      THEN queueFullMask \ {i} ELSE queueFullMask

NextTask == Head(taskReadyQueues[LowestBit(queueFullMask)])

Schedule ==
  /\ mode = "kernel"
  /\ notQuit
  /\ next_ready_task
  /\ currentRunningTask' = NextTask
  /\ state' = [state EXCEPT ![NextTask] = "ACTIVE"]
  /\ mode' = "user"
  /\ UNCHANGED <<notQuit, tid_counter, priority, sendQ, events, server>>

\* The loop ends once notQuit is clear, one task having been unlinked by then,
\* and kernel_close follows.  It would also end with no task ready, which
\* SomeTaskReady shows never happens: that exit has no action.
Close ==
  /\ mode = "kernel"
  /\ ~notQuit
  /\ next_ready_task
  /\ mode' = "closed"
  /\ UNCHANGED <<notQuit, tasks, sendQ, events, server>>

-----------------------------------------------------------------------------
(* System calls of the running task. *)

Syscall == mode = "user" /\ currentRunningTask # idleTid

\* Create: the new task is appended first, then its creator.
kernel_createtask(p) ==
  /\ Syscall
  /\ tid_counter < MaxTask
  /\ tid_counter' = tid_counter + 1
  /\ state' = [state EXCEPT ![tid_counter] = "READY",
                            ![currentRunningTask] = "READY"]
  /\ priority' = [priority EXCEPT ![tid_counter] = p]
  /\ taskReadyQueues' =
       Enqueue(Enqueue(taskReadyQueues, p, tid_counter),
                   priority[currentRunningTask], currentRunningTask)
  /\ queueFullMask' = queueFullMask \cup {p, priority[currentRunningTask]}
  /\ mode' = "kernel"
  /\ UNCHANGED <<notQuit, currentRunningTask, sendQ, events, server>>

\* With the stack pool exhausted the handler stores -2 and does not return: it
\* goes on with tds[MaxTask], past the table.  Nothing is claimed after that.
CreateExhausted ==
  /\ Syscall
  /\ tid_counter = MaxTask
  /\ mode' = "corrupt"
  /\ UNCHANGED <<notQuit, tasks, ready, sendQ, events, server>>

\* Mutant: both the handler and the loop append the caller.
RequeueTwice ==
  /\ state' = [state EXCEPT ![currentRunningTask] = "READY"]
  /\ AppendTwo(currentRunningTask, currentRunningTask)
  /\ mode' = "kernel"
  /\ UNCHANGED <<notQuit, tid_counter, currentRunningTask, priority, sendQ, events, server>>

\* MyTid, MyParentsTid, Pass, Idleness and a refused Reply: the caller goes
\* back to the end of its queue.
Requeue ==
  /\ state' = [state EXCEPT ![currentRunningTask] = "READY"]
  /\ AppendOne(currentRunningTask)
  /\ mode' = "kernel"
  /\ UNCHANGED <<notQuit, tid_counter, currentRunningTask, priority, sendQ, events, server>>

kernel_pass == Syscall /\ Requeue

kernel_exit ==
  /\ Syscall
  /\ state' = [state EXCEPT ![currentRunningTask] = "ZOMBIE"]
  /\ mode' = "kernel"
  /\ UNCHANGED <<notQuit, tid_counter, currentRunningTask, priority,
                 ready, sendQ, events, server>>

\* CommandDecoder calls kernel_quit directly, without a trap.
kernel_quit ==
  /\ Syscall
  /\ notQuit' = FALSE
  /\ UNCHANGED <<mode, tasks, ready, sendQ, events, server>>

SendRefused(r) ==
  /\ Syscall
  /\ r \notin Created \/ state[r] = "ZOMBIE"
  /\ Requeue

\* ASSERT(sender->id != receiver_tid): the machine halts.
SendToSelf ==
  /\ Syscall
  /\ mode' = "asserted"
  /\ UNCHANGED <<notQuit, tasks, ready, sendQ, events, server>>

\* Mutant: the sender does not wait for the reply.
SendWithoutReply(r) ==
  /\ Syscall
  /\ r \in Created \ {currentRunningTask}
  /\ state[r] = "SEND_BLOCK"
  /\ state' = [state EXCEPT ![r] = "READY", ![currentRunningTask] = "READY"]
  /\ AppendTwo(r, currentRunningTask)
  /\ mode' = "kernel"
  /\ UNCHANGED <<notQuit, tid_counter, currentRunningTask, priority, sendQ, events, server>>

\* The receiver waits: it is made ready and the sender awaits the reply.
SendToWaiting(r) ==
  /\ Syscall
  /\ r \in Created \ {currentRunningTask}
  /\ state[r] = "SEND_BLOCK"
  /\ state' = [state EXCEPT ![r] = "READY", ![currentRunningTask] = "REPLY_BLOCK"]
  /\ AppendOne(r)
  /\ server' = [server EXCEPT ![currentRunningTask] = r]
  /\ mode' = "kernel"
  /\ UNCHANGED <<notQuit, tid_counter, currentRunningTask, priority, sendQ, events>>

\* The receiver is busy: the sender joins the end of its sendQ.
SendToBusy(r) ==
  /\ Syscall
  /\ r \in Created \ {currentRunningTask}
  /\ state[r] \notin {"SEND_BLOCK", "ZOMBIE"}
  /\ state' = [state EXCEPT ![currentRunningTask] = "RECEIVE_BLOCK"]
  /\ sendQ' = Enqueue(sendQ, r, currentRunningTask)
  /\ mode' = "kernel"
  /\ UNCHANGED <<notQuit, tid_counter, currentRunningTask, priority, ready, events, server>>

kernel_send(r) == SendRefused(r) \/ SendToWaiting(r) \/ SendToBusy(r)

\* Mutant: the whole sendQ is cut off with its head.
ReceiveDropsRest ==
  /\ Syscall
  /\ sendQ[currentRunningTask] # <<>>
  /\ LET sender == Head(sendQ[currentRunningTask]) IN
       /\ state' = [state EXCEPT ![sender] = "REPLY_BLOCK",
                                 ![currentRunningTask] = "READY"]
       /\ server' = [server EXCEPT ![sender] = currentRunningTask]
  /\ sendQ' = [sendQ EXCEPT ![currentRunningTask] = <<>>]
  /\ AppendOne(currentRunningTask)
  /\ mode' = "kernel"
  /\ UNCHANGED <<notQuit, tid_counter, currentRunningTask, priority, events>>

\* A sender is queued: its message is taken and it awaits the reply.
ReceiveQueued ==
  /\ Syscall
  /\ sendQ[currentRunningTask] # <<>>
  /\ LET sender == Head(sendQ[currentRunningTask]) IN
       /\ state' = [state EXCEPT ![sender] = "REPLY_BLOCK",
                                 ![currentRunningTask] = "READY"]
       /\ server' = [server EXCEPT ![sender] = currentRunningTask]
  /\ sendQ' = Dequeue(sendQ, currentRunningTask)
  /\ AppendOne(currentRunningTask)
  /\ mode' = "kernel"
  /\ UNCHANGED <<notQuit, tid_counter, currentRunningTask, priority, events>>

\* Mutant: the sendQ is not looked at.
ReceiveAlwaysWaits ==
  /\ Syscall
  /\ state' = [state EXCEPT ![currentRunningTask] = "SEND_BLOCK"]
  /\ mode' = "kernel"
  /\ UNCHANGED <<notQuit, tid_counter, currentRunningTask, priority,
                 ready, sendQ, events, server>>

ReceiveWait ==
  /\ Syscall
  /\ sendQ[currentRunningTask] = <<>>
  /\ state' = [state EXCEPT ![currentRunningTask] = "SEND_BLOCK"]
  /\ mode' = "kernel"
  /\ UNCHANGED <<notQuit, tid_counter, currentRunningTask, priority,
                 ready, sendQ, events, server>>

kernel_receive == ReceiveQueued \/ ReceiveWait

ReplyRefused(s) ==
  /\ Syscall
  /\ s \notin Created \/ state[s] # "REPLY_BLOCK"
  /\ Requeue

\* Mutant: the state of the sender is not looked at.
ReplyUnchecked(s) ==
  /\ Syscall
  /\ s \in Created \ {currentRunningTask}
  /\ state' = [state EXCEPT ![s] = "READY", ![currentRunningTask] = "READY"]
  /\ AppendTwo(s, currentRunningTask)
  /\ server' = [server EXCEPT ![s] = NULL]
  /\ mode' = "kernel"
  /\ UNCHANGED <<notQuit, tid_counter, currentRunningTask, priority, sendQ, events>>

\* The replier need not be the task that received the message.  The sender
\* is appended before the replier.
ReplyDelivered(s) ==
  /\ Syscall
  /\ s \in Created
  /\ state[s] = "REPLY_BLOCK"
  /\ state' = [state EXCEPT ![s] = "READY", ![currentRunningTask] = "READY"]
  /\ AppendTwo(s, currentRunningTask)
  /\ server' = [server EXCEPT ![s] = NULL]
  /\ mode' = "kernel"
  /\ UNCHANGED <<notQuit, tid_counter, currentRunningTask, priority, sendQ, events>>

kernel_reply(s) == ReplyRefused(s) \/ ReplyDelivered(s)

\* The error code is stored and the handler returns, but the caller is not
\* ready again (AWAITEVENT > SYSCALL_REPLY): it stays ACTIVE, in no queue.
AwaitRefused(e) ==
  /\ Syscall
  /\ e = BadEvent \/ (e \in Event /\ eventWaitingTask[e] # NULL)
  /\ mode' = "kernel"
  /\ UNCHANGED <<notQuit, tasks, ready, sendQ, events, server>>

AwaitAccepted(e) ==
  /\ Syscall
  /\ e \in Event
  /\ eventWaitingTask[e] = NULL
  /\ state' = [state EXCEPT ![currentRunningTask] = "EVENT_BLOCK"]
  /\ eventWaitingTask' = [eventWaitingTask EXCEPT ![e] = currentRunningTask]
  /\ mode' = "kernel"
  /\ UNCHANGED <<notQuit, tid_counter, currentRunningTask, priority,
                 ready, sendQ, pending, server>>

kernel_awaitevent(e) == AwaitRefused(e) \/ AwaitAccepted(e)

-----------------------------------------------------------------------------
(* Interrupts.  The interrupted task is made ready before the handler runs. *)

Raise(e) ==
  /\ mode = "user"
  /\ e \in Event \ ({0} \cup pending)
  /\ pending' = pending \cup {e}
  /\ UNCHANGED <<mode, notQuit, tasks, ready, sendQ, eventWaitingTask, server>>

\* Mutant: the interrupted task is not made ready.
DeliverToSubscriber(e) ==
  /\ LET subscriber == eventWaitingTask[e] IN
       IF subscriber = NULL THEN UNCHANGED <<state, ready>>
       ELSE state' = [state EXCEPT ![subscriber] = "READY"] /\ AppendOne(subscriber)
  /\ eventWaitingTask' = [eventWaitingTask EXCEPT ![e] = NULL]
  /\ mode' = "kernel"
  /\ UNCHANGED <<notQuit, tid_counter, currentRunningTask, priority, sendQ, server>>

\* The common end of the handler: the subscriber of the event, if there is one,
\* is woken after the interrupted task; with no subscriber the event is lost.
Deliver(e) ==
  /\ LET subscriber == eventWaitingTask[e] IN
       IF subscriber = NULL
       THEN /\ state' = [state EXCEPT ![currentRunningTask] = "READY"]
            /\ AppendOne(currentRunningTask)
       ELSE /\ state' = [state EXCEPT ![currentRunningTask] = "READY",
                                      ![subscriber] = "READY"]
            /\ AppendTwo(currentRunningTask, subscriber)
  /\ eventWaitingTask' = [eventWaitingTask EXCEPT ![e] = NULL]
  /\ mode' = "kernel"
  /\ UNCHANGED <<notQuit, tid_counter, currentRunningTask, priority, sendQ, server>>

\* One event per interrupt, the first in the order of the tests.
kernel_handle_interrupt(e) ==
  /\ mode = "user"
  /\ e \in pending
  /\ \A f \in pending : e <= f
  /\ pending' = pending \ {e}
  /\ Deliver(e)

\* The UART1 line is up without its modem-status bit: event stays 0, no line is
\* cleared, and the later tests (the timer) are skipped.
SpuriousInterrupt ==
  /\ mode = "user"
  /\ \A f \in pending : f > ModemEvent
  /\ Deliver(0)
  /\ UNCHANGED pending

-----------------------------------------------------------------------------
UserStep ==
  \/ \E p \in Priority : kernel_createtask(p)
  \/ CreateExhausted
  \/ kernel_pass
  \/ kernel_exit
  \/ \E r \in Tid : kernel_send(r)
  \/ SendToSelf
  \/ kernel_receive
  \/ \E s \in Tid : kernel_reply(s)
  \/ \E e \in Event \cup {BadEvent} : kernel_awaitevent(e)

InterruptStep ==
  \/ \E e \in Event : kernel_handle_interrupt(e)
  \/ SpuriousInterrupt

Next ==
  \/ Schedule
  \/ Close
  \/ UserStep
  \/ kernel_quit
  \/ \E e \in Event : Raise(e)
  \/ InterruptStep

Spec == Init /\ [][Next]_vars

\* The loop never waits once it has control, and no task keeps the CPU for
\* good: it traps, or the timer interrupts it.
Fairness == WF_vars(Schedule) /\ WF_vars(Close) /\ WF_vars(UserStep \/ InterruptStep)

FairSpec == Spec /\ Fairness
-----------------------------------------------------------------------------
(* Properties *)

\* Every variable holds a value of its type.
TypeOK ==
  /\ mode \in {"kernel", "user", "closed", "asserted", "corrupt"}
  /\ notQuit \in BOOLEAN
  /\ tid_counter \in 2 .. MaxTask
  /\ currentRunningTask \in Tid \cup {NULL}
  /\ state \in [Tid -> TaskState]
  /\ priority \in [Tid -> Priority]
  /\ taskReadyQueues \in [Priority -> Seq(Tid)]
  /\ queueFullMask \in SUBSET Priority
  /\ sendQ \in [Tid -> Seq(Tid)]
  /\ eventWaitingTask \in [Event -> Tid \cup {NULL}]
  /\ pending \in SUBSET (Event \ {0})
  /\ server \in [Tid -> Tid \cup {NULL}]

\* Queue x of q has t in it, and no queue of q has a task twice.
Holds(q, x, t) == \E i \in DOMAIN q[x] : q[x][i] = t
NoRepeats(q)   == \A x \in DOMAIN q : \A i, j \in DOMAIN q[x] :
                    q[x][i] = q[x][j] => i = j

ReadyTasksLinked ==
  /\ NoRepeats(taskReadyQueues)
  /\ \A p \in Priority, t \in Tid : Holds(taskReadyQueues, p, t) =>
       t \in Created /\ state[t] = "READY" /\ priority[t] = p

SendersLinked ==
  /\ NoRepeats(sendQ)
  /\ \A r, t \in Tid : Holds(sendQ, r, t) =>
       t \in Created \ {r} /\ state[t] = "RECEIVE_BLOCK"
  /\ \A r, q, t \in Tid : Holds(sendQ, r, t) /\ Holds(sendQ, q, t) => r = q

WaitersRegistered ==
  /\ \A e \in Event : eventWaitingTask[e] # NULL =>
       eventWaitingTask[e] \in Created /\ state[eventWaitingTask[e]] = "EVENT_BLOCK"
  /\ \A e, f \in Event :
       eventWaitingTask[e] # NULL /\ eventWaitingTask[e] = eventWaitingTask[f] => e = f

\* A task is linked where its state says, once and nowhere else: `next` is the
\* one link both the ready queues and the sendQs use, so a task in two lists,
\* or twice in one, would cut a list or close it into a cycle.
LinkedOnce == ReadyTasksLinked /\ SendersLinked /\ WaitersRegistered

\* No task is lost: one that is READY, queued on a receiver or waiting for an
\* event can be reached by the code that will make it run.  (After Close the
\* last unlinked task is dropped.)
NoTaskLost ==
  mode # "closed" =>
    \A t \in Created :
      /\ state[t] = "READY" => Holds(taskReadyQueues, priority[t], t)
      /\ state[t] = "RECEIVE_BLOCK" => \E r \in Tid : Holds(sendQ, r, t)
      /\ state[t] = "EVENT_BLOCK" => \E e \in Event : eventWaitingTask[e] = t

\* Send and Receive cannot miss each other: a task blocked in Receive has no
\* sender queued, so any later Send finds it waiting.
NoMissedRendezvous ==
  \A r \in Created : state[r] = "SEND_BLOCK" => sendQ[r] = <<>>

\* A task awaits a reply exactly while another task has its message.
ReplyAwaitedFromReceiver ==
  \A s \in Tid :
    /\ s \in Created /\ state[s] = "REPLY_BLOCK" <=> server[s] # NULL
    /\ server[s] # s

\* The bit mask names exactly the non-empty queues.
MaskMatchesQueues ==
  queueFullMask = {p \in Priority : taskReadyQueues[p] # <<>>}

\* The loop always finds a task to run: idle_task is ready whenever it is not
\* the one running, so scheduler_get never returns NULL.
SomeTaskReady ==
  mode = "kernel" => taskReadyQueues[LowestBit(queueFullMask)] # <<>>

\* What else the kernel keeps, which the invariants above rest on.
RunningTaskActive ==
  mode = "user" => currentRunningTask \in Created /\ state[currentRunningTask] = "ACTIVE"

IdleReady ==
  /\ mode = "kernel" => state[idleTid] = "READY"
  /\ mode = "user" /\ currentRunningTask # idleTid => state[idleTid] = "READY"

\* The inductive invariant.
KernelInv ==
  /\ TypeOK
  /\ LinkedOnce
  /\ NoTaskLost
  /\ NoMissedRendezvous
  /\ ReplyAwaitedFromReceiver
  /\ MaskMatchesQueues
  /\ RunningTaskActive
  /\ IdleReady

\* The CPU goes to a task that no READY task outranks.
HighestPriorityRuns ==
  [][mode = "kernel" /\ mode' = "user" =>
       \A t \in Created : state[t] = "READY" =>
         priority[currentRunningTask'] <= priority[t]]_vars

\* A task that the kernel let go of without linking it anywhere.
OnCpu(t)    == t = currentRunningTask /\ mode \in {"user", "asserted", "corrupt"}
Stranded(t) == t \in Created /\ state[t] = "ACTIVE" /\ ~OnCpu(t)

\* A task whose AwaitEvent was refused is gone for good: no system call of
\* another task and no interrupt ever makes it run again.
StrandedForever ==
  [][\A t \in Tid : Stranded(t) => Stranded(t)']_vars

\* An exiting task takes its senders with it: a task queued on a ZOMBIE
\* stays queued, nothing receives from it, replies to it or wakes it.
OrphansStayBlocked ==
  [][\A r \in Created, t \in Tid : state[r] = "ZOMBIE" /\ Holds(sendQ, r, t) =>
       state'[r] = "ZOMBIE" /\ Holds(sendQ, r, t)' /\ state'[t] = "RECEIVE_BLOCK"]_vars

Running == mode \in {"kernel", "user"}

\* Round robin at the top priority: a READY task of priority 0 gets the CPU,
\* whatever the other tasks and the interrupts do.
TopPriorityRuns ==
  \A t \in Tid : t \in Created /\ state[t] = "READY" /\ priority[t] = 0
                 ~> state[t] = "ACTIVE" \/ ~Running

\* Receive is fair: while a task keeps calling Receive with senders queued,
\* each queued sender is served.
SendersAreServed ==
  \A r, s \in Tid :
    []<><<ReceiveQueued /\ currentRunningTask = r>>_vars
      => (Holds(sendQ, r, s) ~> ~Holds(sendQ, r, s))
-----------------------------------------------------------------------------
(* The refinement: what each task is doing, read off the kernel's tables. *)

PhaseName == [ACTIVE |-> "runnable", READY |-> "runnable",
              RECEIVE_BLOCK |-> "sending", REPLY_BLOCK |-> "awaiting",
              SEND_BLOCK |-> "receiving", EVENT_BLOCK |-> "paused",
              ZOMBIE |-> "gone"]

PhaseOf(t) ==
  IF t \notin Created THEN "absent"
  ELSE IF Stranded(t) THEN "stranded"
  ELSE PhaseName[state[t]]

PeerOf(t) ==
  IF \E r \in Tid : Holds(sendQ, r, t) THEN CHOOSE r \in Tid : Holds(sendQ, r, t)
  ELSE server[t]

SRR == INSTANCE Rendezvous WITH
         First <- {idleTid, task1Tid}, Silent <- idleTid, None <- NULL,
         phase <- [t \in Tid |-> PhaseOf(t)],
         peer  <- [t \in Tid |-> PeerOf(t)]

\* Every step of the kernel is a step of Send-Receive-Reply or changes nothing
\* a task can tell: no message is taken twice, no sender continues unanswered,
\* and no receiver waits while a sender is queued for it.
ImplementsRendezvous == SRR!Spec
=============================================================================
