# A verification project for choochoo

choochoo is a real-time microkernel for an ARM board (TS-7200) with train-control
programs on top of it (`src/kernel`), next to an older RTX for a ColdFire board
(`src/os`). This directory models the parts whose correctness rests on the order in
which things happen. TLC checks the models on small instances; TLAPS proves that the
kernel implements Send-Receive-Reply for any number of tasks, priorities and interrupt
lines, that its linked lists are FIFO queues, and the main invariants of the lock, the time
server, the IO servers, the train drivers and the RTX.

Names in the modules are the names of the source wherever TLA+ allows it.

## 1. Inventory

### The microkernel (`src/kernel/kernel.c`, `Scheduler.c`, `TaskQueue.c`, `memory.c`, `syscall.c`)

* **State.** The task table `tds` (state, priority, `next`, `sendQ`, messages, stack
  pointer), one intrusive FIFO per priority with a bit mask of the non-empty ones,
  `eventWaitingTask[]`, `tid_counter`, `currentRunningTask`, `notQuit`.
* **Operations.** Create, Exit, Pass, MyTid, MyParentsTid, Send, Receive, Reply,
  AwaitEvent, `kernel_quit`, and the interrupt handler.
* **Interaction.** A task traps into the kernel, or an interrupt stops it; the kernel
  runs one handler with interrupts masked and picks the next task.
* **Hard.** Interrupts arrive between any two instructions of any task. The ready
  queues and the sendQs share one link. Which handler makes its caller ready is split
  between the handlers and a comparison of system call numbers in the loop.
* **Correct when** no task is linked twice or lost, Send and Receive cannot miss each
  other, a sender continues only after a reply, the most urgent ready task runs, and
  the loop always finds a task.

### The servers (`src/kernel/task`)

| part | state | operations | what is hard |
|---|---|---|---|
| time server (`TimeServer.c`) | tick count, 32 slots, list sorted by wake-up time | Time, Delay, DelayUntil, ticks from a notifier | ticks and requests share one sendQ; the slots are a free list with no exhaustion check; 24-bit times |
| lock service (`Lock.c`) | one flag | LOCK, UNLOCK, and the retry loop in `lock()` | the loop's exit condition mixes two answers; anybody may unlock |
| IO servers (`IoServer.c`, `IoBuffer.c`, `IoHelper.c`) | send and receive rings, one waiter, CTS and TX flags | getc, putc, putstr, flush; receive, transmit and modem interrupts | two interrupts must both arrive, in either order, before a byte may go out |
| name server (`NameServer.c`) | 22 name slots | RegisterAs, WhoIs | an unknown name is answered with a valid tid |
| user interface (`UserInterface.c`) | the display | drawing | output |

### The train programs (`src/kernel/train`, `src/kernel/track`)

| part | state | operations | what is hard |
|---|---|---|---|
| sensor server (`Sensor.c`) | query flags, last answers, the couriers of its subscribers | query, answer, timeout, subscription | an answer races its timeout; a courier may be busy |
| track server (`Track.c`, `TrackHelper.c`) | switches and the owner of each edge | reserve, release, replace, route, landmarks | partial reservations; two trains and one edge |
| drivers (`DumbDriver.c`, `MultiTrainDriver.c`, `DriverHelper.c`, `DriverHelperTask.c`, `DriverController.c`) | position, speed, stop mode, route and reserved edges of a train; the members of a group | speed, sensor, route, reverse, merge, separate | courier tasks, replies that are made early, late or twice by mode and sender, stop counts |
| command clients (`CommandDecoder.c`, `RandomController.c`, `SnakeDirector.c`) | a line of input; a train to drive at random; the snake and its pieces | routes, speeds, position finding, merges; `q` stops the kernel | three tasks (`main.c`, 102-104) command the same drivers; the kernel is entered without a trap |
| physics and data (`Poly.c`, `CalibrationData.c`, `track_data.c`, `TrackPresetRoute.c`, `calibration.c`) | tables and fixed-point formulas | lookup | data |

How they interact: a driver asks its dumb train for the state of the train and the
track server for reservations and routes, with Send; couriers carry what goes the other
way, as no server may block in Send to a client. The sensor server tells a watcher per
train. A group of trains is a head and its tails: the head reserves track for all.

**Correct when** both directions of a piece of track have one owner and granted track
stays granted; a report names the sensor that was triggered and reaches each subscriber
once, in order, unless an answer comes late and a byte of it is lost; a driver in Send to
another is never left without an answer, whatever the mode of the receiver; a member of a
group follows one head and holds nothing in its own name.

`Driver.c` and `idle.c` are compiled out, `CalibrationTask.c` and `kernel/misc` are
measurements and tests that `main.c` does not start, `bwio.c` is polled output.

### The RTX (`src/os`)

A preemptive kernel with mailboxes, memory blocks handed out under blocking, process
queues per state, a timer process with delayed messages, keyboard decoder, display,
wall clock and test processes. Its listings, `.s19` images and maps are build products.

* **State.** One intrusive queue per priority and one each for processes that wait for
  memory or mail, the free blocks, a mailbox per process, the timer's list of delayed mail.
* **Hard.** A call that blocks switches processes in the middle of its loop. The queue
  of a process follows from a state field that others set. A released block is given to
  nobody: the woken process has to ask again, and may find it gone.
* **Correct when** each process is in the one place its state names, the running one is
  outranked by none, no block is idle while processes wait, delayed mail is on time.

## 2. Modules

| module | what it is | source |
|---|---|---|
| `Kernel` | the microkernel | `kernel.c`, `Scheduler.c`, `TaskQueue.c`, `main.c` |
| `Rendezvous` | what Send, Receive and Reply promise; no queues, no scheduling | abstract |
| `KernelProofs` | the theorems about `Kernel`, and that it implements `Rendezvous` | |
| `TaskLists` | the linked lists, pointer by pointer, and the De Bruijn lookup | `TaskQueue.c`, `kernel.c` |
| `TaskQueues` | the same lists as FIFOs | abstract |
| `TaskListsProofs` | the theorem that `TaskLists` implements `TaskQueues` | |
| `Lock` | `lock_task`, `lock()`, `unlock()` and the trains around FIND_POSITION | `Lock.c`, `MultiTrainDriver.c` |
| `TimeServer` | server, notifier and clients | `TimeServer.c` |
| `TimeServerProofs` | the theorems about `TimeServer` | |
| `IoServer` | both IO servers, notifiers, byte rings and the UART | `IoServer.c`, `IoBuffer.c` |
| `IoServerProofs` | the theorems about `IoServer` | |
| `TrackData` | both layouts, node by node | `track_data.c` |
| `Track` | the track server: reservation, release, switches, predicted sensors | `Track.c`, `TrackHelper.c`, `track_node.h` |
| `TrackProofs` | the theorems about `Track`, and those about `Lock` | |
| `SensorServer` | the sensor server, its workers and courier, the line and the watchers | `Sensor.c` |
| `SensorServerProofs` | the theorems about `SensorServer` | |
| `TrainGroup` | drivers, dumb trains, stop delayers, couriers and the clients | `MultiTrainDriver.c`, `DumbDriver.c`, `DriverController.c`, `DriverHelper.c`, `DriverHelperTask.c` |
| `TrainGroupProofs` | the theorems about `TrainGroup` | |
| `Rtx` | the RTX kernel with both i-processes | `rtx.c`, `kernel.c`, `scheduler.c`, `ProcessQueue.c`, `Mailbox.c`, `timer0.c`, ... of `src/os` |
| `RtxProofs` | the theorems about `Rtx` | |
| `MC*` | the instances for TLC | |

### Kernel

`kernel_runloop` alternates between scheduling and one kernel entry, so a turn of the
loop is two steps. `Schedule` unlinks the first task of the most urgent queue
(`next_ready_task`) and hands it the CPU (`mode = "user"`). Then one entry runs a whole
handler: a system call (`kernel_createtask`, `kernel_send`, `kernel_receive`,
`kernel_reply`, `kernel_awaitevent`, `kernel_exit`, `kernel_pass`) or an interrupt
(`kernel_handle_interrupt`, `SpuriousInterrupt`), and `mode` is `"kernel"` again.
Handlers run with interrupts masked, so nothing interleaves inside one; between entries
everything does, because any task but `idle_task` may make any call with any argument
and `Raise` may raise any line while a task runs. The models of the servers and trains
are therefore special cases of what `Kernel` allows, and what it shows holds for every
user program.

Which tasks are made ready, and in which order, follows the code: a handler with two
tasks to append appends first the receiver, the sender or the new task and then the
caller; an interrupt appends the interrupted task before the subscriber.

Two points where the code leaves its own tables are ends of the model, after which
nothing is claimed: Create with every stack handed out (`"corrupt"`) and a Send to
oneself, which an assertion stops (`"asserted"`). `Close` ends the loop after
`kernel_quit`; as in the code one task is unlinked before the flag is tested.
`kernel_quit` itself is called by `CommandDecoder.c` as a plain function, without a trap.

`server` is a history variable, the task that has a blocked sender's message. Message
bytes, registers, parents and idle-time accounting are abstracted.

### Rendezvous, and how Kernel implements it

`Rendezvous` gives each task a phase and each sender a peer. The mapping (`PhaseOf`,
`PeerOf`) reads both off the kernel's tables: RECEIVE_BLOCK is sending, REPLY_BLOCK
awaiting, SEND_BLOCK receiving (the names say what the task needs next), an ACTIVE task
off the CPU is stranded. A sender's peer is the task whose sendQ it is in, and later the
task that has its message. `Schedule`, `Raise` and the requeueing calls change nothing
here, so they map to stuttering.

### TaskLists and TaskQueues

`append_task`, `next_ready_task` and the two loops over `sendQ` as assignments to
`next`, `begin`, `end`, `queueFullMask` and `sendQ`. `place` records where the last
operation put a task; the guards on it are the discipline of the callers, which
`Kernel`'s `LinkedOnce` shows they keep. The lists are mapped to sequences by following
`next`. `MCTaskLists` also evaluates the De Bruijn lookup for each of the 32 bits.

### Lock

A request and the answer of `lock_task` are separate steps; a train between them is
blocked in Send. `lock()` goes round while the answer is NO and `Delay` returns
something but zero. `Delay` returns the length of the time server's reply, which is
empty: `DelayReturns == 0`.

### TimeServer

A turn of the server is one step: take the first message of the sendQ, handle it, and
then (every turn) answer the tasks that are due and free their slots. The notifier is a
task of its own (`AwaitTick`, `Tick`). A timer interrupt that finds it elsewhere is
dropped by the kernel and is a stuttering step here. `taskSlots` is the free list, a
stack: a request takes its top slot, and each task that is answered pushes its own
(`Freed`). `ServeOverflow` is a request that finds the stack empty, which the code does not
test; nothing is claimed after it. `due`, in an entry of the list, is history: the tick the
client asked for, before it is cut to 24 bits (`Wrap`). The assertions admit negative
arguments; as all of the marks of a message are bits that a negative number has, both Delay
and DelayUntil count it from now (`Relative`).

### IoServer

One module for both servers; `port` says which, and COM2 has no CTS (`cts` stays up).
A turn of the server is two steps, as its Reply to a notifier is a point where the
notifier, which outranks it, runs: first Receive and handle one message (`ServeRx`,
`ServeTx`, `ServeMs`, `ServePut`, `ServeGet`), then `Output`, the attempt to write at the
end of every turn. `NotifiersFirst` is the priority. A notifier between AwaitEvent and
the answer to its Send is not waiting, and an interrupt that comes then is dropped
(`Forward`). `MsInterruptRaced` is a rise of CTS between the two register accesses of
the kernel's handler. The UART (`holding`, `shifter`, `rxData`, `tien`, `msPending`) and
the device (`device`: CTS up or down) are modelled from how the code uses them. Bytes
are numbers in the order of the calls, so order, loss and duplication show.

The model starts at the server's first Receive, with the notifiers waiting (they outrank
it and nothing else can send to it before) and the UART idle (`flushGarbage` has waited
half a second). The train controller may have CTS up or down.

### TrackData and Track

`TrackData` is `track_data.c` as rows: type, number and reverse of a node, and for each
edge its destination, length and reverse. Nothing is cut, so the instance is the real
track. `Track` is `trackController`: each message is one step, as the server answers one
at a time and changes nothing between. A step is the whole handler: for
`RELEASE_OLD_N_RESERVE_NEW` (`ReserveNew`) a dry run from each start node, which marks edges
and takes the marks back, then the release of the train's edges and the reservation proper.
`reserveEdges` walks from each start node until the distance is used up, marks both
directions of an edge and, at a switch, the other leg. Two variables are history: `held`,
the last request each train was granted, with the sensors predicted for it, and `dropped`,
the trains whose last reservation failed behind a dry run that went through, so that the old
one was gone (see below). The properties of granted track are about the others.

`reserveEdges` and `findNextSensorsHelper` are recursive functions of their parameters
(`Calls`, `Searches`); `Visit` and `Look` are their bodies. `LayoutAssumption` says what both
tables of `track_data.c` have in common, and TLC evaluates it on them: the edge of the other
direction starts at the reverse of the node it leads to, the reverse of a branch is a merge and
only a branch has two edges, only edges between switches are without length, and every circle
has a sensor on it (`Unsensed`); and for the double switches of the centre (`CentreIsClosed`)
that their legs lead straight to an exit and to a sensor.

What the code does and a reader may not expect, all of it in the model:
`findNextSensorsHelper` passes `SWITCH_CURVED` for both legs (lines 378 and 387), so a
curved switch that failed is never corrected by `UPDATE_SWITCH_STATE`; `SET_TRACK` drops
every reservation; what the calls of the reservation proper return is ignored, and a
failure among them shows only in the landmark of the answer (`clash`).

The last is worse than it looks. `kernel/TODO`, lines 21 to 28, wants a request that can not be
granted to do nothing and return an error. The dry run can not always tell: it is made
while the train still has its old reservation, and `reserveEdges` returns at once at a node
the train has when no distance is left (lines 62 to 67), so it never looks behind that node.
Then the old reservation is dropped (lines 766 to 769), and the same calls, now in earnest, go
further, meet another train's track and fail. The train is left without the track it stands
on. The `track` run reaches such states: one train at C16 has been granted its predictions,
another stands at D12, and the first, turned around, asks for C5. `dropped` names these trains,
and what is checked and proved is that nobody else is hurt: the others keep what they were
granted, and an owner is never recorded for one direction only.

### SensorServer

A tick is the time a byte takes on the line (11 bits at 2400 baud, 4.6 ms). In each the
train controller sends a byte of an answer (`ByteTick`), which the line may lose, or none
(`QuietTick`), and both timers count. `Query` only adds the query to COM1's output ring
(`Putc`, `Sensor.c`, 34), where it waits behind speeds and switch settings for any length of
time; `Sensor.c`, 202-204, speaks of that backlog. Queries that wait are answered one by
one, never one in the middle of another. `late` and `lost` are history: that an answer began
more than `Latency` ticks after its query was the next in the ring, and that a byte was lost.
`Response`, `QueryTimeout` and `ResponseTimeout` are the other workers, `Serve` a turn of the
server, `Deliver` the courier, `Watch` a watcher that subscribes or comes back, `FakeTrigger`
a user who fakes a sensor. The workers and the
courier run only when the server's inbox is empty, because the server outranks them. An
answer is `Bytes` bytes without framing: which sensor a byte belongs to follows from its
place, and `pos` beside `sensor` in a report shows whether they still agree. One bit stands
for the eight sensors of a byte.

`courierReady` is never cleared in the code. The server may answer a courier that is
still delivering; the kernel refuses that and the report counts as told. The model has
that loss, and the properties are about what is told after it.

### TrainGroup

Each train has a driver, a dumb train, a stop delayer and couriers. A handler of the
driver is several steps when it sends: `Receive` runs the handler up to its first Send and
leaves the rest in `todo`; `SendOwn`, `SendTail` and `Answer` work it off, and a driver in
Send to another is `blocked` until somebody replies to it. In tail mode a driver passes
messages on, down to its train or up to the head (`Relays`). `FindReceive` is the loop of
FIND_POSITION, which replies to everything, drops it, and creates another nagger when it
ends. Replies to a courier that is away are refused and lost, as the kernel does it; the
courier a tail passes messages on with is home only when its next Send has been received
(`Returning`).

Commands come from several clients, as `main.c`, 102-104, starts the command decoder, the
random controller and the snake director, and each may give any of them to any driver. A
client is in Send to trainController until the driver replies, and trainController
passes its command on without waiting for that (`DriverController.c`, 51-53). So
commands of others fall between the two halves of a merge (`DoTrainMerge`, `TellHead`). A
command that waits for trainController has not been sent yet in the model, and
trainController takes the next one when the driver has received the last: at most one
client's message is in the inboxes at any time.

QUERY_STOPPING_DISTANCE is answered twice by a tail, at once (`MultiTrainDriver.c`, 350) and
when its train has answered (654). The second reply goes to whatever Send the head is then
blocked in. `Answer` has all the cases: the Send is taken as answered, with a made-up value
if it was a question (`Mistaken`) and although the one asked has yet to answer; or the reply
is refused; or the head was waiting for a server, whose own answer comes later (`stray`,
`LateAnswer`). The same happens in turn to the Send that one arrives in.

Simplifications, each weaker than the code or equal to it: a dumb train answers a
driver's Send before anything else moves (`Settled`); the lock returns at once (see
`Lock` for when it does); what the track server and the user interface answer is left
open, one outcome each; speeds are 0, 1 and reverse; sensors, distances and routes are
nondeterministic; a client is answered when a handler starts. `SET_FOLLOWING_DISTANCE`
only replies, as the distances it stores are left out. Commands to all trains
(`BROADCAST_*`), which no driver handles, and `SEPARATE_TAIL`, which nothing sends, are left
out.

What the code does and the model includes: a second stop before the first has taken
effect wakes the stop delayer early, so STOP_COMPLETED can come from a moving train;
a prediction made in the turn that asks for a reroute is lost, because the courier is
away; a train can become a tail of a tail, against the comments in `MultiTrainDriver.c`
(lines 596, 608, 620, 650) that only one train is there in tail mode; two merges crosswise
make two trains tails of each other, who then pass a report to and fro; and a tail replies to
no MERGE_TAIL or MERGE_HEAD, so the client that sent it stays blocked.

### Rtx

A call is a trap with interrupts masked and is one step up to where it blocks; `k.call`
says where the process goes on when it is chosen again, in the middle of the loop of
`kernel_request_memory_block` or `kernel_receive_message`. The i-processes run to their
end on top of the interrupted process (`c_timer_handler`, `c_serial_handler`). Any
process may make any call at any time, which includes what the processes of `src/os` do.
The trap of `set_process_priority` is commented out (`rtx.c`, 118-122), so priorities are
constants. Mail sent straight to the timer is dropped, and a delayed message arrives in
the timer's name, as in the code.

## 3. Runs

| run | instance | checks | states |
|---|---|---|---|
| `kernel` | 4 tasks, 3 priorities, 2 interrupt lines | the invariants and the action properties of `Kernel` | 586,545 |
| `kernel_live` | 4 tasks, 2 priorities, 1 line | the refinement of `Rendezvous`, and fairness of the queues | 105,515 |
| `task_lists` | 4 tasks, 3 priorities | every list ends; the refinement of `TaskQueues` | 9,612 |
| `lock` | 3 trains | the flag is not leaked; `lock()` returns | 1,254 |
| `lock_exclusion` | 2 trains | violated: see section 6 | |
| `time_server` | 3 clients, 2 slots, arguments -1 and 2, 3 ticks | the list, its slots, early and lost wake-ups | 35,989 |
| `time_server_wrap` | 1 client, 3-bit times | violated: see section 6 | |
| `io_server` | both ports, rings of two bytes, 3 bytes out, 2 bytes in | order, loss, overrun, stalls | 286,779 |
| `track` | both real layouts, 2 trains, 6 positions, 300 mm or standing, switch 14 | owners of edges, granted track, predicted sensors, refused dry runs | 876 |
| `sensor_server` | 2 bytes per answer, 2 subscribers, 2 triggers | true reports, their order, recovery from lost bytes | 914,249 |
| `train_group` | 2 trains, 2 clients, 2 commands or merges, 1 sensor or nag | members follow, answers, circles | 2,586,858 |
| `rtx` | 3 processes, 2 blocks, 2 delays, 3 ticks | process queues, memory, delayed mail | 119,282 |

What the properties say:

* `LinkedOnce`, `NoTaskLost`: a task is in the one list its state names, once. The
  shared `next` link makes anything else a cut list or a cycle.
* `NoMissedRendezvous`: a task blocked in Receive has no sender queued.
* `SomeTaskReady`: the loop never runs out of tasks; its other exit is dead code.
* `HighestPriorityRuns`: no ready task outranks the one that gets the CPU, which needs
  the mask to be exact.
* `StrandedForever`: a refused AwaitEvent is the end of its caller. The error code is
  stored, but the caller is in no queue, and no later call or interrupt puts it in one.
* `OrphansStayBlocked`: tasks queued on an exiting task wait for ever. Both
  describe what the code does, so that a program can be written with it in mind.
* `TopPriorityRuns`, `SendersAreServed`: FIFO order makes both fair.
* `ListsEnd`: from each `begin` the links lead to `end` and from each `sendQ` to a last
  sender, so that no walk along them goes in a circle or into another list.
* `FreeWhenUnused`: although trains go in without the lock and free it for others, it
  is free once all have left. `LockReturns`: the retry loop ends even if the holder
  never unlocks, which is the other side of the finding below.
* `ListSortedAndCurrent`, `BlockedClientsAccounted`: the list is sorted and nobody in it is
  overdue, and each blocked client is in one place. `SlotsAccounted`: a slot is free or holds
  one waiting task. One freed twice would be handed out while it is linked; one not freed
  would let the list overflow while fewer clients wait than there are slots. `NeverEarly`,
  `DelaysEnd`, `RequestsServed`: a delay ends, and not before its tick.
* `BytesInOrder`, `LossOnlyWhenFull`: the rings wrap around, drop bytes when they are
  full, and otherwise lose, repeat and reorder none.
* `NoOverrun`: the server writes only to an empty UART and, on COM1, to a device whose
  CTS is really up, however late the interrupts and messages are that say so. It follows
  from `HandshakeInv`, which is also what makes the TX interrupt reliable.
* `OutputDrains`: a byte in the ring leaves, unless a rising CTS was lost (`missed`).
  Then the line stalls for good, as nothing reads the flags again; a train controller
  that keeps CTS down longer than a notifier needs never loses an edge.
* `ReaderServed`: a Getc and a byte do not miss each other.

* `OwnersAgree`: an edge is one direction of a piece of track and its owner is kept
  twice; no order of requests, refusals and releases makes the two differ.
* `GrantedIsHeld`: until a train releases its request or a later one of its own fails in
  earnest, it owns every piece of track it can touch within the distance it asked for,
  whichever way the switches lie, and every way into those switches. Neither another
  train's request, granted, refused or dropped, nor a dry run takes any of it.
* `PredictedSensorsCount`: the sensors a driver was told to expect, those behind a failed
  switch or sensor too, lie on its own track; otherwise it would ignore the trigger. It is
  about a train alone and about groups whose trains stand `Together`: all but the last on
  track that another one has within its stopping distance. Where the trains of a group stand
  apart and face each other it is not true: the walk for one comes to a switch that the walk
  for the other has marked from behind, and stops before the sensor beyond the next switch.
* `DryRunChangesNothing`: the dry run has already marked and unmarked edges when it finds
  out that it must refuse, and leaves each with the owner it had, as long as no train has
  lost its track to a reservation that failed in earnest: what such a train is left with may
  be half of a double switch, and a dry run may then drop the other half.
* `ReportsAreTrue`: no byte is taken for another sensor's when the line loses bytes, unless
  an answer was late, and none when it loses nothing, however late the answers come. An
  answer's timer starts with its first byte that arrives, and when it ends the next answer
  has brought fewer bytes than this one has lost, so that the two together are never taken
  for a complete answer. With the delays of the code (100 ms and 70 ms, 21 and 15 bytes on
  the line) an answer is in time only within less than five byte times, some 20 ms, of its
  query's turn in COM1's ring (`SensorAssumption`); speeds and switch settings ahead of
  the query use that up easily, and then one lost byte can make a report name the wrong
  sensor. It also rests on an empty input ring at the start: with `MaxStale` at 1 it fails,
  as every answer is then one byte late until a byte is lost.
* `ToldInOrder`: a watcher hears reports in order and none twice, also when a courier's
  reply is refused or somebody subscribes in between.
* `AnswersGetThrough`: with two timers, four flags and lost bytes, the server always gets
  back to complete answers, unless bytes are lost again and again.
* `MembersFollow`: whoever is in a head's list is in tail mode, reports to that head and no
  other, and has no reservation of its own, which would never be given up and would block its
  own group. Merges of two clients overlap, and either half of one may come to a tail.
* `SendsAreOwed`: a driver in Send to another has its message in that one's inbox, or
  that one still has an answer to make. Branches of the loop reply early, late, twice or
  elsewhere, by mode and sender; none leaves a driver without an answer, and one that is
  taken for the answer to something else does not use it up.
* `NoCircularWait`: heads send to tails only, and no merge makes a circle of heads.
* `ReadyQueuesRight`: each RTX process runs or is once in the queue of its state and
  priority, and nothing ready outranks the running one.
* `NoIdleBlock`: for each free block, while processes wait for memory, there is a process
  awake to take it. A release that woke nobody would strand the others.
* `DelayedMailOnTime`: the list of delayed mail is searched only up to the first entry
  that is not due; none behind it is due either.

Every property of a passing run comes with a mutant: a definition changed the way a
bug would change it (the operators marked "mutant" in the modules, listed in
`PROJECT.json`), under which the run must find the property violated.

### Bounds, and why they are enough

* `kernel`: `idle_task` and `task1` exist at the start; two more can be created. Two
  senders on one receiver, a third party replying, and a creation with the table full
  all occur. Three priorities let a queue lie between the two others; two lines let one
  hide the other, and place the timer behind the modem line (`SpuriousInterrupt`).
* `kernel_live`: the same tasks with two priorities and one line, as the graph of a
  liveness check is searched many times. One line is enough: lines interact only in
  the choice of the first.
* `task_lists`: two tasks share a priority, so a queue reaches length two; all four can
  queue on one another, so a sendQ reaches three.
* `time_server`: with three clients and two slots the list fills up and overflows.
  The arguments -1 and 2 and `LastTick` let a delay be in the past, due at the next ticks,
  together with others, or after the timer is no longer watched. A time in the past wraps to
  one beyond the horizon, as it does at 2^24.
* `time_server_wrap`: 3-bit times stand for 24-bit ones, and the largest delay is the
  largest the assertion in `Delay` admits.
* `io_server`: with rings of two bytes, three bytes out fill a ring and make it wrap
  around, and a string of two can be cut in two by the limit; two bytes in are enough
  for one to wait in the ring and one to meet a waiting reader. The bytes are bounded by
  `MaxPut` and `MaxRx`; the theorems about the handshake have no bound.

* `track`: D4 and C2 enter the double switches of the centre from the two sides, A4 leads
  over two switches in a row; C2 follows B14 as a group of two. C16, C5
  and D12 lie around the same switches, where a reservation can fail behind its dry run.
  Groups ask 300 mm ahead when they move and 1 mm when they stand, so the requests of the two
  trains overlap in whole, in part and not at all. Switch 14 is the one that moves and fails.
  The states are few because the track is large and the requests are not; each handler walks
  the real graph. Larger distances and any other positions are the theorems' business.
* `sensor_server`: the delays of 21 and 15 byte times are scaled to 5 and 2 with 10 bytes
  scaled to 2, and a latency of 1, the longest `SensorAssumption` allows for them. Answers may
  be later than that by any time. One query waits in the ring and the next is dropped, or
  comes while an answer is under way. A buffer of three fills up with two reports.
* `train_group`: two trains, both located, so that either can be made the other's tail; two
  clients and two commands: a merge and another command that meets it half way (a route, a
  search, a stop), or two merges, crosswise or the same one twice. Two naggers of a driver
  stand for more, and one timer of a stop delayer. The theorems hold for any number of
  trains and clients and have no bound on commands.
* `rtx`: three processes and two blocks make two processes wait for the same block; delays
  0 and 2 put mail before and behind other mail; three ticks let both come due.

Deadlock is checked in `task_lists`, in the two runs of `Lock` and in `rtx`, whose null
process can always run. It is switched off
where the system does stop: after `Close`, an assertion or an exhausted Create in the
kernel, in `TimeServer` at the bound `LastTick` or after an overflow, in `IoServer`
after `flush` or at the bounds on the bytes, in `TrainGroup` when the commands are used
up or a client's command was dropped, and in `Track` and `SensorServer`, which wait for
trains and sensors.

### Fairness

* `Kernel`: the loop never waits once it has control (`Schedule`, `Close`), and no task
  keeps the CPU, because the timer interrupts it (`UserStep \/ InterruptStep`). Nothing
  is assumed of any one task or line; `SendersAreServed` names what it needs, that the
  receiver keeps calling Receive.
* `TimeServer`: the notifier has priority 0 and the server 1, above every client, and
  the timer keeps interrupting. Clients need do nothing.
* `Lock`: `lock_task` serves its sendQ in order, so each request is answered, and a
  train waiting for an answer or a delay goes on. A train inside may stay inside.
* `IoServer`: the notifiers (0) and the server (1) outrank the clients, interrupts are
  delivered, the line moves, and the train controller raises CTS again.
* `SensorServer`: time passes, the workers return from their delays and the server serves
  its inbox. COM1's ring gets sent, so a train controller that can send a byte again and
  again does (strong fairness). Nothing is assumed of the line, the sensors, the courier or the watchers;
  `AnswersGetThrough` names what it needs of the line.
* `Track`, `TrainGroup` and `Rtx` state safety only. The drivers have no retry: a group
  whose STOP_COMPLETED is lost does not go on by itself, so no progress can be claimed. In the
  RTX any process may keep its blocks for ever.

## 4. Proofs

`KernelProofs` proves, from `KernelAssumption` alone (at least two tasks, `FirstPriority`
more urgent than the idle priority, the modem line among the lines):

* `KernelInvariant`: `Spec => []KernelInv`. `KernelInv` is inductive. Its conjuncts need
  each other: that a handler may link its caller needs the caller to be in no list
  (`RunningTaskActive` with `LinkedOnce`); that a woken sender or subscriber may be
  linked needs its state to say that it is in no ready queue; that the queue picked
  through the mask is not empty needs `MaskMatchesQueues` and `IdleReady`; and
  `NoTaskLost` is what remains of a task that is unlinked and linked elsewhere.
* From it: `ListsNeverShareATask`, `NoTaskIsLost`, `NoRendezvousIsMissed`,
  `RepliesComeFromReceivers`, `MaskIsExact`, `LoopNeverStarves`, and the action
  properties `MostUrgentTaskRuns`, `RefusedAwaitStrandsForever`, `OrphansAreNeverFreed`.

The argument has three layers. `AppendToQueue` and `TakeFromQueue` say what linking and
unlinking do to any family of queues: who is held, and that nothing repeats.
`AppendSingle`, `AppendBoth` and `TakeReady` apply them to the ready queues with their
mask. Then there is one lemma per handler (`ScheduleKeeps`, `SendToBusyKeeps`, ...),
with one step per conjunct, and `NextKeeps` joins them. `OthersOnlyWoken` says what a
step can do to the state of a task that is not running; the last two theorems are its
consequences.

`IoServerProofs` proves `HandshakeInv` and `NoOverrun` for any ring size, clients and
number of bytes. The permission to write is a token: the armed TX interrupt, then the
notifier's message, then `txempty`; and in the same way the pending edge of CTS, the
message with CTS up, then `cts`. `HandshakeInv` says that each token is in one place and,
while it exists, the line is idle. The step that needs the priorities is `OutputKeeps`:
the interrupt may be armed because no notifier is on its way back to AwaitEvent. The
contents of the rings play no part in it.

`BytesInv` adds what the rings hold: `BytesStayInOrder` and `BytesLostOnlyWhenFull` are
theorems for any ring size and any number of bytes. A ring is a span of places from
tail to head around the end of the array (`SpanIs`, `NextSlot`); `Held` is the set of its
bytes, `Contents` the order in which they come out. `AddHolds` and `RemoveHolds` say what the
two operations do to both, `AddAllHolds` the same of a string. `BytesInv` then orders all
the places a byte can be in: what has left is below what is in the UART, that is below what
the ring holds, that is below the strings still in the inbox; and the same towards the reader.

`TimeServerProofs` proves `TimeInvHolds` and from it `ListIsSortedAndCurrent`,
`BlockedClientsAreAccounted` and `SlotsAreAccounted`, from
`TimeServerAssumption` alone. A client that waits has one message or one entry and no other
client has any (`InboxFits`, `ListFits`); a slot is on the stack or in one entry (`PoolFits`).
`CountOf` counts entries and messages of a client. `WalkSplits` says what the server's
walk along its list finds; inserting (`InsertFits`, `InsertPool`) and answering from the front
(`ReplyFits`, `ReplyPool`) both cut the list at such a place. `NobodyIsWokenEarly` proves `NeverEarly`
under the hypothesis `Unwrapped` that the last tick and the longest delay together stay below
2^24. It is needed: without it `time_server_wrap` finds the early wake-up of section 6.

`TaskListsProofs` proves `ListsAreQueues`: `Spec => ImplementsQueues`. `ListInv` says that
the chain from each `begin` and each `sendQ` is linked (`Linked`) and ends, that chains
share no task and that `place` tells which one a task is in. Following `next` is a recursive
function; `WalksExist` shows that it exists, by a least counterexample, and `ChainIs` that it
finds the linked sequence. Each operation is then an operation on sequences (`AppendLists`,
`SendLists`, `TakeLists`, `ReceiveLists`). `LookupIs` is the De Bruijn table, for each of the
32 bits, and `QueueIndexIs` that it finds the lowest bit of any mask. `EveryListEnds` is
`Spec => []ListsEnd`.

`RtxProofs` proves `RtxInvHolds`, and from it `ProcessesInTheirQueues`, `BlocksAreUsed`
and `DelayedMailIsFired`, for any processes, priorities and blocks. The procedures call each
other in the middle of a change (`kernel_send_message` readies the receiver and then
switches), so the conjuncts hold between the calls only of the processes that are not being
moved: `Placed`, `Calm` and `NoneIdle` take the set of those, and `Settled` is the state
after the last call, when there are none. Each procedure of the kernel has a lemma of the form
"from such a state to such a state" (`TakenIs`, `DispatchedIs`, `SwitchIs`, `WakeIs`,
`BlocksIs`, `DeliveredIs`, `FreedIs`), and the handlers are their compositions. The loops of
the timer process are recursive functions again; `LoopEnds` shows that such a loop has a last
turn and `StaysIn` that what each turn keeps holds after it.

The last part of `KernelProofs` proves `KernelImplementsRendezvous`: `Spec => ImplementsRendezvous`, with
`PhaseOf` and `PeerOf` as the mapping. `PhasesInUserMode` and `PhasesInKernelMode` say what
phase each table entry stands for in either half of a turn. `OnlyCallerChanges` says that
a step which moves one caller leaves the phases of all others; each handler then has a
lemma that names the step of `Rendezvous` it is (`SendToBusyOffers`, `ReceiveQueuedTakes`,
`ReplyDeliveredAnswers`, ...) or that it is none (`ScheduleStutters`, `RequeueStutters`).
`KernelInv` is needed throughout: that a sender queued on a task is blocked, and on no
other, is what makes its peer well defined.

`TrainGroupProofs` proves `GroupInvariant`, from `TrainAssumption` (a finite set of trains)
for any clients and bounds, and from it `MembersAlwaysFollow`, `SendsAreAnswered` and
`NobodyWaitsInACircle`. `GroupInv` is inductive because its conjuncts carry each other:

* `MembersAreTails`: who is in a head's list is in tail mode under that head. A head's
  messages therefore meet the tail's branches, which answer. `NoLeaderCircle` follows the
  lists: a train that is merged was no tail and is in nobody's list.
* MERGE_TAIL is received before MERGE_HEAD is sent, whatever other clients send in between.
  `OneCommand` says that trainController has one letter of a client under way, and
  `HeadsToldLast` that a MERGE_HEAD, in an inbox or still to be sent, names a train that is
  already a tail of that head: between the two the group is half made, and a tail stays one.
* `WaitsForTail`, `AllOwed` and `NoAnswerToItself`: a blocked driver is blocked on the first
  Send it has left, to another driver. Of its requests at most one is in an inbox, namely
  that one; when it has been received, the receiver has an answer still to send. A second
  answer, or one that a server sends late, can only be accepted in the latter case
  (`Awaits`); the answer due then is a second answer in its turn.
* `OnlyHeadsReserve`: a tail reserves nothing, which for the members of a group follows with
  `MembersAreTails`.

The proof has a lemma per step of a driver. What handlers have in common is stated once,
over the outcomes of a handler: what it may send and to whom, that it leaves mode and
members alone, that each request it takes is answered by it or kept. Members wait in
a circle only if they lead in a circle (`InvImpliesNoCircle`), and a tail's wait ends at
its members, so `NoLeaderCircle` excludes it.

`SensorServerProofs` proves `ReportsStayTrue` and `ToldInOrderAlways`, for any number of bytes,
watchers and triggers and whatever the line loses. The first has the hypothesis `MaxStale = 0`
(an empty input ring at the start), without which TLC finds it false. Its invariant
`AnswersInv` has two halves. One holds as long as no answer is late (`OnTime`). It measures with
`Clock`, the ticks since the query, and `Left`, the ticks of the answer's timer. `LineInv` says
that a byte that is on its way was sent early enough after the query, and that the line is still
when the next query is due. `AnswerInv` says what the server has collected: either bytes of the
answer on the line, in the order they were sent, with enough of them lost or still to come
(`Current`), or of an earlier one, and then too few to be completed before the timer ends
(`Short`). A query turns the first into the second (`CurrentShort`), and only the first can
become complete, with every byte in its place (`CurrentPlaced`). The other half holds as long as
no byte is lost, however many queries wait (`Whole`): the server has the beginning of the answer
on the line, and the timer outlasts that answer or is to be started again. What processing a
complete answer keeps is shown with `ProcessedKeeps`, as the loop over its bytes is a
recursive function.

The second needs no hypothesis. `ToldInv` says of each watcher, and of the courier on its way
to one, that the last report it got is not newer than any the server holds, and the same as
the oldest only if its turn is over (`Behind`). That its turn is over is its place in the
list, so `SubscribedOnce` is needed: a watcher is in the list once, however its message waits.

`TrackProofs` proves `OneOwnerPerTrack`: `Spec => []OwnersAgree`, for any trains, groups and
distances and every set of layouts that meets `LayoutAssumption`; and `TypeCorrect`, by which
a driver's report never records a sensor's -1 as the state of a switch. The invariant itself
is short (`TrackInv`). The work is that the two recursive functions exist, without which
nothing can be said of their values. `Ranked` gives each node a rank that goes down on every
edge that does not start at a sensor, the longest way ahead without one; `FollowDescends` shows that a call of
`reserveEdges` goes down in distance or, when the distance is used up or the edge has no
length, in rank; `LookDescends` shows the same of `findNextSensorsHelper`, which passes one
sensor at most. `Recursion` turns a definition whose calls go down into a function. Then
`VisitKeeps` shows that a visit whose calls keep both directions of every edge together does so
itself (marks are made in pairs, `MarksArePaired`, and taken back in pairs, `LeaveKeeps`), and
`ReserveEdgesKeeps` concludes it for every call by the lowest one that would not. The calls
for the start nodes and the sensors of a request are loops (`Chain`, `ChainKeeps`).

From there three theorems about what trains hold, for any number of trains:

* `GrantsAreHeld`: `Spec => []GrantedIsHeld`.
* `DryRunIsClean`: `Spec => DryRunChangesNothing`.
* `CentreUndivided`: two trains whose reservations stand never have legs of the same double
  switch.

`reserveEdges` tests only the curved leg of a double switch before it takes or drops all of
its edges, so it could steal the straight one. That it does not is why `GrantedIsHeld` is not
inductive: `HeldInv` adds that a train which is not in `dropped` has its share of every double
switch whole (`Whole`: with any leg of it the curved one and the track to its points).
`RequestParts` says what the two passes of a request make of that:

* What others have whole is spared (`Spares`, `ReserveEdgesSpares`): a node that would take or
  drop a leg of it claims the track to its points first, and fails there (`WholeIsLeft`).
* A dry run leaves a train with what it had (`DryKeepsMine`). It puts back what it found at
  the edges it marked, but it takes off all of a double switch it could not take; such a switch
  has its curved leg with another train, so none of it is this one's (`Bent`).
* A call in earnest that succeeds has reserved all of `Ahead`, although it stops early where
  the train already has the node (`Done`, `ReserveEdgesDone`): that happens only when no
  distance is left. A double switch it touches ends up whole (`Grown`), because the call for
  the next node marks the track to the points.

Each is shown for the lowest call that would break it (`AllCalls`), node by node (`LegsDone`) and edge by edge
(`FollowDone`), and then along the calls of a request (`ReserveAllSpares`, `DryRunKeeps`,
`EarnestGives`). `Ahead` is a recursive function too, and `AheadParts` shows that it exists.
The calls begin at sensors and exits, never in the middle of a switch, because a request names
nothing else (`RequestedAreLandmarks`).

The last section of `TrackProofs` proves `FreeWhenUnused` of `Lock` for any
set of trains.

Only model-checked: `PredictedSensorsCount` of `Track`, on the positions of `MCTrack`, and
every liveness property. Liveness under fairness, ENABLED and what a recursive definition
computes for every input are out of the prover's reach.

## 5. Not modelled

* The name server: a table of 22 names behind one Receive loop. Its one hazard, a name
  asked for before it is registered, is excluded by the priorities: `task1` has priority
  28 and every server registers before anything else runs, which rests on
  `HighestPriorityRuns`. A train nobody registered is answered with tid 0, and a merge that
  names it goes on with that (see the hazards).
* In the track server: distances between landmarks (`calculateDistance`, `locateNode`,
  `traverse`, `fakeNode`), safe distances for reversing, the search for a route
  (`findRoute`), preset routes and random positions. They read the graph and
  change nothing but scratch fields of the call. `QUERY_EDGES_RESERVED` falls through to
  GET_SWITCH and replies twice; the second reply is refused by the kernel.
* In the drivers: positions, speeds, accelerations and stopping distances, which are
  fixed-point formulas over measured tables. Where a handler branches on them the model takes
  either branch. The following distance is only stored, and nothing
  sends the message that separates a group or handles one to all trains.
* The IO helpers: formatting of numbers, and the set-up of the ports before the first
  Receive.
* The user interface, which only draws, and the calibration and test programs, which
  `main.c` does not start.
* What the command clients decide: parsing a line, the random destinations, the board and
  the score of the snake. The commands that they give to drivers are those of the clients of
  `TrainGroup`, in any order; those to the track and sensor servers are in `Track` and
  `SensorServer`.
* In the RTX: `set_process_priority` (no trap leads to it), the processes A, B, C, CRT and
  wall clock, which are cases of "any process may make any call", saving of registers, and
  `message_receiver` for a pid that does not exist, which runs off the end of a function.
* `Poly.c`, `CalibrationData.c`, `calibration.c`, `asm.asm`, `bwio.c`, linker scripts, test
  programs, build products; `Driver.c` and `idle.c`, which are compiled out.

## 6. Findings

* `lock_exclusion`: the comment in `MultiTrainDriver.c`, line 516, says that only one
  train can lock at the same time. `lock()` goes on after one refused attempt and one
  backoff, so two trains are inside FIND_POSITION together.
* `time_server_wrap`: `Delay` asserts that its argument is below 0x00ffffff, and the
  server then adds the current time before it cuts the sum to 24 bits. A delay that the
  assertion admits can become a time in the past, and ends at once.

Two more disagreements are part of the models and have no run of their own. `kernel/TODO`,
lines 21 to 28, wants a refused reservation to do nothing; `dropped` in `Track` names the
trains of which that is not true (see `Track` above). And `MultiTrainDriver.c`, 653, says that
it replies to the head that made the query; that head has been answered before, at line 350,
and the reply ends another Send of it or none (see `TrainGroup`).

## 7. What is left

1. A proof that `PredictedSensorsCount` holds of groups that stand together on any layout.
2. `Rtx` on an abstract specification of mailboxes and of blocks that have one owner each.
3. The composition of `TrainGroup` with `Track`, so that reservations of a group are the
   edges of its members.
