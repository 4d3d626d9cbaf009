----------------------------- MODULE TimeServer -----------------------------
(***************************************************************************)
(* The time server of TimeServer.c, its notifier and its clients.          *)
(*                                                                         *)
(* The server takes one message per turn: a tick from the notifier, a Time *)
(* request, or a Delay or DelayUntil that it inserts into a list sorted by *)
(* wake-up time; then it answers every task whose time has come.  Messages *)
(* wait in the server's sendQ in order of arrival.  A timer interrupt that *)
(* finds the notifier not waiting is dropped by the kernel and leaves no   *)
(* trace: such a lost tick is a stuttering step here.                      *)
(***************************************************************************)
EXTENDS Integers, Sequences, FiniteSets

CONSTANTS
  Client,      \* the tasks that use the server
  Slots,       \* TIMER_SERVER_SIZE
  Wrap,        \* 2^24: wake-up times are kept modulo this
  Ticks,       \* the arguments clients pass to Delay and DelayUntil
  LastTick     \* bound: the timer is watched until this tick

ASSUME TimeServerAssumption ==
  /\ IsFiniteSet(Client) /\ "notifier" \notin Client
  /\ Slots \in Nat \ {0}
  /\ Wrap \in Nat \ {0}
  /\ LastTick \in Nat
  /\ Ticks \subseteq Int
  /\ \A n \in Ticks : n < Wrap - 1    \* ASSERT(ticks < 0x00ffffff); any negative passes

notifierId == "notifier"

VARIABLES
  numTick,     \* ticks counted by the server
  notifier,    \* "ready", "await" (AwaitEvent) or "send" (blocked in Send)
  inbox,       \* the server's sendQ
  tasks,       \* the delayed tasks by wake-up time, each in a slot; `due` is
               \* history: the tick it asked to sleep until
  taskSlots,   \* the free slots, a stack with its top first
  client,      \* "free", "send" (message queued) or "delayed" (not answered yet)
  full         \* a request found no free slot: the list is corrupt

vars == <<numTick, notifier, inbox, tasks, taskSlots, client, full>>

Init ==
  /\ numTick = 0
  /\ notifier = "ready"
  /\ inbox = <<>>
  /\ tasks = <<>>
  /\ taskSlots = [i \in 1 .. Slots |-> i]
  /\ client = [c \in Client |-> "free"]
  /\ full = FALSE

-----------------------------------------------------------------------------
(* timernotifier_task *)

AwaitTick ==
  /\ notifier = "ready"
  /\ notifier' = "await"
  /\ UNCHANGED <<numTick, inbox, tasks, taskSlots, client, full>>

\* The interrupt wakes the notifier, which sends to the server.
Tick ==
  /\ notifier = "await"
  /\ numTick < LastTick
  /\ notifier' = "send"
  /\ inbox' = Append(inbox, [tid |-> notifierId, kind |-> "tick", ticks |-> 0])
  /\ UNCHANGED <<numTick, tasks, taskSlots, client, full>>

-----------------------------------------------------------------------------
(* Delay, DelayUntil and Time: the caller blocks until it is answered. *)

\* Mutant: the newest request is served first.
RequestFirst(c, kind, n) ==
  /\ client[c] = "free"
  /\ client' = [client EXCEPT ![c] = "send"]
  /\ inbox' = <<[tid |-> c, kind |-> kind, ticks |-> n]>> \o inbox
  /\ UNCHANGED <<numTick, notifier, tasks, taskSlots, full>>

Request(c, kind, n) ==
  /\ client[c] = "free"
  /\ client' = [client EXCEPT ![c] = "send"]
  /\ inbox' = Append(inbox, [tid |-> c, kind |-> kind, ticks |-> n])
  /\ UNCHANGED <<numTick, notifier, tasks, taskSlots, full>>

-----------------------------------------------------------------------------
(* timeserver_task *)

\* How far a walk goes that stops at the first task due at tick t or later.
Earlier(list, t) ==
  CHOOSE n \in 0 .. Len(list) :
    /\ \A i \in 1 .. n : list[i].time < t
    /\ n < Len(list) => list[n + 1].time >= t

InsertLast(list, entry) == Append(list, entry)    \* mutant: at the end

\* In front of the first task that is not due earlier.
Insert(list, entry) ==
  LET before == Earlier(list, entry.time) IN
    SubSeq(list, 1, before) \o <<entry>> \o SubSeq(list, before + 1, Len(list))

\* Mutants: a tick early, only the tasks due at this very tick, one task too many.
DueTickEarly(list, now) == SubSeq(list, 1, Earlier(list, now + 2))
DueExactly(list, now)   == SelectSeq(list, LAMBDA e : e.time = now)
LaterButOne(list, now)  == SubSeq(list, Earlier(list, now + 2) + 1, Len(list))

\* The tasks at the front of the list whose time has come, and the rest.
DueNow(list, now)   == SubSeq(list, 1, Earlier(list, now + 1))
DueLater(list, now) == SubSeq(list, Len(DueNow(list, now)) + 1, Len(list))

\* Mutant: of the slots of the answered tasks only the last is freed.
FreedLast(due, slots) == IF due = <<>> THEN slots ELSE <<due[Len(due)].slot>> \o slots

\* The slot of every answered task goes back on the stack, one after the other.
Freed(due, slots) == [i \in DOMAIN due |-> due[Len(due) + 1 - i].slot] \o slots

\* The last part of every turn: answer the tasks that are due, free their slots.
ReplyDue(list, now, cl, slots) ==
  LET woken == {DueNow(list, now)[i].tid : i \in DOMAIN DueNow(list, now)} IN
    /\ tasks' = DueLater(list, now)
    /\ taskSlots' = Freed(DueNow(list, now), slots)
    /\ client' = [c \in Client |-> IF c \in woken THEN "free" ELSE cl[c]]

ServeTick ==
  /\ ~full /\ inbox # <<>> /\ Head(inbox).tid = notifierId
  /\ inbox' = Tail(inbox)
  /\ numTick' = numTick + 1
  /\ notifier' = "ready"
  /\ ReplyDue(tasks, numTick + 1, client, taskSlots)
  /\ UNCHANGED full

ServeTime ==
  /\ ~full /\ inbox # <<>> /\ Head(inbox).kind = "time"
  /\ inbox' = Tail(inbox)
  /\ ReplyDue(tasks, numTick, [client EXCEPT ![Head(inbox).tid] = "free"], taskSlots)
  /\ UNCHANGED <<numTick, notifier, full>>

\* The tick a request asks for.
Deadline(m) == IF m.kind = "delay" THEN m.ticks + numTick ELSE m.ticks

\* The marks of both kinds are bits of the message that every negative argument
\* has, so a negative one counts from now also in DelayUntil.
Relative(m) == m.kind = "delay" \/ m.ticks < 0
Entry(m) ==
  [tid |-> m.tid, slot |-> Head(taskSlots), due |-> Deadline(m),
   time |-> (IF Relative(m) THEN m.ticks + numTick ELSE m.ticks) % Wrap]

ServeDelay ==
  /\ ~full /\ inbox # <<>> /\ Head(inbox).kind \in {"delay", "until"}
  /\ taskSlots # <<>>
  /\ inbox' = Tail(inbox)
  /\ LET m == Head(inbox) IN
       ReplyDue(Insert(tasks, Entry(m)), numTick,
                [client EXCEPT ![m.tid] = "delayed"], Tail(taskSlots))
  /\ UNCHANGED <<numTick, notifier, full>>

\* No slot left and the check is commented out: the server writes through the
\* end marker of the free list.  Nothing is claimed after that.
ServeOverflow ==
  /\ ~full /\ inbox # <<>> /\ Head(inbox).kind \in {"delay", "until"}
  /\ taskSlots = <<>>
  /\ full' = TRUE
  /\ UNCHANGED <<numTick, notifier, inbox, tasks, taskSlots, client>>

Serve == ServeTick \/ ServeTime \/ ServeDelay \/ ServeOverflow

Next ==
  \/ AwaitTick
  \/ Tick
  \/ \E c \in Client, n \in Ticks :
       Request(c, "delay", n) \/ Request(c, "until", n)
  \/ \E c \in Client : Request(c, "time", 0)
  \/ Serve

Spec == Init /\ [][Next]_vars

\* The timer keeps interrupting, and the notifier (priority 0) and the server
\* (priority 1) outrank the clients.
FairSpec == Spec /\ WF_vars(AwaitTick) /\ WF_vars(Tick) /\ WF_vars(Serve)

-----------------------------------------------------------------------------
(* Properties *)

\* The list is sorted and nobody in it is overdue: between two turns of the
\* server every task whose time has come has been answered.
ListSortedAndCurrent ==
  /\ \A i, j \in DOMAIN tasks : i < j => tasks[i].time <= tasks[j].time
  /\ \A i \in DOMAIN tasks : tasks[i].time > numTick

\* A client blocked in Delay is in exactly one place: its message is queued, or
\* it has one entry in the list.  So no wake-up is lost and none is made twice.
BlockedClientsAccounted ==
  \A c \in Client :
    /\ Cardinality({i \in DOMAIN inbox : inbox[i].tid = c}) = IF client[c] = "send" THEN 1 ELSE 0
    /\ Cardinality({i \in DOMAIN tasks : tasks[i].tid = c}) = IF client[c] = "delayed" THEN 1 ELSE 0

\* Each slot is on the stack of free ones or holds one waiting task, never both,
\* and none is lost: a slot freed twice would be handed out while it is linked.
SlotsAccounted ==
  /\ Len(taskSlots) + Len(tasks) = Slots
  /\ \A i, j \in DOMAIN taskSlots : taskSlots[i] = taskSlots[j] => i = j
  /\ \A i, j \in DOMAIN tasks : tasks[i].slot = tasks[j].slot => i = j
  /\ \A i \in DOMAIN taskSlots, j \in DOMAIN tasks : taskSlots[i] # tasks[j].slot

\* The deadlines client c waits for: of its entry, or of the message just taken.
DeadlinesOf(c) ==
  {tasks[i].due : i \in {j \in DOMAIN tasks : tasks[j].tid = c}}
    \cup {Deadline(inbox[i]) : i \in {j \in DOMAIN inbox :
                                       inbox[j].tid = c /\ inbox[j].kind # "time"}}

\* A Delay or DelayUntil is answered no earlier than the tick it asked for.
NeverEarly ==
  [][\A c \in Client : client[c] # "free" /\ client'[c] = "free" =>
       \A d \in DeadlinesOf(c) : d <= numTick']_vars

\* Every delay whose wake-up time is within the horizon ends.
DelaysEnd ==
  \A c \in Client :
    (\E i \in DOMAIN tasks : tasks[i].tid = c /\ tasks[i].time <= LastTick)
      ~> client[c] = "free" \/ full

\* No client can keep another from being served.
RequestsServed == \A c \in Client : client[c] = "send" ~> client[c] # "send" \/ full
=============================================================================
