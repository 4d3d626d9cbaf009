------------------------------ MODULE IoServer ------------------------------
(***************************************************************************)
(* The IO servers of IoServer.c with their notifiers, the byte rings of    *)
(* IoBuffer.c, the interrupt lines of the UART and the device behind it.   *)
(*                                                                         *)
(* COM1, the train controller, takes a byte only while it raises CTS: the  *)
(* server writes when both the transmitter is empty (a TX interrupt) and   *)
(* CTS is up (a modem-status interrupt).  COM2, the terminal, has no       *)
(* handshake.  A notifier forwards one interrupt at a time; an interrupt   *)
(* that finds it elsewhere is dropped by the kernel.                       *)
(*                                                                         *)
(* A byte is its number, counted from 1 in the order of the calls; 0 is no *)
(* byte.  The state starts at the server's first Receive, with the UART    *)
(* idle and the notifiers, which run first, waiting.                       *)
(***************************************************************************)
EXTENDS Integers, Sequences

CONSTANTS
  Putter,      \* the tasks that call Putc and Putstr
  Size,        \* IO_BUFFER_SIZE
  MaxPut,      \* bound: bytes put
  MaxRx        \* bound: bytes the device sends

ASSUME IoServerAssumption ==
  /\ Size \in Nat /\ Size >= 2
  /\ MaxPut \in Nat
  /\ MaxRx \in Nat

Notifier == {"rx", "tx", "ms"}
Port     == {"COM1", "COM2"}

VARIABLES
  port,                \* which of the two servers this is
  running,             \* cleared by flush, when the kernel closes
  server,              \* "receive", or "output": at the end of its turn
  inbox,               \* its sendQ
  in, out,             \* the rings
  inputWait,           \* InputWaitTid is not -1
  txempty, cts,        \* the server's view of the UART
  notifier,            \* "await", "send" (not answered yet) or "ready"
  putter,              \* "free" or "send"
  reader,              \* the one task that calls Getc: "free" or "send"
  tien, holding, shifter, rxData, msPending,   \* the UART
  device,              \* "ready" (CTS up) or "busy"
  putCount, rxCount, lastSent, lastRead,       \* bytes so far
  missed               \* history: an edge of CTS was lost

serverVars == <<in, out, inputWait, txempty, cts>>
uart       == <<tien, holding, shifter, rxData, msPending, device>>
counts     == <<putCount, rxCount, lastSent, lastRead>>
vars == <<port, running, server, inbox, serverVars, notifier, putter, reader,
          uart, counts, missed>>

-----------------------------------------------------------------------------
(* The byte rings. *)

increment_offset(o) == IF o + 1 = Size THEN 0 ELSE o + 1

\* Mutant: the oldest byte is overwritten when the ring is full.
add_always(b, c) ==
  [b EXCEPT !.data[b.bufferHead] = c, !.bufferHead = increment_offset(@)]

\* A full ring, one slot short of Size, drops the byte.
add_to_buffer(b, c) ==
  IF increment_offset(b.bufferHead) = b.bufferTail THEN b
  ELSE [b EXCEPT !.data[b.bufferHead] = c, !.bufferHead = increment_offset(@)]

\* The loop of PUTSTR.
add_all(b, data) ==
  LET added[i \in 0 .. Len(data)] ==
        IF i = 0 THEN b ELSE add_to_buffer(added[i - 1], data[i])
  IN added[Len(data)]

buffer_empty(b) == b.bufferHead = b.bufferTail

first_of_buffer(b)    == b.data[b.bufferTail]
remove_from_buffer(b) == [b EXCEPT !.bufferTail = increment_offset(@)]

EmptyBuffer == [data |-> [i \in 0 .. Size - 1 |-> 0], bufferHead |-> 0, bufferTail |-> 0]

\* What a ring holds, oldest first.
Contents(b) ==
  [i \in 1 .. (b.bufferHead - b.bufferTail) % Size |->
     b.data[(b.bufferTail + i - 1) % Size]]

-----------------------------------------------------------------------------
Init ==
  /\ port \in Port
  /\ running = TRUE
  /\ server = "receive"
  /\ inbox = <<>>
  /\ in = EmptyBuffer /\ out = EmptyBuffer
  /\ inputWait = FALSE
  /\ device \in IF port = "COM1" THEN {"ready", "busy"} ELSE {"ready"}
  /\ txempty = TRUE
  /\ cts = (device = "ready")
  /\ notifier = [n \in Notifier |-> "await"]
  /\ putter = [p \in Putter |-> "free"]
  /\ reader = "free"
  /\ tien = FALSE /\ holding = 0 /\ shifter = 0 /\ rxData = 0 /\ msPending = FALSE
  /\ putCount = 0 /\ rxCount = 0 /\ lastSent = 0 /\ lastRead = 0
  /\ missed = FALSE

-----------------------------------------------------------------------------
(* The clients: Putc, Putstr and Getc block until the server replies. *)

\* Putc is a string of one byte.
Putstr(p, len) ==
  /\ running
  /\ putter[p] = "free"
  /\ putCount + len <= MaxPut
  /\ putter' = [putter EXCEPT ![p] = "send"]
  /\ putCount' = putCount + len
  /\ inbox' = Append(inbox, [kind |-> "put", tid |-> p,
                             data |-> [i \in 1 .. len |-> putCount + i]])
  /\ UNCHANGED <<port, running, server, serverVars, notifier, reader, uart,
                 rxCount, lastSent, lastRead, missed>>

Getc ==
  /\ running
  /\ reader = "free"
  /\ reader' = "send"
  /\ inbox' = Append(inbox, [kind |-> "get"])
  /\ UNCHANGED <<port, running, server, serverVars, notifier, putter, uart, counts, missed>>

-----------------------------------------------------------------------------
(* The device and the UART. *)

\* The device sends a byte; one not read yet is overwritten.
ByteArrives ==
  /\ running
  /\ rxCount < MaxRx
  /\ rxCount' = rxCount + 1
  /\ rxData' = rxCount + 1
  /\ UNCHANGED <<port, running, server, inbox, serverVars, notifier, putter, reader, tien,
                 holding, shifter, msPending, device, putCount, lastSent, lastRead, missed>>

Shift ==
  /\ running
  /\ holding # 0 /\ shifter = 0
  /\ shifter' = holding
  /\ holding' = 0
  /\ UNCHANGED <<port, running, server, inbox, serverVars, notifier, putter, reader, tien,
                 rxData, msPending, device, counts, missed>>

\* The byte is on the line; on COM1 the device lowers CTS.
ByteLeaves ==
  /\ running
  /\ shifter # 0
  /\ lastSent' = shifter
  /\ shifter' = 0
  /\ IF port = "COM1" THEN device' = "busy" /\ msPending' = TRUE
                      ELSE UNCHANGED <<device, msPending>>
  /\ UNCHANGED <<port, running, server, inbox, serverVars, notifier, putter, reader, tien,
                 holding, rxData, putCount, rxCount, lastRead, missed>>

DeviceReady ==
  /\ running
  /\ device = "busy"
  /\ device' = "ready"
  /\ msPending' = TRUE
  /\ UNCHANGED <<port, running, server, inbox, serverVars, notifier, putter, reader, tien,
                 holding, shifter, rxData, counts, missed>>

-----------------------------------------------------------------------------
(* kernel_handle_interrupt, and the notifiers: a waiting one is woken and   *)
(* sends to the server at once, as nothing outranks it.                     *)

Forward(n, m) ==
  IF notifier[n] = "await"
  THEN /\ notifier' = [notifier EXCEPT ![n] = "send"]
       /\ inbox' = Append(inbox, m)
  ELSE UNCHANGED <<notifier, inbox>>

RxInterrupt ==
  /\ running
  /\ rxData # 0
  /\ rxData' = 0
  /\ Forward("rx", [kind |-> "rx", data |-> rxData])
  /\ UNCHANGED <<port, running, server, serverVars, putter, reader, tien, holding, shifter,
                 msPending, device, counts, missed>>

\* The handler disables the interrupt.
TxInterrupt ==
  /\ running
  /\ tien /\ holding = 0
  /\ tien' = FALSE
  /\ Forward("tx", [kind |-> "tx"])
  /\ UNCHANGED <<port, running, server, serverVars, putter, reader, holding, shifter, rxData,
                 msPending, device, counts, missed>>

\* Reads the flags, then clears the interrupt.
MsInterrupt ==
  /\ running
  /\ msPending
  /\ msPending' = FALSE
  /\ Forward("ms", [kind |-> "ms", flag |-> device = "ready"])
  /\ missed' = (missed \/ (notifier["ms"] # "await" /\ device = "ready"))
  /\ UNCHANGED <<port, running, server, serverVars, putter, reader, tien, holding, shifter,
                 rxData, device, counts>>

\* CTS rises between the two accesses: the edge is cleared unseen.
MsInterruptRaced ==
  /\ running
  /\ msPending /\ device = "busy"
  /\ msPending' = FALSE
  /\ device' = "ready"
  /\ Forward("ms", [kind |-> "ms", flag |-> FALSE])
  /\ missed' = TRUE
  /\ UNCHANGED <<port, running, server, serverVars, putter, reader, tien, holding, shifter,
                 rxData, counts>>

AwaitEvent(n) ==
  /\ running
  /\ notifier[n] = "ready"
  /\ notifier' = [notifier EXCEPT ![n] = "await"]
  /\ UNCHANGED <<port, running, server, inbox, serverVars, putter, reader, uart, counts, missed>>

-----------------------------------------------------------------------------
(* The server.  A turn ends with the attempt to write, which comes after   *)
(* the notifier it replied to has run.                                     *)

\* Mutant: the notifiers have the server's priority.
NotifiersAlongside == TRUE

\* The notifiers have priority 0, the server 1.
NotifiersFirst == \A n \in Notifier : notifier[n] # "ready"

Receive(kind) ==
  /\ running /\ NotifiersFirst
  /\ server = "receive"
  /\ inbox # <<>> /\ Head(inbox).kind = kind
  /\ inbox' = Tail(inbox)
  /\ server' = "output"

Reply(n) == notifier' = [notifier EXCEPT ![n] = "ready"]

\* Mutant: the byte goes to the waiting reader and into the ring.
ServeRxTwice ==
  /\ Receive("rx")
  /\ Reply("rx")
  /\ IF inputWait
     THEN inputWait' = FALSE /\ reader' = "free" /\ lastRead' = Head(inbox).data
     ELSE UNCHANGED <<inputWait, reader, lastRead>>
  /\ in' = add_to_buffer(in, Head(inbox).data)
  /\ UNCHANGED <<port, running, out, txempty, cts, putter, uart, putCount, rxCount,
                 lastSent, missed>>

ServeRx ==
  /\ Receive("rx")
  /\ Reply("rx")
  /\ IF inputWait
     THEN /\ inputWait' = FALSE
          /\ reader' = "free"
          /\ lastRead' = Head(inbox).data
          /\ UNCHANGED in
     ELSE /\ in' = add_to_buffer(in, Head(inbox).data)
          /\ UNCHANGED <<inputWait, reader, lastRead>>
  /\ UNCHANGED <<port, running, out, txempty, cts, putter, uart, putCount, rxCount,
                 lastSent, missed>>

ServeTx ==
  /\ Receive("tx")
  /\ Reply("tx")
  /\ txempty' = TRUE
  /\ UNCHANGED <<port, running, in, out, inputWait, cts, putter, reader, uart, counts, missed>>

ServeMs ==
  /\ Receive("ms")
  /\ Reply("ms")
  /\ cts' = Head(inbox).flag
  /\ UNCHANGED <<port, running, in, out, inputWait, txempty, putter, reader, uart, counts, missed>>

\* PUTC and PUTSTR: each byte is kept or dropped.
ServePut ==
  /\ Receive("put")
  /\ out' = add_all(out, Head(inbox).data)
  /\ putter' = [putter EXCEPT ![Head(inbox).tid] = "free"]
  /\ UNCHANGED <<port, running, in, inputWait, txempty, cts, notifier, reader, uart, counts, missed>>

\* Mutant: the ring is not looked at.
ServeGetLater ==
  /\ Receive("get")
  /\ inputWait' = TRUE
  /\ UNCHANGED <<port, running, in, out, txempty, cts, notifier, putter, reader, uart, counts,
                 missed>>

ServeGet ==
  /\ Receive("get")
  /\ IF buffer_empty(in)
     THEN inputWait' = TRUE /\ UNCHANGED <<in, reader, lastRead>>
     ELSE /\ lastRead' = first_of_buffer(in)
          /\ in' = remove_from_buffer(in)
          /\ reader' = "free"
          /\ UNCHANGED inputWait
  /\ UNCHANGED <<port, running, out, txempty, cts, notifier, putter, uart, putCount, rxCount,
                 lastSent, missed>>

\* Mutants: the write does not arm the TX interrupt, or does not forget CTS.
WriteUnarmed ==
  /\ holding' = first_of_buffer(out) /\ out' = remove_from_buffer(out)
  /\ txempty' = FALSE /\ cts' = (port = "COM2")
  /\ UNCHANGED tien
WriteKeepsCts ==
  /\ holding' = first_of_buffer(out) /\ out' = remove_from_buffer(out)
  /\ tien' = TRUE /\ txempty' = FALSE
  /\ UNCHANGED cts

\* COM2 has no cts: it counts as up.
Write ==
  /\ holding' = first_of_buffer(out)
  /\ out' = remove_from_buffer(out)
  /\ tien' = TRUE
  /\ txempty' = FALSE
  /\ cts' = (port = "COM2")

Output ==
  /\ running /\ NotifiersFirst
  /\ server = "output"
  /\ server' = "receive"
  /\ IF ~buffer_empty(out) /\ txempty /\ cts
     THEN Write
     ELSE UNCHANGED <<holding, out, tien, txempty, cts>>
  /\ UNCHANGED <<port, running, inbox, in, inputWait, notifier, putter, reader, shifter, rxData,
                 msPending, device, counts, missed>>

\* kernel_close: the rest of the ring is written by polling, with interrupts off
\* and without regard to CTS.  The task that quits has a lower priority, so the
\* server is at its Receive.
flush ==
  /\ running /\ NotifiersFirst
  /\ server = "receive" /\ inbox = <<>>
  /\ running' = FALSE
  /\ out' = [out EXCEPT !.bufferTail = out.bufferHead]
  /\ holding' = 0 /\ shifter' = 0
  /\ lastSent' = IF ~buffer_empty(out) THEN Contents(out)[Len(Contents(out))]
                 ELSE IF holding # 0 THEN holding
                 ELSE IF shifter # 0 THEN shifter ELSE lastSent
  /\ UNCHANGED <<port, server, inbox, in, inputWait, txempty, cts, notifier, putter, reader, tien,
                 rxData, msPending, device, putCount, rxCount, lastRead, missed>>

Serve == ServeRx \/ ServeTx \/ ServeMs \/ ServePut \/ ServeGet \/ Output

Next ==
  \/ \E p \in Putter, len \in 1 .. 2 : Putstr(p, len)
  \/ Getc
  \/ ByteArrives \/ Shift \/ ByteLeaves \/ DeviceReady
  \/ RxInterrupt \/ TxInterrupt \/ MsInterrupt \/ MsInterruptRaced
  \/ \E n \in Notifier : AwaitEvent(n)
  \/ Serve
  \/ flush

Spec == Init /\ [][Next]_vars

\* The kernel runs the notifiers and the server before their clients and
\* delivers the interrupts; the line moves, and the device gets ready again.
FairSpec ==
  /\ Spec
  /\ WF_vars(Serve)
  /\ \A n \in Notifier : WF_vars(AwaitEvent(n))
  /\ WF_vars(RxInterrupt) /\ WF_vars(TxInterrupt) /\ WF_vars(MsInterrupt)
  /\ WF_vars(Shift) /\ WF_vars(ByteLeaves) /\ WF_vars(DeviceReady)

-----------------------------------------------------------------------------
(* Properties *)

Message ==
  [kind : {"put"}, tid : Putter, data : Seq(Nat)]
    \cup [kind : {"rx"}, data : Nat] \cup [kind : {"ms"}, flag : BOOLEAN]
    \cup [kind : {"tx", "get"}]

Held(b)   == {Contents(b)[i] : i \in DOMAIN Contents(b)}
IsFull(b) == Len(Contents(b)) = Size - 1

\* Bytes are numbered in the order they came; 0 is none.
InOrder(s) == \A i, j \in DOMAIN s : i < j /\ s[i] # 0 /\ s[j] # 0 => s[i] < s[j]

\* Bytes go out, and reach the reader, in the order they came in, none twice,
\* through rings that wrap around and drop bytes when they are full.
BytesInOrder ==
  /\ InOrder(<<lastSent, shifter, holding>> \o Contents(out)) /\ 0 \notin Held(out)
  /\ InOrder(<<lastRead>> \o Contents(in)) /\ 0 \notin Held(in)

\* A byte the server was given is dropped only when the ring is full, and one
\* in a ring leaves it only to the line or to the reader.
LossOnlyWhenFull ==
  [][/\ server = "receive" /\ server' = "output" =>
          /\ Head(inbox).kind = "put" =>
               \A i \in DOMAIN Head(inbox).data :
                 Head(inbox).data[i] \in Held(out') \/ IsFull(out')
          /\ Head(inbox).kind = "rx" =>
               Head(inbox).data \in Held(in') \cup {lastRead'} \/ IsFull(in)
     /\ running' => Held(out) \subseteq Held(out') \cup {holding'}
     /\ Held(in) \subseteq Held(in') \cup {lastRead'}]_vars

\* The server never writes over a byte, and to the train controller only when
\* the byte before has left and CTS is really up, however late the interrupts
\* and messages arrive that tell it so.
NoOverrun ==
  [][holding' \notin {0, holding} =>
       /\ holding = 0
       /\ port = "COM1" => shifter = 0 /\ device = "ready"]_vars

\* The TX interrupt is never dropped: while it is armed its notifier waits.
\* This rests on the notifier running before the server goes on to write.
TxInterruptHeard == tien => notifier["tx"] = "await"

\* What tells the server that it may write, held in one place at a time: the
\* armed interrupt, the notifier's message, then txempty ...
TxSignals ==
  /\ tien => ~txempty
  /\ txempty => holding = 0 /\ notifier["tx"] # "send"
  /\ \A i \in DOMAIN inbox : inbox[i].kind = "tx" =>
       /\ holding = 0 /\ ~tien /\ ~txempty /\ notifier["tx"] = "send"
       /\ \A j \in DOMAIN inbox : inbox[j].kind = "tx" => i = j

\* ... and for COM1 the edge of CTS, the notifier's message, then cts; each of
\* them only with the line idle and CTS up.
RaisesCts(i) == inbox[i].kind = "ms" /\ inbox[i].flag

CtsSignals ==
  port = "COM1" =>
    /\ cts \/ holding # 0 \/ shifter # 0 =>
         /\ device = "ready" /\ ~msPending
         /\ \A i \in DOMAIN inbox : ~RaisesCts(i)
    /\ holding # 0 => shifter = 0 /\ ~cts
    /\ shifter # 0 => holding = 0 /\ ~cts
    /\ device = "busy" => \A i \in DOMAIN inbox : ~RaisesCts(i)
    /\ msPending => \A i \in DOMAIN inbox : ~RaisesCts(i)
    /\ \A i, j \in DOMAIN inbox : RaisesCts(i) /\ RaisesCts(j) => i = j

HandshakeInv == TxInterruptHeard /\ TxSignals /\ CtsSignals

\* The output stalls only after an edge of CTS was lost: each byte in the ring
\* leaves otherwise.
OutputDrains ==
  \A b \in 1 .. MaxPut : b \in Held(out) ~> lastSent >= b \/ missed \/ ~running

\* A Getc is answered when there is a byte for it: its wait and the byte do not
\* miss each other.
ReaderServed ==
  reader = "send" /\ (~buffer_empty(in) \/ \E i \in DOMAIN inbox : inbox[i].kind = "rx")
    ~> reader = "free" \/ ~running
=============================================================================
