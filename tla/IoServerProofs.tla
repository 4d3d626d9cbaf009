--------------------------- MODULE IoServerProofs ---------------------------
(***************************************************************************)
(* The IO servers are right for any ring size, any clients and any number  *)
(* of bytes.  HandshakeInv is inductive with the types of the variables it *)
(* speaks of, and NoOverrun follows from it.  BytesInv adds the order of   *)
(* all bytes on their way in and out; BytesInOrder follows from it, and,   *)
(* from what the rings hold after each operation, LossOnlyWhenFull.        *)
(***************************************************************************)
EXTENDS IoServer, TLAPS, SequenceTheorems, WellFoundedInduction

Shape ==
  /\ port \in Port
  /\ inbox \in Seq(Message)
  /\ notifier \in [Notifier -> {"await", "send", "ready"}]
  /\ device \in {"ready", "busy"}
  /\ putCount \in Nat /\ rxCount \in Nat /\ rxData \in Nat
  /\ tien \in BOOLEAN /\ txempty \in BOOLEAN /\ cts \in BOOLEAN /\ msPending \in BOOLEAN

IInv == Shape /\ HandshakeInv

\* What each message is made of.
LEMMA MessageParts ==
  /\ \A c \in Nat : [kind |-> "rx", data |-> c] \in Message
  /\ \A f \in BOOLEAN : [kind |-> "ms", flag |-> f] \in Message
  /\ [kind |-> "tx"] \in Message
  /\ [kind |-> "get"] \in Message
  /\ \A p \in Putter, d \in Seq(Nat) : [kind |-> "put", tid |-> p, data |-> d] \in Message
  /\ \A m \in Message : m.kind = "ms" => m.flag \in BOOLEAN
BY DEF Message

\* A message joins the end of the inbox.
LEMMA InboxAppend ==
  ASSUME inbox \in Seq(Message), NEW m \in Message, inbox' = Append(inbox, m)
  PROVE  /\ inbox' \in Seq(Message)
         /\ \A i \in DOMAIN inbox' :
              (i \in DOMAIN inbox /\ inbox'[i] = inbox[i]) \/ (i = Len(inbox) + 1 /\ inbox'[i] = m)
         /\ Len(inbox) + 1 \notin DOMAIN inbox
OBVIOUS

\* The first message leaves the inbox.
LEMMA InboxTail ==
  ASSUME inbox \in Seq(Message), inbox # <<>>, inbox' = Tail(inbox)
  PROVE  /\ inbox' \in Seq(Message)
         /\ 1 \in DOMAIN inbox /\ Head(inbox) = inbox[1] /\ Head(inbox) \in Message
         /\ \A i \in DOMAIN inbox' : i \in Nat /\ i + 1 \in DOMAIN inbox /\ i + 1 # 1
                                     /\ inbox'[i] = inbox[i + 1]
OBVIOUS

LEMMA InitEstablishes == Init => IInv
<1> SUFFICES ASSUME Init
             PROVE  IInv
  OBVIOUS
<1>1. inbox = <<>> /\ inbox \in Seq(Message) /\ \A i \in DOMAIN inbox : FALSE
  BY DEF Init
<1>2. device \in {"ready", "busy"} /\ cts \in BOOLEAN /\ (cts => device = "ready")
  <2>1. CASE port = "COM1"
    BY <2>1 DEF Init
  <2>2. CASE port # "COM1"
    BY <2>2 DEF Init
  <2> QED BY <2>1, <2>2
<1>3. Shape
  BY <1>1, <1>2 DEF Init, Shape, Notifier
<1>4. HandshakeInv
  BY <1>1, <1>2 DEF Init, HandshakeInv, TxInterruptHeard, TxSignals, CtsSignals, Notifier
<1> QED BY <1>3, <1>4 DEF IInv

\* A client's message, which is no signal, changes nothing else that matters.
LEMMA ClientKeeps ==
  ASSUME IInv, NEW m \in Message, m.kind \in {"put", "get"}, inbox' = Append(inbox, m),
         putCount' \in Nat,
         UNCHANGED <<port, serverVars, notifier, uart, rxCount>>
  PROVE  IInv'
<1>1. /\ inbox' \in Seq(Message)
      /\ \A i \in DOMAIN inbox' :
           (i \in DOMAIN inbox /\ inbox'[i] = inbox[i]) \/ (i = Len(inbox) + 1 /\ inbox'[i] = m)
      /\ Len(inbox) + 1 \notin DOMAIN inbox
  BY InboxAppend DEF IInv, Shape
<1>2. Shape'
  BY <1>1 DEF IInv, Shape, serverVars, uart
<1>3. TxInterruptHeard' /\ TxSignals'
  BY <1>1 DEF IInv, HandshakeInv, TxInterruptHeard, TxSignals, serverVars, uart
<1>4. CtsSignals'
  BY <1>1 DEF IInv, HandshakeInv, CtsSignals, RaisesCts, serverVars, uart
<1> QED BY <1>2, <1>3, <1>4 DEF IInv, HandshakeInv

\* Putc, Putstr and Getc.
LEMMA ClientsKeep ==
  ASSUME IInv, Getc \/ \E p \in Putter, len \in 1 .. 2 : Putstr(p, len)
  PROVE  IInv'
<1>1. CASE Getc
  BY <1>1, ClientKeeps, MessageParts DEF Getc, counts, IInv, Shape
<1>2. ASSUME NEW p \in Putter, NEW len \in 1 .. 2, Putstr(p, len)
      PROVE  IInv'
  <2> DEFINE d == [i \in 1 .. len |-> putCount + i]
  <2>1. putCount \in Nat /\ putCount + len \in Nat
    BY DEF IInv, Shape
  <2>2. d \in Seq(Nat)
    BY <2>1
  <2> HIDE DEF d
  <2>3. [kind |-> "put", tid |-> p, data |-> d] \in Message
    BY <2>2, MessageParts
  <2>4. inbox' = Append(inbox, [kind |-> "put", tid |-> p, data |-> d])
    BY <1>2 DEF Putstr, d
  <2> QED BY <1>2, <2>1, <2>3, <2>4, ClientKeeps DEF Putstr
<1> QED BY <1>1, <1>2

\* The line: bytes shifted, sent and received, and CTS.
LEMMA LineKeeps ==
  ASSUME IInv, ByteArrives \/ Shift \/ ByteLeaves \/ DeviceReady
  PROVE  IInv'
<1>1. Shape'
  <2>1. CASE ByteArrives
    BY <2>1 DEF IInv, Shape, ByteArrives, serverVars
  <2>2. CASE Shift \/ DeviceReady
    BY <2>2 DEF IInv, Shape, Shift, DeviceReady, serverVars, counts
  <2>3. CASE ByteLeaves
    <3>1. device' \in {"ready", "busy"} /\ msPending' \in BOOLEAN
      BY <2>3 DEF IInv, Shape, ByteLeaves
    <3> QED BY <2>3, <3>1 DEF IInv, Shape, ByteLeaves, serverVars
  <2> QED BY <2>1, <2>2, <2>3
<1>2. TxInterruptHeard'
  BY DEF IInv, HandshakeInv, TxInterruptHeard,
         ByteArrives, Shift, ByteLeaves, DeviceReady, serverVars
<1>3. TxSignals'
  BY DEF IInv, HandshakeInv, TxSignals,
         ByteArrives, Shift, ByteLeaves, DeviceReady, serverVars
<1>4. CtsSignals'
  BY DEF IInv, Shape, HandshakeInv, CtsSignals, RaisesCts,
         ByteArrives, Shift, ByteLeaves, DeviceReady, serverVars
<1> QED BY <1>1, <1>2, <1>3, <1>4 DEF IInv, HandshakeInv

\* What Forward does: the message joins the inbox of a waiting notifier's server.
LEMMA Forwarded ==
  ASSUME Shape, NEW n \in Notifier, NEW m \in Message, Forward(n, m)
  PROVE  /\ inbox' \in Seq(Message)
         /\ notifier' \in [Notifier -> {"await", "send", "ready"}]
         /\ \A i \in DOMAIN inbox' :
              \/ i \in DOMAIN inbox /\ inbox'[i] = inbox[i]
              \/ /\ i = Len(inbox) + 1 /\ inbox'[i] = m
                 /\ notifier[n] = "await" /\ notifier'[n] = "send"
         /\ Len(inbox) + 1 \notin DOMAIN inbox
         /\ \A k \in Notifier : k # n => notifier'[k] = notifier[k]
<1>1. CASE notifier[n] = "await"
  <2>1. notifier' = [notifier EXCEPT ![n] = "send"] /\ inbox' = Append(inbox, m)
    BY <1>1 DEF Forward
  <2> QED BY <1>1, <2>1, InboxAppend DEF Shape
<1>2. CASE notifier[n] # "await"
  BY <1>2 DEF Forward, Shape
<1> QED BY <1>1, <1>2

LEMMA RxInterruptKeeps ==
  ASSUME IInv, RxInterrupt
  PROVE  IInv'
<1>1. [kind |-> "rx", data |-> rxData] \in Message
  BY MessageParts DEF IInv, Shape
<1> DEFINE m == [kind |-> "rx", data |-> rxData]
<1>2. Forward("rx", m) /\ m.kind = "rx" /\ "rx" \in Notifier /\ "tx" \in Notifier
  BY DEF RxInterrupt, Notifier
<1>3. Shape /\ m \in Message
  BY <1>1 DEF IInv
<1> HIDE DEF m
<1>4. /\ inbox' \in Seq(Message)
      /\ notifier' \in [Notifier -> {"await", "send", "ready"}]
      /\ \A i \in DOMAIN inbox' :
           \/ i \in DOMAIN inbox /\ inbox'[i] = inbox[i]
           \/ i = Len(inbox) + 1 /\ inbox'[i] = m
      /\ notifier'["tx"] = notifier["tx"]
  BY <1>2, <1>3, Forwarded
<1>5. Shape'
  BY <1>4 DEF IInv, Shape, RxInterrupt, serverVars, counts
<1>6. TxInterruptHeard' /\ TxSignals'
  BY <1>2, <1>4 DEF IInv, HandshakeInv, TxInterruptHeard, TxSignals, RxInterrupt, serverVars
<1>7. CtsSignals'
  BY <1>2, <1>4 DEF IInv, HandshakeInv, CtsSignals, RaisesCts, RxInterrupt, serverVars
<1> QED BY <1>5, <1>6, <1>7 DEF IInv, HandshakeInv

LEMMA TxInterruptKeeps ==
  ASSUME IInv, TxInterrupt
  PROVE  IInv'
<1> DEFINE m == [kind |-> "tx"]
<1>2. Forward("tx", m) /\ m.kind = "tx" /\ "tx" \in Notifier
  BY DEF TxInterrupt, Notifier
<1>3. Shape /\ m \in Message
  BY MessageParts DEF IInv
<1> HIDE DEF m
<1>4. /\ inbox' \in Seq(Message)
      /\ notifier' \in [Notifier -> {"await", "send", "ready"}]
      /\ \A i \in DOMAIN inbox' :
           \/ i \in DOMAIN inbox /\ inbox'[i] = inbox[i]
           \/ i = Len(inbox) + 1 /\ inbox'[i] = m /\ notifier'["tx"] = "send"
      /\ Len(inbox) + 1 \notin DOMAIN inbox
  BY <1>2, <1>3, Forwarded
<1>5. Shape'
  BY <1>4 DEF IInv, Shape, TxInterrupt, serverVars, counts
<1>6. TxInterruptHeard' /\ TxSignals'
  <2>1. \A i \in DOMAIN inbox : inbox[i].kind # "tx"
    BY DEF IInv, HandshakeInv, TxSignals, TxInterrupt
  <2>2. tien = TRUE /\ ~txempty /\ holding = 0
    BY DEF IInv, Shape, HandshakeInv, TxSignals, TxInterrupt
  <2>3. tien' = FALSE /\ txempty' = txempty /\ holding' = holding
    BY DEF TxInterrupt, serverVars
  <2> QED BY <1>2, <1>4, <2>1, <2>2, <2>3 DEF TxInterruptHeard, TxSignals
<1>7. CtsSignals'
  BY <1>2, <1>4 DEF IInv, HandshakeInv, CtsSignals, RaisesCts, TxInterrupt, serverVars
<1> QED BY <1>5, <1>6, <1>7 DEF IInv, HandshakeInv

LEMMA MsInterruptKeeps ==
  ASSUME IInv, MsInterrupt \/ MsInterruptRaced
  PROVE  IInv'
<1>1. PICK f \in BOOLEAN : /\ Forward("ms", [kind |-> "ms", flag |-> f])
                           /\ f => device = "ready"
  BY DEF MsInterrupt, MsInterruptRaced
<1> DEFINE m == [kind |-> "ms", flag |-> f]
<1>2. Forward("ms", m) /\ m.kind = "ms" /\ m.flag = f /\ "ms" \in Notifier /\ "tx" \in Notifier
  BY <1>1 DEF Notifier
<1>3. Shape /\ m \in Message
  BY MessageParts DEF IInv
<1> HIDE DEF m
<1>4. /\ inbox' \in Seq(Message)
      /\ notifier' \in [Notifier -> {"await", "send", "ready"}]
      /\ \A i \in DOMAIN inbox' :
           \/ i \in DOMAIN inbox /\ inbox'[i] = inbox[i]
           \/ i = Len(inbox) + 1 /\ inbox'[i] = m
      /\ Len(inbox) + 1 \notin DOMAIN inbox
      /\ notifier'["tx"] = notifier["tx"]
  BY <1>2, <1>3, Forwarded
<1>5. Shape'
  BY <1>4 DEF IInv, Shape, MsInterrupt, MsInterruptRaced, serverVars, counts
<1>6. TxInterruptHeard' /\ TxSignals'
  BY <1>2, <1>4 DEF IInv, HandshakeInv, TxInterruptHeard, TxSignals,
                    MsInterrupt, MsInterruptRaced, serverVars
<1>7. CtsSignals'
  <2> SUFFICES ASSUME port = "COM1"
               PROVE  CtsSignals'
    BY DEF CtsSignals, MsInterrupt, MsInterruptRaced
  <2>1. msPending = TRUE /\ msPending' = FALSE /\ port' = port
    BY DEF IInv, Shape, MsInterrupt, MsInterruptRaced
  <2>2. ~cts /\ holding = 0 /\ shifter = 0 /\ \A i \in DOMAIN inbox : ~RaisesCts(i)
    BY <2>1 DEF IInv, Shape, HandshakeInv, CtsSignals
  <2>3. cts' = cts /\ holding' = holding /\ shifter' = shifter /\ (f => device' = "ready")
    BY <1>1 DEF MsInterrupt, MsInterruptRaced, serverVars
  <2>4. \A i \in DOMAIN inbox' : RaisesCts(i)' => i = Len(inbox) + 1 /\ f
    BY <1>2, <1>4, <2>2 DEF RaisesCts
  <2> QED BY <2>1, <2>2, <2>3, <2>4 DEF CtsSignals
<1> QED BY <1>5, <1>6, <1>7 DEF IInv, HandshakeInv

LEMMA AwaitEventKeeps ==
  ASSUME IInv, NEW n \in Notifier, AwaitEvent(n)
  PROVE  IInv'
<1>1. Shape'
  BY DEF IInv, Shape, AwaitEvent, serverVars, uart, counts
<1>2. TxInterruptHeard' /\ TxSignals'
  BY DEF IInv, Shape, HandshakeInv, TxInterruptHeard, TxSignals, AwaitEvent, serverVars, uart
<1>3. CtsSignals'
  BY DEF IInv, HandshakeInv, CtsSignals, RaisesCts, AwaitEvent, serverVars, uart
<1> QED BY <1>1, <1>2, <1>3 DEF IInv, HandshakeInv

\* A turn that takes a message which is no signal.
LEMMA OtherTurnKeeps ==
  ASSUME IInv, NEW k \in {"rx", "put", "get"}, Receive(k),
         notifier' \in [Notifier -> {"await", "send", "ready"}], notifier'["tx"] = notifier["tx"],
         UNCHANGED <<port, txempty, cts, uart, putCount, rxCount>>
  PROVE  IInv'
<1>1. inbox # <<>> /\ inbox' = Tail(inbox) /\ inbox \in Seq(Message)
  BY DEF Receive, IInv, Shape
<1>2. /\ inbox' \in Seq(Message)
      /\ \A i \in DOMAIN inbox' : i + 1 \in DOMAIN inbox /\ i \in Nat /\ inbox'[i] = inbox[i + 1]
  BY <1>1, InboxTail
<1>3. Shape'
  BY <1>2 DEF IInv, Shape, uart
<1>4. TxInterruptHeard' /\ TxSignals'
  BY <1>2 DEF IInv, HandshakeInv, TxInterruptHeard, TxSignals, uart
<1>5. CtsSignals'
  BY <1>2 DEF IInv, HandshakeInv, CtsSignals, RaisesCts, uart
<1> QED BY <1>3, <1>4, <1>5 DEF IInv, HandshakeInv

LEMMA ServeTxKeeps ==
  ASSUME IInv, ServeTx
  PROVE  IInv'
<1>1. inbox # <<>> /\ inbox' = Tail(inbox) /\ inbox \in Seq(Message) /\ Head(inbox).kind = "tx"
  BY DEF ServeTx, Receive, IInv, Shape
<1>2. /\ inbox' \in Seq(Message)
      /\ 1 \in DOMAIN inbox /\ inbox[1].kind = "tx"
      /\ \A i \in DOMAIN inbox' : /\ i + 1 \in DOMAIN inbox /\ i \in Nat /\ i + 1 # 1
                                  /\ inbox'[i] = inbox[i + 1]
  BY <1>1, InboxTail
<1>3. notifier' = [notifier EXCEPT !["tx"] = "ready"] /\ "tx" \in Notifier
  BY DEF ServeTx, Reply, Notifier
<1>4. Shape'
  BY <1>2, <1>3 DEF IInv, Shape, ServeTx, uart, counts
<1>5. TxInterruptHeard' /\ TxSignals'
  <2>1. holding = 0 /\ ~tien
    BY <1>2 DEF IInv, HandshakeInv, TxSignals
  <2>2. \A i \in DOMAIN inbox' : inbox'[i].kind # "tx"
    BY <1>2 DEF IInv, HandshakeInv, TxSignals
  <2>3. holding' = holding /\ tien' = tien /\ notifier'["tx"] = "ready"
    BY <1>3 DEF ServeTx, uart, IInv, Shape
  <2> QED BY <2>1, <2>2, <2>3 DEF TxInterruptHeard, TxSignals
<1>6. CtsSignals'
  BY <1>2 DEF IInv, HandshakeInv, CtsSignals, RaisesCts, ServeTx, uart
<1> QED BY <1>4, <1>5, <1>6 DEF IInv, HandshakeInv

LEMMA ServeMsKeeps ==
  ASSUME IInv, ServeMs
  PROVE  IInv'
<1>1. inbox # <<>> /\ inbox' = Tail(inbox) /\ inbox \in Seq(Message) /\ Head(inbox).kind = "ms"
  BY DEF ServeMs, Receive, IInv, Shape
<1>2. /\ inbox' \in Seq(Message)
      /\ 1 \in DOMAIN inbox /\ inbox[1].kind = "ms" /\ Head(inbox) = inbox[1]
      /\ inbox[1].flag \in BOOLEAN
      /\ \A i \in DOMAIN inbox' : /\ i + 1 \in DOMAIN inbox /\ i \in Nat /\ i + 1 # 1
                                  /\ inbox'[i] = inbox[i + 1]
  BY <1>1, InboxTail, MessageParts
<1>3. notifier' = [notifier EXCEPT !["ms"] = "ready"] /\ "ms" \in Notifier /\ "tx" \in Notifier
  BY DEF ServeMs, Reply, Notifier
<1>4. Shape'
  BY <1>2, <1>3 DEF IInv, Shape, ServeMs, uart, counts
<1>5. TxInterruptHeard' /\ TxSignals'
  BY <1>2, <1>3 DEF IInv, Shape, HandshakeInv, TxInterruptHeard, TxSignals, ServeMs, uart
<1>6. CtsSignals'
  <2> SUFFICES ASSUME port = "COM1"
               PROVE  CtsSignals'
    BY DEF CtsSignals, ServeMs
  <2>1. \A i \in DOMAIN inbox' : RaisesCts(i)' => RaisesCts(i + 1) /\ i + 1 \in DOMAIN inbox /\ i \in Nat
    BY <1>2 DEF RaisesCts
  <2>2. UNCHANGED <<port, holding, shifter, device, msPending>> /\ cts' = inbox[1].flag
    BY <1>2 DEF ServeMs, uart
  <2>3. CASE inbox[1].flag
    <3>1. RaisesCts(1) /\ 1 \in DOMAIN inbox
      BY <1>2, <2>3 DEF RaisesCts
    <3>2. \A i \in DOMAIN inbox' : ~RaisesCts(i)'
      BY <1>2, <2>1, <3>1 DEF IInv, HandshakeInv, CtsSignals
    <3>3. holding = 0 /\ shifter = 0 /\ ~msPending /\ device = "ready"
      BY <3>1 DEF IInv, Shape, HandshakeInv, CtsSignals
    <3> QED BY <2>2, <3>2, <3>3 DEF CtsSignals
  <2>4. CASE ~inbox[1].flag
    BY <2>1, <2>2, <2>4 DEF IInv, HandshakeInv, CtsSignals
  <2> QED BY <2>3, <2>4
<1> QED BY <1>4, <1>5, <1>6 DEF IInv, HandshakeInv

\* The end of a turn, with or without a write.
LEMMA OutputKeeps ==
  ASSUME IInv, Output
  PROVE  IInv'
<1>1. CASE ~buffer_empty(out) /\ txempty /\ cts
  <2>1. /\ tien' = TRUE /\ txempty' = FALSE /\ cts' = (port = "COM2")
        /\ UNCHANGED <<port, inbox, notifier, shifter, rxData, msPending, device,
                       putCount, rxCount>>
    BY <1>1 DEF Output, Write, counts
  <2>2. notifier["tx"] = "await"
    BY <1>1 DEF Output, NotifiersFirst, Notifier, IInv, Shape, HandshakeInv, TxSignals
  <2>3. Shape'
    BY <2>1 DEF IInv, Shape
  <2>4. TxInterruptHeard' /\ TxSignals'
    BY <1>1, <2>1, <2>2 DEF IInv, HandshakeInv, TxInterruptHeard, TxSignals
  <2>5. CtsSignals'
    BY <1>1, <2>1 DEF IInv, HandshakeInv, CtsSignals, RaisesCts
  <2> QED BY <2>3, <2>4, <2>5 DEF IInv, HandshakeInv
<1>2. CASE ~(~buffer_empty(out) /\ txempty /\ cts)
  <2>1. UNCHANGED <<port, inbox, notifier, shifter, rxData, msPending, device, putCount, rxCount,
                    holding, tien, txempty, cts>>
    BY <1>2 DEF Output, counts
  <2> QED BY <2>1 DEF IInv, Shape, HandshakeInv, TxInterruptHeard, TxSignals, CtsSignals, RaisesCts
<1> QED BY <1>1, <1>2

LEMMA FlushKeeps ==
  ASSUME IInv, flush
  PROVE  IInv'
BY DEF flush, IInv, Shape, HandshakeInv, TxInterruptHeard, TxSignals, CtsSignals, RaisesCts

LEMMA NextKeeps ==
  ASSUME IInv, [Next]_vars
  PROVE  IInv'
<1>1. CASE Getc \/ \E p \in Putter, len \in 1 .. 2 : Putstr(p, len)
  BY <1>1, ClientsKeep
<1>2. CASE ByteArrives \/ Shift \/ ByteLeaves \/ DeviceReady
  BY <1>2, LineKeeps
<1>3. CASE RxInterrupt \/ TxInterrupt \/ MsInterrupt \/ MsInterruptRaced
  BY <1>3, RxInterruptKeeps, TxInterruptKeeps, MsInterruptKeeps
<1>4. CASE \E n \in Notifier : AwaitEvent(n)
  BY <1>4, AwaitEventKeeps
<1>5. CASE Serve
  <2>1. CASE ServeRx
    <3>1. /\ Receive("rx") /\ notifier' = [notifier EXCEPT !["rx"] = "ready"]
          /\ UNCHANGED <<port, txempty, cts, uart, putCount, rxCount>>
      BY <2>1 DEF ServeRx, Reply
    <3>2. /\ notifier' \in [Notifier -> {"await", "send", "ready"}]
          /\ notifier'["tx"] = notifier["tx"]
      BY <3>1 DEF IInv, Shape, Notifier
    <3> QED BY <3>1, <3>2, OtherTurnKeeps
  <2>2. CASE ServePut
    <3>1. Receive("put") /\ UNCHANGED <<port, txempty, cts, notifier, uart, putCount, rxCount>>
      BY <2>2 DEF ServePut, counts
    <3> QED BY <3>1, OtherTurnKeeps DEF IInv, Shape
  <2>3. CASE ServeGet
    <3>1. Receive("get") /\ UNCHANGED <<port, txempty, cts, notifier, uart, putCount, rxCount>>
      BY <2>3 DEF ServeGet
    <3> QED BY <3>1, OtherTurnKeeps DEF IInv, Shape
  <2> QED BY <1>5, <2>1, <2>2, <2>3, ServeTxKeeps, ServeMsKeeps, OutputKeeps DEF Serve
<1>6. CASE flush
  BY <1>6, FlushKeeps
<1>7. CASE UNCHANGED vars
  BY <1>7 DEF vars, serverVars, uart, counts, IInv, Shape, HandshakeInv, TxInterruptHeard,
              TxSignals, CtsSignals, RaisesCts
<1> QED BY <1>1, <1>2, <1>3, <1>4, <1>5, <1>6, <1>7 DEF Next

\* Each signal to write is in one place at a time, and the TX interrupt is
\* never armed without its notifier waiting for it.
THEOREM HandshakeIsKept == Spec => []HandshakeInv
<1>1. Init => IInv
  BY InitEstablishes
<1>2. IInv /\ [Next]_vars => IInv'
  BY NextKeeps
<1>3. IInv => HandshakeInv
  BY DEF IInv
<1> QED BY <1>1, <1>2, <1>3, PTL DEF Spec

\* No byte is written over another, and none to a train controller that is
\* not ready for it: for any rings, clients and timing of the interrupts.
THEOREM WritesNeverOverrun == Spec => NoOverrun
<1>1. IInv /\ [Next]_vars =>
        [holding' \notin {0, holding} =>
           /\ holding = 0
           /\ port = "COM1" => shifter = 0 /\ device = "ready"]_vars
  <2> SUFFICES ASSUME IInv, Next, holding' \notin {0, holding}
               PROVE  holding = 0 /\ (port = "COM1" => shifter = 0 /\ device = "ready")
    OBVIOUS
  <2>1. Output
    BY DEF Next, Getc, Putstr, ByteArrives, Shift, ByteLeaves, DeviceReady, RxInterrupt,
           TxInterrupt, MsInterrupt, MsInterruptRaced, AwaitEvent, Serve, ServeRx, ServeTx,
           ServeMs, ServePut, ServeGet, flush, uart
  <2>2. txempty /\ cts
    BY <2>1 DEF Output
  <2> QED BY <2>2 DEF IInv, HandshakeInv, TxSignals, CtsSignals
<1>2. Init => IInv
  BY InitEstablishes
<1>3. IInv /\ [Next]_vars => IInv'
  BY NextKeeps
<1> QED BY <1>1, <1>2, <1>3, PTL DEF Spec, NoOverrun

-----------------------------------------------------------------------------
(* The rings.                                                              *)

Ring == [data : [0 .. Size - 1 -> Nat], bufferHead : 0 .. Size - 1, bufferTail : 0 .. Size - 1]

LEMMA RingParts ==
  ASSUME NEW b \in Ring
  PROVE  /\ b.data \in [0 .. Size - 1 -> Nat]
         /\ b.bufferHead \in 0 .. Size - 1 /\ b.bufferTail \in 0 .. Size - 1
         /\ b = [data |-> b.data, bufferHead |-> b.bufferHead, bufferTail |-> b.bufferTail]
BY DEF Ring

\* The remainders that the rings take.
LEMMA Wraps ==
  ASSUME NEW x \in Int
  PROVE  /\ 0 <= x /\ x < Size => x % Size = x
         /\ 0 - Size <= x /\ x < 0 => x % Size = x + Size
         /\ Size <= x /\ x < Size + Size => x % Size = x - Size
<1>1. ASSUME 0 <= x, x < Size PROVE x % Size = x
  BY <1>1, IoServerAssumption
<1>2. ASSUME 0 - Size <= x, x < 0 PROVE x % Size = x + Size
  BY <1>2, IoServerAssumption
<1>3. ASSUME Size <= x, x < Size + Size PROVE x % Size = x - Size
  BY <1>3, IoServerAssumption
<1> QED BY <1>1, <1>2, <1>3

\* The slot of the k-th byte after the tail.
Slot(t, k) == IF t + k < Size THEN t + k ELSE t + k - Size

\* How many bytes lie between tail and head.
Span(h, t) == IF h >= t THEN h - t ELSE h - t + Size

\* The arithmetic of heads and tails.
LEMMA SpanIs ==
  ASSUME NEW h \in 0 .. Size - 1, NEW t \in 0 .. Size - 1
  PROVE  /\ Span(h, t) \in 0 .. Size - 1
         /\ (h - t) % Size = Span(h, t)
         /\ h = t <=> Span(h, t) = 0
         /\ increment_offset(h) \in 0 .. Size - 1
         /\ increment_offset(h) = t <=> Span(h, t) = Size - 1
         /\ increment_offset(h) # t => Span(increment_offset(h), t) = Span(h, t) + 1
         /\ h # t => Span(h, increment_offset(t)) = Span(h, t) - 1
<1>0. Size \in Nat /\ Size >= 2 /\ h - t \in Int
  BY IoServerAssumption
<1>1. CASE h >= t
  <2>1. (h - t) % Size = h - t /\ Span(h, t) = h - t
    BY <1>0, <1>1, Wraps DEF Span
  <2>2. h # t => Span(h, increment_offset(t)) = h - t - 1
    BY <1>0, <1>1 DEF Span, increment_offset
  <2>3. increment_offset(h) # t => Span(increment_offset(h), t) = h - t + 1
    BY <1>0, <1>1 DEF Span, increment_offset
  <2>4. increment_offset(h) \in 0 .. Size - 1 /\ (increment_offset(h) = t <=> h - t = Size - 1)
    BY <1>0, <1>1 DEF increment_offset
  <2> QED BY <1>0, <1>1, <2>1, <2>2, <2>3, <2>4
<1>2. CASE ~(h >= t)
  <2>1. (h - t) % Size = h - t + Size /\ Span(h, t) = h - t + Size
    BY <1>0, <1>2, Wraps DEF Span
  <2>2. Span(h, increment_offset(t)) = h - t + Size - 1
    <3>1. CASE t + 1 = Size
      BY <1>0, <1>2, <3>1 DEF Span, increment_offset
    <3>2. CASE t + 1 # Size
      BY <1>0, <1>2, <3>2 DEF Span, increment_offset
    <3> QED BY <3>1, <3>2
  <2>3. increment_offset(h) # t => Span(increment_offset(h), t) = h - t + Size + 1
    BY <1>0, <1>2 DEF Span, increment_offset
  <2>4. increment_offset(h) \in 0 .. Size - 1 /\ (increment_offset(h) = t <=> h - t + Size = Size - 1)
    BY <1>0, <1>2 DEF increment_offset
  <2> QED BY <1>0, <1>2, <2>1, <2>2, <2>3, <2>4
<1> QED BY <1>1, <1>2

LEMMA SlotIs ==
  ASSUME NEW h \in 0 .. Size - 1, NEW t \in 0 .. Size - 1
  PROVE  /\ Slot(t, 0) = t /\ Slot(t, Span(h, t)) = h
         /\ \A i \in 1 .. Span(h, t) : /\ (t + i - 1) % Size = Slot(t, i - 1)
                                      /\ Slot(t, i - 1) \in 0 .. Size - 1
                                      /\ Slot(t, i - 1) # h
<1>0. Size \in Nat /\ Size >= 2 /\ Span(h, t) \in 0 .. Size - 1
  BY IoServerAssumption, SpanIs
<1>1. Slot(t, 0) = t
  BY <1>0 DEF Slot
<1>2. Slot(t, Span(h, t)) = h
  BY <1>0 DEF Slot, Span
<1>3. ASSUME NEW i \in 1 .. Span(h, t)
      PROVE  /\ (t + i - 1) % Size = Slot(t, i - 1)
             /\ Slot(t, i - 1) \in 0 .. Size - 1
             /\ Slot(t, i - 1) # h
  <2>1. i \in Int /\ 1 <= i /\ i <= Span(h, t) /\ Span(h, t) <= Size - 1
    BY <1>0
  <2>2. t + i - 1 \in Int /\ t + (i - 1) = t + i - 1
    BY <2>1
  <2>3. CASE t + i - 1 < Size
    <3>1. Slot(t, i - 1) = t + i - 1
      BY <2>2, <2>3 DEF Slot
    <3>2. (t + i - 1) % Size = t + i - 1
      BY <1>0, <2>1, <2>2, <2>3, Wraps
    <3>3. t + i - 1 # h
      BY <1>0, <2>1, <2>3 DEF Span
    <3> QED BY <1>0, <2>1, <2>3, <3>1, <3>2, <3>3
  <2>4. CASE ~(t + i - 1 < Size)
    <3>1. Slot(t, i - 1) = t + i - 1 - Size
      BY <2>1, <2>2, <2>4 DEF Slot
    <3>2. (t + i - 1) % Size = t + i - 1 - Size
      BY <1>0, <2>1, <2>2, <2>4, Wraps
    <3>3. t + i - 1 - Size # h
      BY <1>0, <2>1, <2>4 DEF Span
    <3> QED BY <1>0, <2>1, <2>4, <3>1, <3>2, <3>3
  <2> QED BY <2>3, <2>4
<1> QED BY <1>1, <1>2, <1>3

LEMMA NextSlot ==
  ASSUME NEW t \in 0 .. Size - 1, NEW i \in 1 .. Size - 2
  PROVE  Slot(increment_offset(t), i - 1) = Slot(t, i)
<1>1. Size \in Nat /\ Size >= 2
  BY IoServerAssumption
<1>2. CASE t + 1 = Size
  BY <1>1, <1>2 DEF Slot, increment_offset
<1>3. CASE t + 1 # Size
  <2>1. increment_offset(t) = t + 1 /\ t + 1 + (i - 1) = t + i
    BY <1>3 DEF increment_offset
  <2> QED BY <1>1, <2>1 DEF Slot
<1> QED BY <1>2, <1>3

LEMMA ContentsAre ==
  ASSUME NEW b \in Ring
  PROVE  /\ Span(b.bufferHead, b.bufferTail) \in 0 .. Size - 1
         /\ Contents(b) = [i \in 1 .. Span(b.bufferHead, b.bufferTail) |->
                             b.data[Slot(b.bufferTail, i - 1)]]
         /\ Contents(b) \in Seq(Nat)
         /\ Len(Contents(b)) = Span(b.bufferHead, b.bufferTail)
<1> DEFINE h == b.bufferHead
           t == b.bufferTail
           n == Span(h, t)
<1>0. /\ b.data \in [0 .. Size - 1 -> Nat] /\ h \in 0 .. Size - 1 /\ t \in 0 .. Size - 1
      /\ Size \in Nat /\ Size >= 2
  BY RingParts, IoServerAssumption
<1> HIDE DEF h, t
<1>1. n \in 0 .. Size - 1 /\ (h - t) % Size = n
  BY <1>0, SpanIs
<1>3. \A i \in 1 .. n : /\ (t + i - 1) % Size = Slot(t, i - 1)
                       /\ Slot(t, i - 1) \in 0 .. Size - 1
  BY <1>0, SlotIs
<1> HIDE DEF n
<1>4. Contents(b) = [i \in 1 .. n |-> b.data[(t + i - 1) % Size]]
  BY <1>1 DEF Contents, h, t
<1>5. Contents(b) = [i \in 1 .. n |-> b.data[Slot(t, i - 1)]]
  BY <1>3, <1>4
<1>6. [i \in 1 .. n |-> b.data[Slot(t, i - 1)]] \in [1 .. n -> Nat]
  BY <1>0, <1>3
<1>7. Contents(b) \in Seq(Nat) /\ Len(Contents(b)) = n
  BY <1>1, <1>5, <1>6, IsASeq, LenProperties
<1> QED BY <1>1, <1>5, <1>7 DEF n, h, t

\* A byte joins the end of a ring that is not full; a full one drops it.
LEMMA AddIs ==
  ASSUME NEW b \in Ring, NEW c \in Nat
  PROVE  /\ add_to_buffer(b, c) \in Ring
         /\ IsFull(b) => Contents(add_to_buffer(b, c)) = Contents(b)
         /\ ~IsFull(b) => Contents(add_to_buffer(b, c)) = Append(Contents(b), c)
<1> DEFINE h == b.bufferHead
           t == b.bufferTail
           n == Span(h, t)
           next == increment_offset(h)
           r == add_to_buffer(b, c)
<1>0. /\ b.data \in [0 .. Size - 1 -> Nat] /\ h \in 0 .. Size - 1 /\ t \in 0 .. Size - 1
      /\ Size \in Nat /\ Size >= 2
  BY RingParts, IoServerAssumption
<1>1. /\ n \in 0 .. Size - 1 /\ Contents(b) \in Seq(Nat) /\ Len(Contents(b)) = n
      /\ Contents(b) = [i \in 1 .. n |-> b.data[Slot(t, i - 1)]]
  BY ContentsAre
<1>2. next \in 0 .. Size - 1
  BY <1>0, SpanIs
<1>3. next = t <=> n = Size - 1
  BY <1>0, SpanIs
<1>4. IsFull(b) <=> next = t
  BY <1>1, <1>3 DEF IsFull
<1>5. CASE next = t
  <2>1. r = b
    BY <1>5 DEF add_to_buffer
  <2> QED BY <1>4, <1>5, <2>1
<1>6. CASE next # t
  <2>1. r = [b EXCEPT !.data[b.bufferHead] = c, !.bufferHead = increment_offset(@)]
    BY <1>6 DEF add_to_buffer
  <2>2. r = [data |-> [b.data EXCEPT ![h] = c], bufferHead |-> next, bufferTail |-> t]
    BY <2>1, RingParts
  <2>3. r \in Ring
    BY <1>0, <1>2, <2>2 DEF Ring
  <2>4. r.data = [b.data EXCEPT ![h] = c] /\ r.bufferHead = next /\ r.bufferTail = t
    BY <2>2
  <2>5. Span(next, t) = n + 1
    BY <1>0, <1>6, SpanIs
  <2>6. Slot(t, n) = h /\ \A i \in 1 .. n : Slot(t, i - 1) \in 0 .. Size - 1 /\ Slot(t, i - 1) # h
    BY <1>0, SlotIs
  <2> HIDE DEF r, next, n, h, t
  <2>7. Contents(r) = [i \in 1 .. n + 1 |-> r.data[Slot(t, i - 1)]]
    BY <2>3, <2>4, <2>5, ContentsAre
  <2>8. ASSUME NEW i \in 1 .. n + 1
        PROVE  r.data[Slot(t, i - 1)] = Append(Contents(b), c)[i]
    <3>1. CASE i = n + 1
      <4>1. i - 1 = n /\ r.data[h] = c
        BY <1>0, <1>1, <2>4, <3>1
      <4>2. Append(Contents(b), c)[i] = c
        BY <1>1, <3>1
      <4> QED BY <2>6, <4>1, <4>2
    <3>2. CASE i # n + 1
      <4>1. i \in 1 .. n
        BY <1>1, <3>2
      <4>2. r.data[Slot(t, i - 1)] = b.data[Slot(t, i - 1)]
        BY <1>0, <2>4, <2>6, <4>1
      <4>3. Append(Contents(b), c)[i] = Contents(b)[i]
        BY <1>1, <4>1
      <4> QED BY <1>1, <4>1, <4>2, <4>3
    <3> QED BY <3>1, <3>2
  <2>9. Append(Contents(b), c) = [i \in 1 .. n + 1 |-> Append(Contents(b), c)[i]]
    BY <1>1
  <2>10. Contents(r) = Append(Contents(b), c)
    BY <2>7, <2>8, <2>9
  <2> QED BY <1>4, <1>6, <2>3, <2>10 DEF r
<1> QED BY <1>5, <1>6

\* The oldest byte leaves a ring that is not empty.
LEMMA RemoveIs ==
  ASSUME NEW b \in Ring
  PROVE  /\ buffer_empty(b) <=> Contents(b) = <<>>
         /\ ~buffer_empty(b) => /\ remove_from_buffer(b) \in Ring
                                /\ first_of_buffer(b) = Head(Contents(b))
                                /\ Contents(remove_from_buffer(b)) = Tail(Contents(b))
<1> DEFINE h == b.bufferHead
           t == b.bufferTail
           n == Span(h, t)
           next == increment_offset(t)
           r == remove_from_buffer(b)
<1>0. /\ b.data \in [0 .. Size - 1 -> Nat] /\ h \in 0 .. Size - 1 /\ t \in 0 .. Size - 1
      /\ Size \in Nat /\ Size >= 2
  BY RingParts, IoServerAssumption
<1>1. /\ n \in 0 .. Size - 1 /\ Contents(b) \in Seq(Nat) /\ Len(Contents(b)) = n
      /\ Contents(b) = [i \in 1 .. n |-> b.data[Slot(t, i - 1)]]
  BY ContentsAre
<1>2. h = t <=> n = 0
  BY <1>0, SpanIs
<1>3. buffer_empty(b) <=> Contents(b) = <<>>
  BY <1>1, <1>2 DEF buffer_empty
<1>4. CASE h = t
  BY <1>3, <1>4 DEF buffer_empty
<1>5. CASE h # t
  <2>1. r = [data |-> b.data, bufferHead |-> h, bufferTail |-> next]
    BY RingParts DEF remove_from_buffer
  <2>2. next \in 0 .. Size - 1
    BY <1>0, SpanIs
  <2>3. r \in Ring /\ r.data = b.data /\ r.bufferHead = h /\ r.bufferTail = next
    BY <1>0, <2>1, <2>2 DEF Ring
  <2>4. Span(h, next) = n - 1
    BY <1>0, <1>5, SpanIs
  <2>5. \A i \in 1 .. n - 1 : Slot(next, i - 1) = Slot(t, i)
    <3> SUFFICES ASSUME NEW i \in 1 .. n - 1
                 PROVE  Slot(next, i - 1) = Slot(t, i)
      OBVIOUS
    <3>1. i \in 1 .. Size - 2
      BY <1>0, <1>1
    <3> QED BY <1>0, <3>1, NextSlot
  <2>6. Slot(t, 0) = t
    BY <1>0, SlotIs
  <2> HIDE DEF r, next, n, h, t
  <2>7. Contents(r) = [i \in 1 .. n - 1 |-> b.data[Slot(next, i - 1)]]
    BY <2>3, <2>4, ContentsAre
  <2>8. n \in Nat /\ n >= 1 /\ 1 \in 1 .. n
    BY <1>1, <1>2, <1>5
  <2>9. Head(Contents(b)) = b.data[t]
    BY <1>1, <2>6, <2>8
  <2>10. Tail(Contents(b)) = [i \in 1 .. n - 1 |-> Contents(b)[i + 1]]
    BY <1>1, <2>8
  <2>11. ASSUME NEW i \in 1 .. n - 1
         PROVE  Contents(b)[i + 1] = b.data[Slot(next, i - 1)]
    <3>1. i + 1 \in 1 .. n /\ i + 1 - 1 = i
      BY <2>8
    <3> QED BY <1>1, <2>5, <3>1
  <2>12. Contents(r) = Tail(Contents(b))
    BY <2>7, <2>10, <2>11
  <2> QED BY <1>3, <2>3, <2>9, <2>12 DEF r, t, first_of_buffer
<1> QED BY <1>4, <1>5

Increasing(s) == \A i, j \in DOMAIN s : i < j => s[i] < s[j]

\* What an addition does to the bytes held, and to their order.
LEMMA AddHolds ==
  ASSUME NEW b \in Ring, NEW c \in Nat
  PROVE  /\ add_to_buffer(b, c) \in Ring
         /\ IsFull(b) => Held(add_to_buffer(b, c)) = Held(b) /\ IsFull(add_to_buffer(b, c))
         /\ ~IsFull(b) => Held(add_to_buffer(b, c)) = Held(b) \cup {c}
         /\ Increasing(Contents(b)) /\ (\A x \in Held(b) : x < c) =>
              Increasing(Contents(add_to_buffer(b, c)))
<1> DEFINE r == add_to_buffer(b, c)
           s == Contents(b)
<1>1. s \in Seq(Nat) /\ r \in Ring
  BY ContentsAre, AddIs
<1>2. CASE IsFull(b)
  <2>1. Contents(r) = s
    BY <1>2, AddIs
  <2> QED BY <1>1, <1>2, <2>1 DEF Held, IsFull
<1>3. CASE ~IsFull(b)
  <2>1. Contents(r) = Append(s, c)
    BY <1>3, AddIs
  <2>2. /\ DOMAIN Append(s, c) = 1 .. Len(s) + 1 /\ DOMAIN s = 1 .. Len(s) /\ Len(s) \in Nat
        /\ \A i \in 1 .. Len(s) : Append(s, c)[i] = s[i]
        /\ Append(s, c)[Len(s) + 1] = c
    BY <1>1
  <2>3. Held(b) = {s[i] : i \in DOMAIN s} /\ Held(r) = {Append(s, c)[i] : i \in DOMAIN Append(s, c)}
    BY <2>1 DEF Held
  <2> HIDE DEF s, r
  <2>4. Held(r) = Held(b) \cup {c}
    <3>1. \A x \in Held(r) : x \in Held(b) \cup {c}
      BY <2>2, <2>3
    <3>2. \A x \in Held(b) : x \in Held(r)
      BY <2>2, <2>3
    <3>3. c \in Held(r)
      BY <2>2, <2>3
    <3> QED BY <3>1, <3>2, <3>3
  <2>5. Increasing(s) /\ (\A x \in Held(b) : x < c) => Increasing(Append(s, c))
    BY <2>2, <2>3 DEF Increasing
  <2> QED BY <1>1, <1>3, <2>1, <2>4, <2>5 DEF r, s
<1> QED BY <1>2, <1>3

\* What a removal does to them.
LEMMA RemoveHolds ==
  ASSUME NEW b \in Ring, ~buffer_empty(b)
  PROVE  /\ remove_from_buffer(b) \in Ring
         /\ Held(b) = Held(remove_from_buffer(b)) \cup {first_of_buffer(b)}
         /\ Increasing(Contents(b)) =>
              /\ Increasing(Contents(remove_from_buffer(b)))
              /\ \A x \in Held(remove_from_buffer(b)) : first_of_buffer(b) < x
<1> DEFINE r == remove_from_buffer(b)
           s == Contents(b)
<1>1. /\ s \in Seq(Nat) /\ s # <<>> /\ r \in Ring
      /\ Contents(r) = Tail(s) /\ first_of_buffer(b) = Head(s)
  BY ContentsAre, RemoveIs
<1>2. /\ DOMAIN s = 1 .. Len(s) /\ Len(s) \in Nat /\ Len(s) >= 1
      /\ DOMAIN Tail(s) = 1 .. Len(s) - 1 /\ Head(s) = s[1]
      /\ \A i \in 1 .. Len(s) - 1 : Tail(s)[i] = s[i + 1]
  BY <1>1
<1>3. Held(b) = {s[i] : i \in DOMAIN s} /\ Held(r) = {Tail(s)[i] : i \in DOMAIN Tail(s)}
  BY <1>1 DEF Held
<1> HIDE DEF s, r
<1>4. Held(b) = Held(r) \cup {Head(s)}
  <2>1. ASSUME NEW i \in 1 .. Len(s) PROVE s[i] \in Held(r) \cup {Head(s)}
    <3>1. CASE i = 1
      BY <1>2, <3>1
    <3>2. CASE i # 1
      <4>1. i - 1 \in 1 .. Len(s) - 1 /\ Tail(s)[i - 1] = s[i]
        BY <1>2, <3>2
      <4> QED BY <1>2, <1>3, <4>1
    <3> QED BY <3>1, <3>2
  <2>2. \A x \in Held(b) : x \in Held(r) \cup {Head(s)}
    BY <1>2, <1>3, <2>1
  <2>3. ASSUME NEW i \in 1 .. Len(s) - 1 PROVE Tail(s)[i] \in Held(b)
    <3>1. i + 1 \in 1 .. Len(s)
      BY <1>2
    <3> QED BY <1>2, <1>3, <3>1
  <2>4. \A x \in Held(r) : x \in Held(b)
    BY <1>2, <1>3, <2>3
  <2>5. 1 \in 1 .. Len(s)
    BY <1>2
  <2>6. Head(s) \in Held(b)
    BY <1>2, <1>3, <2>5
  <2> QED BY <2>2, <2>4, <2>6
<1>5. ASSUME Increasing(s)
      PROVE  Increasing(Tail(s)) /\ \A x \in Held(r) : Head(s) < x
  <2>1. ASSUME NEW i \in 1 .. Len(s) - 1, NEW j \in 1 .. Len(s) - 1, i < j
        PROVE  Tail(s)[i] < Tail(s)[j]
    <3>1. i + 1 \in DOMAIN s /\ j + 1 \in DOMAIN s /\ i + 1 < j + 1
      BY <1>2, <2>1
    <3>2. s[i + 1] < s[j + 1]
      BY <1>5, <3>1 DEF Increasing
    <3> QED BY <1>2, <3>2
  <2>2. ASSUME NEW i \in 1 .. Len(s) - 1
        PROVE  Head(s) < Tail(s)[i]
    <3>1. 1 \in DOMAIN s /\ i + 1 \in DOMAIN s /\ 1 < i + 1
      BY <1>2
    <3> QED BY <1>2, <1>5, <3>1 DEF Increasing
  <2> QED BY <1>2, <1>3, <2>1, <2>2 DEF Increasing
<1> QED BY <1>1, <1>4, <1>5 DEF r, s

\* An empty ring holds nothing; the last byte of the others is the youngest.
LEMMA LastHeld ==
  ASSUME NEW b \in Ring
  PROVE  /\ buffer_empty(b) => Held(b) = {} /\ Contents(b) = <<>>
         /\ ~buffer_empty(b) => Contents(b)[Len(Contents(b))] \in Held(b)
         /\ Held(b) \subseteq Nat
<1>1. Contents(b) \in Seq(Nat)
  BY ContentsAre
<1>2. buffer_empty(b) <=> Contents(b) = <<>>
  BY RemoveIs
<1>3. Contents(b) # <<>> => Len(Contents(b)) \in DOMAIN Contents(b)
  BY <1>1
<1>4. \A i \in DOMAIN Contents(b) : Contents(b)[i] \in Nat
  BY <1>1
<1> QED BY <1>1, <1>2, <1>3, <1>4 DEF Held

-----------------------------------------------------------------------------
(* PUTSTR adds byte after byte.                                            *)

\* Every non-empty set of naturals has a least element.
LEMMA LeastNatural ==
  ASSUME NEW B \in SUBSET Nat, B # {}
  PROVE  \E k \in B : \A m \in B : k <= m
<1>1. PICK k \in B : \A m \in B : ~(<<m, k>> \in OpToRel(<, Nat))
  BY WFMin, NatLessThanWellFounded
<1>2. \A m \in B : ~(m < k)
  BY <1>1 DEF OpToRel
<1> QED BY <1>2

\* g holds the rings after the first k additions.
Adds(b, data, k, g) ==
  g = [i \in 0 .. k |-> IF i = 0 THEN b ELSE add_to_buffer(g[i - 1], data[i])]

\* The additions can be continued by one.
LEMMA AddsStep ==
  ASSUME NEW b, NEW data, NEW k \in Nat, NEW g, Adds(b, data, k, g)
  PROVE  \E r : Adds(b, data, k + 1, r)
<1> DEFINE r == [i \in 0 .. k + 1 |-> IF i = k + 1 THEN add_to_buffer(g[k], data[k + 1]) ELSE g[i]]
<1>1. \A i \in 0 .. k : g[i] = IF i = 0 THEN b ELSE add_to_buffer(g[i - 1], data[i])
  BY DEF Adds
<1>2. r[k + 1] = add_to_buffer(g[k], data[k + 1]) /\ \A i \in 0 .. k : r[i] = g[i]
  OBVIOUS
<1>3. r = [i \in 0 .. k + 1 |-> r[i]]
  OBVIOUS
<1> HIDE DEF r
<1>4. ASSUME NEW i \in 0 .. k + 1
      PROVE  r[i] = IF i = 0 THEN b ELSE add_to_buffer(r[i - 1], data[i])
  <2>1. CASE i = k + 1
    <3>1. k \in 0 .. k /\ i # 0 /\ i - 1 = k
      BY <2>1
    <3> QED BY <1>2, <2>1, <3>1
  <2>2. CASE i # k + 1
    <3>1. i \in 0 .. k /\ (i # 0 => i - 1 \in 0 .. k)
      BY <2>2
    <3> QED BY <1>1, <1>2, <3>1
  <2> QED BY <2>1, <2>2
<1>5. Adds(b, data, k + 1, r)
  BY <1>3, <1>4 DEF Adds
<1> QED BY <1>5

\* What PUTSTR leaves of a ring.
LEMMA AddAllHolds ==
  ASSUME NEW b \in Ring, NEW data \in Seq(Nat)
  PROVE  /\ add_all(b, data) \in Ring
         /\ Held(b) \subseteq Held(add_all(b, data))
         /\ \A c \in Held(add_all(b, data)) : c \in Held(b) \/ \E k \in DOMAIN data : c = data[k]
         /\ \A k \in DOMAIN data : data[k] \in Held(add_all(b, data)) \/ IsFull(add_all(b, data))
         /\ (/\ Increasing(Contents(b)) /\ Increasing(data)
             /\ \A c \in Held(b), k \in DOMAIN data : c < data[k])
              => Increasing(Contents(add_all(b, data)))
<1> DEFINE n == Len(data)
<1>1. n \in Nat /\ DOMAIN data = 1 .. n /\ \A k \in 1 .. n : data[k] \in Nat
  OBVIOUS
<1> DEFINE Bad == {k \in Nat : ~ \E g : Adds(b, data, k, g)}
<1>2. Bad = {}
  <2> SUFFICES ASSUME Bad # {} PROVE FALSE
    OBVIOUS
  <2>1. Bad \in SUBSET Nat
    OBVIOUS
  <2>2. PICK k \in Bad : \A m \in Bad : k <= m
    <3> HIDE DEF Bad
    <3> QED BY <2>1, LeastNatural
  <2>3. CASE k = 0
    <3> DEFINE g0 == [i \in 0 .. 0 |-> b]
    <3>1. g0 = [i \in 0 .. 0 |-> IF i = 0 THEN b ELSE add_to_buffer(g0[i - 1], data[i])]
      OBVIOUS
    <3> HIDE DEF g0
    <3>2. Adds(b, data, 0, g0)
      BY <3>1 DEF Adds
    <3> QED BY <2>2, <2>3, <3>2
  <2>4. CASE k # 0
    <3>1. k - 1 \in Nat /\ k - 1 + 1 = k /\ ~(k <= k - 1)
      BY <2>1, <2>2, <2>4
    <3>2. k - 1 \notin Bad
      <4> HIDE DEF Bad
      <4> QED BY <2>2, <3>1
    <3>3. PICK g : Adds(b, data, k - 1, g)
      BY <3>1, <3>2
    <3> QED BY <2>2, <3>1, <3>3, AddsStep
  <2> QED BY <2>3, <2>4
<1> DEFINE f == CHOOSE g : Adds(b, data, n, g)
<1>3. Adds(b, data, n, f)
  <2>1. \E g : Adds(b, data, n, g)
    BY <1>1, <1>2
  <2> QED BY <2>1
<1>4. add_all(b, data) = f[n]
  BY DEF add_all, Adds
<1> HIDE DEF f
<1>5. f[0] = b /\ \A i \in 1 .. n : f[i] = add_to_buffer(f[i - 1], data[i])
  <2>1. \A i \in 0 .. n : f[i] = IF i = 0 THEN b ELSE add_to_buffer(f[i - 1], data[i])
    <3> HIDE DEF n
    <3> QED BY <1>3 DEF Adds
  <2>2. 0 \in 0 .. n /\ \A i \in 1 .. n : i \in 0 .. n /\ i # 0
    BY <1>1
  <2> QED BY <2>1, <2>2
<1> HIDE DEF n
<1> DEFINE Rising == /\ Increasing(Contents(b)) /\ Increasing(data)
                     /\ \A c \in Held(b), k \in DOMAIN data : c < data[k]
           P(i) == /\ f[i] \in Ring
                   /\ Held(b) \subseteq Held(f[i])
                   /\ \A c \in Held(f[i]) : c \in Held(b) \/ \E k \in 1 .. i : c = data[k]
                   /\ \A k \in 1 .. i : data[k] \in Held(f[i]) \/ IsFull(f[i])
                   /\ Rising => Increasing(Contents(f[i]))
           Odd == {k \in Nat : k <= n /\ ~P(k)}
<1>6. P(0)
  BY <1>5
<1>7. ASSUME NEW i \in 1 .. n, P(i - 1)
      PROVE  P(i)
  <2> DEFINE r == f[i - 1]
  <2>1. /\ r \in Ring /\ f[i] = add_to_buffer(r, data[i]) /\ data[i] \in Nat
        /\ i \in 1 .. i /\ (\A k \in 1 .. i - 1 : k \in 1 .. i)
        /\ \A k \in 1 .. i : k = i \/ k \in 1 .. i - 1
    BY <1>1, <1>5, <1>7
  <2>2. /\ f[i] \in Ring
        /\ IsFull(r) => Held(f[i]) = Held(r) /\ IsFull(f[i])
        /\ ~IsFull(r) => Held(f[i]) = Held(r) \cup {data[i]}
        /\ Increasing(Contents(r)) /\ (\A x \in Held(r) : x < data[i]) => Increasing(Contents(f[i]))
    <3> HIDE DEF r
    <3>1. \A x \in Ring, c \in Nat :
            /\ add_to_buffer(x, c) \in Ring
            /\ IsFull(x) => Held(add_to_buffer(x, c)) = Held(x) /\ IsFull(add_to_buffer(x, c))
            /\ ~IsFull(x) => Held(add_to_buffer(x, c)) = Held(x) \cup {c}
            /\ Increasing(Contents(x)) /\ (\A y \in Held(x) : y < c) =>
                 Increasing(Contents(add_to_buffer(x, c)))
      BY AddHolds
    <3> DEFINE a == add_to_buffer(r, data[i])
    <3>2. r \in Ring /\ data[i] \in Nat /\ f[i] = a
      BY <2>1
    <3>3. /\ a \in Ring
          /\ IsFull(r) => Held(a) = Held(r) /\ IsFull(a)
          /\ ~IsFull(r) => Held(a) = Held(r) \cup {data[i]}
          /\ Increasing(Contents(r)) /\ (\A y \in Held(r) : y < data[i]) => Increasing(Contents(a))
      BY <3>1, <3>2, Zenon
    <3> HIDE DEF a
    <3> QED BY <3>2, <3>3, Zenon
  <2>3. /\ Held(b) \subseteq Held(r)
        /\ \A c \in Held(r) : c \in Held(b) \/ \E k \in 1 .. i - 1 : c = data[k]
        /\ \A k \in 1 .. i - 1 : data[k] \in Held(r) \/ IsFull(r)
        /\ Rising => Increasing(Contents(r))
    BY <1>7
  <2> HIDE DEF r, Rising
  <2>4. Rising => \A x \in Held(r) : x < data[i]
    <3> SUFFICES ASSUME Rising, NEW x \in Held(r) PROVE x < data[i]
      OBVIOUS
    <3>1. i \in DOMAIN data
      BY <1>1
    <3>2. CASE x \in Held(b)
      BY <3>1, <3>2 DEF Rising
    <3>3. ASSUME NEW k \in 1 .. i - 1, x = data[k] PROVE x < data[i]
      <4>1. k \in DOMAIN data /\ k < i
        BY <1>1
      <4> QED BY <3>1, <3>3, <4>1 DEF Rising, Increasing
    <3> QED BY <2>3, <3>2, <3>3
  <2>5. CASE IsFull(r)
    BY <2>1, <2>2, <2>3, <2>4, <2>5
  <2>6. CASE ~IsFull(r)
    <3>1. Held(f[i]) = Held(r) \cup {data[i]}
      BY <2>2, <2>6
    <3>2. \A k \in 1 .. i : data[k] \in Held(f[i])
      BY <2>1, <2>3, <2>6, <3>1
    <3>3. \A c \in Held(f[i]) : c \in Held(b) \/ \E k \in 1 .. i : c = data[k]
      BY <2>1, <2>3, <3>1
    <3> QED BY <2>2, <2>3, <2>4, <3>1, <3>2, <3>3
  <2> QED BY <2>5, <2>6
<1>8. Odd = {}
  <2> SUFFICES ASSUME Odd # {} PROVE FALSE
    OBVIOUS
  <2>1. Odd \in SUBSET Nat
    OBVIOUS
  <2>2. PICK k \in Odd : \A m \in Odd : k <= m
    <3> HIDE DEF Odd
    <3> QED BY <2>1, LeastNatural
  <2>3. k \in Nat /\ k <= n /\ ~P(k)
    OBVIOUS
  <2> HIDE DEF P
  <2>4. k # 0
    BY <1>6, <2>3
  <2>5. k - 1 \in Nat /\ k - 1 <= n /\ k \in 1 .. n /\ ~(k <= k - 1)
    BY <1>1, <2>3, <2>4 DEF n
  <2>6. k - 1 \notin Odd
    <3> HIDE DEF Odd
    <3> QED BY <2>2, <2>5
  <2>7. P(k - 1)
    BY <2>5, <2>6
  <2> QED BY <1>7, <2>3, <2>5, <2>7
<1>9. P(n)
  <2>1. n \notin Odd /\ n \in Nat /\ n <= n
    BY <1>1, <1>8 DEF n
  <2> HIDE DEF P
  <2> QED BY <2>1
<1> QED BY <1>1, <1>4, <1>9

-----------------------------------------------------------------------------
(* The bytes.                                                              *)

BytesTyped ==
  /\ in \in Ring /\ out \in Ring
  /\ lastSent \in Nat /\ shifter \in Nat /\ holding \in Nat /\ lastRead \in Nat

\* Byte c comes behind all that have left the ring for the line.
BehindLine(c) == lastSent < c /\ shifter < c /\ holding < c

\* On the way out: the line, the ring, then the messages in order of arrival.
OutOrder ==
  /\ lastSent <= putCount /\ shifter <= putCount /\ holding <= putCount
  /\ shifter # 0 => lastSent < shifter
  /\ holding # 0 => lastSent < holding /\ shifter < holding
  /\ \A c \in Held(out) : BehindLine(c) /\ c <= putCount
  /\ Increasing(Contents(out))
  /\ \A p \in DOMAIN inbox : inbox[p].kind = "put" =>
       /\ Increasing(inbox[p].data)
       /\ \A k \in DOMAIN inbox[p].data :
            /\ BehindLine(inbox[p].data[k]) /\ inbox[p].data[k] <= putCount
            /\ \A c \in Held(out) : c < inbox[p].data[k]
            /\ \A q \in DOMAIN inbox : p < q /\ inbox[q].kind = "put" =>
                 \A l \in DOMAIN inbox[q].data : inbox[p].data[k] < inbox[q].data[l]

\* On the way in: the reader, the ring, the messages, then the UART.
ReadOrder ==
  /\ lastRead <= rxCount /\ rxData <= rxCount
  /\ \A c \in Held(in) : lastRead < c /\ c <= rxCount
  /\ Increasing(Contents(in))
  /\ \A p \in DOMAIN inbox : inbox[p].kind = "rx" =>
       /\ lastRead < inbox[p].data /\ inbox[p].data <= rxCount
       /\ \A c \in Held(in) : c < inbox[p].data
       /\ rxData # 0 => inbox[p].data < rxData
       /\ \A q \in DOMAIN inbox : p < q /\ inbox[q].kind = "rx" => inbox[p].data < inbox[q].data
  /\ rxData # 0 => lastRead < rxData /\ \A c \in Held(in) : c < rxData
  /\ inputWait => buffer_empty(in)

BytesInv == IInv /\ BytesTyped /\ OutOrder /\ ReadOrder

LEMMA EmptyRing == EmptyBuffer \in Ring /\ buffer_empty(EmptyBuffer)
                   /\ Held(EmptyBuffer) = {} /\ Increasing(Contents(EmptyBuffer))
<1>1. EmptyBuffer \in Ring /\ buffer_empty(EmptyBuffer)
  BY IoServerAssumption DEF EmptyBuffer, Ring, buffer_empty
<1> QED BY <1>1, LastHeld DEF Increasing

LEMMA BytesInit == Init => BytesInv
<1> SUFFICES ASSUME Init PROVE BytesInv
  OBVIOUS
<1>1. /\ in = EmptyBuffer /\ out = EmptyBuffer /\ inbox = <<>> /\ inputWait = FALSE
      /\ holding = 0 /\ shifter = 0 /\ rxData = 0 /\ putCount = 0 /\ rxCount = 0
      /\ lastSent = 0 /\ lastRead = 0
  BY DEF Init
<1>2. \A p \in DOMAIN inbox : FALSE
  BY <1>1
<1> QED BY <1>1, <1>2, InitEstablishes, EmptyRing DEF BytesInv, BytesTyped, OutOrder, ReadOrder

\* What the messages carry.
LEMMA MessageData ==
  ASSUME Shape, NEW p \in DOMAIN inbox
  PROVE  /\ inbox[p] \in Message
         /\ inbox[p].kind = "put" => inbox[p].data \in Seq(Nat)
         /\ inbox[p].kind = "rx" => inbox[p].data \in Nat
<1>1. inbox[p] \in Message
  BY DEF Shape
<1>2. \A m \in Message : m.kind = "put" => m.data \in Seq(Nat)
  BY DEF Message
<1>3. \A m \in Message : m.kind = "rx" => m.data \in Nat
  BY DEF Message
<1> QED BY <1>1, <1>2, <1>3

\* A turn's message is the first of the inbox.
LEMMA TurnTakes ==
  ASSUME Shape, NEW k, Receive(k)
  PROVE  /\ inbox # <<>> /\ inbox' = Tail(inbox) /\ 1 \in DOMAIN inbox
         /\ Head(inbox) = inbox[1] /\ inbox[1].kind = k
         /\ \A i \in DOMAIN inbox' : /\ i \in Nat /\ i + 1 \in DOMAIN inbox /\ 1 < i + 1
                                     /\ inbox'[i] = inbox[i + 1]
<1>1. inbox \in Seq(Message) /\ inbox # <<>> /\ inbox' = Tail(inbox) /\ Head(inbox).kind = k
  BY DEF Shape, Receive
<1>2. \A i \in DOMAIN inbox' : i \in Nat /\ i >= 1
  BY <1>1
<1> QED BY <1>1, <1>2, InboxTail

LEMMA TypedKept ==
  ASSUME BytesInv, [Next]_vars
  PROVE  BytesTyped'
<1>0. Shape /\ BytesTyped /\ Nat # {} /\ rxData \in Nat
  BY DEF BytesInv, IInv, Shape
<1>1. CASE UNCHANGED <<in, out, lastSent, shifter, holding, lastRead>>
  BY <1>0, <1>1 DEF BytesTyped
<1>2. ASSUME Getc \/ (\E p \in Putter, len \in 1 .. 2 : Putstr(p, len)) \/ ByteArrives \/ DeviceReady
      PROVE  BytesTyped'
  <2>1. CASE Getc \/ DeviceReady
    BY <1>1, <2>1 DEF Getc, DeviceReady, uart, counts, serverVars
  <2>2. ASSUME NEW p \in Putter, NEW len \in 1 .. 2, Putstr(p, len)
        PROVE  UNCHANGED <<in, out, lastSent, shifter, holding, lastRead>>
    BY <2>2 DEF Putstr, uart, serverVars
  <2>3. CASE ByteArrives
    BY <1>1, <2>3 DEF ByteArrives, serverVars
  <2> QED BY <1>1, <1>2, <2>1, <2>2, <2>3
<1>2a. CASE Shift \/ ByteLeaves
  BY <1>0, <1>2a DEF Shift, ByteLeaves, counts, serverVars, BytesTyped
<1>3. CASE RxInterrupt \/ TxInterrupt \/ MsInterrupt \/ MsInterruptRaced \/ UNCHANGED vars
           \/ \E n \in Notifier : AwaitEvent(n)
  BY <1>1, <1>3 DEF RxInterrupt, TxInterrupt, MsInterrupt, MsInterruptRaced, AwaitEvent, vars, uart,
                    counts, serverVars
<1>4. CASE ServeRx
  <2>1. Head(inbox).data \in Nat
    BY <1>0, <1>4, TurnTakes, MessageData DEF ServeRx
  <2>2. add_to_buffer(in, Head(inbox).data) \in Ring
    BY <1>0, <2>1, AddHolds DEF BytesTyped
  <2> QED BY <1>0, <1>4, <2>1, <2>2 DEF ServeRx, uart, BytesTyped
<1>5. CASE ServeTx \/ ServeMs
  BY <1>1, <1>5 DEF ServeTx, ServeMs, uart, counts
<1>6. CASE ServePut
  <2>1. Head(inbox).data \in Seq(Nat)
    BY <1>0, <1>6, TurnTakes, MessageData DEF ServePut
  <2>2. out' \in Ring
    BY <1>0, <1>6, <2>1, AddAllHolds DEF BytesTyped, ServePut
  <2> QED BY <1>0, <1>6, <2>2 DEF ServePut, uart, counts, BytesTyped
<1>7. CASE ServeGet
  <2>1. ~buffer_empty(in) => remove_from_buffer(in) \in Ring /\ first_of_buffer(in) \in Nat
    BY <1>0, RemoveHolds, LastHeld DEF BytesTyped
  <2> QED BY <1>0, <1>7, <2>1 DEF ServeGet, uart, BytesTyped
<1>8. CASE Output
  <2>1. ~buffer_empty(out) => remove_from_buffer(out) \in Ring /\ first_of_buffer(out) \in Nat
    BY <1>0, RemoveHolds, LastHeld DEF BytesTyped
  <2> QED BY <1>0, <1>8, <2>1 DEF Output, Write, counts, BytesTyped
<1>9. CASE flush
  <2>1. [out EXCEPT !.bufferTail = out.bufferHead] \in Ring
    BY <1>0 DEF BytesTyped, Ring
  <2>2. ~buffer_empty(out) => Contents(out)[Len(Contents(out))] \in Nat
    BY <1>0, LastHeld DEF BytesTyped
  <2>3. lastSent' \in Nat
    BY <1>0, <1>9, <2>2 DEF flush, BytesTyped
  <2> QED BY <1>0, <1>9, <2>1, <2>3 DEF flush, BytesTyped
<1> QED BY <1>2, <1>2a, <1>3, <1>4, <1>5, <1>6, <1>7, <1>8, <1>9 DEF Next, Serve

\* The messages of one kind are those of before, the first d of the inbox gone.
Moved(kind, d) ==
  \A p \in DOMAIN inbox' : p \in Int /\ (inbox'[p].kind = kind =>
                             p + d \in DOMAIN inbox /\ inbox'[p] = inbox[p + d])

\* What a step may do to the inbox.
LEMMA InboxMoves ==
  ASSUME Shape
  PROVE  /\ inbox' = inbox => \A kind : Moved(kind, 0)
         /\ \A m \in Message : inbox' = Append(inbox, m) =>
              \A kind : m.kind # kind => Moved(kind, 0)
         /\ \A k : Receive(k) => \A kind : Moved(kind, 1)
         /\ \A n \in Notifier, m \in Message : Forward(n, m) =>
              \A kind : m.kind # kind => Moved(kind, 0)
<1>1. \A p \in DOMAIN inbox : p \in Int /\ p + 0 = p
  BY DEF Shape
<1>2. inbox' = inbox => \A kind : Moved(kind, 0)
  BY <1>1 DEF Moved
<1>3. ASSUME NEW m \in Message, inbox' = Append(inbox, m)
      PROVE  \A kind : m.kind # kind => Moved(kind, 0)
  <2>1. /\ inbox' \in Seq(Message)
        /\ \A i \in DOMAIN inbox' :
              (i \in DOMAIN inbox /\ inbox'[i] = inbox[i]) \/ (i = Len(inbox) + 1 /\ inbox'[i] = m)
    BY <1>3, InboxAppend DEF Shape
  <2>2. \A i \in DOMAIN inbox' : i \in Int
    BY <2>1
  <2> QED BY <1>1, <2>1, <2>2 DEF Moved
<1>4. ASSUME NEW k, Receive(k)
      PROVE  \A kind : Moved(kind, 1)
  BY <1>4, TurnTakes DEF Moved
<1>5. ASSUME NEW n \in Notifier, NEW m \in Message, Forward(n, m)
      PROVE  \A kind : m.kind # kind => Moved(kind, 0)
  BY <1>2, <1>3, <1>5 DEF Forward
<1> QED BY <1>2, <1>3, <1>4, <1>5

\* A step that leaves the way out alone.
LEMMA OutUntouched ==
  ASSUME BytesInv, NEW d \in {0, 1}, Moved("put", d),
         UNCHANGED <<out, lastSent, shifter, holding, putCount>>
  PROVE  OutOrder'
<1>1. ASSUME NEW p \in DOMAIN inbox', inbox'[p].kind = "put"
      PROVE  p \in Int /\ p + d \in DOMAIN inbox /\ inbox'[p] = inbox[p + d]
  BY <1>1 DEF Moved
<1>2. ASSUME NEW p \in DOMAIN inbox', inbox'[p].kind = "put"
      PROVE  /\ Increasing(inbox'[p].data)
             /\ \A k \in DOMAIN inbox'[p].data :
                  /\ BehindLine(inbox'[p].data[k]) /\ inbox'[p].data[k] <= putCount
                  /\ \A c \in Held(out) : c < inbox'[p].data[k]
                  /\ \A q \in DOMAIN inbox' : p < q /\ inbox'[q].kind = "put" =>
                       \A l \in DOMAIN inbox'[q].data : inbox'[p].data[k] < inbox'[q].data[l]
  <2>1. p \in Int /\ p + d \in DOMAIN inbox /\ inbox'[p] = inbox[p + d]
    BY <1>1, <1>2
  <2>2. \A q \in DOMAIN inbox' : p < q /\ inbox'[q].kind = "put" =>
          q + d \in DOMAIN inbox /\ inbox'[q] = inbox[q + d] /\ p + d < q + d
    BY <1>1, <2>1
  <2> QED BY <1>2, <2>1, <2>2 DEF BytesInv, OutOrder
<1> QED BY <1>2 DEF BytesInv, OutOrder, BehindLine

\* A step that leaves the way in alone.
LEMMA ReadUntouched ==
  ASSUME BytesInv, NEW d \in {0, 1}, Moved("rx", d),
         UNCHANGED <<in, inputWait, lastRead, rxData, rxCount>>
  PROVE  ReadOrder'
<1>1. ASSUME NEW p \in DOMAIN inbox', inbox'[p].kind = "rx"
      PROVE  p \in Int /\ p + d \in DOMAIN inbox /\ inbox'[p] = inbox[p + d]
  BY <1>1 DEF Moved
<1>2. ASSUME NEW p \in DOMAIN inbox', inbox'[p].kind = "rx"
      PROVE  /\ lastRead < inbox'[p].data /\ inbox'[p].data <= rxCount
             /\ \A c \in Held(in) : c < inbox'[p].data
             /\ rxData # 0 => inbox'[p].data < rxData
             /\ \A q \in DOMAIN inbox' : p < q /\ inbox'[q].kind = "rx" =>
                  inbox'[p].data < inbox'[q].data
  <2>1. p \in Int /\ p + d \in DOMAIN inbox /\ inbox'[p] = inbox[p + d]
    BY <1>1, <1>2
  <2>2. \A q \in DOMAIN inbox' : p < q /\ inbox'[q].kind = "rx" =>
          q + d \in DOMAIN inbox /\ inbox'[q] = inbox[q + d] /\ p + d < q + d
    BY <1>1, <2>1
  <2> QED BY <1>2, <2>1, <2>2 DEF BytesInv, ReadOrder
<1> QED BY <1>2 DEF BytesInv, ReadOrder

\* The numbers of the bytes put are new.
LEMMA PutstrOrder ==
  ASSUME BytesInv, NEW p \in Putter, NEW len \in 1 .. 2, Putstr(p, len)
  PROVE  OutOrder'
<1> DEFINE data == [i \in 1 .. len |-> putCount + i]
           m == [kind |-> "put", tid |-> p, data |-> data]
<1>0. Shape /\ BytesTyped /\ putCount \in Nat /\ OutOrder
  BY DEF BytesInv, IInv, Shape
<1>1. /\ data \in Seq(Nat) /\ DOMAIN data = 1 .. len /\ Increasing(data)
      /\ \A k \in 1 .. len : putCount < data[k] /\ data[k] <= putCount + len
  BY <1>0 DEF Increasing
<1> HIDE DEF data
<1>2. m \in Message
  BY <1>1, MessageParts
<1>3. /\ inbox' = Append(inbox, m) /\ putCount' = putCount + len
      /\ UNCHANGED <<out, lastSent, shifter, holding>>
  BY DEF Putstr, serverVars, uart, data
<1>4. m.data = data /\ m.kind = "put"
  OBVIOUS
<1> HIDE DEF m
<1>5. /\ Len(inbox) \in Nat /\ DOMAIN inbox = 1 .. Len(inbox) /\ DOMAIN inbox' = 1 .. Len(inbox) + 1
      /\ inbox'[Len(inbox) + 1] = m
      /\ \A i \in DOMAIN inbox : inbox'[i] = inbox[i]
  BY <1>0, <1>2, <1>3 DEF Shape
<1>6. \A c \in Held(out) : c \in Nat /\ c <= putCount
  BY <1>0, LastHeld DEF BytesTyped, OutOrder
<1>7. ASSUME NEW k \in 1 .. len
      PROVE  BehindLine(data[k]) /\ \A c \in Held(out) : c < data[k]
  <2>1. data[k] \in Nat /\ putCount < data[k] /\ lastSent <= putCount /\ shifter <= putCount
        /\ holding <= putCount /\ lastSent \in Nat /\ shifter \in Nat /\ holding \in Nat
    BY <1>0, <1>1 DEF BytesTyped, OutOrder
  <2> QED BY <1>0, <1>6, <2>1 DEF BehindLine
<1>8. ASSUME NEW q \in DOMAIN inbox, inbox[q].kind = "put"
      PROVE  /\ Increasing(inbox[q].data)
             /\ \A k \in DOMAIN inbox[q].data :
                  /\ BehindLine(inbox[q].data[k]) /\ inbox[q].data[k] <= putCount
                  /\ inbox[q].data[k] <= putCount + len
                  /\ \A c \in Held(out) : c < inbox[q].data[k]
                  /\ \A j \in 1 .. len : inbox[q].data[k] < data[j]
  <2>1. inbox[q].data \in Seq(Nat)
    BY <1>0, <1>8, MessageData
  <2>2. \A k \in DOMAIN inbox[q].data : inbox[q].data[k] \in Nat
    BY <2>1
  <2> QED BY <1>0, <1>1, <1>3, <1>8, <2>2 DEF OutOrder, BehindLine
<1>9. ASSUME NEW q \in DOMAIN inbox', inbox'[q].kind = "put"
      PROVE  /\ Increasing(inbox'[q].data)
             /\ \A k \in DOMAIN inbox'[q].data :
                  /\ BehindLine(inbox'[q].data[k]) /\ inbox'[q].data[k] <= putCount'
                  /\ \A c \in Held(out) : c < inbox'[q].data[k]
                  /\ \A r \in DOMAIN inbox' : q < r /\ inbox'[r].kind = "put" =>
                       \A l \in DOMAIN inbox'[r].data : inbox'[q].data[k] < inbox'[r].data[l]
  <2>1. CASE q = Len(inbox) + 1
    <3>1. \A r \in DOMAIN inbox' : ~(q < r)
      BY <1>5, <2>1
    <3>2. inbox'[q].data = data
      BY <1>4, <1>5, <2>1
    <3> QED BY <1>1, <1>3, <1>7, <3>1, <3>2
  <2>2. CASE q # Len(inbox) + 1
    <3>1. q \in DOMAIN inbox /\ inbox'[q] = inbox[q] /\ inbox[q].kind = "put"
      BY <1>5, <1>9, <2>2
    <3>2. ASSUME NEW k \in DOMAIN inbox[q].data, NEW r \in DOMAIN inbox', q < r, inbox'[r].kind = "put",
                 NEW l \in DOMAIN inbox'[r].data
          PROVE  inbox[q].data[k] < inbox'[r].data[l]
      <4>1. CASE r = Len(inbox) + 1
        BY <1>1, <1>4, <1>5, <1>8, <3>1, <3>2, <4>1
      <4>2. CASE r # Len(inbox) + 1
        <5>1. r \in DOMAIN inbox /\ inbox'[r] = inbox[r]
          BY <1>5, <4>2
        <5> QED BY <1>0, <3>1, <3>2, <5>1 DEF OutOrder
      <4> QED BY <4>1, <4>2
    <3> QED BY <1>3, <1>8, <3>1, <3>2
  <2> QED BY <2>1, <2>2
<1>10. /\ lastSent' <= putCount' /\ shifter' <= putCount' /\ holding' <= putCount'
       /\ \A c \in Held(out) : BehindLine(c) /\ c <= putCount'
  BY <1>0, <1>3, <1>6 DEF OutOrder, BytesTyped, BehindLine
<1>11. /\ shifter # 0 => lastSent < shifter
       /\ holding # 0 => lastSent < holding /\ shifter < holding
       /\ Increasing(Contents(out))
  BY <1>0 DEF OutOrder
<1> QED BY <1>3, <1>9, <1>10, <1>11 DEF OutOrder, BehindLine

\* A step that only moves bytes on towards the line.
LEMMA OutAdvances ==
  ASSUME BytesInv, Moved("put", 0), putCount' = putCount,
         Held(out') \subseteq Held(out), Increasing(Contents(out')),
         lastSent' <= putCount, shifter' <= putCount, holding' <= putCount,
         shifter' # 0 => lastSent' < shifter',
         holding' # 0 => lastSent' < holding' /\ shifter' < holding',
         \A c \in Held(out') : lastSent' < c /\ shifter' < c /\ holding' < c,
         \A c \in Nat : BehindLine(c) /\ (\A x \in Held(out) : x < c) =>
                       lastSent' < c /\ shifter' < c /\ holding' < c
  PROVE  OutOrder'
<1>1. ASSUME NEW p \in DOMAIN inbox', inbox'[p].kind = "put"
      PROVE  /\ p \in Int /\ p \in DOMAIN inbox /\ inbox'[p] = inbox[p]
             /\ \A k \in DOMAIN inbox[p].data : inbox[p].data[k] \in Nat
  <2>1. p \in Int /\ p + 0 = p /\ p + 0 \in DOMAIN inbox /\ inbox'[p] = inbox[p + 0]
    BY <1>1 DEF Moved
  <2>2. inbox[p].data \in Seq(Nat)
    BY <1>1, <2>1, MessageData DEF BytesInv, IInv
  <2>3. \A k \in DOMAIN inbox[p].data : inbox[p].data[k] \in Nat
    BY <2>2
  <2> QED BY <2>1, <2>3
<1>2. ASSUME NEW p \in DOMAIN inbox', inbox'[p].kind = "put"
      PROVE  /\ Increasing(inbox'[p].data)
             /\ \A k \in DOMAIN inbox'[p].data :
                  /\ inbox'[p].data[k] <= putCount
                  /\ lastSent' < inbox'[p].data[k] /\ shifter' < inbox'[p].data[k]
                  /\ holding' < inbox'[p].data[k]
                  /\ \A c \in Held(out') : c < inbox'[p].data[k]
                  /\ \A q \in DOMAIN inbox' : p < q /\ inbox'[q].kind = "put" =>
                       \A l \in DOMAIN inbox'[q].data : inbox'[p].data[k] < inbox'[q].data[l]
  BY <1>1, <1>2 DEF BytesInv, OutOrder
<1>3. \A c \in Held(out') : c <= putCount
  BY DEF BytesInv, OutOrder
<1> QED BY <1>2, <1>3 DEF OutOrder, BehindLine

LEMMA LineOrder ==
  ASSUME BytesInv, Shift \/ ByteLeaves
  PROVE  OutOrder'
<1>0. /\ Shape /\ BytesTyped /\ OutOrder
      /\ lastSent \in Nat /\ shifter \in Nat /\ holding \in Nat /\ putCount \in Nat
      /\ Held(out) \subseteq Nat
  BY LastHeld DEF BytesInv, IInv, BytesTyped, Shape
<1>1. inbox' = inbox /\ out' = out /\ putCount' = putCount
  BY DEF Shift, ByteLeaves, serverVars, counts
<1>2. Moved("put", 0)
  BY <1>0, <1>1, InboxMoves
<1>3. /\ shifter # 0 => lastSent < shifter
      /\ holding # 0 => lastSent < holding /\ shifter < holding
      /\ lastSent <= putCount /\ shifter <= putCount /\ holding <= putCount
      /\ Increasing(Contents(out))
      /\ \A c \in Held(out) : lastSent < c /\ shifter < c /\ holding < c
  BY <1>0 DEF OutOrder, BehindLine
<1>4. CASE Shift
  <2>1. shifter' = holding /\ holding' = 0 /\ shifter = 0 /\ holding # 0 /\ lastSent' = lastSent
    BY <1>4 DEF Shift, counts
  <2>2. \A c \in Nat : lastSent < c => 0 < c
    BY <1>0
  <2> QED BY <1>0, <1>1, <1>2, <1>3, <2>1, <2>2, OutAdvances DEF BehindLine
<1>5. CASE ByteLeaves
  <2>1. lastSent' = shifter /\ shifter' = 0 /\ shifter # 0 /\ holding' = holding
    BY <1>5 DEF ByteLeaves
  <2>2. \A c \in Nat : lastSent < c => 0 < c
    BY <1>0
  <2> QED BY <1>0, <1>1, <1>2, <1>3, <2>1, <2>2, OutAdvances DEF BehindLine
<1> QED BY <1>4, <1>5

LEMMA OutputOrder ==
  ASSUME BytesInv, Output
  PROVE  OutOrder'
<1>0. /\ Shape /\ out \in Ring /\ OutOrder
      /\ lastSent \in Nat /\ shifter \in Nat /\ holding \in Nat /\ putCount \in Nat
      /\ Held(out) \subseteq Nat
  BY LastHeld DEF BytesInv, IInv, BytesTyped, Shape
<1>1. /\ inbox' = inbox /\ putCount' = putCount /\ lastSent' = lastSent /\ shifter' = shifter
  BY DEF Output, counts
<1>2. Moved("put", 0)
  BY <1>0, <1>1, InboxMoves
<1>3. CASE ~buffer_empty(out) /\ txempty /\ cts
  <2>1. holding' = first_of_buffer(out) /\ out' = remove_from_buffer(out)
    BY <1>3 DEF Output, Write
  <2>2. /\ Held(out) = Held(out') \cup {holding'} /\ Increasing(Contents(out'))
        /\ \A x \in Held(out') : holding' < x
    BY <1>0, <1>3, <2>1, RemoveHolds DEF OutOrder
  <2>3. holding' <= putCount /\ lastSent < holding' /\ shifter < holding'
    BY <1>0, <2>2 DEF OutOrder, BehindLine
  <2>4. \A c \in Held(out') : lastSent < c /\ shifter < c
    BY <1>0, <2>2 DEF OutOrder, BehindLine
  <2>5. \A c \in Nat : BehindLine(c) /\ (\A x \in Held(out) : x < c) =>
                       lastSent < c /\ shifter < c /\ holding' < c
    BY <2>2 DEF BehindLine
  <2>6. /\ shifter # 0 => lastSent < shifter
        /\ lastSent <= putCount /\ shifter <= putCount
    BY <1>0 DEF OutOrder
  <2> QED BY <1>1, <1>2, <2>2, <2>3, <2>4, <2>5, <2>6, OutAdvances
<1>4. CASE ~(~buffer_empty(out) /\ txempty /\ cts)
  <2>1. out' = out /\ holding' = holding
    BY <1>4 DEF Output
  <2> QED BY <1>1, <1>2, <2>1, OutUntouched
<1> QED BY <1>3, <1>4

LEMMA FlushOrder ==
  ASSUME BytesInv, flush
  PROVE  OutOrder'
<1>0. /\ out \in Ring /\ OutOrder
      /\ lastSent \in Nat /\ shifter \in Nat /\ holding \in Nat /\ putCount \in Nat
      /\ Held(out) \subseteq Nat
  BY LastHeld DEF BytesInv, IInv, BytesTyped, Shape
<1>1. /\ inbox' = <<>> /\ putCount' = putCount /\ holding' = 0 /\ shifter' = 0
      /\ out' = [out EXCEPT !.bufferTail = out.bufferHead]
  BY DEF flush
<1>2. out' \in Ring /\ buffer_empty(out')
  BY <1>0, <1>1 DEF Ring, buffer_empty
<1>3. Held(out') = {} /\ Contents(out') = <<>>
  BY <1>2, LastHeld
<1>4. ~buffer_empty(out) => Contents(out)[Len(Contents(out))] \in Held(out)
  BY <1>0, LastHeld
<1>5. lastSent' <= putCount
  BY <1>0, <1>4 DEF flush, OutOrder
<1>6. Increasing(Contents(out')) /\ \A p \in DOMAIN inbox' : FALSE
  BY <1>1, <1>3 DEF Increasing
<1> QED BY <1>0, <1>1, <1>3, <1>5, <1>6 DEF OutOrder

LEMMA ServePutOrder ==
  ASSUME BytesInv, ServePut
  PROVE  OutOrder'
<1> DEFINE data == inbox[1].data
<1>0. /\ Shape /\ out \in Ring /\ OutOrder
      /\ lastSent \in Nat /\ shifter \in Nat /\ holding \in Nat /\ putCount \in Nat
  BY DEF BytesInv, IInv, BytesTyped, Shape
<1>1. /\ Receive("put") /\ out' = add_all(out, Head(inbox).data)
      /\ UNCHANGED <<lastSent, shifter, holding, putCount>>
  BY DEF ServePut, uart, counts
<1>2. /\ 1 \in DOMAIN inbox /\ Head(inbox) = inbox[1] /\ inbox[1].kind = "put"
      /\ \A i \in DOMAIN inbox' : /\ i \in Nat /\ i + 1 \in DOMAIN inbox /\ 1 < i + 1
                                  /\ inbox'[i] = inbox[i + 1]
  BY <1>0, <1>1, TurnTakes
<1>3. data \in Seq(Nat)
  BY <1>0, <1>2, MessageData
<1>4. /\ Increasing(data)
      /\ \A k \in DOMAIN data : /\ BehindLine(data[k]) /\ data[k] <= putCount
                                /\ \A c \in Held(out) : c < data[k]
                                /\ \A q \in DOMAIN inbox : 1 < q /\ inbox[q].kind = "put" =>
                                     \A l \in DOMAIN inbox[q].data : data[k] < inbox[q].data[l]
  BY <1>0, <1>2 DEF OutOrder
<1>5. \A c \in Held(out) : BehindLine(c) /\ c <= putCount
  BY <1>0 DEF OutOrder
<1> HIDE DEF data
<1>6. /\ \A c \in Held(out') : c \in Held(out) \/ \E k \in DOMAIN data : c = data[k]
      /\ Increasing(Contents(out'))
  <2>1. out' = add_all(out, data) /\ Increasing(Contents(out))
    BY <1>0, <1>1, <1>2 DEF data, OutOrder
  <2> QED BY <1>0, <1>3, <1>4, <2>1, AddAllHolds
<1>7. \A c \in Held(out') : BehindLine(c) /\ c <= putCount
  BY <1>4, <1>5, <1>6
<1>8. ASSUME NEW p \in DOMAIN inbox', inbox'[p].kind = "put"
      PROVE  /\ Increasing(inbox'[p].data)
             /\ \A k \in DOMAIN inbox'[p].data :
                  /\ BehindLine(inbox'[p].data[k]) /\ inbox'[p].data[k] <= putCount
                  /\ \A c \in Held(out') : c < inbox'[p].data[k]
                  /\ \A q \in DOMAIN inbox' : p < q /\ inbox'[q].kind = "put" =>
                       \A l \in DOMAIN inbox'[q].data : inbox'[p].data[k] < inbox'[q].data[l]
  <2>1. /\ p + 1 \in DOMAIN inbox /\ inbox'[p] = inbox[p + 1] /\ 1 < p + 1
        /\ inbox[p + 1].kind = "put"
    BY <1>2, <1>8
  <2>2. ASSUME NEW k \in DOMAIN inbox[p + 1].data, NEW c \in Held(out')
        PROVE  c < inbox[p + 1].data[k]
    <3>1. CASE c \in Held(out)
      BY <1>0, <2>1, <3>1 DEF OutOrder
    <3>2. ASSUME NEW j \in DOMAIN data, c = data[j] PROVE c < inbox[p + 1].data[k]
      BY <1>4, <2>1, <3>2
    <3> QED BY <1>6, <3>1, <3>2
  <2>3. \A q \in DOMAIN inbox' : p < q => /\ q + 1 \in DOMAIN inbox /\ inbox'[q] = inbox[q + 1]
                                         /\ p + 1 < q + 1
    BY <1>2, <2>1
  <2> QED BY <1>0, <2>1, <2>2, <2>3 DEF OutOrder
<1>9. /\ lastSent <= putCount /\ shifter <= putCount /\ holding <= putCount
      /\ shifter # 0 => lastSent < shifter
      /\ holding # 0 => lastSent < holding /\ shifter < holding
  BY <1>0 DEF OutOrder
<1> QED BY <1>1, <1>6, <1>7, <1>8, <1>9 DEF OutOrder, BehindLine

\* The way in: a byte arrives, and the kernel hands it to the notifier.
LEMMA ArrivalOrder ==
  ASSUME BytesInv, ByteArrives \/ RxInterrupt
  PROVE  ReadOrder'
<1>0. /\ Shape /\ in \in Ring /\ ReadOrder
      /\ lastRead \in Nat /\ rxData \in Nat /\ rxCount \in Nat /\ Held(in) \subseteq Nat
      /\ \A p \in DOMAIN inbox : inbox[p].kind = "rx" => inbox[p].data \in Nat
  BY LastHeld, MessageData DEF BytesInv, IInv, BytesTyped, Shape
<1>1. CASE ByteArrives
  <2>1. /\ rxCount' = rxCount + 1 /\ rxData' = rxCount + 1
        /\ UNCHANGED <<inbox, in, inputWait, lastRead>>
    BY <1>1 DEF ByteArrives, serverVars
  <2>2. \A x \in Nat : x <= rxCount => x <= rxCount + 1 /\ x < rxCount + 1
    BY <1>0
  <2>3. ASSUME NEW p \in DOMAIN inbox, inbox[p].kind = "rx"
        PROVE  /\ lastRead < inbox[p].data /\ inbox[p].data <= rxCount + 1
               /\ \A c \in Held(in) : c < inbox[p].data
               /\ inbox[p].data < rxCount + 1
               /\ \A q \in DOMAIN inbox : p < q /\ inbox[q].kind = "rx" => inbox[p].data < inbox[q].data
    BY <1>0, <2>2, <2>3 DEF ReadOrder
  <2>4. /\ lastRead < rxCount + 1 /\ \A c \in Held(in) : /\ lastRead < c /\ c <= rxCount + 1
                                                       /\ c < rxCount + 1
    BY <1>0, <2>2 DEF ReadOrder
  <2>5. lastRead <= rxCount + 1 /\ rxCount + 1 <= rxCount + 1
    BY <1>0 DEF ReadOrder
  <2>6. Increasing(Contents(in)) /\ (inputWait => buffer_empty(in))
    BY <1>0 DEF ReadOrder
  <2> QED BY <2>1, <2>3, <2>4, <2>5, <2>6 DEF ReadOrder
<1>2. CASE RxInterrupt
  <2> DEFINE m == [kind |-> "rx", data |-> rxData]
  <2>1. /\ rxData # 0 /\ rxData' = 0 /\ Forward("rx", m)
        /\ UNCHANGED <<in, inputWait, lastRead, rxCount>>
    BY <1>2 DEF RxInterrupt, serverVars, counts
  <2>2. m \in Message /\ m.kind = "rx" /\ m.data = rxData
    BY <1>0, MessageParts
  <2> HIDE DEF m
  <2>3. CASE inbox' = inbox
    BY <1>0, <2>1, <2>3 DEF ReadOrder
  <2>4. CASE inbox' = Append(inbox, m)
    <3>1. /\ Len(inbox) \in Nat /\ DOMAIN inbox = 1 .. Len(inbox) /\ DOMAIN inbox' = 1 .. Len(inbox) + 1
          /\ inbox'[Len(inbox) + 1] = m
          /\ \A i \in DOMAIN inbox : inbox'[i] = inbox[i]
      BY <1>0, <2>2, <2>4 DEF Shape
    <3>2. lastRead < rxData /\ rxData <= rxCount /\ \A c \in Held(in) : c < rxData
      BY <1>0, <2>1 DEF ReadOrder
    <3>3. ASSUME NEW p \in DOMAIN inbox', inbox'[p].kind = "rx"
          PROVE  /\ lastRead < inbox'[p].data /\ inbox'[p].data <= rxCount
                 /\ \A c \in Held(in) : c < inbox'[p].data
                 /\ \A q \in DOMAIN inbox' : p < q /\ inbox'[q].kind = "rx" =>
                       inbox'[p].data < inbox'[q].data
      <4>1. CASE p = Len(inbox) + 1
        <5>1. \A q \in DOMAIN inbox' : ~(p < q)
          BY <3>1, <4>1
        <5> QED BY <2>2, <3>1, <3>2, <4>1, <5>1
      <4>2. CASE p # Len(inbox) + 1
        <5>1. p \in DOMAIN inbox /\ inbox'[p] = inbox[p] /\ inbox[p].kind = "rx"
          BY <3>1, <3>3, <4>2
        <5>2. /\ lastRead < inbox[p].data /\ inbox[p].data <= rxCount
              /\ \A c \in Held(in) : c < inbox[p].data
              /\ inbox[p].data < rxData
          BY <1>0, <2>1, <5>1 DEF ReadOrder
        <5>3. ASSUME NEW q \in DOMAIN inbox', p < q, inbox'[q].kind = "rx"
              PROVE  inbox[p].data < inbox'[q].data
          <6>1. CASE q = Len(inbox) + 1
            BY <2>2, <3>1, <5>2, <6>1
          <6>2. CASE q # Len(inbox) + 1
            <7>1. q \in DOMAIN inbox /\ inbox'[q] = inbox[q]
              BY <3>1, <6>2
            <7> QED BY <1>0, <5>1, <5>3, <7>1 DEF ReadOrder
          <6> QED BY <6>1, <6>2
        <5> QED BY <5>1, <5>2, <5>3
      <4> QED BY <4>1, <4>2
    <3> QED BY <1>0, <2>1, <3>3 DEF ReadOrder
  <2> QED BY <2>1, <2>3, <2>4 DEF Forward
<1> QED BY <1>1, <1>2

LEMMA ServeRxOrder ==
  ASSUME BytesInv, ServeRx
  PROVE  ReadOrder'
<1> DEFINE data == inbox[1].data
<1>0. /\ Shape /\ in \in Ring /\ ReadOrder
      /\ lastRead \in Nat /\ rxData \in Nat /\ rxCount \in Nat /\ Held(in) \subseteq Nat
  BY LastHeld DEF BytesInv, IInv, BytesTyped, Shape
<1>1. Receive("rx") /\ UNCHANGED <<rxData, rxCount>>
  BY DEF ServeRx, uart
<1>2. /\ 1 \in DOMAIN inbox /\ Head(inbox) = inbox[1] /\ inbox[1].kind = "rx"
      /\ \A i \in DOMAIN inbox' : /\ i \in Nat /\ i + 1 \in DOMAIN inbox /\ 1 < i + 1
                                  /\ inbox'[i] = inbox[i + 1]
  BY <1>0, <1>1, TurnTakes
<1>3. data \in Nat
  BY <1>0, <1>2, MessageData
<1>4. /\ lastRead < data /\ data <= rxCount /\ \A c \in Held(in) : c < data
      /\ rxData # 0 => data < rxData
  BY <1>0, <1>2 DEF ReadOrder
<1>5. ASSUME NEW p \in DOMAIN inbox', inbox'[p].kind = "rx"
      PROVE  /\ data < inbox'[p].data /\ lastRead < inbox'[p].data /\ inbox'[p].data <= rxCount
             /\ \A c \in Held(in) : c < inbox'[p].data
             /\ rxData # 0 => inbox'[p].data < rxData
             /\ \A q \in DOMAIN inbox' : p < q /\ inbox'[q].kind = "rx" =>
                  inbox'[p].data < inbox'[q].data
  <2>1. /\ p + 1 \in DOMAIN inbox /\ inbox'[p] = inbox[p + 1] /\ 1 < p + 1
        /\ inbox[p + 1].kind = "rx"
    BY <1>2, <1>5
  <2>2. \A q \in DOMAIN inbox' : p < q => /\ q + 1 \in DOMAIN inbox /\ inbox'[q] = inbox[q + 1]
                                         /\ p + 1 < q + 1
    BY <1>2, <2>1
  <2> QED BY <1>0, <1>2, <2>1, <2>2 DEF ReadOrder
<1>6. CASE inputWait
  <2>1. lastRead' = data /\ in' = in /\ inputWait' = FALSE
    BY <1>2, <1>6 DEF ServeRx
  <2>2. Held(in) = {} /\ Increasing(Contents(in))
    BY <1>0, <1>6, LastHeld DEF ReadOrder
  <2>3. rxData <= rxCount
    BY <1>0 DEF ReadOrder
  <2> HIDE DEF data
  <2> QED BY <1>1, <1>4, <1>5, <2>1, <2>2, <2>3 DEF ReadOrder
<1>7. CASE ~inputWait
  <2>1. in' = add_to_buffer(in, data) /\ lastRead' = lastRead /\ inputWait' = inputWait
    BY <1>2, <1>7 DEF ServeRx
  <2>2. Held(in') \subseteq Held(in) \cup {data} /\ Increasing(Contents(in'))
    BY <1>0, <1>3, <1>4, <2>1, AddHolds DEF ReadOrder
  <2> HIDE DEF data
  <2>3. \A c \in Held(in') : lastRead < c /\ c <= rxCount /\ (rxData # 0 => c < rxData)
    BY <1>0, <1>4, <2>2 DEF ReadOrder
  <2>4. \A p \in DOMAIN inbox' : inbox'[p].kind = "rx" => \A c \in Held(in') : c < inbox'[p].data
    BY <1>5, <2>2
  <2>5. lastRead <= rxCount /\ rxData <= rxCount /\ (rxData # 0 => lastRead < rxData)
    BY <1>0 DEF ReadOrder
  <2> QED BY <1>1, <1>5, <1>7, <2>1, <2>2, <2>3, <2>4, <2>5 DEF ReadOrder
<1> QED BY <1>6, <1>7

LEMMA ServeGetOrder ==
  ASSUME BytesInv, ServeGet
  PROVE  ReadOrder'
<1>0. /\ Shape /\ in \in Ring /\ ReadOrder
      /\ lastRead \in Nat /\ rxData \in Nat /\ rxCount \in Nat /\ Held(in) \subseteq Nat
  BY LastHeld DEF BytesInv, IInv, BytesTyped, Shape
<1>1. Receive("get") /\ UNCHANGED <<rxData, rxCount>>
  BY DEF ServeGet, uart
<1>2. \A i \in DOMAIN inbox' : i \in Nat /\ i + 1 \in DOMAIN inbox /\ inbox'[i] = inbox[i + 1]
  BY <1>0, <1>1, TurnTakes
<1>3. ASSUME NEW p \in DOMAIN inbox', inbox'[p].kind = "rx"
      PROVE  /\ lastRead < inbox'[p].data /\ inbox'[p].data <= rxCount
             /\ \A c \in Held(in) : c < inbox'[p].data
             /\ rxData # 0 => inbox'[p].data < rxData
             /\ \A q \in DOMAIN inbox' : p < q /\ inbox'[q].kind = "rx" =>
                  inbox'[p].data < inbox'[q].data
  <2>1. p + 1 \in DOMAIN inbox /\ inbox'[p] = inbox[p + 1] /\ inbox[p + 1].kind = "rx"
    BY <1>2, <1>3
  <2>2. \A q \in DOMAIN inbox' : p < q => /\ q + 1 \in DOMAIN inbox /\ inbox'[q] = inbox[q + 1]
                                         /\ p + 1 < q + 1
    BY <1>2, <2>1
  <2> QED BY <1>0, <1>2, <2>1, <2>2 DEF ReadOrder
<1>4. CASE buffer_empty(in)
  <2>1. in' = in /\ lastRead' = lastRead /\ inputWait' = TRUE
    BY <1>4 DEF ServeGet
  <2> QED BY <1>0, <1>1, <1>3, <1>4, <2>1 DEF ReadOrder
<1>5. CASE ~buffer_empty(in)
  <2>1. lastRead' = first_of_buffer(in) /\ in' = remove_from_buffer(in) /\ inputWait' = inputWait
    BY <1>5 DEF ServeGet
  <2>2. /\ Held(in) = Held(in') \cup {lastRead'} /\ Increasing(Contents(in'))
        /\ \A c \in Held(in') : lastRead' < c
    BY <1>0, <1>5, <2>1, RemoveHolds DEF ReadOrder
  <2>3. ~inputWait
    BY <1>0, <1>5 DEF ReadOrder
  <2>4. /\ lastRead' <= rxCount /\ rxData <= rxCount /\ (rxData # 0 => lastRead' < rxData)
        /\ \A c \in Held(in') : c <= rxCount /\ (rxData # 0 => c < rxData)
    BY <1>0, <2>2 DEF ReadOrder
  <2>5. \A p \in DOMAIN inbox' : inbox'[p].kind = "rx" =>
          lastRead' < inbox'[p].data /\ \A c \in Held(in') : c < inbox'[p].data
    BY <1>3, <2>2
  <2> QED BY <1>1, <1>3, <2>1, <2>2, <2>3, <2>4, <2>5 DEF ReadOrder
<1> QED BY <1>4, <1>5

\* The notifiers' signals are no bytes.
LEMMA SignalsMove ==
  ASSUME Shape, TxInterrupt \/ MsInterrupt \/ MsInterruptRaced
  PROVE  Moved("put", 0) /\ Moved("rx", 0)
<1>1. \E n \in Notifier, m \in Message : Forward(n, m) /\ m.kind \in {"tx", "ms"}
  BY MessageParts DEF TxInterrupt, MsInterrupt, MsInterruptRaced, Notifier
<1> QED BY <1>1, InboxMoves

LEMMA OrderKept ==
  ASSUME BytesInv, [Next]_vars
  PROVE  OutOrder' /\ ReadOrder'
<1>0. Shape /\ rxData \in Nat /\ putCount \in Nat
  BY DEF BytesInv, IInv, Shape
<1>1. CASE Getc
  <2>1. Moved("put", 0) /\ Moved("rx", 0)
    BY <1>0, <1>1, InboxMoves, MessageParts DEF Getc
  <2> QED BY <1>1, <2>1, OutUntouched, ReadUntouched DEF Getc, serverVars, uart, counts
<1>2. ASSUME NEW p \in Putter, NEW len \in 1 .. 2, Putstr(p, len)
      PROVE  OutOrder' /\ ReadOrder'
  <2> DEFINE m == [kind |-> "put", tid |-> p, data |-> [i \in 1 .. len |-> putCount + i]]
  <2>1. [i \in 1 .. len |-> putCount + i] \in Seq(Nat)
    BY <1>0
  <2>2. m \in Message /\ m.kind = "put"
    BY <2>1, MessageParts
  <2>3. inbox' = Append(inbox, m)
    BY <1>2 DEF Putstr
  <2> HIDE DEF m
  <2>4. Moved("rx", 0)
    BY <1>0, <2>2, <2>3, InboxMoves
  <2> QED BY <1>2, <2>4, PutstrOrder, ReadUntouched DEF Putstr, serverVars, uart
<1>3. CASE Shift \/ ByteLeaves
  <2>1. Moved("rx", 0)
    BY <1>0, <1>3, InboxMoves DEF Shift, ByteLeaves
  <2> QED BY <1>3, <2>1, LineOrder, ReadUntouched DEF Shift, ByteLeaves, serverVars, counts
<1>4. CASE ByteArrives
  <2>1. Moved("put", 0)
    BY <1>0, <1>4, InboxMoves DEF ByteArrives
  <2> QED BY <1>4, <2>1, ArrivalOrder, OutUntouched DEF ByteArrives, serverVars
<1>5. CASE RxInterrupt
  <2>1. Moved("put", 0)
    BY <1>0, <1>5, InboxMoves, MessageParts DEF RxInterrupt, Notifier
  <2> QED BY <1>5, <2>1, ArrivalOrder, OutUntouched DEF RxInterrupt, serverVars, counts
<1>6. CASE TxInterrupt \/ MsInterrupt \/ MsInterruptRaced
  <2>1. UNCHANGED <<out, lastSent, shifter, holding, putCount, in, inputWait, lastRead, rxData, rxCount>>
    BY <1>6 DEF TxInterrupt, MsInterrupt, MsInterruptRaced, serverVars, counts
  <2> QED BY <1>0, <1>6, <2>1, SignalsMove, OutUntouched, ReadUntouched
<1>7. CASE DeviceReady \/ (\E n \in Notifier : AwaitEvent(n)) \/ UNCHANGED vars
  <2>1. /\ inbox' = inbox
        /\ UNCHANGED <<out, lastSent, shifter, holding, putCount, in, inputWait, lastRead, rxData, rxCount>>
    BY <1>7 DEF DeviceReady, AwaitEvent, vars, serverVars, uart, counts
  <2> QED BY <1>0, <2>1, InboxMoves, OutUntouched, ReadUntouched
<1>8. CASE ServeTx \/ ServeMs
  <2>1. UNCHANGED <<out, lastSent, shifter, holding, putCount, in, inputWait, lastRead, rxData, rxCount>>
    BY <1>8 DEF ServeTx, ServeMs, uart, counts
  <2>2. Moved("put", 1) /\ Moved("rx", 1)
    BY <1>0, <1>8, InboxMoves DEF ServeTx, ServeMs
  <2> QED BY <2>1, <2>2, OutUntouched, ReadUntouched
<1>9. CASE ServeRx
  <2>1. Moved("put", 1)
    BY <1>0, <1>9, InboxMoves DEF ServeRx
  <2> QED BY <1>9, <2>1, ServeRxOrder, OutUntouched DEF ServeRx, uart
<1>10. CASE ServePut
  <2>1. Moved("rx", 1)
    BY <1>0, <1>10, InboxMoves DEF ServePut
  <2> QED BY <1>10, <2>1, ServePutOrder, ReadUntouched DEF ServePut, uart, counts
<1>11. CASE ServeGet
  <2>1. Moved("put", 1)
    BY <1>0, <1>11, InboxMoves DEF ServeGet
  <2> QED BY <1>11, <2>1, ServeGetOrder, OutUntouched DEF ServeGet, uart
<1>12. CASE Output
  <2>1. Moved("rx", 0)
    BY <1>0, <1>12, InboxMoves DEF Output
  <2> QED BY <1>12, <2>1, OutputOrder, ReadUntouched DEF Output, counts
<1>13. CASE flush
  <2>1. Moved("rx", 0)
    BY <1>0, <1>13, InboxMoves DEF flush
  <2> QED BY <1>13, <2>1, FlushOrder, ReadUntouched DEF flush
<1> QED BY <1>1, <1>2, <1>3, <1>4, <1>5, <1>6, <1>7, <1>8, <1>9, <1>10, <1>11, <1>12, <1>13 DEF Next, Serve

THEOREM BytesInvHolds == Spec => []BytesInv
<1>1. Init => BytesInv
  BY BytesInit
<1>2. BytesInv /\ [Next]_vars => BytesInv'
  BY NextKeeps, TypedKept, OrderKept DEF BytesInv
<1> QED BY <1>1, <1>2, PTL DEF Spec

\* Bytes leave, and reach the reader, in the order they came in, none twice.
THEOREM BytesStayInOrder == Spec => []BytesInOrder
<1>1. ASSUME BytesInv
      PROVE  BytesInOrder
  <2>0. /\ Contents(out) \in Seq(Nat) /\ Contents(in) \in Seq(Nat)
        /\ lastSent \in Nat /\ shifter \in Nat /\ holding \in Nat /\ lastRead \in Nat
    BY <1>1, ContentsAre DEF BytesInv, BytesTyped
  <2> DEFINE o == Contents(out)
             r == Contents(in)
             l == <<lastSent, shifter, holding>>
  <2>1. /\ \A i \in DOMAIN o : o[i] \in Held(out)
        /\ \A i \in DOMAIN r : r[i] \in Held(in)
    BY DEF Held
  <2>2. \A c \in Held(out) : c # 0 /\ lastSent < c /\ shifter < c /\ holding < c
    <3>1. \A c \in Held(out) : lastSent < c /\ shifter < c /\ holding < c
      BY <1>1 DEF BytesInv, OutOrder, BehindLine
    <3> QED BY <2>0, <3>1
  <2>3. \A c \in Held(in) : c # 0 /\ lastRead < c
    <3>1. \A c \in Held(in) : lastRead < c
      BY <1>1 DEF BytesInv, ReadOrder
    <3> QED BY <2>0, <3>1
  <2>4. /\ Increasing(o) /\ Increasing(r)
        /\ shifter # 0 => lastSent < shifter
        /\ holding # 0 => lastSent < holding /\ shifter < holding
    BY <1>1 DEF BytesInv, OutOrder, ReadOrder
  <2> HIDE DEF o, r
  <2>5. InOrder(l \o o)
    <3> DEFINE z == l \o o
    <3>1. /\ Len(o) \in Nat /\ DOMAIN o = 1 .. Len(o) /\ DOMAIN z = 1 .. Len(o) + 3
          /\ z[1] = lastSent /\ z[2] = shifter /\ z[3] = holding
          /\ \A i \in 4 .. Len(o) + 3 : z[i] = o[i - 3] /\ i - 3 \in DOMAIN o
      BY <2>0 DEF o
    <3> HIDE DEF l, z
    <3>2. ASSUME NEW i \in 1 .. Len(o) + 3, NEW j \in 1 .. Len(o) + 3, i < j,
                 z[i] # 0, z[j] # 0
          PROVE  z[i] < z[j]
      <4>1. CASE j \in {2, 3}
        <5>1. (j = 2 /\ i = 1) \/ (j = 3 /\ (i = 1 \/ i = 2))
          BY <3>1, <3>2, <4>1
        <5> QED BY <2>4, <3>1, <3>2, <5>1
      <4>2. CASE j \in 4 .. Len(o) + 3 /\ i \in {1, 2, 3}
        BY <2>1, <2>2, <3>1, <4>2
      <4>3. CASE j \in 4 .. Len(o) + 3 /\ i \in 4 .. Len(o) + 3
        <5>1. i - 3 \in DOMAIN o /\ j - 3 \in DOMAIN o /\ i - 3 < j - 3
          BY <3>1, <3>2, <4>3
        <5>2. o[i - 3] < o[j - 3]
          BY <2>4, <5>1 DEF Increasing
        <5>3. z[i] = o[i - 3] /\ z[j] = o[j - 3]
          BY <3>1, <4>3
        <5> QED BY <5>2, <5>3
      <4> QED BY <3>1, <3>2, <4>1, <4>2, <4>3
    <3>3. InOrder(z)
      BY <3>1, <3>2 DEF InOrder
    <3> QED BY <3>3 DEF z
  <2>6. InOrder(<<lastRead>> \o r)
    <3> DEFINE s == <<lastRead>> \o r
    <3>1. /\ Len(r) \in Nat /\ DOMAIN r = 1 .. Len(r) /\ DOMAIN s = 1 .. Len(r) + 1
          /\ s[1] = lastRead
          /\ \A i \in 2 .. Len(r) + 1 : s[i] = r[i - 1] /\ i - 1 \in DOMAIN r
      BY <2>0 DEF r
    <3> HIDE DEF s
    <3>2. ASSUME NEW i \in 1 .. Len(r) + 1, NEW j \in 1 .. Len(r) + 1, i < j
          PROVE  s[i] < s[j]
      <4>0. j \in 2 .. Len(r) + 1
        BY <3>1, <3>2
      <4>1. CASE i = 1
        BY <2>1, <2>3, <3>1, <4>0, <4>1
      <4>2. CASE i # 1
        <5>1. i - 1 \in DOMAIN r /\ j - 1 \in DOMAIN r /\ i - 1 < j - 1 /\ i \in 2 .. Len(r) + 1
          BY <3>1, <3>2, <4>2
        <5> QED BY <2>4, <3>1, <4>0, <5>1 DEF Increasing
      <4> QED BY <4>1, <4>2
    <3>3. InOrder(s)
      BY <3>1, <3>2 DEF InOrder
    <3> QED BY <3>3 DEF s
  <2> QED BY <2>2, <2>3, <2>5, <2>6 DEF BytesInOrder, o, r
<1>2. BytesInv => BytesInOrder
  BY <1>1
<1> QED BY <1>2, BytesInvHolds, PTL

-----------------------------------------------------------------------------
(* What becomes of a byte.                                                 *)

\* A turn of the server loses only what finds the ring full.
LEMMA TurnLoses ==
  ASSUME Shape, BytesTyped, Next, server = "receive", server' = "output"
  PROVE  /\ Head(inbox).kind = "put" =>
              \A i \in DOMAIN Head(inbox).data :
                Head(inbox).data[i] \in Held(out') \/ IsFull(out')
         /\ Head(inbox).kind = "rx" =>
              Head(inbox).data \in Held(in') \cup {lastRead'} \/ IsFull(in)
<1>1. ServeRx \/ ServeTx \/ ServeMs \/ ServePut \/ ServeGet
  BY DEF Next, Getc, Putstr, ByteArrives, Shift, ByteLeaves, DeviceReady, RxInterrupt, TxInterrupt,
         MsInterrupt, MsInterruptRaced, AwaitEvent, Serve, Output, flush
<1>2. CASE ServeRx
  <2>1. Head(inbox).kind = "rx" /\ Head(inbox).data \in Nat
    BY <1>2, TurnTakes, MessageData DEF ServeRx
  <2>2. IF inputWait THEN lastRead' = Head(inbox).data
                     ELSE in' = add_to_buffer(in, Head(inbox).data)
    BY <1>2 DEF ServeRx
  <2> QED BY <2>1, <2>2, AddHolds DEF BytesTyped
<1>3. CASE ServePut
  <2>1. Head(inbox).kind = "put" /\ Head(inbox).data \in Seq(Nat)
    BY <1>3, TurnTakes, MessageData DEF ServePut
  <2>2. out' = add_all(out, Head(inbox).data)
    BY <1>3 DEF ServePut
  <2> QED BY <2>1, <2>2, AddAllHolds DEF BytesTyped
<1>4. CASE ServeTx \/ ServeMs \/ ServeGet
  BY <1>4 DEF ServeTx, ServeMs, ServeGet, Receive
<1> QED BY <1>1, <1>2, <1>3, <1>4

\* A byte leaves a ring only to the line or to the reader.
LEMMA RingsKeep ==
  ASSUME Shape, BytesTyped, [Next]_vars
  PROVE  /\ running' => Held(out) \subseteq Held(out') \cup {holding'}
         /\ Held(in) \subseteq Held(in') \cup {lastRead'}
<1>1. CASE Getc \/ (\E p \in Putter, len \in 1 .. 2 : Putstr(p, len)) \/ UNCHANGED vars
  BY <1>1 DEF Getc, Putstr, vars, serverVars
<1>2. CASE ByteArrives \/ Shift \/ ByteLeaves \/ DeviceReady
  BY <1>2 DEF ByteArrives, Shift, ByteLeaves, DeviceReady, serverVars
<1>3. CASE RxInterrupt \/ TxInterrupt \/ MsInterrupt \/ MsInterruptRaced
           \/ \E n \in Notifier : AwaitEvent(n)
  BY <1>3 DEF RxInterrupt, TxInterrupt, MsInterrupt, MsInterruptRaced, AwaitEvent, serverVars
<1>4. CASE ServeRx
  <2>1. Head(inbox).data \in Nat
    BY <1>4, TurnTakes, MessageData DEF ServeRx
  <2>2. out' = out /\ (in' = in \/ in' = add_to_buffer(in, Head(inbox).data))
    BY <1>4 DEF ServeRx
  <2> QED BY <2>1, <2>2, AddHolds DEF BytesTyped
<1>5. CASE ServeTx \/ ServeMs
  BY <1>5 DEF ServeTx, ServeMs
<1>6. CASE ServePut
  <2>1. Head(inbox).data \in Seq(Nat)
    BY <1>6, TurnTakes, MessageData DEF ServePut
  <2>2. in' = in /\ out' = add_all(out, Head(inbox).data)
    BY <1>6 DEF ServePut
  <2> QED BY <2>1, <2>2, AddAllHolds DEF BytesTyped
<1>7. CASE ServeGet
  <2>1. /\ out' = out
        /\ \/ in' = in
           \/ /\ ~buffer_empty(in) /\ in' = remove_from_buffer(in)
              /\ lastRead' = first_of_buffer(in)
    BY <1>7 DEF ServeGet
  <2> QED BY <2>1, RemoveHolds DEF BytesTyped
<1>8. CASE Output
  <2>1. /\ in' = in
        /\ \/ out' = out
           \/ /\ ~buffer_empty(out) /\ out' = remove_from_buffer(out)
              /\ holding' = first_of_buffer(out)
    BY <1>8 DEF Output, Write
  <2> QED BY <2>1, RemoveHolds DEF BytesTyped
<1>9. CASE flush
  BY <1>9 DEF flush
<1> QED BY <1>1, <1>2, <1>3, <1>4, <1>5, <1>6, <1>7, <1>8, <1>9 DEF Next, Serve

\* A byte the server was given is dropped only when the ring is full, and one in
\* a ring leaves it only to the line or to the reader.
THEOREM BytesLostOnlyWhenFull == Spec => LossOnlyWhenFull
<1>1. BytesInv /\ [Next]_vars =>
        [/\ server = "receive" /\ server' = "output" =>
              /\ Head(inbox).kind = "put" =>
                   \A i \in DOMAIN Head(inbox).data :
                     Head(inbox).data[i] \in Held(out') \/ IsFull(out')
              /\ Head(inbox).kind = "rx" =>
                   Head(inbox).data \in Held(in') \cup {lastRead'} \/ IsFull(in)
         /\ running' => Held(out) \subseteq Held(out') \cup {holding'}
         /\ Held(in) \subseteq Held(in') \cup {lastRead'}]_vars
  <2> SUFFICES ASSUME BytesInv, Next
               PROVE  /\ server = "receive" /\ server' = "output" =>
                           /\ Head(inbox).kind = "put" =>
                                \A i \in DOMAIN Head(inbox).data :
                                  Head(inbox).data[i] \in Held(out') \/ IsFull(out')
                           /\ Head(inbox).kind = "rx" =>
                                Head(inbox).data \in Held(in') \cup {lastRead'} \/ IsFull(in)
                      /\ running' => Held(out) \subseteq Held(out') \cup {holding'}
                      /\ Held(in) \subseteq Held(in') \cup {lastRead'}
    OBVIOUS
  <2>1. Shape /\ BytesTyped
    BY DEF BytesInv, IInv
  <2> QED BY <2>1, TurnLoses, RingsKeep
<1> QED BY <1>1, BytesInvHolds, PTL DEF Spec, LossOnlyWhenFull
=============================================================================
