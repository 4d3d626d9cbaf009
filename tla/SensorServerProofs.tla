------------------------- MODULE SensorServerProofs -------------------------
(***************************************************************************)
(* Theorems about the sensor server, for any number of bytes, watchers and *)
(* triggers, whatever the line loses.                                      *)
(***************************************************************************)
EXTENDS SensorServer, TLAPS, WellFoundedInduction, SequenceTheorems

Received == [pos : {-1} \cup Sensors, on : {0, 1}]
Report   == [sensor : Sensors, pos : {-1} \cup Sensors, number : Nat]
Work     == [to : Subscriber, report : Report]
Signals  == {"query_worker", "query_timeout", "answer_timeout", "courier"}
Messages == [kind : Signals] \cup [kind : {"byte"}, byte : Received]
            \cup [kind : {"subscribe"}, from : Subscriber] \cup [kind : {"fake"}, sensor : Fake]

ServerState ==
    [queryWorkerReady : BOOLEAN, queryTimeout : BOOLEAN, queryResponseTimeout : BOOLEAN,
     startQueryResponseTimeout : BOOLEAN, courierReady : BOOLEAN, response : Seq(Received),
     ignore : BOOLEAN, value : [Sensors -> {0, 1}], buffer : Seq(Report), number : Nat,
     subscriber : Seq(Subscriber), update : Nat \ {0}]

TypeInv ==
    /\ box \in [queries : 0 .. MaxQueries, wait : 0 .. Latency, pos : 0 .. Bytes]
    /\ late \in BOOLEAN /\ lost \in BOOLEAN
    /\ rx \in Seq(Received)
    /\ queryTimer \in {Off} \cup 0 .. QueryDelay
    /\ answerTimer \in {Off} \cup 0 .. AnswerDelay
    /\ asking \in BOOLEAN
    /\ inbox \in Seq(Messages)
    /\ server \in ServerState
    /\ server.update = 1 \/ server.update <= Len(server.subscriber)
    /\ courier.work \in Seq(Work)
    /\ courier.at = "watcher" => courier.work # <<>>
    /\ told \in [Subscriber -> Nat]
    /\ watcher \in [Subscriber -> {"new", "subscribes", "waits", "busy"}]

-----------------------------------------------------------------------------
(* Messages.                                                               *)

Has(b, k)  == \E i \in DOMAIN b : b[i].kind = k
Once(b, k) == \A i, j \in DOMAIN b : b[i].kind = k /\ b[j].kind = k => i = j

LEMMA Numbers ==
  /\ {Bytes, BufferSize, QueryDelay, AnswerDelay} \subseteq Nat \ {0}
  /\ Bytes \in Nat \ {0} /\ QueryDelay \in Nat \ {0} /\ AnswerDelay \in Nat \ {0}
  /\ Latency \in Nat /\ MaxQueries \in Nat \ {0} /\ MaxStale \in Nat /\ BufferSize \in Nat \ {0}
  /\ Bytes <= AnswerDelay /\ Latency + 1 + AnswerDelay < QueryDelay
  /\ Fake \subseteq Sensors /\ Off = -1
BY SensorAssumption DEF Sensors, Off

LEMMA MessageParts ==
  ASSUME NEW m \in Messages
  PROVE  /\ m.kind \in Signals \cup {"byte", "subscribe", "fake"}
         /\ m.kind = "byte" => m.byte \in Received
         /\ m.kind = "subscribe" => m.from \in Subscriber
         /\ m.kind = "fake" => m.sensor \in Fake
BY DEF Messages, Signals

\* The message a step puts into the inbox.
LEMMA Posted ==
  ASSUME NEW b \in Seq(Messages), NEW m \in Messages
  PROVE  /\ Append(b, m) \in Seq(Messages)
         /\ \A k : Has(Append(b, m), k) <=> Has(b, k) \/ m.kind = k
         /\ \A k : Once(b, k) /\ (m.kind = k => ~Has(b, k)) => Once(Append(b, m), k)
         /\ \A i \in DOMAIN Append(b, m) : Append(b, m)[i] = m \/
              \E j \in DOMAIN b : Append(b, m)[i] = b[j]
<1> DEFINE r == Append(b, m)
<1>1. /\ r \in Seq(Messages) /\ Len(r) = Len(b) + 1 /\ Len(b) \in Nat
      /\ DOMAIN r = 1 .. Len(b) + 1 /\ DOMAIN b = 1 .. Len(b)
      /\ r[Len(b) + 1] = m /\ \A i \in 1 .. Len(b) : r[i] = b[i]
  OBVIOUS
<1> HIDE DEF r
<1>2. ASSUME NEW k PROVE Has(r, k) <=> Has(b, k) \/ m.kind = k
  BY <1>1 DEF Has
<1>3. ASSUME NEW k, Once(b, k), m.kind = k => ~Has(b, k) PROVE Once(r, k)
  BY <1>1, <1>3 DEF Has, Once
<1>4. \A i \in DOMAIN r : r[i] = m \/ \E j \in DOMAIN b : r[i] = b[j]
  BY <1>1
<1> QED BY <1>1, <1>2, <1>3, <1>4 DEF r

\* The message a turn of the server takes.
LEMMA Taken ==
  ASSUME NEW b \in Seq(Messages), b # <<>>
  PROVE  /\ Head(b) \in Messages /\ Tail(b) \in Seq(Messages)
         /\ \A k : Has(b, k) <=> Head(b).kind = k \/ Has(Tail(b), k)
         /\ \A k : Once(b, k) => Once(Tail(b), k) /\ (Head(b).kind = k => ~Has(Tail(b), k))
         /\ 1 \in DOMAIN b /\ Head(b) = b[1]
         /\ \A i \in DOMAIN Tail(b) : i + 1 \in DOMAIN b /\ Tail(b)[i] = b[i + 1]
<1> DEFINE r == Tail(b)
<1>1. /\ r \in Seq(Messages) /\ Len(b) \in Nat \ {0} /\ DOMAIN r = 1 .. Len(b) - 1
      /\ DOMAIN b = 1 .. Len(b) /\ Head(b) = b[1] /\ Head(b) \in Messages
      /\ \A i \in 1 .. Len(b) - 1 : r[i] = b[i + 1]
  OBVIOUS
<1> HIDE DEF r
<1>2. ASSUME NEW k PROVE Has(b, k) <=> Head(b).kind = k \/ Has(r, k)
  <2>1. ASSUME NEW i \in DOMAIN b, i # 1 PROVE i - 1 \in DOMAIN r /\ r[i - 1] = b[i]
    BY <1>1, <2>1
  <2> QED BY <1>1, <2>1 DEF Has
<1>3. ASSUME NEW k, Once(b, k) PROVE Once(r, k) /\ (Head(b).kind = k => ~Has(r, k))
  <2>1. \A i \in DOMAIN r : i + 1 \in DOMAIN b /\ r[i] = b[i + 1] /\ i \in Nat \ {0}
    BY <1>1
  <2>2. 1 \in DOMAIN b
    BY <1>1
  <2> QED BY <1>1, <1>3, <2>1, <2>2 DEF Has, Once
<1> QED BY <1>1, <1>2, <1>3 DEF r

-----------------------------------------------------------------------------
(* The loop over a complete answer.                                        *)

\* Every non-empty set of naturals has a least element.
LEMMA LeastNatural ==
  ASSUME NEW B \in SUBSET Nat, B # {}
  PROVE  \E k \in B : \A m \in B : k <= m
<1>1. PICK k \in B : \A m \in B : ~(<<m, k>> \in OpToRel(<, Nat))
  BY WFMin, NatLessThanWellFounded
<1>2. \A m \in B : ~(m < k)
  BY <1>1 DEF OpToRel
<1> QED BY <1>2

\* g holds the server's variables after the first k bytes.
Processes(sv, answer, k, g) ==
  g = [i \in 0 .. k |-> IF i = 0 THEN sv ELSE sensorResponded(g[i - 1], i - 1, answer[i])]

\* The loop can be continued by one byte.
LEMMA ProcessesStep ==
  ASSUME NEW sv, NEW answer, NEW k \in Nat, NEW g, Processes(sv, answer, k, g)
  PROVE  \E r : Processes(sv, answer, k + 1, r)
<1> DEFINE z == sensorResponded(g[k], k, answer[k + 1])
           r == [i \in 0 .. k + 1 |-> IF i = k + 1 THEN z ELSE g[i]]
<1>1. \A i \in 0 .. k : g[i] = IF i = 0 THEN sv ELSE sensorResponded(g[i - 1], i - 1, answer[i])
  BY DEF Processes
<1>2. r[k + 1] = z /\ \A i \in 0 .. k : r[i] = g[i]
  <2> HIDE DEF z
  <2> QED OBVIOUS
<1>3. r = [i \in 0 .. k + 1 |-> r[i]]
  <2> HIDE DEF z
  <2> QED OBVIOUS
<1> HIDE DEF r
<1>4. ASSUME NEW i \in 0 .. k + 1
      PROVE  r[i] = IF i = 0 THEN sv ELSE sensorResponded(r[i - 1], i - 1, answer[i])
  <2>1. CASE i = k + 1
    <3>1. k \in 0 .. k /\ i # 0 /\ i - 1 = k
      BY <2>1
    <3> QED BY <1>2, <2>1, <3>1
  <2>2. CASE i # k + 1
    <3>1. i \in 0 .. k /\ (i # 0 => i - 1 \in 0 .. k)
      BY <2>2
    <3> QED BY <1>1, <1>2, <3>1
  <2> QED BY <2>1, <2>2
<1>5. Processes(sv, answer, k + 1, r)
  BY <1>3, <1>4 DEF Processes
<1> QED BY <1>5

\* What each byte of an answer keeps, the whole answer keeps.
LEMMA ProcessedKeeps ==
  ASSUME NEW P, NEW answer, NEW sv \in P,
         \A x \in P, i \in 1 .. Bytes : sensorResponded(x, i - 1, answer[i]) \in P
  PROVE  Processed(sv, answer) \in P
<1> DEFINE Bad == {k \in Nat : ~ \E g : Processes(sv, answer, k, g)}
<1>1. Bad = {}
  <2> SUFFICES ASSUME Bad # {} PROVE FALSE
    OBVIOUS
  <2>1. Bad \in SUBSET Nat
    OBVIOUS
  <2>2. PICK k \in Bad : \A m \in Bad : k <= m
    <3> HIDE DEF Bad
    <3> QED BY <2>1, LeastNatural
  <2>3. CASE k = 0
    <3> DEFINE g0 == [i \in 0 .. 0 |-> sv]
    <3>1. g0 = [i \in 0 .. 0 |-> IF i = 0 THEN sv ELSE sensorResponded(g0[i - 1], i - 1, answer[i])]
      OBVIOUS
    <3> HIDE DEF g0
    <3>2. Processes(sv, answer, 0, g0)
      BY <3>1 DEF Processes
    <3> QED BY <2>2, <2>3, <3>2
  <2>4. CASE k # 0
    <3>1. k - 1 \in Nat /\ k - 1 + 1 = k /\ ~(k <= k - 1)
      BY <2>1, <2>2, <2>4
    <3>2. k - 1 \notin Bad
      <4> HIDE DEF Bad
      <4> QED BY <2>2, <3>1
    <3>3. PICK g : Processes(sv, answer, k - 1, g)
      BY <3>1, <3>2
    <3> QED BY <2>2, <3>1, <3>3, ProcessesStep
  <2> QED BY <2>3, <2>4
<1> DEFINE upTo == CHOOSE g : Processes(sv, answer, Bytes, g)
<1>2. Processes(sv, answer, Bytes, upTo)
  BY <1>1, Numbers
<1>3. Processed(sv, answer) = upTo[Bytes]
  BY DEF Processed, Processes
<1> HIDE DEF upTo, Bad
<1>4. \A i \in 0 .. Bytes : upTo[i] = IF i = 0 THEN sv
                                      ELSE sensorResponded(upTo[i - 1], i - 1, answer[i])
  BY <1>2 DEF Processes
<1> DEFINE Odd == {i \in Nat : i <= Bytes /\ upTo[i] \notin P}
<1>5. Odd = {}
  <2> SUFFICES ASSUME Odd # {} PROVE FALSE
    OBVIOUS
  <2>1. Odd \in SUBSET Nat
    OBVIOUS
  <2>2. PICK i \in Odd : \A j \in Odd : i <= j
    <3> HIDE DEF Odd
    <3> QED BY <2>1, LeastNatural
  <2>3. i \in Nat /\ i <= Bytes /\ upTo[i] \notin P /\ i # 0
    BY <1>4, <2>2, Numbers
  <2>4. i - 1 \in Nat /\ i - 1 <= Bytes /\ i \in 1 .. Bytes /\ i \in 0 .. Bytes /\ ~(i <= i - 1)
    BY <2>3, Numbers
  <2>5. i - 1 \notin Odd
    <3> HIDE DEF Odd
    <3> QED BY <2>2, <2>4
  <2>6. upTo[i - 1] \in P
    BY <2>4, <2>5
  <2> QED BY <1>4, <2>3, <2>4, <2>6
<1>6. Bytes \in Nat /\ Bytes <= Bytes
  BY Numbers
<1> QED BY <1>3, <1>5, <1>6

-----------------------------------------------------------------------------
(* The parts of a turn.                                                    *)

\* The flags and the answer collected so far.
SameFlags(x, y) ==
    /\ (x.queryWorkerReady <=> y.queryWorkerReady) /\ (x.queryTimeout <=> y.queryTimeout)
    /\ (x.queryResponseTimeout <=> y.queryResponseTimeout)
    /\ (x.startQueryResponseTimeout <=> y.startQueryResponseTimeout)
    /\ x.response = y.response

SameList(x, y) == x.subscriber = y.subscriber /\ x.update = y.update

\* y has the reports of x and perhaps newer ones, numbered on.
Newer(x, y) ==
    \/ y.buffer = x.buffer /\ y.number = x.number
    \/ /\ y.number = x.number + 1
       /\ \/ y.buffer = x.buffer
          \/ y.buffer # <<>> /\ y.buffer = Append(x.buffer, y.buffer[Len(x.buffer) + 1])
             /\ y.buffer[Len(x.buffer) + 1].number = y.number

LEMMA BufferGrows ==
  ASSUME NEW b \in Seq(Report), NEW r \in Report
  PROVE  /\ add_to_buffer(b, r) \in Seq(Report)
         /\ \/ add_to_buffer(b, r) = b
            \/ /\ add_to_buffer(b, r) # <<>>
               /\ add_to_buffer(b, r) = Append(b, r)
               /\ add_to_buffer(b, r)[Len(b) + 1] = r
BY DEF add_to_buffer

\* A turn that reports and records the sensor, and one that records it only.
Reported(sv, i, b) == [sv EXCEPT !.buffer = b, !.number = @ + 1, !.value[i] = 1]
Recorded(sv, i, on) == [sv EXCEPT !.value[i] = on]

LEMMA WithReported ==
  ASSUME NEW sv \in ServerState, NEW i \in Sensors, NEW b \in Seq(Report), NEW on \in {0, 1}
  PROVE  /\ Reported(sv, i, b) \in ServerState
         /\ SameFlags(Reported(sv, i, b), sv) /\ SameList(Reported(sv, i, b), sv)
         /\ Reported(sv, i, b).buffer = b /\ Reported(sv, i, b).number = sv.number + 1
         /\ Recorded(sv, i, on) \in ServerState
         /\ SameFlags(Recorded(sv, i, on), sv) /\ SameList(Recorded(sv, i, on), sv)
         /\ Recorded(sv, i, on).buffer = sv.buffer /\ Recorded(sv, i, on).number = sv.number
<1>1. [sv.value EXCEPT ![i] = 1] \in [Sensors -> {0, 1}]
  BY DEF ServerState
<1>2. sv.number \in Nat /\ sv.number + 1 \in Nat
  BY DEF ServerState
<1>3. Reported(sv, i, b) \in ServerState
  BY <1>1, <1>2 DEF ServerState, Reported
<1>4. /\ SameFlags(Reported(sv, i, b), sv) /\ SameList(Reported(sv, i, b), sv)
      /\ Reported(sv, i, b).buffer = b /\ Reported(sv, i, b).number = sv.number + 1
  BY DEF ServerState, Reported, SameFlags, SameList
<1>5. /\ Recorded(sv, i, on) \in ServerState
      /\ SameFlags(Recorded(sv, i, on), sv) /\ SameList(Recorded(sv, i, on), sv)
      /\ Recorded(sv, i, on).buffer = sv.buffer /\ Recorded(sv, i, on).number = sv.number
  BY DEF ServerState, Recorded, SameFlags, SameList
<1> QED BY <1>3, <1>4, <1>5

LEMMA RespondedIs ==
  ASSUME NEW sv \in ServerState, NEW i \in Sensors, NEW byte \in Received
  PROVE  LET r == sensorResponded(sv, i, byte) IN
         /\ r \in ServerState /\ SameFlags(r, sv) /\ SameList(r, sv) /\ Newer(sv, r)
         /\ \A n \in DOMAIN r.buffer :
              \/ n \in DOMAIN sv.buffer /\ r.buffer[n] = sv.buffer[n]
              \/ r.buffer[n].sensor = i /\ r.buffer[n].pos = byte.pos
<1> DEFINE rep == [sensor |-> i, pos |-> byte.pos, number |-> sv.number + 1]
           b   == add_to_buffer(sv.buffer, rep)
           s1  == Reported(sv, i, b)
           s2  == Recorded(sv, i, byte.on)
<1>1. rep \in Report /\ rep.sensor = i /\ rep.pos = byte.pos /\ rep.number = sv.number + 1
  BY DEF Report, Received, ServerState
<1>2. sv.buffer \in Seq(Report) /\ sv.number \in Nat /\ byte.on \in {0, 1}
  BY DEF ServerState, Received
<1> HIDE DEF rep
<1>3. /\ b \in Seq(Report)
      /\ b = sv.buffer \/ (b # <<>> /\ b = Append(sv.buffer, rep) /\ b[Len(sv.buffer) + 1] = rep)
  BY <1>1, <1>2, BufferGrows
<1>4. \A n \in DOMAIN b : (n \in DOMAIN sv.buffer /\ b[n] = sv.buffer[n]) \/ b[n] = rep
  BY <1>2, <1>3
<1>5. sensorResponded(sv, i, byte) \in {s1, s2, sv}
  BY DEF sensorResponded, rep, Reported, Recorded
<1> HIDE DEF b
<1>6. /\ s1 \in ServerState /\ SameFlags(s1, sv) /\ SameList(s1, sv)
      /\ s1.buffer = b /\ s1.number = sv.number + 1
  BY <1>2, <1>3, WithReported
<1>7. /\ s2 \in ServerState /\ SameFlags(s2, sv) /\ SameList(s2, sv)
      /\ s2.buffer = sv.buffer /\ s2.number = sv.number
  BY <1>2, <1>3, WithReported
<1> HIDE DEF s1, s2
<1>8. CASE sensorResponded(sv, i, byte) = s1
  <2>1. Newer(sv, s1)
    BY <1>1, <1>3, <1>6 DEF Newer
  <2> QED BY <1>1, <1>4, <1>6, <1>8, <2>1
<1>9. CASE sensorResponded(sv, i, byte) = s2
  BY <1>7, <1>9 DEF Newer
<1>10. CASE sensorResponded(sv, i, byte) = sv
  BY <1>10 DEF Newer, SameFlags, SameList
<1> QED BY <1>5, <1>8, <1>9, <1>10

\* The first byte of an answer starts its timer, the last one ends the answer.
Started(sv, byte) ==
    LET first == sv.response = <<>> IN
    [sv EXCEPT !.queryResponseTimeout = @ /\ ~first,
               !.startQueryResponseTimeout = @ \/ (first /\ ~sv.queryResponseTimeout),
               !.response = Append(@, byte)]

LEMMA StartedIs ==
  ASSUME NEW sv \in ServerState, NEW byte \in Received
  PROVE  LET s == Started(sv, byte) IN
         /\ s \in ServerState /\ SameList(s, sv)
         /\ (s.queryWorkerReady <=> sv.queryWorkerReady) /\ (s.queryTimeout <=> sv.queryTimeout)
         /\ (s.queryResponseTimeout <=> sv.queryResponseTimeout /\ sv.response # <<>>)
         /\ s.startQueryResponseTimeout <=>
              (sv.startQueryResponseTimeout \/ (sv.response = <<>> /\ ~sv.queryResponseTimeout))
         /\ s.response = Append(sv.response, byte)
         /\ s.buffer = sv.buffer /\ s.number = sv.number
         /\ Byte(sv, byte) = IF Len(sv.response) + 1 < Bytes THEN s
                             ELSE [Processed(s, s.response) EXCEPT !.response = <<>>, !.ignore = FALSE]
<1> DEFINE s == Started(sv, byte)
<1>1. /\ sv.response \in Seq(Received) /\ Len(Append(sv.response, byte)) = Len(sv.response) + 1
      /\ (Len(sv.response) + 1 = 1) <=> sv.response = <<>>
      /\ Append(sv.response, byte) \in Seq(Received)
  BY DEF ServerState
<1>2. /\ s \in ServerState /\ SameList(s, sv)
      /\ (s.queryWorkerReady <=> sv.queryWorkerReady) /\ (s.queryTimeout <=> sv.queryTimeout)
      /\ (s.queryResponseTimeout <=> sv.queryResponseTimeout /\ sv.response # <<>>)
      /\ s.startQueryResponseTimeout <=>
           (sv.startQueryResponseTimeout \/ (sv.response = <<>> /\ ~sv.queryResponseTimeout))
      /\ s.response = Append(sv.response, byte)
      /\ s.buffer = sv.buffer /\ s.number = sv.number
  BY <1>1 DEF ServerState, SameList, Started
<1>3. s = [sv EXCEPT !.queryResponseTimeout = @ /\ ~(Len(Append(sv.response, byte)) = 1),
                     !.startQueryResponseTimeout = @ \/ (Len(Append(sv.response, byte)) = 1
                                                          /\ ~sv.queryResponseTimeout),
                     !.response = Append(sv.response, byte)]
  BY <1>1 DEF Started
<1>4. Byte(sv, byte) = IF Len(Append(sv.response, byte)) < Bytes THEN s
                       ELSE [Processed(s, Append(sv.response, byte)) EXCEPT !.response = <<>>, !.ignore = FALSE]
  BY <1>3 DEF Byte
<1> QED BY <1>1, <1>2, <1>4

AllTrue(b) == \A n \in DOMAIN b : b[n].pos = b[n].sensor

Done(sv) == [sv EXCEPT !.response = <<>>, !.ignore = FALSE]

LEMMA DoneIs ==
  ASSUME NEW sv \in ServerState
  PROVE  /\ Done(sv) \in ServerState /\ SameList(Done(sv), sv) /\ Done(sv).response = <<>>
         /\ (Done(sv).queryTimeout <=> sv.queryTimeout)
         /\ (Done(sv).queryResponseTimeout <=> sv.queryResponseTimeout)
         /\ (Done(sv).startQueryResponseTimeout <=> sv.startQueryResponseTimeout)
         /\ Done(sv).buffer = sv.buffer /\ Done(sv).number = sv.number
<1>1. <<>> \in Seq(Received)
  OBVIOUS
<1> QED BY <1>1 DEF ServerState, Done, SameList

\* QUERY_RESPONSE_WORKER: the flags, and the reports if each byte is in its place.
LEMMA ByteIs ==
  ASSUME NEW sv \in ServerState, NEW byte \in Received
  PROVE  LET r == Byte(sv, byte)
             a == Append(sv.response, byte)
         IN
         /\ r \in ServerState /\ SameList(r, sv)
         /\ (r.queryTimeout <=> sv.queryTimeout)
         /\ (r.queryResponseTimeout <=> sv.queryResponseTimeout /\ sv.response # <<>>)
         /\ r.startQueryResponseTimeout <=>
              (sv.startQueryResponseTimeout \/ (sv.response = <<>> /\ ~sv.queryResponseTimeout))
         /\ r.response = IF Len(sv.response) + 1 < Bytes THEN a ELSE <<>>
         /\ AllTrue(sv.buffer) /\ (Len(sv.response) + 1 < Bytes \/ \A i \in 1 .. Bytes : a[i].pos = i - 1)
              => AllTrue(r.buffer)
<1> DEFINE a == Append(sv.response, byte)
           s == Started(sv, byte)
           x == Processed(s, a)
           Alike == {y \in ServerState : SameFlags(y, s) /\ SameList(y, s)}
           Placed == AllTrue(sv.buffer) /\ \A i \in 1 .. Bytes : a[i].pos = i - 1
           True == {y \in Alike : Placed => AllTrue(y.buffer)}
<1>1. /\ s \in ServerState /\ SameList(s, sv)
      /\ (s.queryTimeout <=> sv.queryTimeout)
      /\ (s.queryResponseTimeout <=> sv.queryResponseTimeout /\ sv.response # <<>>)
      /\ s.startQueryResponseTimeout <=>
           (sv.startQueryResponseTimeout \/ (sv.response = <<>> /\ ~sv.queryResponseTimeout))
      /\ s.response = a /\ s.buffer = sv.buffer
      /\ Byte(sv, byte) = IF Len(sv.response) + 1 < Bytes THEN s
                          ELSE [Processed(s, s.response) EXCEPT !.response = <<>>, !.ignore = FALSE]
  BY StartedIs
<1>2. Len(sv.response) \in Nat /\ DOMAIN a = 1 .. Len(sv.response) + 1 /\ a \in Seq(Received)
      /\ \A i \in 1 .. Len(sv.response) + 1 : a[i] \in Received
  <2>1. sv.response \in Seq(Received)
    BY DEF ServerState
  <2> QED BY <2>1
<1>3. Byte(sv, byte) = IF Len(sv.response) + 1 < Bytes THEN s ELSE Done(x)
  BY <1>1 DEF Done
<1> HIDE DEF a, s
<1>4. CASE Len(sv.response) + 1 < Bytes
  BY <1>1, <1>3, <1>4 DEF a
<1>5. CASE ~(Len(sv.response) + 1 < Bytes)
  <2>1. \A i \in 1 .. Bytes : i - 1 \in Sensors /\ i \in 1 .. Len(sv.response) + 1
    BY <1>2, <1>5, Numbers DEF Sensors
  <2>2. ASSUME NEW y \in True, NEW i \in 1 .. Bytes
        PROVE  sensorResponded(y, i - 1, a[i]) \in True
    <3> DEFINE z == sensorResponded(y, i - 1, a[i])
    <3>1. y \in ServerState /\ i - 1 \in Sensors /\ a[i] \in Received
      BY <1>2, <2>1
    <3>2. /\ z \in ServerState /\ SameFlags(z, y) /\ SameList(z, y)
          /\ \A n \in DOMAIN z.buffer :
               \/ n \in DOMAIN y.buffer /\ z.buffer[n] = y.buffer[n]
               \/ z.buffer[n].sensor = i - 1 /\ z.buffer[n].pos = a[i].pos
      BY <3>1, RespondedIs
    <3> HIDE DEF z
    <3>3. SameFlags(z, s) /\ SameList(z, s)
      BY <3>2 DEF SameFlags, SameList
    <3>4. Placed => AllTrue(z.buffer)
      BY <3>2 DEF AllTrue
    <3> QED BY <3>2, <3>3, <3>4 DEF z
  <2>3. s \in True
    BY <1>1 DEF SameFlags, SameList
  <2> HIDE DEF True
  <2>4. x \in True
    BY <2>2, <2>3, ProcessedKeeps
  <2> HIDE DEF x
  <2>5. x \in ServerState /\ SameFlags(x, s) /\ SameList(x, s) /\ (Placed => AllTrue(x.buffer))
    BY <2>4 DEF True
  <2>6. /\ Done(x) \in ServerState /\ SameList(Done(x), x) /\ Done(x).response = <<>>
        /\ (Done(x).queryTimeout <=> x.queryTimeout)
        /\ (Done(x).queryResponseTimeout <=> x.queryResponseTimeout)
        /\ (Done(x).startQueryResponseTimeout <=> x.startQueryResponseTimeout)
        /\ Done(x).buffer = x.buffer
    BY <2>5, DoneIs
  <2> DEFINE r == Done(x)
  <2> HIDE DEF r
  <2>7. Byte(sv, byte) = r
    BY <1>3, <1>5 DEF r
  <2>8. SameList(r, sv) /\ r \in ServerState /\ r.response = <<>>
    BY <1>1, <2>5, <2>6 DEF SameList, r
  <2>9. /\ (r.queryTimeout <=> sv.queryTimeout)
        /\ (r.queryResponseTimeout <=> sv.queryResponseTimeout /\ sv.response # <<>>)
        /\ r.startQueryResponseTimeout <=>
             (sv.startQueryResponseTimeout \/ (sv.response = <<>> /\ ~sv.queryResponseTimeout))
        /\ Placed => AllTrue(r.buffer)
    BY <1>1, <2>5, <2>6 DEF SameFlags, r
  <2> QED BY <1>5, <2>7, <2>8, <2>9 DEF a
<1> QED BY <1>4, <1>5

\* QUERY_RESPONSE_TIMEOUT_WORKER.
LEMMA TimedOutIs ==
  ASSUME NEW sv \in ServerState
  PROVE  /\ TimedOut(sv) \in ServerState /\ SameList(TimedOut(sv), sv)
         /\ TimedOut(sv).buffer = sv.buffer /\ TimedOut(sv).number = sv.number
         /\ (TimedOut(sv).queryTimeout <=> sv.queryTimeout)
         /\ ~sv.startQueryResponseTimeout =>
              /\ TimedOut(sv).queryResponseTimeout /\ TimedOut(sv).response = <<>>
              /\ ~TimedOut(sv).startQueryResponseTimeout
         /\ sv.startQueryResponseTimeout =>
              /\ (TimedOut(sv).queryResponseTimeout <=> sv.queryResponseTimeout)
              /\ TimedOut(sv).response = sv.response
              /\ ~TimedOut(sv).startQueryResponseTimeout
<1>1. <<>> \in Seq(Received)
  OBVIOUS
<1> QED BY <1>1 DEF ServerState, TimedOut, SameList

\* The other messages.
LEMMA KnownIs ==
  ASSUME NEW sv \in ServerState, NEW m \in Messages, m.kind \notin {"byte", "answer_timeout"}
  PROVE  LET r == Known(sv, m) IN
         /\ r \in ServerState /\ r.update = sv.update
         /\ r.response = sv.response /\ (r.queryResponseTimeout <=> sv.queryResponseTimeout)
         /\ (r.startQueryResponseTimeout <=> sv.startQueryResponseTimeout)
         /\ (r.queryTimeout <=> sv.queryTimeout \/ m.kind = "query_timeout")
         /\ r.subscriber = IF m.kind = "subscribe" THEN Append(sv.subscriber, m.from) ELSE sv.subscriber
         /\ Newer(sv, r) /\ (AllTrue(sv.buffer) => AllTrue(r.buffer))
<1>1. m.kind \in {"query_worker", "query_timeout", "courier", "subscribe", "fake"}
  BY MessageParts DEF Signals
<1> DEFINE r == Known(sv, m)
<1>2. CASE m.kind = "query_worker"
  <2>1. r = [sv EXCEPT !.queryWorkerReady = TRUE]
    BY <1>2 DEF Known
  <2> QED BY <1>2, <2>1 DEF ServerState, Newer
<1>3. CASE m.kind = "query_timeout"
  <2>1. r = [sv EXCEPT !.queryTimeout = TRUE]
    BY <1>3 DEF Known
  <2> QED BY <1>3, <2>1 DEF ServerState, Newer
<1>4. CASE m.kind = "courier"
  <2>1. r = [sv EXCEPT !.courierReady = TRUE]
    BY <1>4 DEF Known
  <2> QED BY <1>4, <2>1 DEF ServerState, Newer
<1>5. CASE m.kind = "subscribe"
  <2>1. r = [sv EXCEPT !.subscriber = Append(@, m.from)]
    BY <1>5 DEF Known
  <2>2. Append(sv.subscriber, m.from) \in Seq(Subscriber)
    BY <1>5, MessageParts DEF ServerState
  <2> QED BY <1>5, <2>1, <2>2 DEF ServerState, Newer
<1>6. CASE m.kind = "fake"
  <2> DEFINE rep == [sensor |-> m.sensor, pos |-> m.sensor, number |-> sv.number + 1]
             b   == add_to_buffer(sv.buffer, rep)
  <2>1. r = [sv EXCEPT !.number = @ + 1, !.buffer = b]
    BY <1>6 DEF Known
  <2>2. rep \in Report /\ sv.buffer \in Seq(Report) /\ sv.number + 1 \in Nat
        /\ rep.pos = rep.sensor /\ rep.number = sv.number + 1
    BY <1>6, MessageParts, Numbers DEF Report, ServerState
  <2> HIDE DEF rep
  <2>3. /\ b \in Seq(Report)
        /\ b = sv.buffer \/ (b # <<>> /\ b = Append(sv.buffer, rep) /\ b[Len(sv.buffer) + 1] = rep)
    BY <2>2, BufferGrows
  <2>4. AllTrue(sv.buffer) => AllTrue(b)
    BY <2>2, <2>3 DEF AllTrue
  <2> HIDE DEF b
  <2>5. /\ r \in ServerState /\ r.update = sv.update
        /\ r.response = sv.response /\ (r.queryResponseTimeout <=> sv.queryResponseTimeout)
        /\ (r.startQueryResponseTimeout <=> sv.startQueryResponseTimeout)
        /\ (r.queryTimeout <=> sv.queryTimeout) /\ r.subscriber = sv.subscriber
        /\ r.buffer = b /\ r.number = sv.number + 1
    BY <2>1, <2>2, <2>3 DEF ServerState
  <2>6. Newer(sv, r)
    BY <2>2, <2>3, <2>5 DEF Newer
  <2> QED BY <1>6, <2>4, <2>5, <2>6
<1> QED BY <1>1, <1>2, <1>3, <1>4, <1>5, <1>6

\* Where the server is in the list of its subscribers.
InList(sv) == sv.update = 1 \/ sv.update <= Len(sv.subscriber)

Removed(sv) == [sv EXCEPT !.update = 1, !.buffer = Tail(@)]
Advanced(sv) == [sv EXCEPT !.update = @ + 1]

LEMMA WithTold ==
  ASSUME NEW sv \in ServerState
  PROVE  /\ Advanced(sv) \in ServerState /\ SameFlags(Advanced(sv), sv)
         /\ Advanced(sv).update = sv.update + 1 /\ Advanced(sv).buffer = sv.buffer
         /\ Advanced(sv).subscriber = sv.subscriber /\ Advanced(sv).number = sv.number
         /\ sv.buffer # <<>> =>
              /\ Removed(sv) \in ServerState /\ SameFlags(Removed(sv), sv)
              /\ Removed(sv).update = 1 /\ Removed(sv).buffer = Tail(sv.buffer)
              /\ Removed(sv).subscriber = sv.subscriber /\ Removed(sv).number = sv.number
<1>1. sv.buffer \in Seq(Report) /\ sv.update \in Nat \ {0} /\ sv.update + 1 \in Nat \ {0}
  BY DEF ServerState
<1>2. sv.buffer # <<>> => Tail(sv.buffer) \in Seq(Report)
  BY <1>1
<1>3. Advanced(sv) \in ServerState
  BY <1>1 DEF ServerState, Advanced
<1>4. sv.buffer # <<>> => Removed(sv) \in ServerState
  <2> SUFFICES ASSUME sv.buffer # <<>> PROVE Removed(sv) \in ServerState
    OBVIOUS
  <2> DEFINE b == Tail(sv.buffer)
             first == [sv EXCEPT !.update = 1]
  <2>1. Removed(sv) = [first EXCEPT !.buffer = b]
    BY DEF ServerState, Removed
  <2>2. b \in Seq(Report)
    BY <1>2
  <2>3. first \in ServerState
    <3> DEFINE one == 1
    <3>1. one \in Nat \ {0} /\ first = [sv EXCEPT !.update = one]
      OBVIOUS
    <3> HIDE DEF one, first
    <3> QED BY <3>1 DEF ServerState
  <2> HIDE DEF b, first
  <2>4. [first EXCEPT !.buffer = b] \in ServerState
    BY <2>2, <2>3 DEF ServerState
  <2> QED BY <2>1, <2>4
<1>5. /\ SameFlags(Advanced(sv), sv)
      /\ Advanced(sv).update = sv.update + 1 /\ Advanced(sv).buffer = sv.buffer
      /\ Advanced(sv).subscriber = sv.subscriber /\ Advanced(sv).number = sv.number
  BY DEF ServerState, Advanced, SameFlags
<1>6. /\ SameFlags(Removed(sv), sv)
      /\ Removed(sv).update = 1 /\ Removed(sv).buffer = Tail(sv.buffer)
      /\ Removed(sv).subscriber = sv.subscriber /\ Removed(sv).number = sv.number
  BY DEF ServerState, Removed, SameFlags
<1> QED BY <1>3, <1>4, <1>5, <1>6

LEMMA ToldIs ==
  ASSUME NEW sv \in ServerState, InList(sv)
  PROVE  /\ Told(sv) \in ServerState /\ SameFlags(Told(sv), sv) /\ InList(Told(sv))
         /\ Told(sv).subscriber = sv.subscriber /\ Told(sv).number = sv.number
         /\ AllTrue(sv.buffer) => AllTrue(Told(sv).buffer)
         /\ ~Telling(sv) => Told(sv).buffer = sv.buffer /\ Told(sv).update = sv.update
         /\ Telling(sv) =>
              /\ sv.update \in DOMAIN sv.subscriber /\ sv.buffer # <<>>
              /\ \/ sv.update = Len(sv.subscriber) /\ Told(sv).update = 1
                    /\ Told(sv).buffer = Tail(sv.buffer)
                 \/ sv.update < Len(sv.subscriber) /\ Told(sv).update = sv.update + 1
                    /\ Told(sv).buffer = sv.buffer
<1>1. /\ sv.buffer \in Seq(Report) /\ sv.update \in Nat \ {0} /\ sv.subscriber \in Seq(Subscriber)
      /\ Len(sv.subscriber) \in Nat /\ DOMAIN sv.subscriber = 1 .. Len(sv.subscriber)
  BY DEF ServerState
<1>2. CASE ~Telling(sv)
  BY <1>2 DEF Told, SameFlags
<1>3. CASE Telling(sv)
  <2>1. sv.buffer # <<>> /\ sv.subscriber # <<>>
    BY <1>3 DEF Telling
  <2>2. Len(sv.subscriber) # 0
    BY <1>1, <2>1
  <2>3. sv.update \in 1 .. Len(sv.subscriber)
    BY <1>1, <2>2 DEF InList
  <2>4. /\ Tail(sv.buffer) \in Seq(Report)
        /\ \A n \in DOMAIN Tail(sv.buffer) : n + 1 \in DOMAIN sv.buffer /\ Tail(sv.buffer)[n] = sv.buffer[n + 1]
    BY <1>1, <2>1
  <2>5. CASE sv.update = Len(sv.subscriber)
    <3> DEFINE r == Removed(sv)
    <3>1. Told(sv) = r
      BY <1>3, <2>5 DEF Told, Removed
    <3>2. /\ r \in ServerState /\ SameFlags(r, sv) /\ r.update = 1 /\ r.buffer = Tail(sv.buffer)
          /\ r.subscriber = sv.subscriber /\ r.number = sv.number
      BY <2>1, WithTold
    <3> HIDE DEF r
    <3>3. AllTrue(sv.buffer) => AllTrue(r.buffer)
      BY <2>4, <3>2 DEF AllTrue
    <3> QED BY <1>1, <1>3, <2>1, <2>3, <2>5, <3>1, <3>2, <3>3 DEF InList
  <2>6. CASE sv.update # Len(sv.subscriber)
    <3> DEFINE r == Advanced(sv)
    <3>1. Told(sv) = r
      BY <1>3, <2>6 DEF Told, Advanced
    <3>2. /\ r \in ServerState /\ SameFlags(r, sv) /\ r.update = sv.update + 1 /\ r.buffer = sv.buffer
          /\ r.subscriber = sv.subscriber /\ r.number = sv.number
      BY WithTold
    <3> HIDE DEF r
    <3> QED BY <1>1, <1>3, <2>1, <2>3, <2>6, <3>1, <3>2 DEF InList
  <2> QED BY <2>5, <2>6
<1> QED BY <1>2, <1>3

LEMMA AskedIs ==
  ASSUME NEW sv \in ServerState
  PROVE  /\ Asked(sv) \in ServerState /\ SameList(Asked(sv), sv)
         /\ Asked(sv).buffer = sv.buffer /\ Asked(sv).number = sv.number
         /\ Asked(sv).response = sv.response
         /\ (Asked(sv).queryResponseTimeout <=> sv.queryResponseTimeout)
         /\ (Asked(sv).startQueryResponseTimeout <=> sv.startQueryResponseTimeout)
         /\ (Asked(sv).queryTimeout <=> sv.queryTimeout /\ ~Asks(sv))
         /\ (Asks(sv) => sv.queryTimeout)
BY DEF ServerState, Asked, Asks, SameList

\* What a message does to the server's types and its list.
LEMMA HandledIs ==
  ASSUME NEW sv \in ServerState, NEW m \in Messages, InList(sv)
  PROVE  LET h == Handled(sv, m) IN
         /\ h \in ServerState /\ h.update = sv.update /\ InList(h)
         /\ h.subscriber = IF m.kind = "subscribe" THEN Append(sv.subscriber, m.from) ELSE sv.subscriber
         /\ (h.queryTimeout <=> sv.queryTimeout \/ m.kind = "query_timeout")
<1> DEFINE h == Handled(sv, m)
<1>1. sv.subscriber \in Seq(Subscriber) /\ sv.update \in Nat \ {0}
  BY DEF ServerState
<1>2. CASE m.kind = "byte"
  <2>1. m.byte \in Received
    BY <1>2, MessageParts
  <2>2. h = Byte(sv, m.byte)
    BY <1>2 DEF Handled
  <2>3. h \in ServerState /\ SameList(h, sv) /\ (h.queryTimeout <=> sv.queryTimeout)
    BY <2>1, <2>2, ByteIs
  <2> HIDE DEF h
  <2> QED BY <1>2, <2>3 DEF SameList, InList, h
<1>3. CASE m.kind = "answer_timeout"
  <2>1. h = TimedOut(sv)
    BY <1>3 DEF Handled
  <2>2. h \in ServerState /\ SameList(h, sv) /\ (h.queryTimeout <=> sv.queryTimeout)
    BY <2>1, TimedOutIs
  <2> HIDE DEF h
  <2> QED BY <1>3, <2>2 DEF SameList, InList, h
<1>4. CASE m.kind \notin {"byte", "answer_timeout"}
  <2>1. h = Known(sv, m)
    BY <1>4 DEF Handled
  <2>2. /\ h \in ServerState /\ h.update = sv.update
        /\ h.subscriber = IF m.kind = "subscribe" THEN Append(sv.subscriber, m.from) ELSE sv.subscriber
        /\ (h.queryTimeout <=> sv.queryTimeout \/ m.kind = "query_timeout")
    BY <1>4, <2>1, KnownIs
  <2> HIDE DEF h
  <2>3. m.kind = "subscribe" => Len(h.subscriber) = Len(sv.subscriber) + 1
    BY <1>1, <2>2, MessageParts
  <2>4. InList(h)
    BY <1>1, <2>2, <2>3 DEF InList
  <2> QED BY <2>2, <2>4 DEF h
<1> QED BY <1>2, <1>3, <1>4

-----------------------------------------------------------------------------
(* Types.                                                                  *)

\* The server's variables after the message of a turn.
After == Handled(server, Head(inbox))

LEMMA TurnIs ==
  ASSUME TypeInv, Serve
  PROVE  /\ inbox # <<>> /\ Head(inbox) \in Messages /\ inbox' = Tail(inbox)
         /\ inbox' \in Seq(Messages)
         /\ After \in ServerState /\ InList(After)
         /\ Told(After) \in ServerState /\ InList(Told(After))
         /\ server' = Asked(Told(After)) /\ server' \in ServerState
         /\ answerTimer' = IF Rearmed(server, Head(inbox)) THEN AnswerDelay ELSE answerTimer
         /\ (asking' <=> asking \/ Asks(Told(After))) /\ asking' \in BOOLEAN
         /\ queryTimer' = IF Asks(Told(After)) THEN QueryDelay ELSE queryTimer
         /\ box' = box /\ rx' = rx /\ told' = told /\ late' = late /\ lost' = lost
         /\ \/ courier' = courier \/ courier' = Waiting
            \/ Telling(After) /\ courier' = [at |-> "watcher",
                  work |-> <<[to |-> After.subscriber[After.update], report |-> Head(After.buffer)]>>]
         /\ \/ watcher' = watcher
            \/ Head(inbox).kind = "subscribe" /\ watcher' = [watcher EXCEPT ![Head(inbox).from] = "waits"]
<1>1. inbox # <<>> /\ inbox \in Seq(Messages) /\ server \in ServerState /\ InList(server)
  BY DEF Serve, TypeInv, InList
<1>2. Head(inbox) \in Messages /\ inbox' = Tail(inbox) /\ inbox' \in Seq(Messages)
  BY <1>1, Taken DEF Serve
<1>3. After \in ServerState /\ InList(After)
  BY <1>1, <1>2, HandledIs DEF After
<1>4. Told(After) \in ServerState /\ InList(Told(After))
  BY <1>3, ToldIs
<1>5. Asked(Told(After)) \in ServerState
  BY <1>4, AskedIs
<1>6. /\ server' = Asked(Told(After))
      /\ answerTimer' = IF Rearmed(server, Head(inbox)) THEN AnswerDelay ELSE answerTimer
      /\ asking' = (asking \/ Asks(Told(After)))
      /\ queryTimer' = IF Asks(Told(After)) THEN QueryDelay ELSE queryTimer
      /\ box' = box /\ rx' = rx /\ told' = told /\ late' = late /\ lost' = lost
  BY DEF Serve, After
<1>7. \/ courier' = courier \/ courier' = Waiting
      \/ Telling(After) /\ courier' = [at |-> "watcher",
            work |-> <<[to |-> After.subscriber[After.update], report |-> Head(After.buffer)]>>]
  BY DEF Serve, After
<1>8. \/ watcher' = watcher
      \/ Head(inbox).kind = "subscribe" /\ watcher' = [watcher EXCEPT ![Head(inbox).from] = "waits"]
  BY DEF Serve
<1>9. asking' \in BOOLEAN
  BY <1>6
<1> QED BY <1>1, <1>2, <1>3, <1>4, <1>5, <1>6, <1>7, <1>8, <1>9

LEMMA InitTypes == Init => TypeInv
<1> SUFFICES ASSUME Init PROVE TypeInv
  OBVIOUS
<1>1. box \in [queries : 0 .. MaxQueries, wait : 0 .. Latency, pos : 0 .. Bytes] /\ rx \in Seq(Received)
  <2>1. box \in [queries : 0 .. MaxQueries, wait : 0 .. Latency, pos : 0 .. Bytes]
    BY Numbers DEF Init, Idle
  <2>2. PICK n \in 0 .. MaxStale : rx = [i \in 1 .. n |-> Stale]
    BY DEF Init
  <2>3. Stale \in Received
    BY DEF Stale, Received
  <2>4. rx \in Seq(Received)
    BY <2>2, <2>3, Numbers
  <2> QED BY <2>1, <2>4
<1>2. inbox \in Seq(Messages)
  <2>1. \A k \in Signals : Message(k) \in Messages
    BY DEF Message, Messages
  <2> QED BY <2>1 DEF Init, Signals
<1>3. server \in ServerState /\ server.update = 1
  <2> DEFINE value == [i \in Sensors |-> 0]
             one == 1
             none == <<>>
  <2>1. /\ value \in [Sensors -> {0, 1}] /\ one \in Nat \ {0} /\ 0 \in Nat
        /\ none \in Seq(Received) /\ none \in Seq(Report) /\ none \in Seq(Subscriber)
    OBVIOUS
  <2>2. server = [queryWorkerReady |-> FALSE, queryTimeout |-> FALSE,
                  queryResponseTimeout |-> FALSE, startQueryResponseTimeout |-> FALSE,
                  courierReady |-> FALSE, response |-> none, ignore |-> TRUE,
                  value |-> value, buffer |-> none, number |-> 0, subscriber |-> none, update |-> one]
    BY DEF Init
  <2> HIDE DEF value, one, none
  <2>3. server \in ServerState /\ server.update = one
    BY <2>1, <2>2 DEF ServerState
  <2> QED BY <2>3 DEF one
<1>4. courier.work \in Seq(Work) /\ courier.at # "watcher"
  BY DEF Init, Posting
<1> QED BY <1>1, <1>2, <1>3, <1>4, Numbers DEF Init, TypeInv

LEMMA ElapseIs ==
  ASSUME NEW n \in Nat, NEW timer \in {Off} \cup 0 .. n
  PROVE  /\ Elapse(timer) \in {Off} \cup 0 .. n
         /\ (timer = Off <=> Elapse(timer) = Off)
         /\ timer > 0 => Elapse(timer) = timer - 1
BY DEF Elapse, Off

LEMMA QuietTickIs ==
  ASSUME TypeInv, QuietTick
  PROVE  /\ box.pos = Bytes /\ box'.pos = Bytes /\ box'.queries = box.queries
         /\ box' \in [queries : 0 .. MaxQueries, wait : 0 .. Latency, pos : 0 .. Bytes]
         /\ late' \in BOOLEAN /\ lost' = lost /\ rx' = rx
         /\ ~late' => ~late /\ (box.queries # 0 => box.wait < Latency)
         /\ ~late' => box'.wait = IF box.queries = 0 THEN 0 ELSE box.wait + 1
<1>1. /\ box \in [queries : 0 .. MaxQueries, wait : 0 .. Latency, pos : 0 .. Bytes] /\ late \in BOOLEAN
      /\ late' = (late \/ (box.queries > 0 /\ box.wait = Latency))
      /\ box' = [box EXCEPT !.wait = IF box.queries = 0 \/ late' THEN 0 ELSE @ + 1]
      /\ box.pos = Bytes /\ lost' = lost /\ rx' = rx
  BY DEF TypeInv, QuietTick, Wait
<1>2. box.queries \in Nat /\ box.wait \in Nat /\ box.wait <= Latency
  BY <1>1, Numbers
<1>3. box'.wait = (IF box.queries = 0 \/ late' THEN 0 ELSE box.wait + 1)
      /\ box'.queries = box.queries /\ box'.pos = box.pos
  BY <1>1
<1>4. ~late' => ~late /\ (box.queries # 0 => box.wait < Latency)
  <2>1. box.queries # 0 /\ box.wait # Latency => box.queries > 0 /\ box.wait < Latency
    BY <1>2, Numbers
  <2>2. box.queries # 0 => box.queries > 0
    BY <1>2
  <2> QED BY <1>1, <2>1, <2>2
<1>5. (IF box.queries = 0 \/ late' THEN 0 ELSE box.wait + 1) \in 0 .. Latency
  BY <1>2, <1>4, Numbers
<1>6. box' \in [queries : 0 .. MaxQueries, wait : 0 .. Latency, pos : 0 .. Bytes]
  BY <1>1, <1>5
<1>7. late' \in BOOLEAN
  BY <1>1
<1> QED BY <1>1, <1>3, <1>4, <1>6, <1>7

LEMMA ByteTickIs ==
  ASSUME TypeInv, NEW loses \in BOOLEAN, ByteTick(loses)
  PROVE  /\ box' \in [queries : 0 .. MaxQueries, wait : 0 .. Latency, pos : 0 .. Bytes]
         /\ \/ box.pos < Bytes /\ box'.pos = box.pos + 1 /\ box'.queries = box.queries
            \/ /\ box.pos = Bytes /\ box.queries > 0 /\ box'.pos = 1
               /\ box'.queries = box.queries - 1
         /\ box'.wait = 0
         /\ late' = late /\ lost' = (lost \/ loses)
         /\ IF loses THEN rx' = rx
            ELSE \E byte \in Received : byte.pos = box'.pos - 1 /\ rx' = Append(rx, byte)
<1> DEFINE pos == IF box.pos < Bytes THEN box.pos ELSE 0
           left == IF box.pos < Bytes THEN box.queries ELSE box.queries - 1
<1>1. PICK on \in {0, 1} :
        /\ box.pos < Bytes \/ box.queries > 0
        /\ box' = [queries |-> left, wait |-> 0, pos |-> pos + 1]
        /\ rx' = IF loses THEN rx ELSE Append(rx, [pos |-> pos, on |-> on])
        /\ late' = late /\ lost' = (lost \/ loses)
  BY DEF ByteTick, SendByte
<1>2. /\ box \in [queries : 0 .. MaxQueries, wait : 0 .. Latency, pos : 0 .. Bytes]
      /\ box.pos \in Nat /\ box.pos <= Bytes /\ box.queries \in Nat /\ box.queries <= MaxQueries
  BY Numbers DEF TypeInv
<1>3. pos \in Sensors /\ left \in 0 .. MaxQueries /\ pos + 1 \in 0 .. Bytes /\ pos + 1 - 1 = pos
  BY <1>1, <1>2, Numbers DEF Sensors
<1>4. \/ box.pos < Bytes /\ pos = box.pos /\ left = box.queries
      \/ box.pos = Bytes /\ box.queries > 0 /\ pos = 0 /\ left = box.queries - 1
  BY <1>1, <1>2, Numbers
<1> DEFINE byte == [pos |-> pos, on |-> on]
<1>5. byte \in Received /\ byte.pos = pos
  BY <1>3 DEF Received
<1> HIDE DEF pos, left
<1>6. box'.queries = left /\ box'.pos = pos + 1 /\ box'.wait = 0 /\ 0 \in 0 .. Latency
  BY <1>1, Numbers
<1>7. box' \in [queries : 0 .. MaxQueries, wait : 0 .. Latency, pos : 0 .. Bytes]
  BY <1>1, <1>3, <1>6
<1>8. IF loses THEN rx' = rx
      ELSE byte \in Received /\ byte.pos = box'.pos - 1 /\ rx' = Append(rx, byte)
  <2>1. rx' = IF loses THEN rx ELSE Append(rx, byte)
    BY <1>1
  <2> HIDE DEF byte
  <2>2. byte.pos = box'.pos - 1
    BY <1>3, <1>5, <1>6, Numbers DEF Sensors
  <2> QED BY <1>5, <2>1, <2>2
<1> HIDE DEF byte
<1>9. IF loses THEN rx' = rx
      ELSE \E b \in Received : b.pos = box'.pos - 1 /\ rx' = Append(rx, b)
  BY <1>8
<1>10. \/ box.pos < Bytes /\ box'.pos = box.pos + 1 /\ box'.queries = box.queries
       \/ /\ box.pos = Bytes /\ box.queries > 0 /\ box'.pos = 1
          /\ box'.queries = box.queries - 1
  BY <1>4, <1>6
<1> QED BY <1>1, <1>6, <1>7, <1>9, <1>10

LEMMA TickTypes ==
  ASSUME TypeInv, QuietTick \/ \E loses \in BOOLEAN : ByteTick(loses)
  PROVE  TypeInv'
<1>0. TimersElapse
  BY DEF QuietTick, ByteTick
<1>1. queryTimer' \in {Off} \cup 0 .. QueryDelay /\ answerTimer' \in {Off} \cup 0 .. AnswerDelay
  <2>1. /\ queryTimer \in {Off} \cup 0 .. QueryDelay /\ answerTimer \in {Off} \cup 0 .. AnswerDelay
        /\ queryTimer' = Elapse(queryTimer) /\ answerTimer' = Elapse(answerTimer)
    BY <1>0 DEF TypeInv, TimersElapse
  <2>2. queryTimer' \in {Off} \cup 0 .. QueryDelay
    BY <2>1, ElapseIs, Numbers
  <2>3. answerTimer' \in {Off} \cup 0 .. AnswerDelay
    BY <2>1, ElapseIs, Numbers
  <2> QED BY <2>2, <2>3
<1>2. /\ box' \in [queries : 0 .. MaxQueries, wait : 0 .. Latency, pos : 0 .. Bytes]
      /\ late' \in BOOLEAN /\ lost' \in BOOLEAN /\ rx' \in Seq(Received)
  <2>1. rx \in Seq(Received) /\ late \in BOOLEAN /\ lost \in BOOLEAN
    BY DEF TypeInv
  <2>2. CASE QuietTick
    BY <2>1, <2>2, QuietTickIs
  <2>3. CASE \E loses \in BOOLEAN : ByteTick(loses)
    <3>1. PICK loses \in BOOLEAN : ByteTick(loses)
      BY <2>3
    <3>2. rx' \in Seq(Received)
      BY <2>1, <3>1, ByteTickIs
    <3>3. late' \in BOOLEAN /\ lost' \in BOOLEAN
      BY <2>1, <3>1, ByteTickIs
    <3> QED BY <3>1, <3>2, <3>3, ByteTickIs
  <2> QED BY <2>2, <2>3
<1> QED BY <1>0, <1>1, <1>2 DEF TypeInv, TimersElapse

LEMMA WorkerTypes ==
  ASSUME TypeInv, Workers
  PROVE  TypeInv'
<1>1. CASE Query
  <2>1. Message("query_worker") \in Messages
    BY DEF Message, Messages, Signals
  <2>2. inbox' \in Seq(Messages)
    BY <1>1, <2>1 DEF TypeInv, Query
  <2>3. box' \in [queries : 0 .. MaxQueries, wait : 0 .. Latency, pos : 0 .. Bytes]
    <3> DEFINE q == IF box.queries < MaxQueries THEN box.queries + 1 ELSE box.queries
    <3>1. /\ box \in [queries : 0 .. MaxQueries, wait : 0 .. Latency, pos : 0 .. Bytes]
          /\ box' = [box EXCEPT !.queries = q]
      BY <1>1 DEF TypeInv, Query
    <3>2. q \in 0 .. MaxQueries
      BY <3>1, Numbers
    <3> HIDE DEF q
    <3> QED BY <3>1, <3>2
  <2> QED BY <1>1, <2>2, <2>3 DEF TypeInv, Query
<1>2. CASE Response
  <2>1. [kind |-> "byte", byte |-> Head(rx)] \in Messages /\ Tail(rx) \in Seq(Received)
    BY <1>2 DEF Messages, Response, TypeInv
  <2>2. inbox' \in Seq(Messages)
    BY <1>2, <2>1 DEF TypeInv, Response
  <2> QED BY <1>2, <2>1, <2>2 DEF TypeInv, Response
<1>3. CASE QueryTimeout
  <2>1. Message("query_timeout") \in Messages
    BY DEF Message, Messages, Signals
  <2> QED BY <1>3, <2>1 DEF TypeInv, QueryTimeout
<1>4. CASE ResponseTimeout
  <2>1. Message("answer_timeout") \in Messages
    BY DEF Message, Messages, Signals
  <2> QED BY <1>4, <2>1 DEF TypeInv, ResponseTimeout
<1> QED BY <1>1, <1>2, <1>3, <1>4 DEF Workers

LEMMA WatcherTypes ==
  ASSUME TypeInv, Deliver \/ (\E s \in Subscriber : Watch(s)) \/ \E i \in Fake : FakeTrigger(i)
  PROVE  TypeInv'
<1>1. CASE Deliver
  <2> DEFINE work == courier.work[1]
  <2>1. work \in Work /\ work.to \in Subscriber /\ work.report.number \in Nat
    <3>1. courier.work \in Seq(Work) /\ courier.work # <<>>
      BY <1>1 DEF TypeInv, Deliver
    <3>2. work \in Work
      BY <3>1
    <3> HIDE DEF work
    <3> QED BY <3>2 DEF Work, Report
  <2>2. Message("courier") \in Messages
    BY DEF Message, Messages, Signals
  <2>3. inbox' \in Seq(Messages)
    BY <1>1, <2>2 DEF TypeInv, Deliver
  <2>4. told' \in [Subscriber -> Nat] /\ watcher' \in [Subscriber -> {"new", "subscribes", "waits", "busy"}]
    BY <1>1, <2>1 DEF TypeInv, Deliver
  <2>5. courier'.work \in Seq(Work) /\ courier'.at # "watcher"
    BY <1>1 DEF Deliver, Posting
  <2> QED BY <1>1, <2>3, <2>4, <2>5 DEF TypeInv, Deliver
<1>2. CASE \E s \in Subscriber : Watch(s)
  <2>1. PICK s \in Subscriber : Watch(s)
    BY <1>2
  <2>2. [kind |-> "subscribe", from |-> s] \in Messages
    BY DEF Messages
  <2>3. inbox' \in Seq(Messages)
    <3>1. inbox' = inbox \/ inbox' = Append(inbox, [kind |-> "subscribe", from |-> s])
      BY <2>1 DEF Watch
    <3>2. inbox \in Seq(Messages)
      BY DEF TypeInv
    <3> QED BY <2>2, <3>1, <3>2
  <2>4. watcher' \in [Subscriber -> {"new", "subscribes", "waits", "busy"}]
    BY <2>1 DEF TypeInv, Watch
  <2> QED BY <2>1, <2>3, <2>4 DEF TypeInv, Watch
<1>3. CASE \E i \in Fake : FakeTrigger(i)
  <2>1. PICK i \in Fake : FakeTrigger(i)
    BY <1>3
  <2>2. [kind |-> "fake", sensor |-> i] \in Messages
    BY DEF Messages
  <2>3. inbox' \in Seq(Messages)
    BY <2>1, <2>2 DEF TypeInv, FakeTrigger
  <2> QED BY <2>1, <2>3 DEF TypeInv, FakeTrigger
<1> QED BY <1>1, <1>2, <1>3

LEMMA TurnTypes ==
  ASSUME TypeInv, Serve
  PROVE  TypeInv'
<1>1. answerTimer' \in {Off} \cup 0 .. AnswerDelay /\ queryTimer' \in {Off} \cup 0 .. QueryDelay
  <2>1. /\ answerTimer \in {Off} \cup 0 .. AnswerDelay /\ queryTimer \in {Off} \cup 0 .. QueryDelay
        /\ answerTimer' \in {answerTimer, AnswerDelay} /\ queryTimer' \in {queryTimer, QueryDelay}
    BY TurnIs DEF TypeInv
  <2>2. AnswerDelay \in 0 .. AnswerDelay /\ QueryDelay \in 0 .. QueryDelay
    BY Numbers
  <2> QED BY <2>1, <2>2
<1>2. server' \in ServerState /\ (server'.update = 1 \/ server'.update <= Len(server'.subscriber))
  BY TurnIs, AskedIs DEF InList, SameList
<1>3. courier'.work \in Seq(Work) /\ (courier'.at = "watcher" => courier'.work # <<>>)
  <2>1. CASE courier' = courier
    BY <2>1 DEF TypeInv
  <2>2. CASE courier' = Waiting
    BY <2>2 DEF Waiting
  <2>3. CASE courier' # courier /\ courier' # Waiting
    <3> DEFINE w == [to |-> After.subscriber[After.update], report |-> Head(After.buffer)]
    <3>1. Telling(After) /\ courier' = [at |-> "watcher", work |-> <<w>>] /\ After \in ServerState
          /\ InList(After)
      BY <2>3, TurnIs
    <3>2. After.update \in DOMAIN After.subscriber /\ After.buffer # <<>>
      BY <3>1, ToldIs
    <3>3. w \in Work
      BY <3>1, <3>2 DEF ServerState, Work
    <3> HIDE DEF w
    <3> QED BY <3>1, <3>3
  <2> QED BY <2>1, <2>2, <2>3
<1>4. watcher' \in [Subscriber -> {"new", "subscribes", "waits", "busy"}]
  BY TurnIs DEF TypeInv
<1>5. inbox' \in Seq(Messages) /\ box' = box /\ rx' = rx /\ told' = told /\ asking' \in BOOLEAN
      /\ late' = late /\ lost' = lost
  BY TurnIs
<1> QED BY <1>1, <1>2, <1>3, <1>4, <1>5 DEF TypeInv

LEMMA NextTypes == TypeInv /\ [Next]_vars => TypeInv'
<1> SUFFICES ASSUME TypeInv, [Next]_vars PROVE TypeInv'
  OBVIOUS
<1>1. CASE UNCHANGED vars
  BY <1>1 DEF TypeInv, vars
<1> QED BY <1>1, TickTypes, WorkerTypes, WatcherTypes, TurnTypes DEF Next

-----------------------------------------------------------------------------
(* The answer on the line.  Nothing is left over from before the start.    *)

\* Ticks since the query, and ticks left in the answer's timer.
Clock == IF queryTimer = Off THEN QueryDelay ELSE QueryDelay - queryTimer
Left  == IF answerTimer = Off THEN 0 ELSE answerTimer

\* A byte the box has sent and the server has not handled.
Flying == rx # <<>> \/ Has(inbox, "byte")
F == IF Flying THEN 1 ELSE 0

\* The end of the query timer is in one place, and a query starts it.
QueryInv ==
    /\ server.queryTimeout => queryTimer = Off /\ ~Has(inbox, "query_timeout")
    /\ Has(inbox, "query_timeout") => queryTimer = Off
    /\ Once(inbox, "query_timeout")
    /\ asking => queryTimer = QueryDelay

\* One byte at a time is between the box and the server.
ByteInv ==
    /\ Len(rx) <= 1
    /\ Once(inbox, "byte")
    /\ rx # <<>> => ~Has(inbox, "byte")
    /\ \A i \in DOMAIN rx : rx[i].pos = box.pos - 1
    /\ \A i \in DOMAIN inbox : inbox[i].kind = "byte" => inbox[i].byte.pos = box.pos - 1
    /\ Flying => box.pos > 0

\* The answer timer's end is in one place, and the timer runs while an answer
\* is collected.
AnswerTimerInv ==
    /\ server.queryResponseTimeout <=> answerTimer = Off /\ ~Has(inbox, "answer_timeout")
    /\ Has(inbox, "answer_timeout") => answerTimer = Off
    /\ Once(inbox, "answer_timeout")
    /\ server.response # <<>> \/ server.startQueryResponseTimeout => ~server.queryResponseTimeout

PlaceInv == QueryInv /\ ByteInv /\ AnswerTimerInv

\* As long as no answer is late, the box and the line are still before the next
\* query.
LineInv ==
    /\ box.queries <= 1
    /\ box.queries = 0 => box.wait = 0
    /\ box.queries # 0 => box.pos = Bytes /\ ~Flying /\ ~asking /\ Clock = box.wait
    /\ Flying => ~asking
    /\ box.pos < Bytes \/ Flying => Clock - box.pos <= Latency
    /\ asking => box.pos = Bytes

\* What the server has collected is of an earlier answer and too short to be
\* completed before the timer ends, or ...
Short(n, f, left) == n + f + left < Bytes

\* ... it is of the answer now on the line, in order.
Current(r, f, clock, left, sent) ==
    /\ clock + left <= AnswerDelay + Latency + 1 + r[1].pos
    /\ r[1].pos >= 0
    /\ \A i \in 1 .. Len(r) : /\ r[1].pos + (i - 1) <= r[i].pos
                              /\ r[i].pos + (Len(r) - i) + f < sent

AnswerInv ==
    /\ ~server.startQueryResponseTimeout
    /\ server.response = <<>> /\ ~server.queryResponseTimeout =>
         /\ box.pos = Bytes /\ box.queries = 0 /\ ~Flying
         /\ Has(inbox, "answer_timeout") \/ (~asking /\ Clock + Left <= AnswerDelay + Latency + 1)
    /\ server.response # <<>> =>
         \/ Short(Len(server.response), F, Left)
         \/ ~asking /\ box.queries = 0 /\ Current(server.response, F, Clock, Left, box.pos)

OnTime == LineInv /\ AnswerInv

\* As long as no byte is lost, what the server has collected is the begin of
\* the answer on the line, and the timer does not end before the rest is there,
\* or is to be started again.
Whole ==
    /\ Len(server.response) < Bytes
    /\ \A i \in 1 .. Len(server.response) : server.response[i].pos = i - 1
    /\ IF Flying THEN box.pos = Len(server.response) + 1
       ELSE box.pos = Len(server.response) \/ (server.response = <<>> /\ box.pos = Bytes)
    /\ server.response # <<>> /\ ~server.startQueryResponseTimeout =>
         ~Has(inbox, "answer_timeout") /\ Left + Len(server.response) + F > Bytes

\* The reports the server and the courier hold.
ReportsInv ==
    /\ AllTrue(server.buffer)
    /\ \A i \in DOMAIN courier.work : courier.work[i].report.pos = courier.work[i].report.sensor

-----------------------------------------------------------------------------
(* Reports in order.                                                       *)

Ordered(sv) ==
    /\ \A i, j \in DOMAIN sv.buffer : i < j => sv.buffer[i].number < sv.buffer[j].number
    /\ \A i \in DOMAIN sv.buffer : sv.buffer[i].number <= sv.number

\* x, the number of a report to s, is not beyond the reports the server holds,
\* and only one whose turn is over has the first of them.
Behind(sv, s, x) ==
    /\ x <= sv.number
    /\ \A i \in DOMAIN sv.buffer :
         /\ x <= sv.buffer[i].number
         /\ x = sv.buffer[i].number =>
              \E j \in DOMAIN sv.subscriber : j < sv.update /\ sv.subscriber[j] = s

\* A watcher subscribes once.
SubscribedOnce ==
    /\ \A i, j \in DOMAIN server.subscriber : server.subscriber[i] = server.subscriber[j] => i = j
    /\ \A i \in DOMAIN server.subscriber : watcher[server.subscriber[i]] # "new"
    /\ \A i \in DOMAIN inbox : inbox[i].kind = "subscribe" =>
         /\ watcher[inbox[i].from] = "subscribes"
         /\ \A j \in DOMAIN server.subscriber : server.subscriber[j] # inbox[i].from
    /\ \A i, j \in DOMAIN inbox : inbox[i].kind = "subscribe" /\ inbox[j].kind = "subscribe"
                                  /\ inbox[i].from = inbox[j].from => i = j

ToldInv ==
    /\ Ordered(server)
    /\ \A s \in Subscriber : Behind(server, s, told[s])
    /\ courier.at = "watcher" => LET work == courier.work[1] IN
         /\ told[work.to] < work.report.number
         /\ Behind(server, work.to, work.report.number)

-----------------------------------------------------------------------------
(* The steps, as the timers and the line see them.                         *)

\* Nothing the timers and the line see changes; a message may be posted.
Quiet ==
    /\ box' = box /\ rx' = rx /\ queryTimer' = queryTimer /\ answerTimer' = answerTimer
    /\ asking' = asking /\ server' = server
    /\ \/ inbox' = inbox
       \/ \E m \in Messages : /\ m.kind \in {"query_worker", "courier", "subscribe", "fake"}
                              /\ inbox' = Append(inbox, m)

LEMMA QuietSteps ==
  ASSUME TypeInv,
         UNCHANGED vars \/ Deliver \/ (\E s \in Subscriber : Watch(s)) \/ \E i \in Fake : FakeTrigger(i)
  PROVE  Quiet
<1>1. CASE UNCHANGED vars
  BY <1>1 DEF Quiet, vars
<1>2. CASE Deliver
  <2>1. Message("courier") \in Messages /\ Message("courier").kind = "courier"
    BY DEF Message, Messages, Signals
  <2>2. inbox' = Append(inbox, Message("courier"))
    BY <1>2 DEF Deliver
  <2> QED BY <1>2, <2>1, <2>2 DEF Quiet, Deliver
<1>3. CASE \E s \in Subscriber : Watch(s)
  <2>1. PICK s \in Subscriber : Watch(s)
    BY <1>3
  <2> DEFINE m == [kind |-> "subscribe", from |-> s]
  <2>2. m \in Messages /\ m.kind = "subscribe"
    BY DEF Messages
  <2>3. inbox' = inbox \/ inbox' = Append(inbox, m)
    BY <2>1 DEF Watch
  <2> HIDE DEF m
  <2> QED BY <2>1, <2>2, <2>3 DEF Quiet, Watch
<1>4. CASE \E i \in Fake : FakeTrigger(i)
  <2>1. PICK i \in Fake : FakeTrigger(i)
    BY <1>4
  <2> DEFINE m == [kind |-> "fake", sensor |-> i]
  <2>2. m \in Messages /\ m.kind = "fake"
    BY DEF Messages
  <2>3. inbox' = Append(inbox, m)
    BY <2>1 DEF FakeTrigger
  <2> HIDE DEF m
  <2> QED BY <2>1, <2>2, <2>3 DEF Quiet, FakeTrigger
<1> QED BY <1>1, <1>2, <1>3, <1>4

LEMMA QuietInbox ==
  ASSUME TypeInv, Quiet
  PROVE  /\ \A k \in {"byte", "query_timeout", "answer_timeout"} :
              (Has(inbox, k)' <=> Has(inbox, k)) /\ (Once(inbox, k) => Once(inbox, k)')
         /\ \A i \in DOMAIN inbox' : inbox'[i].kind = "byte" =>
              \E j \in DOMAIN inbox : inbox'[i] = inbox[j]
<1>1. inbox \in Seq(Messages)
  BY DEF TypeInv
<1>2. CASE inbox' = inbox
  BY <1>2 DEF Has, Once
<1>3. CASE inbox' # inbox
  <2>1. PICK m \in Messages : /\ m.kind \in {"query_worker", "courier", "subscribe", "fake"}
                              /\ inbox' = Append(inbox, m)
    BY <1>3 DEF Quiet
  <2>2. /\ \A k : Has(Append(inbox, m), k) <=> Has(inbox, k) \/ m.kind = k
        /\ \A k : Once(inbox, k) /\ (m.kind = k => ~Has(inbox, k)) => Once(Append(inbox, m), k)
        /\ \A i \in DOMAIN Append(inbox, m) : Append(inbox, m)[i] = m \/
             \E j \in DOMAIN inbox : Append(inbox, m)[i] = inbox[j]
    BY <1>1, Posted
  <2>3. ASSUME NEW k \in {"byte", "query_timeout", "answer_timeout"}
        PROVE  (Has(inbox', k) <=> Has(inbox, k)) /\ (Once(inbox, k) => Once(inbox', k))
    BY <2>1, <2>2
  <2>4. \A i \in DOMAIN inbox' : inbox'[i].kind = "byte" => \E j \in DOMAIN inbox : inbox'[i] = inbox[j]
    BY <2>1, <2>2
  <2> QED BY <2>3, <2>4 DEF Has, Once
<1> QED BY <1>2, <1>3

LEMMA QuietKeeps ==
  ASSUME TypeInv, Quiet
  PROVE  /\ PlaceInv => PlaceInv' /\ (Whole => Whole')
         /\ OnTime => OnTime'
<1>1. /\ box' = box /\ rx' = rx /\ queryTimer' = queryTimer /\ answerTimer' = answerTimer
      /\ asking' = asking /\ server' = server
  BY DEF Quiet
<1>2. /\ Has(inbox, "byte")' <=> Has(inbox, "byte")
      /\ Has(inbox, "query_timeout")' <=> Has(inbox, "query_timeout")
      /\ Has(inbox, "answer_timeout")' <=> Has(inbox, "answer_timeout")
      /\ Once(inbox, "byte") => Once(inbox, "byte")'
      /\ Once(inbox, "query_timeout") => Once(inbox, "query_timeout")'
      /\ Once(inbox, "answer_timeout") => Once(inbox, "answer_timeout")'
  BY QuietInbox
<1>3. (Flying' <=> Flying) /\ Clock' = Clock /\ Left' = Left
  BY <1>1, <1>2 DEF Flying, Clock, Left
<1>4. F' = F
  BY <1>3 DEF F
<1>5. QueryInv => QueryInv'
  BY <1>1, <1>2 DEF QueryInv
<1>6. ByteInv => ByteInv'
  <2>1. ByteInv => \A i \in DOMAIN inbox' : inbox'[i].kind = "byte" => inbox'[i].byte.pos = box'.pos - 1
    BY <1>1, QuietInbox DEF ByteInv
  <2> QED BY <1>1, <1>2, <1>3, <2>1 DEF ByteInv
<1>7. AnswerTimerInv => AnswerTimerInv'
  BY <1>1, <1>2 DEF AnswerTimerInv
<1>8. LineInv => LineInv'
  BY <1>1, <1>3 DEF LineInv
<1>9. AnswerInv => AnswerInv'
  BY <1>1, <1>2, <1>3, <1>4 DEF AnswerInv
<1>10. Whole => Whole'
  BY <1>1, <1>2, <1>3, <1>4 DEF Whole
<1> QED BY <1>5, <1>6, <1>7, <1>8, <1>9, <1>10 DEF PlaceInv, OnTime

\* A worker posts into the empty inbox.
LEMMA WorkerInbox ==
  ASSUME TypeInv, Yields, NEW m \in Messages, inbox' = Append(inbox, m)
  PROVE  /\ \A k : ~Has(inbox, k)
         /\ \A k : Has(inbox', k) <=> m.kind = k
         /\ \A k : Once(inbox', k)
         /\ \A i \in DOMAIN inbox' : inbox'[i] = m
<1>1. inbox \in Seq(Messages) /\ inbox = <<>> /\ DOMAIN inbox = {}
  BY DEF TypeInv, Yields
<1>2. \A k : ~Has(inbox, k) /\ Once(inbox, k)
  BY <1>1 DEF Has, Once
<1> QED BY <1>1, <1>2, Posted

LEMMA QueryKeeps ==
  ASSUME TypeInv, PlaceInv, Query
  PROVE  PlaceInv' /\ (OnTime => OnTime') /\ (Whole => Whole')
<1> DEFINE m == Message("query_worker")
           q == IF box.queries < MaxQueries THEN box.queries + 1 ELSE box.queries
<1>1. m \in Messages /\ m.kind = "query_worker"
  BY DEF Message, Messages, Signals
<1>2. /\ Yields /\ asking /\ ~asking' /\ inbox' = Append(inbox, m)
      /\ box' = [box EXCEPT !.queries = q] /\ rx' = rx /\ queryTimer' = queryTimer
      /\ answerTimer' = answerTimer /\ server' = server
  BY DEF Query
<1>3. /\ box'.pos = box.pos /\ box'.wait = box.wait
      /\ box.queries = 0 => box'.queries = 1
  BY <1>2, Numbers DEF TypeInv
<1> HIDE DEF m, q
<1>4. /\ ~Has(inbox, "byte") /\ ~Has(inbox, "query_timeout") /\ ~Has(inbox, "answer_timeout")
      /\ ~Has(inbox, "byte")' /\ ~Has(inbox, "query_timeout")' /\ ~Has(inbox, "answer_timeout")'
      /\ Once(inbox, "byte")' /\ Once(inbox, "query_timeout")' /\ Once(inbox, "answer_timeout")'
      /\ \A i \in DOMAIN inbox' : inbox'[i].kind # "byte"
  BY <1>1, <1>2, WorkerInbox
<1>5. (Flying' <=> Flying) /\ F' = F
  BY <1>2, <1>4 DEF Flying, F
<1>6. queryTimer = QueryDelay /\ Clock' = 0 /\ Left' = Left
  BY <1>2, Numbers DEF PlaceInv, QueryInv, Clock, Left
<1>7. PlaceInv'
  <2>1. QueryInv'
    BY <1>2, <1>4 DEF PlaceInv, QueryInv
  <2>2. ByteInv'
    BY <1>2, <1>3, <1>4, <1>5 DEF PlaceInv, ByteInv
  <2>3. AnswerTimerInv'
    BY <1>2, <1>4 DEF PlaceInv, AnswerTimerInv
  <2> QED BY <2>1, <2>2, <2>3 DEF PlaceInv
<1>8. OnTime => OnTime'
  <2> SUFFICES ASSUME OnTime PROVE OnTime'
    OBVIOUS
  <2>1. box.queries = 0 /\ box.wait = 0 /\ box.pos = Bytes /\ ~Flying
    BY <1>2 DEF OnTime, LineInv
  <2>2. LineInv'
    <3>1. box'.queries = 1 /\ box'.wait = 0 /\ box'.pos = Bytes /\ ~Flying' /\ Clock' = 0
      BY <1>3, <1>5, <1>6, <2>1
    <3> QED BY <1>2, <3>1, Numbers DEF LineInv
  <2>3. server.response # <<>> => Short(Len(server.response), F, Left)
    BY <1>2 DEF OnTime, AnswerInv
  <2>4. ~(server.response = <<>> /\ ~server.queryResponseTimeout)
    BY <1>2, <1>4 DEF OnTime, AnswerInv
  <2>5. AnswerInv'
    BY <1>2, <1>5, <1>6, <2>3, <2>4 DEF OnTime, AnswerInv
  <2> QED BY <2>2, <2>5 DEF OnTime
<1>9. Whole => Whole'
  BY <1>2, <1>3, <1>4, <1>5, <1>6 DEF Whole
<1> QED BY <1>7, <1>8, <1>9

LEMMA OneByte ==
  ASSUME NEW r \in Seq(Received), r # <<>>, Len(r) <= 1
  PROVE  Len(r) = 1 /\ Tail(r) = <<>>
<1>1. Len(r) \in Nat \ {0}
  BY EmptySeq
<1>2. Len(r) = 1
  BY <1>1
<1>3. Len(Tail(r)) = 0 /\ Tail(r) \in Seq(Received)
  BY <1>2, HeadTailProperties
<1> QED BY <1>2, <1>3, EmptySeq

LEMMA ResponseKeeps ==
  ASSUME TypeInv, PlaceInv, Response
  PROVE  PlaceInv' /\ (OnTime => OnTime') /\ (Whole => Whole')
<1> DEFINE m == [kind |-> "byte", byte |-> Head(rx)]
<1>1. /\ rx \in Seq(Received) /\ rx # <<>> /\ Len(rx) = 1 /\ rx' = <<>> /\ Head(rx) \in Received
      /\ Head(rx) = rx[1] /\ 1 \in DOMAIN rx
  <2>1. rx \in Seq(Received) /\ rx # <<>> /\ rx' = Tail(rx)
    BY DEF TypeInv, Response
  <2>2. Len(rx) = 1 /\ Tail(rx) = <<>>
    BY <2>1, OneByte DEF PlaceInv, ByteInv
  <2> QED BY <2>1, <2>2
<1>2. m \in Messages /\ m.kind = "byte" /\ m.byte = Head(rx)
  BY <1>1 DEF Messages
<1>3. /\ Yields /\ inbox' = Append(inbox, m) /\ box' = box /\ queryTimer' = queryTimer
      /\ answerTimer' = answerTimer /\ asking' = asking /\ server' = server
  BY DEF Response
<1> HIDE DEF m
<1>4. /\ ~Has(inbox, "byte") /\ ~Has(inbox, "query_timeout") /\ ~Has(inbox, "answer_timeout")
      /\ Has(inbox, "byte")' /\ ~Has(inbox, "query_timeout")' /\ ~Has(inbox, "answer_timeout")'
      /\ Once(inbox, "byte")' /\ Once(inbox, "query_timeout")' /\ Once(inbox, "answer_timeout")'
      /\ \A i \in DOMAIN inbox' : inbox'[i] = m
  BY <1>2, <1>3, WorkerInbox
<1>5. Flying /\ Flying' /\ F' = F /\ Clock' = Clock /\ Left' = Left
  BY <1>1, <1>3, <1>4 DEF Flying, F, Clock, Left
<1>6. QueryInv'
  BY <1>3, <1>4 DEF PlaceInv, QueryInv
<1>7. ByteInv'
  <2>1. m.byte.pos = box'.pos - 1
    BY <1>1, <1>2, <1>3 DEF PlaceInv, ByteInv
  <2> QED BY <1>1, <1>3, <1>4, <1>5, <2>1 DEF PlaceInv, ByteInv
<1>8. AnswerTimerInv'
  BY <1>3, <1>4 DEF PlaceInv, AnswerTimerInv
<1>9. OnTime => OnTime'
  BY <1>3, <1>4, <1>5 DEF OnTime, LineInv, AnswerInv
<1>10. Whole => Whole'
  BY <1>3, <1>4, <1>5 DEF Whole
<1> QED BY <1>6, <1>7, <1>8, <1>9, <1>10 DEF PlaceInv

LEMMA TimeoutsKeep ==
  ASSUME TypeInv, PlaceInv, QueryTimeout \/ ResponseTimeout
  PROVE  PlaceInv' /\ (OnTime => OnTime') /\ (Whole => Whole')
<1>1. CASE QueryTimeout
  <2> DEFINE m == Message("query_timeout")
  <2>1. m \in Messages /\ m.kind = "query_timeout"
    BY DEF Message, Messages, Signals
  <2>2. /\ Yields /\ queryTimer = 0 /\ queryTimer' = Off /\ inbox' = Append(inbox, m) /\ box' = box
        /\ rx' = rx /\ answerTimer' = answerTimer /\ asking' = asking /\ server' = server
    BY <1>1 DEF QueryTimeout
  <2> HIDE DEF m
  <2>3. /\ ~Has(inbox, "byte") /\ ~Has(inbox, "query_timeout") /\ ~Has(inbox, "answer_timeout")
        /\ ~Has(inbox, "byte")' /\ Has(inbox, "query_timeout")' /\ ~Has(inbox, "answer_timeout")'
        /\ Once(inbox, "byte")' /\ Once(inbox, "query_timeout")' /\ Once(inbox, "answer_timeout")'
        /\ \A i \in DOMAIN inbox' : inbox'[i].kind # "byte"
    BY <2>1, <2>2, WorkerInbox
  <2>4. (Flying' <=> Flying) /\ Clock' = Clock /\ Left' = Left /\ 0 # Off /\ ~asking
    BY <2>2, <2>3, Numbers DEF Flying, Clock, Left, PlaceInv, QueryInv
  <2>5. F' = F
    BY <2>4 DEF F
  <2>6. QueryInv'
    BY <2>2, <2>3, <2>4 DEF PlaceInv, QueryInv
  <2>7. ByteInv'
    BY <2>2, <2>3, <2>4 DEF PlaceInv, ByteInv
  <2>8. AnswerTimerInv'
    BY <2>2, <2>3 DEF PlaceInv, AnswerTimerInv
  <2>9. OnTime => OnTime'
    BY <2>2, <2>3, <2>4, <2>5 DEF OnTime, LineInv, AnswerInv
  <2>10. Whole => Whole'
    BY <2>2, <2>3, <2>4, <2>5 DEF Whole
  <2> QED BY <2>6, <2>7, <2>8, <2>9, <2>10 DEF PlaceInv
<1>2. CASE ResponseTimeout
  <2> DEFINE m == Message("answer_timeout")
  <2>1. m \in Messages /\ m.kind = "answer_timeout"
    BY DEF Message, Messages, Signals
  <2>2. /\ Yields /\ answerTimer = 0 /\ answerTimer' = Off /\ inbox' = Append(inbox, m) /\ box' = box
        /\ rx' = rx /\ queryTimer' = queryTimer /\ asking' = asking /\ server' = server
    BY <1>2 DEF ResponseTimeout
  <2> HIDE DEF m
  <2>3. /\ ~Has(inbox, "byte") /\ ~Has(inbox, "query_timeout") /\ ~Has(inbox, "answer_timeout")
        /\ ~Has(inbox, "byte")' /\ ~Has(inbox, "query_timeout")' /\ Has(inbox, "answer_timeout")'
        /\ Once(inbox, "byte")' /\ Once(inbox, "query_timeout")' /\ Once(inbox, "answer_timeout")'
        /\ \A i \in DOMAIN inbox' : inbox'[i].kind # "byte"
    BY <2>1, <2>2, WorkerInbox
  <2>4. (Flying' <=> Flying) /\ Clock' = Clock /\ Left' = Left /\ Left = 0 /\ 0 # Off
    BY <2>2, <2>3, Numbers DEF Flying, Clock, Left
  <2>5. F' = F /\ F \in {0, 1}
    BY <2>4 DEF F
  <2>6. QueryInv'
    BY <2>2, <2>3 DEF PlaceInv, QueryInv
  <2>7. ByteInv'
    BY <2>2, <2>3, <2>4 DEF PlaceInv, ByteInv
  <2>8. AnswerTimerInv'
    BY <2>2, <2>3, <2>4 DEF PlaceInv, AnswerTimerInv
  <2>9. OnTime => OnTime'
    BY <2>2, <2>3, <2>4, <2>5 DEF OnTime, LineInv, AnswerInv
  <2>10. Whole => Whole'
    <3> SUFFICES ASSUME Whole PROVE Whole'
      OBVIOUS
    <3>1. server.response = <<>> \/ server.startQueryResponseTimeout
      <4>1. Len(server.response) \in Nat /\ Len(server.response) < Bytes
        BY DEF Whole, TypeInv, ServerState
      <4>2. ~(Left + Len(server.response) + F > Bytes)
        BY <2>4, <2>5, <4>1, Numbers
      <4> QED BY <4>2 DEF Whole
    <3> QED BY <2>2, <2>3, <2>4, <2>5, <3>1 DEF Whole
  <2> QED BY <2>6, <2>7, <2>8, <2>9, <2>10 DEF PlaceInv
<1> QED BY <1>1, <1>2

\* What a tick does to the timers.
LEMMA TickIs ==
  ASSUME TypeInv, PlaceInv, TimersElapse
  PROVE  /\ ~Flying /\ F = 0 /\ rx = <<>> /\ asking' = asking /\ ~asking /\ inbox' = inbox
         /\ inbox = <<>> /\ server' = server
         /\ \A k : ~Has(inbox, k) /\ ~Has(inbox, k)'
         /\ (queryTimer' = Off <=> queryTimer = Off) /\ (answerTimer' = Off <=> answerTimer = Off)
         /\ Clock \in Nat /\ Clock' \in Nat
         /\ Clock' = IF queryTimer = Off THEN Clock ELSE Clock + 1
         /\ Left \in Nat /\ Left' = (IF answerTimer = Off THEN 0 ELSE Left - 1) /\ Left' \in Nat
         /\ (server.queryResponseTimeout <=> answerTimer = Off)
<1>1. /\ inbox = <<>> /\ rx = <<>> /\ ~asking /\ queryTimer # 0 /\ answerTimer # 0
      /\ queryTimer' = Elapse(queryTimer) /\ answerTimer' = Elapse(answerTimer)
      /\ asking' = asking /\ inbox' = inbox /\ server' = server
  BY DEF TimersElapse, Urgent, Yields
<1>2. \A k : ~Has(inbox, k) /\ ~Has(inbox', k)
  <2>1. DOMAIN inbox = {}
    BY <1>1
  <2> QED BY <1>1, <2>1 DEF Has
<1>3. ~Flying /\ F = 0
  BY <1>1, <1>2 DEF Flying, F
<1>4. queryTimer \in {Off} \cup 0 .. QueryDelay /\ answerTimer \in {Off} \cup 0 .. AnswerDelay
  BY DEF TypeInv
<1>5. /\ queryTimer' = Off <=> queryTimer = Off
      /\ queryTimer > 0 => queryTimer' = queryTimer - 1
  BY <1>1, <1>4, ElapseIs, Numbers
<1>6. /\ answerTimer' = Off <=> answerTimer = Off
      /\ answerTimer > 0 => answerTimer' = answerTimer - 1
  BY <1>1, <1>4, ElapseIs, Numbers
<1>7. /\ Clock \in Nat /\ Clock' \in Nat
      /\ Clock' = IF queryTimer = Off THEN Clock ELSE Clock + 1
  BY <1>1, <1>4, <1>5, Numbers DEF Clock
<1>8. Left \in Nat /\ Left' = (IF answerTimer = Off THEN 0 ELSE Left - 1) /\ Left' \in Nat
  BY <1>1, <1>4, <1>6, Numbers DEF Left
<1>9. server.queryResponseTimeout <=> answerTimer = Off
  BY <1>2 DEF PlaceInv, AnswerTimerInv
<1>10. \A k : ~Has(inbox, k) /\ ~Has(inbox, k)'
  BY <1>1, <1>2 DEF Has
<1> QED BY <1>1, <1>3, <1>5, <1>6, <1>7, <1>8, <1>9, <1>10

\* The box is quiet or sends a byte that arrives or is lost.
LEMMA TickLine ==
  ASSUME TypeInv, PlaceInv, QuietTick \/ \E loses \in BOOLEAN : ByteTick(loses)
  PROVE  /\ TimersElapse
         /\ {box.pos, box'.pos} \subseteq 0 .. Bytes
         /\ \/ /\ QuietTick /\ rx' = <<>> /\ ~Flying' /\ F' = 0
            \/ /\ late' = late /\ box'.pos > 0 /\ box'.wait = 0
               /\ \/ box.pos < Bytes /\ box'.pos = box.pos + 1 /\ box'.queries = box.queries
                  \/ /\ box.pos = Bytes /\ box.queries > 0 /\ box'.pos = 1
                     /\ box'.queries = box.queries - 1
               /\ \/ lost' /\ rx' = <<>> /\ ~Flying' /\ F' = 0
                  \/ /\ lost' = lost /\ rx' # <<>> /\ Flying' /\ F' = 1
                     /\ Len(rx') = 1 /\ DOMAIN rx' = {1} /\ rx'[1].pos = box'.pos - 1
<1>1. TimersElapse
  BY DEF QuietTick, ByteTick
<1>2. rx = <<>> /\ (Flying' <=> rx' # <<>>)
  BY <1>1, TickIs DEF Flying
<1>3. F' = IF rx' # <<>> THEN 1 ELSE 0
  BY <1>2 DEF F
<1>4. box.pos \in 0 .. Bytes /\ box'.pos \in 0 .. Bytes
  BY TickTypes DEF TypeInv
<1>5. CASE QuietTick
  BY <1>1, <1>2, <1>3, <1>4, <1>5, QuietTickIs
<1>6. CASE \E loses \in BOOLEAN : ByteTick(loses)
  <2>1. PICK loses \in BOOLEAN : ByteTick(loses)
    BY <1>6
  <2>2. /\ \/ box.pos < Bytes /\ box'.pos = box.pos + 1 /\ box'.queries = box.queries
           \/ /\ box.pos = Bytes /\ box.queries > 0 /\ box'.pos = 1
              /\ box'.queries = box.queries - 1
        /\ box'.wait = 0 /\ late' = late /\ lost' = (lost \/ loses)
        /\ IF loses THEN rx' = rx
           ELSE \E byte \in Received : byte.pos = box'.pos - 1 /\ rx' = Append(rx, byte)
    BY <2>1, ByteTickIs
  <2>3. box'.pos > 0
    BY <1>4, <2>2
  <2>4. CASE loses
    BY <1>1, <1>2, <1>3, <1>4, <2>2, <2>3, <2>4
  <2>5. CASE ~loses
    <3>1. PICK byte \in Received : byte.pos = box'.pos - 1 /\ rx' = Append(rx, byte)
      BY <2>2, <2>5
    <3>2. Len(rx') = 1 /\ DOMAIN rx' = {1} /\ rx' # <<>> /\ rx'[1] = byte
      BY <1>2, <3>1
    <3>3. lost' = lost
      BY <2>2, <2>5 DEF TypeInv
    <3> QED BY <1>1, <1>2, <1>3, <1>4, <2>2, <2>3, <3>1, <3>2, <3>3
  <2> QED BY <2>4, <2>5
<1> QED BY <1>5, <1>6

LEMMA TickPlaces ==
  ASSUME TypeInv, PlaceInv, QuietTick \/ \E loses \in BOOLEAN : ByteTick(loses)
  PROVE  PlaceInv'
<1>1. TimersElapse
  BY TickLine
<1>2. /\ inbox' = inbox /\ inbox = <<>> /\ server' = server /\ asking' = asking /\ ~asking
      /\ (queryTimer' = Off <=> queryTimer = Off) /\ (answerTimer' = Off <=> answerTimer = Off)
      /\ ~Has(inbox, "byte")' /\ ~Has(inbox, "query_timeout")' /\ ~Has(inbox, "answer_timeout")'
      /\ ~Has(inbox, "byte") /\ ~Has(inbox, "query_timeout") /\ ~Has(inbox, "answer_timeout")
  BY <1>1, TickIs
<1>3. /\ Once(inbox, "byte")' /\ Once(inbox, "query_timeout")' /\ Once(inbox, "answer_timeout")'
      /\ \A i \in DOMAIN inbox' : inbox'[i].kind # "byte"
  <2>1. DOMAIN inbox' = {}
    BY <1>2
  <2> QED BY <2>1 DEF Once
<1>4. QueryInv'
  BY <1>2, <1>3 DEF PlaceInv, QueryInv
<1>5. AnswerTimerInv'
  BY <1>2, <1>3 DEF PlaceInv, AnswerTimerInv
<1>6. ByteInv'
  <2>1. CASE rx' = <<>>
    <3>1. Len(rx') = 0 /\ DOMAIN rx' = {} /\ ~Flying'
      BY <1>2, <2>1 DEF Flying
    <3> QED BY <1>2, <1>3, <2>1, <3>1 DEF ByteInv
  <2>2. CASE rx' # <<>>
    <3>1. Len(rx') = 1 /\ DOMAIN rx' = {1} /\ rx'[1].pos = box'.pos - 1 /\ box'.pos > 0
      BY <2>2, TickLine
    <3> QED BY <1>2, <1>3, <3>1 DEF ByteInv
  <2> QED BY <2>1, <2>2
<1> QED BY <1>4, <1>5, <1>6 DEF PlaceInv

LEMMA TickWhole ==
  ASSUME TypeInv, PlaceInv, Whole, QuietTick \/ (\E loses \in BOOLEAN : ByteTick(loses)), ~lost'
  PROVE  Whole'
<1> DEFINE n == Len(server.response)
<1>1. TimersElapse
  BY TickLine
<1>2. /\ ~Flying /\ F = 0 /\ server' = server /\ ~Has(inbox, "answer_timeout")'
      /\ Left \in Nat /\ Left' = (IF answerTimer = Off THEN 0 ELSE Left - 1) /\ Left' \in Nat
      /\ (server.queryResponseTimeout <=> answerTimer = Off)
  BY <1>1, TickIs
<1>3. /\ n \in Nat /\ n < Bytes /\ (server.response = <<>> <=> n = 0)
      /\ \A i \in 1 .. n : server.response[i].pos = i - 1
      /\ box.pos = n \/ (server.response = <<>> /\ box.pos = Bytes)
      /\ server.response # <<>> /\ ~server.startQueryResponseTimeout => Left + n + F > Bytes
  BY <1>2, EmptySeq DEF Whole, TypeInv, ServerState
<1> HIDE DEF n
<1>4. CASE QuietTick
  <2>1. box.pos = Bytes /\ box'.pos = Bytes /\ ~Flying'
    BY <1>4, QuietTickIs, TickLine
  <2>2. server.response = <<>> /\ n = 0
    BY <1>3, <2>1, Numbers
  <2> QED BY <1>2, <1>3, <2>1, <2>2 DEF Whole, n
<1>5. CASE ~QuietTick
  <2>1. /\ Flying' /\ F' = 1
        /\ \/ box.pos < Bytes /\ box'.pos = box.pos + 1
           \/ box.pos = Bytes /\ box'.pos = 1
    BY <1>5, TickLine
  <2>2. box'.pos = n + 1
    BY <1>3, <2>1, Numbers
  <2>3. ASSUME server.response # <<>>, ~server.startQueryResponseTimeout PROVE Left' + n + F' > Bytes
    <3>1. answerTimer # Off
      BY <1>2, <2>3 DEF PlaceInv, AnswerTimerInv
    <3> QED BY <1>2, <1>3, <2>1, <2>3, <3>1, Numbers
  <2> QED BY <1>2, <1>3, <2>1, <2>2, <2>3 DEF Whole, n
<1> QED BY <1>4, <1>5

LEMMA TickOnTime ==
  ASSUME TypeInv, PlaceInv, OnTime, QuietTick \/ (\E loses \in BOOLEAN : ByteTick(loses)), ~late'
  PROVE  OnTime'
<1>1. TimersElapse
  BY TickLine
<1>2. /\ ~Flying /\ F = 0 /\ rx = <<>> /\ asking' = asking /\ ~asking /\ inbox' = inbox /\ server' = server
      /\ (queryTimer' = Off <=> queryTimer = Off) /\ (answerTimer' = Off <=> answerTimer = Off)
      /\ Clock \in Nat /\ Clock' \in Nat /\ Clock' = IF queryTimer = Off THEN Clock ELSE Clock + 1
      /\ Left \in Nat /\ Left' = (IF answerTimer = Off THEN 0 ELSE Left - 1) /\ Left' \in Nat
      /\ (server.queryResponseTimeout <=> answerTimer = Off)
      /\ ~Has(inbox, "answer_timeout") /\ ~Has(inbox, "answer_timeout")'
  BY <1>1, TickIs
<1>3. /\ box.pos \in 0 .. Bytes /\ box.wait \in 0 .. Latency /\ box.queries \in Nat
      /\ box'.pos \in 0 .. Bytes
  BY TickLine, Numbers DEF TypeInv
<1>4. /\ box.queries \in {0, 1} /\ (box.queries = 0 => box.wait = 0)
      /\ box.queries # 0 => box.pos = Bytes /\ Clock = box.wait
      /\ box.pos < Bytes => Clock - box.pos <= Latency
  BY <1>3 DEF OnTime, LineInv
\* A query or an answer is not older than Latency and the answer itself.
<1>5. box.queries # 0 \/ box.pos < Bytes => Clock' = Clock + 1
  <2>1. queryTimer = Off => Clock = QueryDelay
    BY DEF Clock
  <2>2. box.queries # 0 \/ box.pos < Bytes => Clock < QueryDelay
    BY <1>2, <1>3, <1>4, Numbers
  <2> QED BY <1>2, <2>1, <2>2, Numbers
\* The box after the tick.
<1>6. \/ /\ ~Flying' /\ F' = 0 /\ box.pos = Bytes /\ box'.pos = Bytes /\ box'.queries = box.queries
         /\ box'.wait = IF box.queries = 0 THEN 0 ELSE box.wait + 1
      \/ /\ box'.queries = 0 /\ box'.wait = 0 /\ box'.pos > 0 /\ Clock' = Clock + 1
         /\ \/ box.pos < Bytes /\ box'.pos = box.pos + 1 /\ box.queries = 0
            \/ box.pos = Bytes /\ box'.pos = 1 /\ box.queries = 1
         /\ Clock' - box'.pos <= Latency
         /\ (~Flying' /\ F' = 0) \/ (Flying' /\ F' = 1)
  <2>1. CASE QuietTick
    BY <2>1, QuietTickIs, TickLine
  <2>2. CASE ~QuietTick
    <3>1. /\ box'.wait = 0 /\ box'.pos > 0
          /\ \/ box.pos < Bytes /\ box'.pos = box.pos + 1 /\ box'.queries = box.queries
             \/ box.pos = Bytes /\ box.queries > 0 /\ box'.pos = 1 /\ box'.queries = box.queries - 1
          /\ (~Flying' /\ F' = 0) \/ (Flying' /\ F' = 1)
      BY <2>2, TickLine
    <3>2. CASE box.pos < Bytes
      <4>1. box.queries = 0 /\ Clock' = Clock + 1 /\ box'.pos = box.pos + 1 /\ box'.queries = 0
        BY <1>3, <1>4, <1>5, <3>1, <3>2, Numbers
      <4>2. Clock' - box'.pos <= Latency
        BY <1>2, <1>3, <1>4, <3>2, <4>1, Numbers
      <4> QED BY <3>1, <3>2, <4>1, <4>2
    <3>3. CASE box.pos = Bytes
      <4>1. box.queries = 1 /\ Clock' = Clock + 1 /\ box'.pos = 1 /\ box'.queries = 0 /\ Clock = box.wait
        BY <1>4, <1>5, <3>1, <3>3, Numbers
      <4>2. Clock' - box'.pos <= Latency
        BY <1>2, <1>3, <4>1, Numbers
      <4> QED BY <3>1, <3>3, <4>1, <4>2
    <3>4. box.pos < Bytes \/ box.pos = Bytes
      BY <1>3, Numbers
    <3> QED BY <3>2, <3>3, <3>4
  <2> QED BY <2>1, <2>2
<1>7. LineInv'
  <2>1. box'.queries \in {0, 1} /\ (box'.queries = 0 => box'.wait = 0)
    BY <1>4, <1>6
  <2>2. box'.queries # 0 => box'.pos = Bytes /\ ~Flying' /\ Clock' = box'.wait
    BY <1>4, <1>5, <1>6
  <2>3. box'.pos < Bytes \/ Flying' => Clock' - box'.pos <= Latency
    BY <1>6, Numbers
  <2> QED BY <1>2, <2>1, <2>2, <2>3 DEF LineInv
<1>8. AnswerInv'
  <2>0. ~server.startQueryResponseTimeout
    BY DEF OnTime, AnswerInv
  <2>1. ASSUME server.response = <<>>, ~server.queryResponseTimeout
        PROVE  /\ box'.pos = Bytes /\ box'.queries = 0 /\ ~Flying'
               /\ Clock' + Left' <= AnswerDelay + Latency + 1
    <3>1. /\ box.pos = Bytes /\ box.queries = 0 /\ Clock + Left <= AnswerDelay + Latency + 1
          /\ answerTimer # Off
      BY <1>2, <2>1 DEF OnTime, AnswerInv
    <3>2. box'.pos = Bytes /\ box'.queries = 0 /\ ~Flying'
      BY <1>6, <3>1, Numbers
    <3>3. Clock' + Left' <= AnswerDelay + Latency + 1
      BY <1>2, <3>1, Numbers
    <3> QED BY <3>2, <3>3
  <2>2. ASSUME server.response # <<>>
        PROVE  \/ Short(Len(server.response), F', Left')
               \/ box'.queries = 0 /\ Current(server.response, F', Clock', Left', box'.pos)
    <3> DEFINE r == server.response
    <3>1. answerTimer # Off /\ Left' = Left - 1
      BY <1>2, <2>2 DEF PlaceInv, AnswerTimerInv
    <3>2. Len(r) \in Nat \ {0} /\ r \in Seq(Received)
      BY <2>2, EmptySeq DEF TypeInv, ServerState
    <3>3. F' \in {0, 1}
      BY <1>6
    <3>4. CASE Short(Len(r), 0, Left)
      <4> HIDE DEF r
      <4>1. Len(r) + F' + Left' < Bytes
        BY <1>2, <3>1, <3>2, <3>3, <3>4, Numbers DEF Short
      <4> QED BY <4>1 DEF Short, r
    <3>5. CASE box.queries = 0 /\ Current(r, 0, Clock, Left, box.pos)
      <4>1. \A i \in 1 .. Len(r) : r[i].pos \in Int
        <5>1. \A i \in 1 .. Len(r) : r[i] \in Received
          BY <3>2
        <5> QED BY <5>1, Numbers DEF Received, Sensors
      <4>2. box'.queries = 0 /\ F' + box.pos <= box'.pos
        BY <1>3, <1>6, <3>5, Numbers
      <4>3. 1 \in 1 .. Len(r) /\ Len(r) \in Nat
        BY <3>2
      <4> HIDE DEF r
      <4>4. Current(r, 0, Clock, Left, box.pos)
        BY <3>5
      <4>5. /\ Clock' + Left' <= AnswerDelay + Latency + 1 + r[1].pos
            /\ r[1].pos >= 0
        BY <1>2, <3>1, <4>1, <4>3, <4>4, Numbers DEF Current
      <4>6. ASSUME NEW i \in 1 .. Len(r)
            PROVE  r[1].pos + (i - 1) <= r[i].pos /\ r[i].pos + (Len(r) - i) + F' < box'.pos
        <5>1. r[1].pos + (i - 1) <= r[i].pos /\ r[i].pos + (Len(r) - i) + 0 < box.pos
          BY <4>4 DEF Current
        <5>2. r[i].pos \in Int /\ r[1].pos \in Int
          BY <4>1, <4>3
        <5>3. i \in Int /\ box.pos \in Int /\ box'.pos \in Int
          BY <1>3, Numbers
        <5>4. r[i].pos + (Len(r) - i) < box.pos
          BY <4>3, <5>1, <5>2, <5>3
        <5>5. r[i].pos + (Len(r) - i) + F' < box'.pos
          BY <3>3, <4>2, <4>3, <5>2, <5>3, <5>4
        <5> QED BY <5>1, <5>5
      <4>7. Current(r, F', Clock', Left', box'.pos)
        BY <4>5, <4>6 DEF Current
      <4> QED BY <4>2, <4>7 DEF r
    <3> QED BY <1>2, <2>2, <3>4, <3>5 DEF OnTime, AnswerInv
  <2> QED BY <1>2, <2>0, <2>1, <2>2 DEF AnswerInv
<1> QED BY <1>7, <1>8 DEF OnTime

-----------------------------------------------------------------------------
(* The turns of the server, as the timers and the line see them.           *)

\* A turn asks for another answer.
AsksNow == Asks(Told(After))

LEMMA TurnFlags ==
  ASSUME TypeInv, Serve
  PROVE  /\ server'.response = After.response
         /\ (server'.queryResponseTimeout <=> After.queryResponseTimeout)
         /\ (server'.startQueryResponseTimeout <=> After.startQueryResponseTimeout)
         /\ server'.queryTimeout <=>
              (server.queryTimeout \/ Head(inbox).kind = "query_timeout") /\ ~AsksNow
         /\ AsksNow => server.queryTimeout \/ Head(inbox).kind = "query_timeout"
<1>1. /\ After \in ServerState /\ InList(After) /\ Told(After) \in ServerState
      /\ Head(inbox) \in Messages /\ server' = Asked(Told(After)) /\ server \in ServerState /\ InList(server)
  BY TurnIs DEF TypeInv, InList
<1>2. After.queryTimeout <=> server.queryTimeout \/ Head(inbox).kind = "query_timeout"
  BY <1>1, HandledIs DEF After
<1>3. SameFlags(Told(After), After)
  BY <1>1, ToldIs
<1> DEFINE t == Told(After)
<1>4. /\ Asked(t).response = t.response
      /\ (Asked(t).queryResponseTimeout <=> t.queryResponseTimeout)
      /\ (Asked(t).startQueryResponseTimeout <=> t.startQueryResponseTimeout)
      /\ (Asked(t).queryTimeout <=> t.queryTimeout /\ ~Asks(t))
      /\ (Asks(t) => t.queryTimeout)
  BY <1>1, AskedIs
<1> HIDE DEF t
<1>5. SameFlags(t, After) /\ server' = Asked(t) /\ (AsksNow <=> Asks(t))
  BY <1>1, <1>3 DEF t, AsksNow
<1> QED BY <1>2, <1>4, <1>5 DEF SameFlags

LEMMA TurnInbox ==
  ASSUME TypeInv, Serve
  PROVE  LET m == Head(inbox) IN
         /\ \A k : Has(inbox, k) <=> m.kind = k \/ Has(inbox', k)
         /\ \A k : Once(inbox, k) => Once(inbox', k) /\ (m.kind = k => ~Has(inbox', k))
         /\ 1 \in DOMAIN inbox /\ m = inbox[1]
         /\ \A i \in DOMAIN inbox' : i + 1 \in DOMAIN inbox /\ inbox'[i] = inbox[i + 1]
<1>1. inbox \in Seq(Messages) /\ inbox # <<>> /\ inbox' = Tail(inbox)
  BY TurnIs DEF TypeInv
<1> QED BY <1>1, Taken

LEMMA TurnQuery ==
  ASSUME TypeInv, QueryInv, Serve
  PROVE  QueryInv' /\ (AsksNow => queryTimer = Off)
<1> DEFINE m == Head(inbox)
           qt == "query_timeout"
<1>1. /\ queryTimer' = IF AsksNow THEN QueryDelay ELSE queryTimer
      /\ (asking' <=> asking \/ AsksNow)
  BY TurnIs DEF AsksNow
<1>2. /\ server'.queryTimeout <=> (server.queryTimeout \/ m.kind = qt) /\ ~AsksNow
      /\ AsksNow => server.queryTimeout \/ m.kind = qt
  BY TurnFlags
<1>3. /\ Has(inbox, qt) <=> m.kind = qt \/ Has(inbox, qt)'
      /\ Once(inbox, qt) => Once(inbox, qt)' /\ (m.kind = qt => ~Has(inbox, qt)')
  BY TurnInbox DEF Has, Once
<1>4. /\ server.queryTimeout => queryTimer = Off /\ ~Has(inbox, qt)
      /\ Has(inbox, qt) => queryTimer = Off
      /\ Once(inbox, qt)
      /\ asking => queryTimer = QueryDelay
  BY DEF QueryInv
<1> HIDE DEF m, qt
<1>5. AsksNow => queryTimer = Off
  BY <1>2, <1>3, <1>4
<1>6. /\ server'.queryTimeout => queryTimer' = Off /\ ~Has(inbox, qt)'
      /\ Has(inbox, qt)' => queryTimer' = Off
      /\ Once(inbox, qt)'
  BY <1>1, <1>2, <1>3, <1>4
<1>7. asking' => queryTimer' = QueryDelay
  BY <1>1, <1>4
<1> QED BY <1>5, <1>6, <1>7 DEF QueryInv, qt

\* When the query timer has ended the line is still.
LEMMA StillLine ==
  ASSUME TypeInv, LineInv, Clock = QueryDelay
  PROVE  box.pos = Bytes /\ box.queries = 0 /\ ~Flying
<1>1. box.pos \in 0 .. Bytes /\ box.wait \in 0 .. Latency
  BY DEF TypeInv
<1>2. /\ box.pos < Bytes \/ Flying => Clock - box.pos <= Latency
      /\ box.queries # 0 => Clock = box.wait
  BY DEF LineInv
<1> QED BY <1>1, <1>2, Numbers

LEMMA TurnLine ==
  ASSUME TypeInv, QueryInv, ByteInv, Serve
  PROVE  /\ ByteInv' /\ (LineInv => LineInv')
         /\ Clock \in Nat /\ Clock' = (IF AsksNow THEN 0 ELSE Clock)
         /\ (asking' <=> asking \/ AsksNow) /\ box' = box
         /\ AsksNow => Clock = QueryDelay /\ (LineInv => box.pos = Bytes /\ box.queries = 0 /\ ~Flying)
         /\ IF Head(inbox).kind = "byte"
            THEN Flying /\ ~Flying' /\ F = 1 /\ F' = 0 /\ Head(inbox).byte.pos = box.pos - 1
            ELSE (Flying' <=> Flying) /\ F' = F
<1> DEFINE m == Head(inbox)
<1>1. /\ queryTimer' = IF AsksNow THEN QueryDelay ELSE queryTimer
      /\ (asking' <=> asking \/ AsksNow) /\ box' = box /\ rx' = rx
  BY TurnIs DEF AsksNow
<1>2. AsksNow => queryTimer = Off
  BY TurnQuery
<1>3. Clock \in Nat /\ Clock' = (IF AsksNow THEN 0 ELSE Clock) /\ (AsksNow => Clock = QueryDelay)
  BY <1>1, <1>2, Numbers DEF Clock, TypeInv
<1>4. AsksNow => (LineInv => box.pos = Bytes /\ box.queries = 0 /\ ~Flying)
  BY <1>3, StillLine
<1>5. /\ Has(inbox, "byte") <=> m.kind = "byte" \/ Has(inbox, "byte")'
      /\ Once(inbox, "byte") => Once(inbox, "byte")' /\ (m.kind = "byte" => ~Has(inbox, "byte")')
      /\ 1 \in DOMAIN inbox /\ m = inbox[1]
      /\ \A i \in DOMAIN inbox' : i + 1 \in DOMAIN inbox /\ inbox'[i] = inbox[i + 1]
  BY TurnInbox DEF Has, Once
<1>6. IF m.kind = "byte" THEN Flying /\ ~Flying' ELSE Flying' <=> Flying
  BY <1>1, <1>5 DEF Flying, ByteInv
<1>7. m.kind = "byte" => m.byte.pos = box.pos - 1
  BY <1>5 DEF ByteInv
<1> HIDE DEF m
<1>8. ByteInv'
  <2>1. Flying' => Flying
    BY <1>6
  <2>2. \A i \in DOMAIN inbox' : inbox'[i].kind = "byte" => inbox'[i].byte.pos = box'.pos - 1
    BY <1>1, <1>5 DEF ByteInv
  <2> QED BY <1>1, <1>5, <2>1, <2>2 DEF ByteInv
<1>9. LineInv => LineInv'
  <2> SUFFICES ASSUME LineInv PROVE LineInv'
    OBVIOUS
  <2>1. Flying' => Flying
    BY <1>6
  <2>2. CASE AsksNow
    <3>1. ~(box'.pos < Bytes) /\ ~Flying' /\ box'.pos = Bytes /\ box'.queries = 0
      BY <1>1, <1>4, <2>1, <2>2, Numbers
    <3> QED BY <1>1, <3>1 DEF LineInv
  <2>3. CASE ~AsksNow
    BY <1>1, <1>3, <2>1, <2>3 DEF LineInv
  <2> QED BY <2>2, <2>3
<1>10. IF m.kind = "byte" THEN F = 1 /\ F' = 0 ELSE F' = F
  BY <1>6 DEF F
<1> QED BY <1>1, <1>3, <1>4, <1>6, <1>7, <1>8, <1>9, <1>10 DEF m

\* What the message of a turn does to the answer and its timer.
LEMMA TurnAnswerTimer ==
  ASSUME TypeInv, AnswerTimerInv, Serve
  PROVE  /\ AnswerTimerInv'
         /\ Head(inbox).kind = "byte" =>
              /\ answerTimer' = IF server.response = <<>> /\ server.queryResponseTimeout
                                THEN AnswerDelay ELSE answerTimer
              /\ server'.response = IF Len(server.response) + 1 < Bytes
                                    THEN Append(server.response, Head(inbox).byte) ELSE <<>>
              /\ ~server'.queryResponseTimeout
              /\ server'.startQueryResponseTimeout <=>
                   (server.startQueryResponseTimeout
                      \/ (server.response = <<>> /\ ~server.queryResponseTimeout))
              /\ (Has(inbox, "answer_timeout") <=> Has(inbox, "answer_timeout")')
         /\ Head(inbox).kind = "answer_timeout" =>
              /\ ~server'.startQueryResponseTimeout /\ ~Has(inbox, "answer_timeout")'
              /\ IF server.startQueryResponseTimeout
                 THEN server'.response = server.response /\ answerTimer' = AnswerDelay
                 ELSE server'.response = <<>> /\ server'.queryResponseTimeout
         /\ Head(inbox).kind \notin {"byte", "answer_timeout"} =>
              /\ answerTimer' = answerTimer /\ server'.response = server.response
              /\ (server'.queryResponseTimeout <=> server.queryResponseTimeout)
              /\ (server'.startQueryResponseTimeout <=> server.startQueryResponseTimeout)
              /\ (Has(inbox, "answer_timeout") <=> Has(inbox, "answer_timeout")')
<1> DEFINE m == Head(inbox)
           at == "answer_timeout"
<1>1. /\ server'.response = After.response
      /\ (server'.queryResponseTimeout <=> After.queryResponseTimeout)
      /\ (server'.startQueryResponseTimeout <=> After.startQueryResponseTimeout)
  BY TurnFlags
<1>2. /\ server \in ServerState /\ m \in Messages /\ After = Handled(server, m)
      /\ answerTimer' = IF Rearmed(server, m) THEN AnswerDelay ELSE answerTimer
  BY TurnIs DEF TypeInv, After
<1>3. /\ Has(inbox, at) <=> m.kind = at \/ Has(inbox, at)'
      /\ Once(inbox, at) => Once(inbox, at)' /\ (m.kind = at => ~Has(inbox, at)')
  BY TurnInbox DEF Has, Once
<1>4. /\ server.queryResponseTimeout <=> answerTimer = Off /\ ~Has(inbox, at)
      /\ Has(inbox, at) => answerTimer = Off
      /\ Once(inbox, at)
      /\ server.response # <<>> \/ server.startQueryResponseTimeout => ~server.queryResponseTimeout
  BY DEF AnswerTimerInv
<1>5. AnswerDelay # Off
  BY Numbers
<1> HIDE DEF m, at
<1>6. CASE m.kind = "byte"
  <2>1. m.byte \in Received /\ After = Byte(server, m.byte) /\ m.kind # at
    BY <1>2, <1>6, MessageParts DEF Handled, at
  <2>2. /\ After.queryResponseTimeout <=> server.queryResponseTimeout /\ server.response # <<>>
        /\ After.startQueryResponseTimeout <=>
             (server.startQueryResponseTimeout \/ (server.response = <<>> /\ ~server.queryResponseTimeout))
        /\ After.response = IF Len(server.response) + 1 < Bytes
                            THEN Append(server.response, m.byte) ELSE <<>>
    BY <1>2, <2>1, ByteIs
  <2>3. Rearmed(server, m) <=> server.response = <<>> /\ server.queryResponseTimeout
    BY <1>6 DEF Rearmed
  <2>4. ~server'.queryResponseTimeout
    BY <1>1, <1>4, <2>2
  <2>5. answerTimer' = IF server.response = <<>> /\ server.queryResponseTimeout
                       THEN AnswerDelay ELSE answerTimer
    BY <1>2, <2>3
  <2>6. Has(inbox, at) <=> Has(inbox, at)'
    BY <1>3, <2>1
  <2>7. AnswerTimerInv'
    <3>1. ~(answerTimer' = Off /\ ~Has(inbox, at)')
      BY <1>4, <1>5, <2>2, <2>5, <2>6
    <3>2. Has(inbox, at)' => answerTimer' = Off
      BY <1>4, <2>5, <2>6
    <3> QED BY <1>3, <1>4, <2>4, <3>1, <3>2 DEF AnswerTimerInv, at
  <2> QED BY <1>1, <1>6, <2>1, <2>2, <2>4, <2>5, <2>6, <2>7 DEF m, at
<1>7. CASE m.kind = at
  <2>1. After = TimedOut(server)
    BY <1>2, <1>7 DEF Handled, at
  <2>2. /\ ~server.startQueryResponseTimeout =>
              After.queryResponseTimeout /\ After.response = <<>> /\ ~After.startQueryResponseTimeout
        /\ server.startQueryResponseTimeout =>
              /\ (After.queryResponseTimeout <=> server.queryResponseTimeout)
              /\ After.response = server.response /\ ~After.startQueryResponseTimeout
    BY <1>2, <2>1, TimedOutIs
  <2>3. /\ ~Has(inbox, at)' /\ answerTimer = Off /\ ~server.queryResponseTimeout
        /\ answerTimer' = IF server.startQueryResponseTimeout THEN AnswerDelay ELSE answerTimer
    BY <1>2, <1>3, <1>4, <1>7 DEF Rearmed, at
  <2>4. AnswerTimerInv'
    <3>1. CASE server.startQueryResponseTimeout
      BY <1>1, <1>3, <1>4, <1>5, <2>2, <2>3, <3>1 DEF AnswerTimerInv, at
    <3>2. CASE ~server.startQueryResponseTimeout
      BY <1>1, <1>3, <1>4, <2>2, <2>3, <3>2 DEF AnswerTimerInv, at
    <3> QED BY <3>1, <3>2
  <2> QED BY <1>1, <1>7, <2>2, <2>3, <2>4 DEF m, at
<1>8. CASE m.kind \notin {"byte", at}
  <2>1. After = Known(server, m)
    BY <1>2, <1>8 DEF Handled, at
  <2>2. /\ After.response = server.response
        /\ (After.queryResponseTimeout <=> server.queryResponseTimeout)
        /\ (After.startQueryResponseTimeout <=> server.startQueryResponseTimeout)
    BY <1>2, <1>8, <2>1, KnownIs DEF at
  <2>3. answerTimer' = answerTimer
    BY <1>2, <1>8 DEF Rearmed, at
  <2>4. AnswerTimerInv'
    BY <1>1, <1>3, <1>4, <1>8, <2>2, <2>3 DEF AnswerTimerInv, at
  <2> QED BY <1>1, <1>3, <1>8, <2>2, <2>3, <2>4 DEF m, at
<1> QED BY <1>6, <1>7, <1>8 DEF m, at

\* A turn and the answer of which no byte was lost.
LEMMA TurnWhole ==
  ASSUME TypeInv, PlaceInv, Whole, Serve
  PROVE  /\ Whole'
         /\ Head(inbox).kind = "byte" =>
              \/ Len(server.response) + 1 < Bytes
              \/ \A i \in 1 .. Bytes : Append(server.response, Head(inbox).byte)[i].pos = i - 1
<1> DEFINE m == Head(inbox)
           r == server.response
           n == Len(r)
<1>1. TypeInv /\ QueryInv /\ ByteInv /\ AnswerTimerInv
  BY DEF PlaceInv
<1>2. /\ r \in Seq(Received) /\ n \in Nat /\ n < Bytes /\ (r = <<>> <=> n = 0)
      /\ \A i \in 1 .. n : r[i].pos = i - 1
      /\ IF Flying THEN box.pos = n + 1 ELSE box.pos = n \/ (r = <<>> /\ box.pos = Bytes)
      /\ r # <<>> /\ ~server.startQueryResponseTimeout => ~Has(inbox, "answer_timeout") /\ Left + n + F > Bytes
  BY EmptySeq DEF Whole, TypeInv, ServerState
<1>3. box' = box
  BY <1>1, TurnLine
<1>4. CASE m.kind = "byte"
  <2> DEFINE a == Append(r, m.byte)
  <2>1. Flying /\ ~Flying' /\ F = 1 /\ F' = 0 /\ m.byte.pos = box.pos - 1
    BY <1>1, <1>4, TurnLine
  <2>2. /\ answerTimer' = IF r = <<>> /\ server.queryResponseTimeout THEN AnswerDelay ELSE answerTimer
        /\ server'.response = IF n + 1 < Bytes THEN a ELSE <<>>
        /\ server'.startQueryResponseTimeout <=>
             (server.startQueryResponseTimeout \/ (r = <<>> /\ ~server.queryResponseTimeout))
        /\ (Has(inbox, "answer_timeout") <=> Has(inbox, "answer_timeout")')
    BY <1>1, <1>4, TurnAnswerTimer
  <2>3. /\ Len(a) = n + 1 /\ a # <<>> /\ a[n + 1] = m.byte /\ \A i \in 1 .. n : a[i] = r[i]
    BY <1>2
  <2>4. m.byte.pos = n /\ box.pos = n + 1
    BY <1>2, <2>1
  <2> HIDE DEF a, m, n
  <2>5. \A i \in 1 .. n + 1 : a[i].pos = i - 1
    <3>1. \A i \in 1 .. n + 1 : i \in 1 .. n \/ i = n + 1
      BY <1>2
    <3>2. n + 1 - 1 = n
      BY <1>2
    <3>3. \A i \in 1 .. n : a[i].pos = i - 1
      BY <1>2, <2>3 DEF n
    <3>4. a[n + 1].pos = n + 1 - 1
      BY <2>3, <2>4, <3>2
    <3>5. ASSUME NEW i \in 1 .. n + 1 PROVE a[i].pos = i - 1
      <4>1. CASE i = n + 1
        BY <1>2, <3>4, <4>1 DEF n
      <4>2. CASE i # n + 1
        BY <3>1, <3>3, <4>2
      <4> QED BY <4>1, <4>2
    <3> QED BY <3>5
  <2>6. CASE n + 1 < Bytes
    <3>1. server'.response = a /\ Len(server'.response) = n + 1
      BY <2>2, <2>3, <2>6
    <3>2. ASSUME ~server'.startQueryResponseTimeout
          PROVE  ~Has(inbox, "answer_timeout")' /\ Left' + (n + 1) + 0 > Bytes
      <4>1. CASE r = <<>>
        <5>1. server.queryResponseTimeout /\ answerTimer' = AnswerDelay
          BY <2>2, <3>2, <4>1
        <5>2. Left' = AnswerDelay
          BY <5>1, Numbers DEF Left
        <5>3. ~Has(inbox, "answer_timeout")
          BY <5>1 DEF PlaceInv, AnswerTimerInv
        <5> QED BY <1>2, <2>2, <5>2, <5>3, Numbers
      <4>2. CASE r # <<>>
        <5>1. answerTimer' = answerTimer /\ ~server.startQueryResponseTimeout /\ Left' = Left
          BY <2>2, <3>2, <4>2 DEF Left
        <5>2. ~Has(inbox, "answer_timeout") /\ Left + n + 1 > Bytes
          BY <1>2, <2>1, <4>2, <5>1
        <5>3. Left \in Nat
          BY Numbers DEF Left, TypeInv
        <5> QED BY <1>2, <2>2, <5>1, <5>2, <5>3, Numbers
      <4> QED BY <4>1, <4>2
    <3>3. Whole'
      BY <1>3, <2>1, <2>4, <2>5, <2>6, <3>1, <3>2 DEF Whole
    <3> QED BY <2>6, <3>3 DEF m, n
  <2>7. CASE ~(n + 1 < Bytes)
    <3>1. n + 1 = Bytes /\ server'.response = <<>> /\ box'.pos = Bytes
      BY <1>2, <1>3, <2>2, <2>4, <2>7, Numbers
    <3>2. Len(server'.response) = 0
      BY <3>1
    <3>3. Whole'
      BY <2>1, <3>1, <3>2, Numbers DEF Whole
    <3>4. \A i \in 1 .. Bytes : a[i].pos = i - 1
      BY <2>5, <3>1
    <3> QED BY <3>3, <3>4 DEF m, n, a
  <2> QED BY <2>6, <2>7
<1>5. CASE m.kind = "answer_timeout"
  <2>1. (Flying' <=> Flying) /\ F' = F
    BY <1>1, <1>5, TurnLine
  <2>2. /\ ~server'.startQueryResponseTimeout /\ ~Has(inbox, "answer_timeout")'
        /\ IF server.startQueryResponseTimeout THEN server'.response = r /\ answerTimer' = AnswerDelay
           ELSE server'.response = <<>>
    BY <1>1, <1>5, TurnAnswerTimer
  <2>3. Has(inbox, "answer_timeout")
    BY <1>5, TurnInbox
  <2>4. ~server.startQueryResponseTimeout => r = <<>>
    BY <1>2, <2>3
  <2>5. server'.response = r
    BY <2>2, <2>4
  <2> HIDE DEF r, n
  <2>6. r # <<>> => Left' + n + F' > Bytes
    <3>1. r # <<>> => Left' = AnswerDelay /\ n >= 1
      BY <1>2, <2>2, <2>4, Numbers DEF Left
    <3>2. F' \in {0, 1}
      BY <2>1 DEF F
    <3>3. Bytes <= AnswerDelay /\ Bytes \in Nat /\ AnswerDelay \in Nat /\ n \in Nat
      BY <1>2, Numbers DEF n, r
    <3>4. ASSUME NEW f \in {0, 1} PROVE n >= 1 => AnswerDelay + n + f > Bytes
      BY <3>3
    <3>5. ASSUME r # <<>> PROVE Left' + n + F' > Bytes
      BY <3>1, <3>2, <3>4, <3>5
    <3> QED BY <3>5
  <2> QED BY <1>2, <1>3, <1>5, <2>1, <2>2, <2>5, <2>6 DEF Whole, n, r
<1>6. CASE m.kind \notin {"byte", "answer_timeout"}
  <2>1. (Flying' <=> Flying) /\ F' = F
    BY <1>1, <1>6, TurnLine
  <2>2. /\ answerTimer' = answerTimer /\ server'.response = r
        /\ (server'.startQueryResponseTimeout <=> server.startQueryResponseTimeout)
        /\ (Has(inbox, "answer_timeout") <=> Has(inbox, "answer_timeout")')
    BY <1>1, <1>6, TurnAnswerTimer
  <2>3. Left' = Left
    BY <2>2 DEF Left
  <2> QED BY <1>3, <1>6, <2>1, <2>2, <2>3 DEF Whole
<1> QED BY <1>4, <1>5, <1>6

\* A collected answer of which the query time is over is too short.
LEMMA CurrentShort ==
  ASSUME NEW r \in Seq(Received), r # <<>>, NEW f \in {0, 1}, NEW left \in Nat,
         NEW sent \in 0 .. Bytes, Current(r, f, QueryDelay, left, sent)
  PROVE  Short(Len(r), f, left)
<1>1. Len(r) \in Nat \ {0} /\ 1 \in 1 .. Len(r)
  <2>1. Len(r) \in Nat \ {0}
    BY EmptySeq
  <2> QED BY <2>1
<1>2. r[1].pos \in Int
  <2>1. r[1] \in Received
    BY <1>1, ElementOfSeq
  <2> QED BY <2>1, Numbers DEF Received, Sensors
<1>3. /\ QueryDelay + left <= AnswerDelay + Latency + 1 + r[1].pos
      /\ r[1].pos + (Len(r) - 1) + f < sent
  BY <1>1 DEF Current
<1>4. left < r[1].pos
  BY <1>2, <1>3, Numbers
<1>5. Len(r) + f + left < Bytes
  BY <1>1, <1>2, <1>3, <1>4, Numbers
<1> QED BY <1>5 DEF Short

\* An answer that is in order and complete has every byte in its place.
LEMMA CurrentPlaced ==
  ASSUME NEW r \in Seq(Received), NEW left, NEW clock, NEW sent \in 0 .. Bytes,
         Len(r) = Bytes, Current(r, 0, clock, left, sent)
  PROVE  /\ \A i \in 1 .. Bytes : r[i].pos = i - 1
         /\ sent = Bytes
         /\ clock + left <= AnswerDelay + Latency + 1 + 0
<1>1. \A i \in 1 .. Bytes : r[i].pos \in Int
  <2>1. \A i \in 1 .. Bytes : r[i] \in Received
    BY ElementOfSeq
  <2> QED BY <2>1, Numbers DEF Received, Sensors
<1>2. /\ clock + left <= AnswerDelay + Latency + 1 + r[1].pos
      /\ r[1].pos >= 0
      /\ \A i \in 1 .. Bytes : r[1].pos + (i - 1) <= r[i].pos /\ r[i].pos + (Bytes - i) + 0 < sent
  BY DEF Current
<1>3. 1 \in 1 .. Bytes /\ Bytes \in 1 .. Bytes
  BY Numbers
<1> DEFINE p == r[1].pos
<1>4. p \in Int
  BY <1>1, <1>3
<1>5. ASSUME NEW i \in 1 .. Bytes
      PROVE  /\ p <= 0 /\ r[i].pos <= i - 1 /\ i - 1 <= r[i].pos - p /\ sent >= Bytes
  <2> DEFINE q == r[i].pos
             l == r[Bytes].pos
  <2>1. q \in Int /\ l \in Int /\ i \in Int /\ sent \in Int /\ sent <= Bytes /\ Bytes \in Int
    BY <1>1, <1>3, Numbers
  <2>2. /\ p + (i - 1) <= q /\ q + (Bytes - i) + 0 < sent
        /\ p + (Bytes - 1) <= l /\ l + (Bytes - Bytes) + 0 < sent /\ p >= 0
    BY <1>2, <1>3
  <2> HIDE DEF q, l, p
  <2>3. p <= 0 /\ q <= i - 1 /\ i - 1 <= q - p /\ sent >= Bytes
    BY <1>4, <2>1, <2>2
  <2> QED BY <2>3 DEF q
<1>6. p = 0
  <2>1. p >= 0 /\ p <= 0
    BY <1>2, <1>3, <1>5
  <2> HIDE DEF p
  <2> QED BY <1>4, <2>1
<1>7. sent = Bytes
  BY <1>3, <1>5, Numbers
<1>8. \A i \in 1 .. Bytes : r[i].pos = i - 1
  <2> HIDE DEF p
  <2> QED BY <1>1, <1>5, <1>6
<1> QED BY <1>2, <1>6, <1>7, <1>8

LEMMA CurrentLength ==
  ASSUME NEW r \in Seq(Received), r # <<>>, NEW left, NEW clock, NEW sent \in 0 .. Bytes,
         Current(r, 0, clock, left, sent)
  PROVE  Len(r) <= Bytes
<1>1. Len(r) \in Nat \ {0} /\ 1 \in 1 .. Len(r) /\ Len(r) \in 1 .. Len(r)
  <2>1. Len(r) \in Nat \ {0}
    BY EmptySeq
  <2> QED BY <2>1
<1>2. r[1].pos \in Int /\ r[Len(r)].pos \in Int
  <2>1. r[1] \in Received /\ r[Len(r)] \in Received
    BY <1>1, ElementOfSeq
  <2> QED BY <2>1, Numbers DEF Received, Sensors
<1>3. /\ r[1].pos >= 0 /\ r[1].pos + (Len(r) - 1) <= r[Len(r)].pos
      /\ r[Len(r)].pos + (Len(r) - Len(r)) + 0 < sent
  BY <1>1 DEF Current
<1> QED BY <1>1, <1>2, <1>3, Numbers

\* The next byte of the answer on the line, and its first byte.
LEMMA CurrentGrows ==
  ASSUME NEW r \in Seq(Received), r # <<>>, NEW byte \in Received, NEW clock, NEW left,
         NEW sent \in 0 .. Bytes, byte.pos = sent - 1, Current(r, 1, clock, left, sent)
  PROVE  Current(Append(r, byte), 0, clock, left, sent)
<1> DEFINE a == Append(r, byte)
           n == Len(r)
<1>1. /\ n \in Nat \ {0} /\ Len(a) = n + 1 /\ a[n + 1] = byte
      /\ \A i \in 1 .. n : a[i] = r[i]
  <2>1. n \in Nat \ {0}
    BY EmptySeq
  <2> QED BY <2>1
<1>2. \A i \in 1 .. n : r[i].pos \in Int
  <2>1. \A i \in 1 .. n : r[i] \in Received
    BY ElementOfSeq
  <2> QED BY <2>1, Numbers DEF Received, Sensors
<1>3. /\ clock + left <= AnswerDelay + Latency + 1 + r[1].pos
      /\ r[1].pos >= 0
      /\ \A i \in 1 .. n : r[1].pos + (i - 1) <= r[i].pos /\ r[i].pos + (n - i) + 1 < sent
  BY DEF Current
<1> HIDE DEF a, n
<1>4. 1 \in 1 .. n /\ n \in 1 .. n /\ a[1] = r[1]
  BY <1>1
<1>5. r[1].pos + n <= byte.pos
  <2>1. r[1].pos + (n - 1) <= r[n].pos /\ r[n].pos + (n - n) + 1 < sent
    BY <1>3, <1>4
  <2>2. r[1].pos \in Int /\ r[n].pos \in Int /\ sent \in Int
    BY <1>2, <1>4, Numbers
  <2> DEFINE p == r[1].pos
             q == r[n].pos
             l == byte.pos
  <2>3. p \in Int /\ q \in Int /\ sent \in Int /\ p + (n - 1) <= q /\ q + (n - n) + 1 < sent /\ l = sent - 1
    BY <2>1, <2>2
  <2> HIDE DEF p, q, l
  <2>4. p + n <= l
    BY <1>1, <2>3
  <2> QED BY <2>4 DEF p, l
<1>6. ASSUME NEW i \in 1 .. n + 1
      PROVE  a[1].pos + (i - 1) <= a[i].pos /\ a[i].pos + (n + 1 - i) + 0 < sent
  <2>1. CASE i = n + 1
    <3>1. a[i] = byte /\ i - 1 = n /\ n + 1 - i = 0 /\ sent \in Int
      BY <1>1, <2>1, Numbers
    <3>2. byte.pos + 0 + 0 < sent
      BY <3>1
    <3> QED BY <1>4, <1>5, <3>1, <3>2
  <2>2. CASE i # n + 1
    <3>1. i \in 1 .. n /\ a[i] = r[i] /\ i \in Int
      BY <1>1, <2>2
    <3>2. r[1].pos + (i - 1) <= r[i].pos /\ r[i].pos + (n - i) + 1 < sent
      BY <1>3, <3>1
    <3>3. r[i].pos \in Int /\ sent \in Int
      BY <1>2, <3>1, Numbers
    <3>4. r[i].pos + (n + 1 - i) + 0 < sent
      BY <1>1, <3>1, <3>2, <3>3
    <3> QED BY <1>4, <3>1, <3>2, <3>4
  <2> QED BY <2>1, <2>2
<1>7. Current(a, 0, clock, left, sent)
  BY <1>1, <1>3, <1>4, <1>6 DEF Current
<1> QED BY <1>7 DEF a

LEMMA CurrentStarts ==
  ASSUME NEW byte \in Received, NEW clock \in Nat, NEW sent \in 1 .. Bytes, byte.pos = sent - 1,
         clock - sent <= Latency
  PROVE  Current(Append(<<>>, byte), 0, clock, AnswerDelay, sent)
<1> DEFINE a == Append(<<>>, byte)
<1>1. Len(a) = 1 /\ a[1] = byte
  OBVIOUS
<1> HIDE DEF a
<1>2. clock + AnswerDelay <= AnswerDelay + Latency + 1 + byte.pos /\ byte.pos >= 0
  BY Numbers
<1>3. byte.pos + (1 - 1) <= byte.pos /\ byte.pos + (1 - 1) + 0 < sent
  BY Numbers
<1>4. Current(a, 0, clock, AnswerDelay, sent)
  BY <1>1, <1>2, <1>3 DEF Current
<1> QED BY <1>4 DEF a

\* The answer with the byte of a turn.
LEMMA ByteAnswer ==
  ASSUME TypeInv, PlaceInv, OnTime, Serve, Head(inbox).kind = "byte"
  PROVE  LET a == Append(server.response, Head(inbox).byte) IN
         /\ a \in Seq(Received) /\ a # <<>> /\ Len(a) = Len(server.response) + 1
         /\ ~asking' /\ ~Flying' /\ Clock' = Clock /\ Left' \in Nat /\ box' = box
         /\ box.pos \in 0 .. Bytes /\ box.queries = 0 /\ F' = 0 /\ ~server'.startQueryResponseTimeout
         /\ Short(Len(a), 0, Left') \/ Current(a, 0, Clock, Left', box.pos)
<1> DEFINE r == server.response
           byte == Head(inbox).byte
           a == Append(r, byte)
<1>1. /\ r \in Seq(Received) /\ byte \in Received /\ box.pos \in 0 .. Bytes
  <2>1. Head(inbox) \in Messages
    BY TurnIs
  <2>2. byte \in Received
    BY <2>1, MessageParts
  <2> QED BY <2>2, Numbers DEF TypeInv, ServerState
<1>2. a \in Seq(Received) /\ a # <<>> /\ Len(a) = Len(r) + 1 /\ Len(r) \in Nat
  BY <1>1
<1>3. /\ Flying /\ ~Flying' /\ F = 1 /\ F' = 0 /\ byte.pos = box.pos - 1
      /\ Clock \in Nat /\ Clock' = (IF AsksNow THEN 0 ELSE Clock)
      /\ (asking' <=> asking \/ AsksNow) /\ box' = box /\ ~AsksNow
  BY TurnLine DEF PlaceInv, OnTime
<1>4. box.pos > 0 /\ ~asking /\ box.queries = 0 /\ Clock - box.pos <= Latency
  BY <1>3 DEF PlaceInv, ByteInv, OnTime, LineInv
<1>5. ~asking'
  BY <1>3, <1>4
<1>6. /\ r = <<>> => server.queryResponseTimeout
      /\ ~server.startQueryResponseTimeout
  BY <1>3 DEF OnTime, AnswerInv
<1>7. /\ Left' \in Nat /\ (r = <<>> => Left' = AnswerDelay) /\ (r # <<>> => Left' = Left)
      /\ ~server'.startQueryResponseTimeout
  <2>1. /\ answerTimer' = IF r = <<>> THEN AnswerDelay ELSE answerTimer
        /\ ~server'.startQueryResponseTimeout
    BY <1>6, TurnAnswerTimer DEF PlaceInv
  <2> QED BY <2>1, Numbers DEF Left, TypeInv
<1>8. CASE r = <<>>
  <2>1. box.pos \in 1 .. Bytes
    BY <1>1, <1>4
  <2>2. Current(Append(<<>>, byte), 0, Clock, AnswerDelay, box.pos)
    BY <1>1, <1>3, <1>4, <2>1, CurrentStarts
  <2> QED BY <1>1, <1>2, <1>3, <1>4, <1>5, <1>7, <1>8, <2>2
<1>9. CASE r # <<>>
  <2>1. Short(Len(r), 1, Left) \/ Current(r, 1, Clock, Left, box.pos)
    BY <1>3, <1>9 DEF OnTime, AnswerInv
  <2>2. ASSUME Short(Len(r), 1, Left) PROVE Short(Len(a), 0, Left')
    BY <1>2, <1>7, <1>9, <2>2, Numbers DEF Short
  <2>3. ASSUME Current(r, 1, Clock, Left, box.pos) PROVE Current(a, 0, Clock, Left', box.pos)
    BY <1>1, <1>3, <1>7, <1>9, <2>3, CurrentGrows
  <2>4. Short(Len(a), 0, Left') \/ Current(a, 0, Clock, Left', box.pos)
    BY <2>1, <2>2, <2>3
  <2> HIDE DEF a
  <2> QED BY <1>1, <1>2, <1>3, <1>4, <1>5, <1>7, <2>4 DEF a
<1> QED BY <1>8, <1>9

LEMMA TurnAnswer ==
  ASSUME TypeInv, PlaceInv, OnTime, Serve
  PROVE  AnswerInv'
<1> DEFINE m == Head(inbox)
           r == server.response
<1>1. CASE m.kind = "byte"
  <2> DEFINE a == Append(r, m.byte)
  <2>1. /\ a \in Seq(Received) /\ a # <<>> /\ Len(a) = Len(r) + 1
        /\ ~asking' /\ ~Flying' /\ Clock' = Clock /\ Left' \in Nat /\ box' = box
        /\ box.pos \in 0 .. Bytes /\ box.queries = 0 /\ F' = 0 /\ ~server'.startQueryResponseTimeout
        /\ Short(Len(a), 0, Left') \/ Current(a, 0, Clock, Left', box.pos)
    BY <1>1, ByteAnswer
  <2>2. /\ server'.response = IF Len(r) + 1 < Bytes THEN a ELSE <<>>
        /\ ~server'.queryResponseTimeout
    BY <1>1, TurnAnswerTimer DEF PlaceInv
  <2> HIDE DEF a, r
  <2>3. CASE Len(a) < Bytes
    BY <2>1, <2>2, <2>3 DEF AnswerInv
  <2>4. CASE ~(Len(a) < Bytes)
    <3>1. Len(a) \in Nat
      BY <2>1, LenProperties
    <3>2. Current(a, 0, Clock, Left', box.pos)
      BY <2>1, <2>4, <3>1, Numbers DEF Short
    <3>3. Len(a) <= Bytes
      BY <2>1, <3>2, CurrentLength
    <3>4. Len(a) = Bytes
      BY <2>4, <3>1, <3>3, Numbers
    <3>5. box.pos = Bytes /\ Clock + Left' <= AnswerDelay + Latency + 1 + 0
      BY <2>1, <3>2, <3>4, CurrentPlaced
    <3> QED BY <2>1, <2>2, <2>4, <3>5, Numbers DEF AnswerInv
  <2> QED BY <2>3, <2>4
<1>2. CASE m.kind = "answer_timeout"
  <2>1. /\ server'.queryResponseTimeout /\ server'.response = <<>>
        /\ ~server'.startQueryResponseTimeout
    BY <1>2, TurnAnswerTimer DEF PlaceInv, OnTime, AnswerInv
  <2> QED BY <2>1 DEF AnswerInv
<1>3. CASE m.kind \notin {"byte", "answer_timeout"}
  <2>1. /\ answerTimer' = answerTimer /\ server'.response = r
        /\ (server'.queryResponseTimeout <=> server.queryResponseTimeout)
        /\ (server'.startQueryResponseTimeout <=> server.startQueryResponseTimeout)
        /\ (Has(inbox, "answer_timeout") <=> Has(inbox, "answer_timeout")')
    BY <1>3, TurnAnswerTimer DEF PlaceInv
  <2>2. /\ Clock \in Nat /\ Clock' = (IF AsksNow THEN 0 ELSE Clock)
        /\ AsksNow => Clock = QueryDelay /\ box.pos = Bytes /\ box.queries = 0 /\ ~Flying
        /\ (Flying' <=> Flying) /\ F' = F
        /\ box' = box /\ (asking' <=> asking \/ AsksNow)
    BY <1>3, TurnLine DEF PlaceInv, OnTime
  <2>3. Left' = Left
    BY <2>1 DEF Left
  <2>4. Left \in Nat /\ r \in Seq(Received) /\ box.pos \in 0 .. Bytes
    BY Numbers DEF Left, TypeInv, ServerState
  <2>5. ASSUME r = <<>>, ~server.queryResponseTimeout
        PROVE  /\ box'.pos = Bytes /\ box'.queries = 0 /\ ~Flying'
               /\ Has(inbox, "answer_timeout")'
                    \/ (~asking' /\ Clock' + Left' <= AnswerDelay + Latency + 1)
    <3>1. /\ box.pos = Bytes /\ box.queries = 0 /\ ~Flying
          /\ Has(inbox, "answer_timeout") \/ (~asking /\ Clock + Left <= AnswerDelay + Latency + 1)
      BY <2>5 DEF OnTime, AnswerInv
    <3>2. CASE Has(inbox, "answer_timeout")
      BY <2>1, <2>2, <2>3, <3>1, <3>2
    <3>3. CASE ~asking /\ Clock + Left <= AnswerDelay + Latency + 1
      <4>1. ~AsksNow
        BY <2>2, <2>4, <3>3, Numbers
      <4> QED BY <2>1, <2>2, <2>3, <3>1, <3>3, <4>1
    <3> QED BY <3>1, <3>2, <3>3
  <2>6. ASSUME r # <<>>
        PROVE  \/ Short(Len(r), F', Left')
               \/ ~asking' /\ box'.queries = 0 /\ Current(r, F', Clock', Left', box'.pos)
    <3>1. Short(Len(r), F, Left) \/ (~asking /\ box.queries = 0 /\ Current(r, F, Clock, Left, box.pos))
      BY <2>6 DEF OnTime, AnswerInv
    <3>2. F \in {0, 1}
      BY DEF F
    <3> HIDE DEF r
    <3>3. CASE Short(Len(r), F, Left)
      BY <2>2, <2>3, <3>3
    <3>4. CASE ~Short(Len(r), F, Left)
      <4>1. ~asking /\ box.queries = 0 /\ Current(r, F, Clock, Left, box.pos)
        BY <3>1, <3>4
      <4>2. Clock # QueryDelay
        BY <2>4, <2>6, <3>2, <3>4, <4>1, CurrentShort
      <4>3. ~AsksNow
        BY <2>2, <4>2
      <4> QED BY <2>2, <2>3, <4>1, <4>3
    <3> QED BY <3>3, <3>4
  <2>7. ~server.startQueryResponseTimeout
    BY DEF OnTime, AnswerInv
  <2> QED BY <2>1, <2>5, <2>6, <2>7 DEF AnswerInv
<1> QED BY <1>1, <1>2, <1>3

LEMMA TurnReports ==
  ASSUME TypeInv, PlaceInv, OnTime \/ Whole, ReportsInv, Serve
  PROVE  ReportsInv'
<1> DEFINE m == Head(inbox)
<1>1. /\ server \in ServerState /\ m \in Messages /\ After = Handled(server, m)
      /\ After \in ServerState /\ InList(After) /\ Told(After) \in ServerState
      /\ server' = Asked(Told(After))
  BY TurnIs DEF TypeInv, After
<1>2. AllTrue(server.buffer)
  BY DEF ReportsInv
<1>3. AllTrue(After.buffer)
  <2>1. CASE m.kind = "byte"
    <3> DEFINE a == Append(server.response, m.byte)
    <3>1. m.byte \in Received /\ After = Byte(server, m.byte)
      BY <1>1, <2>1, MessageParts DEF Handled
    <3> DEFINE Good == \/ Len(server.response) + 1 < Bytes
                       \/ \A i \in 1 .. Bytes : a[i].pos = i - 1
    <3>2. ASSUME Whole PROVE Good
      BY <2>1, <3>2, TurnWhole
    <3>3. ASSUME OnTime PROVE Good
      <4>1. /\ a \in Seq(Received) /\ a # <<>> /\ Len(a) = Len(server.response) + 1
            /\ Left' \in Nat /\ box.pos \in 0 .. Bytes
            /\ Short(Len(a), 0, Left') \/ Current(a, 0, Clock, Left', box.pos)
        BY <2>1, <3>3, ByteAnswer
      <4> HIDE DEF a
      <4>2. Len(a) \in Nat
        BY <4>1, LenProperties
      <4>3. CASE Len(a) < Bytes
        BY <4>1, <4>3
      <4>4. CASE ~(Len(a) < Bytes)
        <5>1. Current(a, 0, Clock, Left', box.pos)
          BY <4>1, <4>2, <4>4, Numbers DEF Short
        <5>2. Len(a) <= Bytes
          BY <4>1, <5>1, CurrentLength
        <5>3. Len(a) = Bytes
          BY <4>2, <4>4, <5>2, Numbers
        <5>4. \A i \in 1 .. Bytes : a[i].pos = i - 1
          BY <4>1, <5>1, <5>3, CurrentPlaced
        <5> QED BY <5>4
      <4> QED BY <4>3, <4>4
    <3>4. AllTrue(Byte(server, m.byte).buffer)
      <4>1. Good
        BY <3>2, <3>3
      <4> QED BY <1>1, <1>2, <3>1, <4>1, ByteIs
    <3> QED BY <3>1, <3>4
  <2>2. CASE m.kind = "answer_timeout"
    <3>1. After = TimedOut(server)
      BY <1>1, <2>2 DEF Handled
    <3> QED BY <1>1, <1>2, <3>1, TimedOutIs
  <2>3. CASE m.kind \notin {"byte", "answer_timeout"}
    <3>1. After = Known(server, m)
      BY <1>1, <2>3 DEF Handled
    <3> QED BY <1>1, <1>2, <2>3, <3>1, KnownIs
  <2> QED BY <2>1, <2>2, <2>3
<1>4. AllTrue(server'.buffer)
  <2>1. AllTrue(Told(After).buffer)
    BY <1>1, <1>3, ToldIs
  <2>2. Asked(Told(After)).buffer = Told(After).buffer
    BY <1>1, AskedIs
  <2> QED BY <1>1, <2>1, <2>2
<1>5. \A i \in DOMAIN courier'.work : courier'.work[i].report.pos = courier'.work[i].report.sensor
  <2>1. CASE courier' = courier
    BY <2>1 DEF ReportsInv
  <2>2. CASE courier' = Waiting
    BY <2>2 DEF Waiting
  <2>3. CASE courier' # courier /\ courier' # Waiting
    <3> DEFINE w == [to |-> After.subscriber[After.update], report |-> Head(After.buffer)]
    <3>1. Telling(After) /\ courier' = [at |-> "watcher", work |-> <<w>>]
      BY <2>3, TurnIs
    <3>2. After.buffer \in Seq(Report) /\ After.buffer # <<>>
      BY <1>1, <3>1 DEF Telling, ServerState
    <3>3. 1 \in DOMAIN After.buffer /\ Head(After.buffer) = After.buffer[1]
      BY <3>2
    <3>4. w.report.pos = w.report.sensor
      BY <1>3, <3>3 DEF AllTrue
    <3> HIDE DEF w
    <3>5. DOMAIN courier'.work = {1} /\ courier'.work[1] = w
      BY <3>1
    <3> QED BY <3>4, <3>5
  <2> QED BY <2>1, <2>2, <2>3
<1> QED BY <1>4, <1>5 DEF ReportsInv

-----------------------------------------------------------------------------
(* The first theorem.                                                      *)

\* What makes the reports true, with the types.
AnswersInv ==
    /\ TypeInv
    /\ PlaceInv
    /\ late \/ OnTime
    /\ lost \/ Whole
    /\ (late /\ lost) \/ ReportsInv

LEMMA InitAnswers ==
  ASSUME MaxStale = 0, Init
  PROVE  AnswersInv
<1>1. TypeInv
  BY InitTypes
<1>2. rx = <<>> /\ Len(rx) = 0 /\ DOMAIN rx = {}
  <2>1. PICK n \in 0 .. MaxStale : rx = [i \in 1 .. n |-> Stale]
    BY DEF Init
  <2>2. n = 0
    BY Numbers
  <2>3. rx \in Seq(Received) /\ Len(rx) = 0
    BY <1>1, <2>1, <2>2 DEF TypeInv
  <2>4. rx = <<>>
    BY <2>3, EmptySeq
  <2> QED BY <2>4
<1>3. /\ DOMAIN inbox = 1 .. 4 /\ inbox[1].kind = "query_worker" /\ inbox[2].kind = "query_timeout"
      /\ inbox[3].kind = "answer_timeout" /\ inbox[4].kind = "courier"
  BY DEF Init, Message
<1>4. /\ ~Has(inbox, "byte") /\ Has(inbox, "query_timeout") /\ Has(inbox, "answer_timeout")
      /\ Once(inbox, "byte") /\ Once(inbox, "query_timeout") /\ Once(inbox, "answer_timeout")
      /\ \A i \in DOMAIN inbox : inbox[i].kind # "byte"
  <2>1. \A i \in 1 .. 4 : i = 1 \/ i = 2 \/ i = 3 \/ i = 4
    OBVIOUS
  <2>2. {1, 2, 3, 4} \subseteq 1 .. 4
    OBVIOUS
  <2> QED BY <1>3, <2>1, <2>2 DEF Has, Once
<1>5. /\ box = Idle /\ queryTimer = Off /\ answerTimer = Off /\ ~asking
      /\ ~server.queryTimeout /\ ~server.queryResponseTimeout /\ ~server.startQueryResponseTimeout
      /\ server.response = <<>> /\ server.buffer = <<>> /\ courier.work = <<>>
  BY DEF Init, Posting
<1>6. ~Flying /\ F = 0
  BY <1>2, <1>4 DEF Flying, F
<1>7. QueryInv
  BY <1>4, <1>5 DEF QueryInv
<1>8. ByteInv
  BY <1>2, <1>4, <1>6 DEF ByteInv
<1>9. AnswerTimerInv
  BY <1>4, <1>5 DEF AnswerTimerInv
<1>10. box.pos = Bytes /\ box.queries = 0 /\ box.wait = 0 /\ ~(box.pos < Bytes)
  BY <1>5, Numbers DEF Idle
<1>11. OnTime
  BY <1>4, <1>5, <1>6, <1>10 DEF OnTime, LineInv, AnswerInv
<1>12. Whole
  <2>1. Len(server.response) = 0
    BY <1>5
  <2> QED BY <1>5, <1>6, <1>10, <2>1, Numbers DEF Whole
<1>13. ReportsInv
  BY <1>5 DEF ReportsInv, AllTrue
<1> QED BY <1>1, <1>7, <1>8, <1>9, <1>11, <1>12, <1>13 DEF AnswersInv, PlaceInv

LEMMA NextAnswers == AnswersInv /\ [Next]_vars => AnswersInv'
<1> SUFFICES ASSUME AnswersInv, [Next]_vars PROVE AnswersInv'
  OBVIOUS
<1> DEFINE Ticks == QuietTick \/ \E loses \in BOOLEAN : ByteTick(loses)
           Still == UNCHANGED vars \/ Deliver \/ (\E s \in Subscriber : Watch(s)) \/ \E i \in Fake : FakeTrigger(i)
<1>1. /\ TypeInv /\ PlaceInv
      /\ late \/ OnTime
      /\ lost \/ Whole
      /\ (late /\ lost) \/ ReportsInv
  BY DEF AnswersInv
<1>2. Ticks \/ Workers \/ Serve \/ Still
  BY DEF Next
<1>3. TypeInv'
  BY <1>1, NextTypes
\* What was late stays late, and what is lost stays lost.
<1>4. (late => late') /\ (lost => lost') /\ (~Ticks => late' = late /\ lost' = lost)
  <2>1. CASE Ticks
    <3>1. CASE QuietTick
      BY <1>1, <3>1, QuietTickIs DEF TypeInv
    <3>2. CASE \E loses \in BOOLEAN : ByteTick(loses)
      <4>1. PICK loses \in BOOLEAN : ByteTick(loses)
        BY <3>2
      <4>2. late' = late /\ lost' = (lost \/ loses)
        BY <1>1, <4>1, ByteTickIs
      <4> QED BY <2>1, <4>2
    <3> QED BY <2>1, <3>1, <3>2
  <2>2. CASE ~Ticks
    <3>1. late' = late /\ lost' = lost
      BY <1>2, <2>2 DEF vars, Workers, Query, Response, QueryTimeout, ResponseTimeout, Serve,
                        Deliver, Watch, FakeTrigger
    <3> QED BY <2>2, <3>1
  <2> QED BY <2>1, <2>2
<1>5. PlaceInv'
  <2>1. CASE Ticks
    BY <1>1, <2>1, TickPlaces
  <2>2. CASE Workers
    BY <1>1, <2>2, QueryKeeps, ResponseKeeps, TimeoutsKeep DEF Workers
  <2>3. CASE Serve
    BY <1>1, <2>3, TurnQuery, TurnLine, TurnAnswerTimer DEF PlaceInv
  <2>4. CASE Still
    BY <1>1, <2>4, QuietSteps, QuietKeeps
  <2> QED BY <1>2, <2>1, <2>2, <2>3, <2>4
<1>6. ~late' => OnTime'
  <2> SUFFICES ASSUME ~late' PROVE OnTime'
    OBVIOUS
  <2>0. OnTime
    BY <1>1, <1>4
  <2>1. CASE Ticks
    BY <1>1, <2>0, <2>1, TickOnTime
  <2>2. CASE Workers
    BY <1>1, <2>0, <2>2, QueryKeeps, ResponseKeeps, TimeoutsKeep DEF Workers
  <2>3. CASE Serve
    <3>1. LineInv'
      BY <1>1, <2>0, <2>3, TurnLine DEF PlaceInv, OnTime
    <3>2. AnswerInv'
      BY <1>1, <2>0, <2>3, TurnAnswer
    <3> QED BY <3>1, <3>2 DEF OnTime
  <2>4. CASE Still
    BY <1>1, <2>0, <2>4, QuietSteps, QuietKeeps
  <2> QED BY <1>2, <2>1, <2>2, <2>3, <2>4
<1>7. ~lost' => Whole'
  <2> SUFFICES ASSUME ~lost' PROVE Whole'
    OBVIOUS
  <2>0. Whole
    BY <1>1, <1>4
  <2>1. CASE Ticks
    BY <1>1, <2>0, <2>1, TickWhole
  <2>2. CASE Workers
    BY <1>1, <2>0, <2>2, QueryKeeps, ResponseKeeps, TimeoutsKeep DEF Workers
  <2>3. CASE Serve
    BY <1>1, <2>0, <2>3, TurnWhole
  <2>4. CASE Still
    BY <1>1, <2>0, <2>4, QuietSteps, QuietKeeps
  <2> QED BY <1>2, <2>1, <2>2, <2>3, <2>4
<1>8. ~(late' /\ lost') => ReportsInv'
  <2> SUFFICES ASSUME ~(late' /\ lost') PROVE ReportsInv'
    OBVIOUS
  <2>0. ReportsInv /\ (OnTime \/ Whole)
    BY <1>1, <1>4
  <2>1. CASE Serve
    BY <1>1, <2>0, <2>1, TurnReports
  <2>2. CASE ~Serve
    <3>1. server' = server
      BY <2>2 DEF Next, vars, QuietTick, ByteTick, TimersElapse, Workers, Query, Response,
                  QueryTimeout, ResponseTimeout, Deliver, Watch, FakeTrigger
    <3>2. courier' = courier \/ courier' = Posting
      BY <2>2 DEF Next, vars, QuietTick, ByteTick, TimersElapse, Workers, Query, Response,
                  QueryTimeout, ResponseTimeout, Deliver, Watch, FakeTrigger
    <3> QED BY <2>0, <3>1, <3>2 DEF ReportsInv, Posting
  <2> QED BY <2>1, <2>2
<1>9. late' \in BOOLEAN /\ lost' \in BOOLEAN
  BY <1>3 DEF TypeInv
<1> QED BY <1>3, <1>5, <1>6, <1>7, <1>8, <1>9 DEF AnswersInv

\* A report names the sensor whose byte it was, unless an answer was late and a
\* byte was lost: with no bytes left over from before the start, an answer is
\* never completed with the bytes of the next one, whatever bytes the line
\* loses while the answers are on time, and however late they are while it
\* loses none.
THEOREM ReportsStayTrue ==
  ASSUME MaxStale = 0
  PROVE  Spec => []ReportsAreTrue
<1>1. Init => AnswersInv
  BY InitAnswers
<1>2. AnswersInv => ReportsAreTrue
  <2> SUFFICES ASSUME AnswersInv, ~(late /\ lost) PROVE ReportsAreTrue
    BY DEF ReportsAreTrue
  <2>1. /\ \A i \in DOMAIN server.buffer : server.buffer[i].pos = server.buffer[i].sensor
        /\ \A i \in DOMAIN courier.work : courier.work[i].report.pos = courier.work[i].report.sensor
    BY DEF AnswersInv, ReportsInv, AllTrue
  <2> QED BY <2>1 DEF ReportsAreTrue, ToSet
<1> QED BY <1>1, <1>2, NextAnswers, PTL DEF Spec

-----------------------------------------------------------------------------
(* Reports in order: the buffer.                                           *)

LEMMA NewerKeeps ==
  ASSUME NEW a \in ServerState, NEW b \in ServerState, Newer(a, b), SameList(a, b), Ordered(a)
  PROVE  /\ Ordered(b)
         /\ \A s, x : x \in Nat /\ Behind(a, s, x) => Behind(b, s, x)
<1> DEFINE p == a.buffer
           q == b.buffer
<1>1. p \in Seq(Report) /\ q \in Seq(Report) /\ a.number \in Nat /\ b.number \in Nat
  BY DEF ServerState
<1>2. /\ DOMAIN p = 1 .. Len(p) /\ DOMAIN q = 1 .. Len(q) /\ Len(p) \in Nat
      /\ \A i \in 1 .. Len(p) : p[i].number \in Nat
  <2>1. \A i \in 1 .. Len(p) : p[i] \in Report
    BY <1>1
  <2> QED BY <1>1, <2>1 DEF Report
<1>3. \/ Len(q) = Len(p) /\ q = p /\ b.number >= a.number
      \/ /\ Len(q) = Len(p) + 1 /\ (\A i \in 1 .. Len(p) : q[i] = p[i])
         /\ q[Len(p) + 1].number = b.number /\ b.number = a.number + 1
  <2>1. CASE q = p
    BY <1>1, <2>1 DEF Newer
  <2>2. CASE q # p
    <3> DEFINE l == q[Len(p) + 1]
    <3>1. b.number = a.number + 1 /\ q = Append(p, l) /\ l.number = b.number
      BY <2>2 DEF Newer
    <3> HIDE DEF l, p, q
    <3>2. Len(q) = Len(p) + 1 /\ \A i \in 1 .. Len(p) : q[i] = p[i]
      BY <1>1, <3>1
    <3> QED BY <3>1, <3>2 DEF l
  <2> QED BY <2>1, <2>2
<1>4. /\ \A i, j \in 1 .. Len(p) : i < j => p[i].number < p[j].number
      /\ \A i \in 1 .. Len(p) : p[i].number <= a.number
  BY <1>2 DEF Ordered
<1>5. ASSUME NEW s, NEW x \in Nat, Behind(a, s, x)
      PROVE  /\ x <= a.number
             /\ \A i \in 1 .. Len(p) : x <= p[i].number /\
                  (x = p[i].number => \E j \in DOMAIN b.subscriber : j < b.update /\ b.subscriber[j] = s)
  BY <1>2, <1>5 DEF Behind, SameList
<1> HIDE DEF p, q
<1>6. /\ \A i, j \in 1 .. Len(q) : i < j => q[i].number < q[j].number
      /\ \A i \in 1 .. Len(q) : q[i].number <= b.number
  <2>1. CASE Len(q) = Len(p) /\ q = p /\ b.number >= a.number
    BY <1>1, <1>2, <1>4, <2>1
  <2>2. CASE /\ Len(q) = Len(p) + 1 /\ (\A i \in 1 .. Len(p) : q[i] = p[i])
             /\ q[Len(p) + 1].number = b.number /\ b.number = a.number + 1
    <3>1. ASSUME NEW i \in 1 .. Len(q)
          PROVE  IF i <= Len(p) THEN i \in 1 .. Len(p) /\ q[i] = p[i] ELSE q[i].number = b.number
      BY <1>2, <2>2
    <3>2. ASSUME NEW i \in 1 .. Len(q), NEW j \in 1 .. Len(q), i < j
          PROVE  q[i].number < q[j].number
      <4>1. i <= Len(p) /\ i \in 1 .. Len(p) /\ q[i] = p[i]
        BY <1>2, <2>2, <3>1, <3>2
      <4>2. CASE j <= Len(p)
        BY <1>4, <3>1, <3>2, <4>1, <4>2
      <4>3. CASE ~(j <= Len(p))
        <5>1. q[j].number = a.number + 1 /\ p[i].number <= a.number /\ p[i].number \in Nat
          BY <1>2, <1>4, <2>2, <3>1, <4>1, <4>3
        <5> QED BY <1>1, <4>1, <5>1
      <4> QED BY <4>2, <4>3
    <3>3. ASSUME NEW i \in 1 .. Len(q) PROVE q[i].number <= b.number
      <4>1. CASE i <= Len(p)
        <5>1. q[i] = p[i] /\ p[i].number <= a.number /\ p[i].number \in Nat
          BY <1>2, <1>4, <3>1, <4>1
        <5> QED BY <1>1, <2>2, <5>1
      <4>2. CASE ~(i <= Len(p))
        BY <1>1, <3>1, <4>2
      <4> QED BY <4>1, <4>2
    <3> QED BY <3>2, <3>3
  <2> QED BY <1>3, <2>1, <2>2
<1>7. ASSUME NEW s, NEW x \in Nat, Behind(a, s, x)
      PROVE  /\ x <= b.number
             /\ \A i \in 1 .. Len(q) : x <= q[i].number /\
                  (x = q[i].number => \E j \in DOMAIN b.subscriber : j < b.update /\ b.subscriber[j] = s)
  <2> DEFINE Over == \E j \in DOMAIN b.subscriber : j < b.update /\ b.subscriber[j] = s
  <2>1. x <= a.number /\ \A i \in 1 .. Len(p) : x <= p[i].number /\ (x = p[i].number => Over)
    BY <1>5, <1>7
  <2> HIDE DEF Over
  <2>2. CASE Len(q) = Len(p) /\ q = p /\ b.number >= a.number
    BY <1>1, <2>1, <2>2 DEF Over
  <2>3. CASE /\ Len(q) = Len(p) + 1 /\ (\A i \in 1 .. Len(p) : q[i] = p[i])
             /\ q[Len(p) + 1].number = b.number /\ b.number = a.number + 1
    <3>1. x <= b.number /\ x # b.number
      BY <1>1, <2>1, <2>3
    <3>2. ASSUME NEW i \in 1 .. Len(q) PROVE x <= q[i].number /\ (x = q[i].number => Over)
      BY <1>2, <2>1, <2>3, <3>1
    <3> QED BY <3>1, <3>2 DEF Over
  <2> QED BY <1>3, <2>2, <2>3
<1> QED BY <1>2, <1>6, <1>7 DEF Ordered, Behind, p, q

\* Whatever a message adds to the buffer, it stays in order.
LEMMA ByteNewer ==
  ASSUME NEW sv \in ServerState, NEW byte \in Received, Ordered(sv)
  PROVE  LET r == Byte(sv, byte) IN
         /\ Ordered(r)
         /\ \A s, x : x \in Nat /\ Behind(sv, s, x) => Behind(r, s, x)
<1> DEFINE t == Started(sv, byte)
           a == Append(sv.response, byte)
           x0 == Processed(t, a)
           Onward == {y \in ServerState : /\ Ordered(y) /\ SameList(y, sv)
                                          /\ \A s, x : x \in Nat /\ Behind(sv, s, x) => Behind(y, s, x)}
<1>1. /\ t \in ServerState /\ SameList(t, sv) /\ t.response = a
      /\ t.buffer = sv.buffer /\ t.number = sv.number
      /\ Byte(sv, byte) = IF Len(sv.response) + 1 < Bytes THEN t ELSE Done(Processed(t, t.response))
  BY StartedIs DEF Done
<1>2. Len(sv.response) \in Nat /\ \A i \in 1 .. Len(sv.response) + 1 : a[i] \in Received
  <2>1. sv.response \in Seq(Received)
    BY DEF ServerState
  <2> QED BY <2>1
<1> HIDE DEF t, a
<1>3. t \in Onward
  BY <1>1 DEF Ordered, Behind, SameList
<1>4. CASE Len(sv.response) + 1 < Bytes
  BY <1>1, <1>3, <1>4
<1>5. CASE ~(Len(sv.response) + 1 < Bytes)
  <2>1. \A i \in 1 .. Bytes : i - 1 \in Sensors /\ i \in 1 .. Len(sv.response) + 1
    BY <1>2, <1>5, Numbers DEF Sensors
  <2>2. ASSUME NEW y \in Onward, NEW i \in 1 .. Bytes
        PROVE  sensorResponded(y, i - 1, a[i]) \in Onward
    <3> DEFINE z == sensorResponded(y, i - 1, a[i])
    <3>1. y \in ServerState /\ i - 1 \in Sensors /\ a[i] \in Received
      BY <1>2, <2>1
    <3>2. z \in ServerState /\ SameList(z, y) /\ Newer(y, z)
      BY <3>1, RespondedIs
    <3> HIDE DEF z
    <3>3. SameList(y, z)
      BY <3>2 DEF SameList
    <3>4. Ordered(z) /\ \A s, x : x \in Nat /\ Behind(y, s, x) => Behind(z, s, x)
      BY <3>2, <3>3, NewerKeeps
    <3>5. SameList(z, sv)
      BY <3>2 DEF SameList
    <3> QED BY <3>2, <3>4, <3>5 DEF z
  <2> HIDE DEF Onward
  <2>3. x0 \in Onward
    BY <1>3, <2>2, ProcessedKeeps
  <2> HIDE DEF x0
  <2>4. x0 \in ServerState /\ Ordered(x0)
        /\ \A s, x : x \in Nat /\ Behind(sv, s, x) => Behind(x0, s, x)
    BY <2>3 DEF Onward
  <2> DEFINE d == Done(x0)
  <2>5. d.buffer = x0.buffer /\ d.number = x0.number /\ SameList(d, x0)
    BY <2>4, DoneIs
  <2>6. Byte(sv, byte) = d
    BY <1>1, <1>5 DEF x0
  <2> HIDE DEF d
  <2>7. Ordered(d) /\ \A s, x : Behind(x0, s, x) => Behind(d, s, x)
    BY <2>4, <2>5 DEF Ordered, Behind, SameList
  <2> QED BY <2>4, <2>6, <2>7
<1> QED BY <1>4, <1>5

LEMMA HandledNewer ==
  ASSUME NEW sv \in ServerState, NEW m \in Messages, Ordered(sv)
  PROVE  LET h == Handled(sv, m) IN
         /\ Ordered(h)
         /\ \A s, x : x \in Nat /\ Behind(sv, s, x) => Behind(h, s, x)
<1> DEFINE h == Handled(sv, m)
<1>1. CASE m.kind = "byte"
  <2>1. m.byte \in Received /\ h = Byte(sv, m.byte)
    BY <1>1, MessageParts DEF Handled
  <2> HIDE DEF h
  <2>2. Ordered(h) /\ \A s, x : x \in Nat /\ Behind(sv, s, x) => Behind(h, s, x)
    BY <2>1, ByteNewer
  <2> QED BY <2>2 DEF h
<1>2. CASE m.kind = "answer_timeout"
  <2>1. h = TimedOut(sv)
    BY <1>2 DEF Handled
  <2>2. SameList(h, sv) /\ h.buffer = sv.buffer /\ h.number = sv.number
    BY <2>1, TimedOutIs
  <2> HIDE DEF h
  <2>3. Ordered(h) /\ \A s, x : x \in Nat /\ Behind(sv, s, x) => Behind(h, s, x)
    BY <2>2 DEF Ordered, Behind, SameList
  <2> QED BY <2>3 DEF h
<1>3. CASE m.kind \notin {"byte", "answer_timeout"}
  <2>1. h = Known(sv, m)
    BY <1>3 DEF Handled
  <2>2. /\ h \in ServerState /\ h.update = sv.update /\ Newer(sv, h)
        /\ h.subscriber = IF m.kind = "subscribe" THEN Append(sv.subscriber, m.from) ELSE sv.subscriber
    BY <1>3, <2>1, KnownIs
  <2> HIDE DEF h
  <2>3. CASE m.kind # "subscribe"
    <3>1. SameList(sv, h)
      BY <2>2, <2>3 DEF SameList
    <3>2. Ordered(h) /\ \A s, x : x \in Nat /\ Behind(sv, s, x) => Behind(h, s, x)
      BY <2>2, <3>1, NewerKeeps
    <3> QED BY <3>2 DEF h
  <2>4. CASE m.kind = "subscribe"
    <3>1. h.buffer = sv.buffer /\ h.number = sv.number
      <4>1. Known(sv, m) = [sv EXCEPT !.subscriber = Append(@, m.from)]
        BY <2>4 DEF Known
      <4> QED BY <2>1, <4>1 DEF ServerState
    <3>2. /\ DOMAIN sv.subscriber \subseteq DOMAIN h.subscriber
          /\ \A j \in DOMAIN sv.subscriber : h.subscriber[j] = sv.subscriber[j]
      <4>1. sv.subscriber \in Seq(Subscriber) /\ m.from \in Subscriber
        BY <2>4, MessageParts DEF ServerState
      <4> QED BY <2>2, <2>4, <4>1
    <3>3. Ordered(h)
      BY <3>1 DEF Ordered
    <3>4. ASSUME NEW s, NEW x, x \in Nat, Behind(sv, s, x) PROVE Behind(h, s, x)
      BY <2>2, <3>1, <3>2, <3>4 DEF Behind
    <3> QED BY <3>3, <3>4 DEF h
  <2> QED BY <2>3, <2>4
<1> QED BY <1>1, <1>2, <1>3

\* The end of a turn moves on in the list, or to the next report.
LEMMA ToldNewer ==
  ASSUME NEW sv \in ServerState, InList(sv), Ordered(sv)
  PROVE  /\ Ordered(Told(sv))
         /\ \A s, x : x \in Nat /\ Behind(sv, s, x) => Behind(Told(sv), s, x)
         /\ Telling(sv) => Behind(Told(sv), sv.subscriber[sv.update], Head(sv.buffer).number)
<1> DEFINE t == Told(sv)
           p == sv.buffer
<1>1. /\ t \in ServerState /\ t.subscriber = sv.subscriber /\ t.number = sv.number
      /\ ~Telling(sv) => t.buffer = p /\ t.update = sv.update
      /\ Telling(sv) =>
           /\ sv.update \in DOMAIN sv.subscriber /\ p # <<>>
           /\ \/ sv.update = Len(sv.subscriber) /\ t.update = 1 /\ t.buffer = Tail(p)
              \/ sv.update < Len(sv.subscriber) /\ t.update = sv.update + 1 /\ t.buffer = p
  BY ToldIs
<1>2. p \in Seq(Report) /\ sv.update \in Nat /\ sv.number \in Nat
  BY DEF ServerState
<1>3. \A i \in DOMAIN p : p[i].number \in Nat
  <2>1. \A i \in DOMAIN p : p[i] \in Report
    BY <1>2
  <2> QED BY <2>1 DEF Report
<1>4. /\ \A i, j \in DOMAIN p : i < j => p[i].number < p[j].number
      /\ \A i \in DOMAIN p : p[i].number <= sv.number
  BY DEF Ordered
<1>5. p # <<>> => /\ 1 \in DOMAIN p /\ Head(p) = p[1]
                  /\ \A i \in DOMAIN Tail(p) : i \in Nat \ {0} /\ i + 1 \in DOMAIN p /\ Tail(p)[i] = p[i + 1]
                  /\ \A i \in DOMAIN p : i \in Nat \ {0}
  <2> SUFFICES ASSUME p # <<>>
               PROVE  /\ 1 \in DOMAIN p /\ Head(p) = p[1]
                      /\ \A i \in DOMAIN Tail(p) :
                           i \in Nat \ {0} /\ i + 1 \in DOMAIN p /\ Tail(p)[i] = p[i + 1]
                      /\ \A i \in DOMAIN p : i \in Nat \ {0}
    OBVIOUS
  <2> HIDE DEF p
  <2> QED BY <1>2
<1> HIDE DEF t, p
<1>6. CASE ~Telling(sv)
  <2>1. t.buffer = p /\ t.update = sv.update
    BY <1>1, <1>6
  <2>2. Ordered(t)
    BY <1>1, <1>4, <2>1 DEF Ordered
  <2>3. ASSUME NEW s, NEW x, x \in Nat, Behind(sv, s, x) PROVE Behind(t, s, x)
    BY <1>1, <2>1, <2>3 DEF Behind, p
  <2> QED BY <1>6, <2>2, <2>3 DEF t
<1>7. CASE Telling(sv) /\ t.buffer = Tail(p)
  <2>1. /\ 1 \in DOMAIN p /\ Head(p) = p[1]
        /\ \A i \in DOMAIN t.buffer : i \in Nat \ {0} /\ i + 1 \in DOMAIN p /\ t.buffer[i] = p[i + 1]
    BY <1>1, <1>5, <1>7
  <2>2. Ordered(t)
    <3>1. ASSUME NEW i \in DOMAIN t.buffer, NEW j \in DOMAIN t.buffer, i < j
          PROVE  t.buffer[i].number < t.buffer[j].number
      <4>1. i + 1 \in DOMAIN p /\ j + 1 \in DOMAIN p /\ i + 1 < j + 1
        BY <2>1, <3>1
      <4> QED BY <1>4, <2>1, <4>1
    <3>2. \A i \in DOMAIN t.buffer : t.buffer[i].number <= t.number
      BY <1>1, <1>4, <2>1
    <3> QED BY <3>1, <3>2 DEF Ordered
  <2>3. ASSUME NEW s, NEW x \in Nat, x <= p[1].number PROVE Behind(t, s, x)
    <3>1. x <= t.number
      BY <1>1, <1>2, <1>3, <1>4, <2>1, <2>3
    <3>2. ASSUME NEW i \in DOMAIN t.buffer PROVE x <= t.buffer[i].number /\ x # t.buffer[i].number
      <4>1. i + 1 \in DOMAIN p /\ 1 < i + 1 /\ t.buffer[i] = p[i + 1]
        BY <2>1
      <4>2. p[1].number < p[i + 1].number /\ p[1].number \in Nat /\ p[i + 1].number \in Nat
        BY <1>3, <1>4, <2>1, <4>1
      <4> QED BY <2>3, <4>1, <4>2
    <3> QED BY <3>1, <3>2 DEF Behind
  <2>4. ASSUME NEW s, NEW x, x \in Nat, Behind(sv, s, x) PROVE Behind(t, s, x)
    <3>1. x <= p[1].number
      BY <2>1, <2>4 DEF Behind, p
    <3> QED BY <2>3, <2>4, <3>1
  <2>5. Behind(t, sv.subscriber[sv.update], Head(p).number)
    <3> DEFINE n == p[1].number
    <3>1. n \in Nat /\ n <= n /\ Head(p).number = n
      BY <1>3, <2>1
    <3> QED BY <2>3, <3>1
  <2> QED BY <2>2, <2>4, <2>5 DEF t, p
<1>8. CASE Telling(sv) /\ t.buffer # Tail(p)
  <2>1. /\ sv.update < Len(sv.subscriber) /\ t.update = sv.update + 1 /\ t.buffer = p
        /\ sv.update \in DOMAIN sv.subscriber
        /\ 1 \in DOMAIN p /\ Head(p) = p[1] /\ \A i \in DOMAIN p : i \in Nat \ {0}
    BY <1>1, <1>5, <1>8
  <2>2. Ordered(t)
    BY <1>1, <1>4, <2>1 DEF Ordered
  <2>3. ASSUME NEW s, NEW x, x \in Nat, Behind(sv, s, x) PROVE Behind(t, s, x)
    <3>1. ASSUME NEW i \in DOMAIN p, x = p[i].number
          PROVE  \E j \in DOMAIN t.subscriber : j < t.update /\ t.subscriber[j] = s
      <4>1. PICK j \in DOMAIN sv.subscriber : j < sv.update /\ sv.subscriber[j] = s
        BY <2>3, <3>1 DEF Behind, p
      <4>2. j \in Nat
        <5>1. sv.subscriber \in Seq(Subscriber)
          BY DEF ServerState
        <5> QED BY <5>1
      <4>3. j < t.update
        BY <1>2, <2>1, <4>1, <4>2
      <4> QED BY <1>1, <4>1, <4>3
    <3>2. x <= t.number /\ \A i \in DOMAIN p : x <= p[i].number
      BY <1>1, <2>3 DEF Behind, p
    <3> QED BY <2>1, <3>1, <3>2 DEF Behind
  <2>4. Behind(t, sv.subscriber[sv.update], Head(p).number)
    <3> DEFINE n == p[1].number
    <3>1. n \in Nat /\ Head(p).number = n
      BY <1>3, <2>1
    <3>2. ASSUME NEW i \in DOMAIN p PROVE n <= p[i].number
      <4>1. i = 1 \/ 1 < i
        BY <2>1
      <4> QED BY <1>3, <1>4, <2>1, <4>1
    <3>3. n <= t.number
      BY <1>1, <1>4, <2>1
    <3>4. sv.update < t.update /\ sv.update \in DOMAIN t.subscriber
      BY <1>1, <1>2, <2>1
    <3> HIDE DEF n
    <3>5. Behind(t, sv.subscriber[sv.update], n)
      BY <1>1, <2>1, <3>2, <3>3, <3>4 DEF Behind
    <3> QED BY <3>1, <3>5
  <2> QED BY <2>2, <2>3, <2>4 DEF t, p
<1> QED BY <1>6, <1>7, <1>8

\* A whole turn.
LEMMA TurnNewer ==
  ASSUME TypeInv, Serve, Ordered(server)
  PROVE  /\ Ordered(server')
         /\ \A s, x : x \in Nat /\ Behind(server, s, x) => Behind(After, s, x) /\ Behind(server', s, x)
         /\ Telling(After) => Behind(server', After.subscriber[After.update], Head(After.buffer).number)
         /\ server'.subscriber = After.subscriber
<1>1. /\ server \in ServerState /\ Head(inbox) \in Messages /\ After = Handled(server, Head(inbox))
      /\ After \in ServerState /\ InList(After) /\ Told(After) \in ServerState
      /\ server' = Asked(Told(After))
  BY TurnIs DEF TypeInv, After
<1>2. Ordered(After) /\ \A s, x : x \in Nat /\ Behind(server, s, x) => Behind(After, s, x)
  BY <1>1, HandledNewer
<1>3. /\ Ordered(Told(After))
      /\ \A s, x : x \in Nat /\ Behind(After, s, x) => Behind(Told(After), s, x)
      /\ Telling(After) => Behind(Told(After), After.subscriber[After.update], Head(After.buffer).number)
      /\ Told(After).subscriber = After.subscriber
  BY <1>1, <1>2, ToldNewer, ToldIs
<1> DEFINE t == Told(After)
<1>4. SameList(Asked(t), t) /\ Asked(t).buffer = t.buffer /\ Asked(t).number = t.number
  BY <1>1, AskedIs
<1> HIDE DEF t
<1>5. SameList(server', t) /\ server'.buffer = t.buffer /\ server'.number = t.number
  BY <1>1, <1>4 DEF t
<1>6. /\ Ordered(t) => Ordered(server')
      /\ \A s, x : Behind(t, s, x) => Behind(server', s, x)
  BY <1>5 DEF Ordered, Behind, SameList
<1> QED BY <1>2, <1>3, <1>5, <1>6 DEF t, SameList

-----------------------------------------------------------------------------
(* Reports in order: the subscribers.                                      *)

LEMMA Lengthened ==
  ASSUME NEW S, NEW b \in Seq(S), NEW m \in S
  PROVE  /\ Len(b) + 1 \notin DOMAIN b
         /\ \A i \in DOMAIN Append(b, m) : \/ i \in DOMAIN b /\ Append(b, m)[i] = b[i]
                                           \/ i = Len(b) + 1 /\ Append(b, m)[i] = m
OBVIOUS

\* A step that changes neither the list nor a watcher and posts no subscription.
LEMMA OthersSubscribed ==
  ASSUME TypeInv, SubscribedOnce, server' = server, NEW m \in Messages, m.kind # "subscribe",
         inbox' = inbox \/ inbox' = Append(inbox, m),
         \A s \in Subscriber : (watcher[s] = "subscribes" => watcher'[s] = "subscribes")
                               /\ (watcher[s] # "new" => watcher'[s] # "new")
  PROVE  SubscribedOnce'
<1>1. \A i \in DOMAIN inbox' : inbox'[i].kind = "subscribe" =>
         i \in DOMAIN inbox /\ inbox'[i] = inbox[i]
  <2>1. inbox \in Seq(Messages)
    BY DEF TypeInv
  <2> QED BY <2>1, Lengthened
<1>2. /\ \A i \in DOMAIN inbox : inbox[i].kind = "subscribe" => inbox[i].from \in Subscriber
      /\ \A i \in DOMAIN server.subscriber : server.subscriber[i] \in Subscriber
  <2>1. \A i \in DOMAIN inbox : inbox[i] \in Messages
    BY DEF TypeInv
  <2>2. \A i \in DOMAIN server.subscriber : server.subscriber[i] \in Subscriber
    BY DEF TypeInv, ServerState
  <2> QED BY <2>1, <2>2, MessageParts
<1>3. /\ \A i, j \in DOMAIN server'.subscriber : server'.subscriber[i] = server'.subscriber[j] => i = j
      /\ \A i \in DOMAIN server'.subscriber : watcher'[server'.subscriber[i]] # "new"
  BY <1>2 DEF SubscribedOnce
<1>4. \A i \in DOMAIN inbox' : inbox'[i].kind = "subscribe" =>
        /\ watcher'[inbox'[i].from] = "subscribes"
        /\ \A j \in DOMAIN server'.subscriber : server'.subscriber[j] # inbox'[i].from
  BY <1>1, <1>2 DEF SubscribedOnce
<1>5. \A i, j \in DOMAIN inbox' : inbox'[i].kind = "subscribe" /\ inbox'[j].kind = "subscribe"
                                  /\ inbox'[i].from = inbox'[j].from => i = j
  BY <1>1 DEF SubscribedOnce
<1> QED BY <1>3, <1>4, <1>5 DEF SubscribedOnce

LEMMA WatchSubscribed ==
  ASSUME TypeInv, SubscribedOnce, NEW s \in Subscriber, Watch(s)
  PROVE  SubscribedOnce'
<1>1. server' = server /\ watcher \in [Subscriber -> {"new", "subscribes", "waits", "busy"}]
      /\ inbox \in Seq(Messages)
  BY DEF TypeInv, Watch
<1>2. CASE watcher[s] = "busy"
  <2>1. inbox' = inbox /\ watcher' = [watcher EXCEPT ![s] = "waits"]
    BY <1>2 DEF Watch
  <2>2. Message("courier") \in Messages /\ Message("courier").kind # "subscribe"
    BY DEF Message, Messages, Signals
  <2>3. \A u \in Subscriber : (watcher[u] = "subscribes" => watcher'[u] = "subscribes")
                              /\ (watcher[u] # "new" => watcher'[u] # "new")
    BY <1>1, <1>2, <2>1
  <2> QED BY <1>1, <2>1, <2>2, <2>3, OthersSubscribed
<1>3. CASE watcher[s] = "new"
  <2> DEFINE m == [kind |-> "subscribe", from |-> s]
  <2>1. m \in Messages /\ m.kind = "subscribe" /\ m.from = s
    BY DEF Messages
  <2>2. watcher' = [watcher EXCEPT ![s] = "subscribes"] /\ inbox' = Append(inbox, m)
    BY <1>3 DEF Watch
  <2> HIDE DEF m
  <2>3. /\ Len(inbox) + 1 \notin DOMAIN inbox
        /\ \A i \in DOMAIN inbox' : \/ i \in DOMAIN inbox /\ inbox'[i] = inbox[i]
                                    \/ i = Len(inbox) + 1 /\ inbox'[i] = m
    BY <1>1, <2>1, <2>2, Lengthened
  <2>4. /\ \A i \in DOMAIN inbox : inbox[i].kind = "subscribe" => inbox[i].from # s
        /\ \A i \in DOMAIN server.subscriber : server.subscriber[i] # s
    BY <1>3 DEF SubscribedOnce
  <2>5. /\ watcher'[s] = "subscribes"
        /\ \A u \in Subscriber : u # s => watcher'[u] = watcher[u]
    BY <1>1, <2>2
  <2>6. /\ \A i \in DOMAIN inbox : inbox[i].kind = "subscribe" => inbox[i].from \in Subscriber
        /\ \A i \in DOMAIN server.subscriber : server.subscriber[i] \in Subscriber
    <3>1. \A i \in DOMAIN inbox : inbox[i] \in Messages
      BY DEF TypeInv
    <3>2. \A i \in DOMAIN server.subscriber : server.subscriber[i] \in Subscriber
      BY DEF TypeInv, ServerState
    <3> QED BY <3>1, <3>2, MessageParts
  <2>7. /\ \A i, j \in DOMAIN server'.subscriber : server'.subscriber[i] = server'.subscriber[j] => i = j
        /\ \A i \in DOMAIN server'.subscriber : watcher'[server'.subscriber[i]] # "new"
    BY <1>1, <2>4, <2>5, <2>6 DEF SubscribedOnce
  <2>8. \A i \in DOMAIN inbox' : inbox'[i].kind = "subscribe" =>
          /\ watcher'[inbox'[i].from] = "subscribes"
          /\ \A j \in DOMAIN server'.subscriber : server'.subscriber[j] # inbox'[i].from
    BY <1>1, <2>1, <2>3, <2>4, <2>5, <2>6 DEF SubscribedOnce
  <2>9. \A i, j \in DOMAIN inbox' : inbox'[i].kind = "subscribe" /\ inbox'[j].kind = "subscribe"
                                    /\ inbox'[i].from = inbox'[j].from => i = j
    BY <2>1, <2>3, <2>4 DEF SubscribedOnce
  <2> QED BY <2>7, <2>8, <2>9 DEF SubscribedOnce
<1> QED BY <1>2, <1>3 DEF Watch

LEMMA TurnSubscribed ==
  ASSUME TypeInv, SubscribedOnce, Ordered(server), Serve
  PROVE  SubscribedOnce'
<1> DEFINE m == Head(inbox)
           l == server.subscriber
<1>1. /\ server'.subscriber = IF m.kind = "subscribe" THEN Append(l, m.from) ELSE l
      /\ m \in Messages /\ l \in Seq(Subscriber)
  <2>1. server'.subscriber = After.subscriber /\ m \in Messages /\ server \in ServerState /\ InList(server)
    BY TurnNewer, TurnIs DEF TypeInv, InList
  <2>2. After.subscriber = IF m.kind = "subscribe" THEN Append(l, m.from) ELSE l
    BY <2>1, HandledIs DEF After
  <2> QED BY <2>1, <2>2 DEF ServerState
<1>2. /\ watcher \in [Subscriber -> {"new", "subscribes", "waits", "busy"}]
      /\ watcher' = IF m.kind = "subscribe" THEN [watcher EXCEPT ![m.from] = "waits"] ELSE watcher
  BY DEF TypeInv, Serve
<1>3. /\ 1 \in DOMAIN inbox /\ m = inbox[1]
      /\ \A i \in DOMAIN inbox' : i + 1 \in DOMAIN inbox /\ inbox'[i] = inbox[i + 1] /\ i + 1 # 1
  <2>1. \A i \in DOMAIN inbox' : i \in Nat \ {0}
    <3>1. inbox' \in Seq(Messages)
      BY TurnIs
    <3> QED BY <3>1
  <2>2. /\ 1 \in DOMAIN inbox /\ m = inbox[1]
        /\ \A i \in DOMAIN inbox' : i + 1 \in DOMAIN inbox /\ inbox'[i] = inbox[i + 1]
    BY TurnInbox
  <2>3. \A i \in DOMAIN inbox' : i + 1 # 1
    BY <2>1
  <2> QED BY <2>2, <2>3
<1>4. /\ \A i, j \in DOMAIN l : l[i] = l[j] => i = j
      /\ \A i \in DOMAIN l : watcher[l[i]] # "new"
      /\ \A i \in DOMAIN inbox : inbox[i].kind = "subscribe" =>
           watcher[inbox[i].from] = "subscribes" /\ \A j \in DOMAIN l : l[j] # inbox[i].from
      /\ \A i, j \in DOMAIN inbox : inbox[i].kind = "subscribe" /\ inbox[j].kind = "subscribe"
                                    /\ inbox[i].from = inbox[j].from => i = j
  BY DEF SubscribedOnce
<1>5. \A i \in DOMAIN l : l[i] \in Subscriber
  BY <1>1
<1> HIDE DEF m, l
<1>6. \A i, j \in DOMAIN inbox' : inbox'[i].kind = "subscribe" /\ inbox'[j].kind = "subscribe"
                                  /\ inbox'[i].from = inbox'[j].from => i = j
  <2> SUFFICES ASSUME NEW i \in DOMAIN inbox', NEW j \in DOMAIN inbox',
                      inbox'[i].kind = "subscribe", inbox'[j].kind = "subscribe",
                      inbox'[i].from = inbox'[j].from
               PROVE  i = j
    OBVIOUS
  <2>1. i + 1 = j + 1
    BY <1>3, <1>4
  <2>2. i \in Int /\ j \in Int
    <3>1. inbox' \in Seq(Messages)
      BY TurnIs
    <3> QED BY <3>1
  <2> QED BY <2>1, <2>2
<1>7. CASE m.kind # "subscribe"
  <2>1. server'.subscriber = l /\ watcher' = watcher
    BY <1>1, <1>2, <1>7
  <2>2. \A i \in DOMAIN inbox' : inbox'[i].kind = "subscribe" =>
          /\ watcher'[inbox'[i].from] = "subscribes"
          /\ \A j \in DOMAIN server'.subscriber : server'.subscriber[j] # inbox'[i].from
    BY <1>3, <1>4, <2>1
  <2> QED BY <1>4, <1>6, <2>1, <2>2 DEF SubscribedOnce
<1>8. CASE m.kind = "subscribe"
  <2>1. m.from \in Subscriber /\ server'.subscriber = Append(l, m.from)
        /\ watcher' = [watcher EXCEPT ![m.from] = "waits"]
    BY <1>1, <1>2, <1>8, MessageParts
  <2>2. /\ Len(l) + 1 \notin DOMAIN l
        /\ \A i \in DOMAIN server'.subscriber :
             \/ i \in DOMAIN l /\ server'.subscriber[i] = l[i]
             \/ i = Len(l) + 1 /\ server'.subscriber[i] = m.from
    BY <1>1, <2>1, Lengthened
  <2>3. \A j \in DOMAIN l : l[j] # m.from
    BY <1>3, <1>4, <1>8
  <2>4. watcher'[m.from] = "waits" /\ \A u \in Subscriber : u # m.from => watcher'[u] = watcher[u]
    BY <1>2, <2>1
  <2>5. \A i, j \in DOMAIN server'.subscriber : server'.subscriber[i] = server'.subscriber[j] => i = j
    BY <1>4, <2>2, <2>3
  <2>6. \A i \in DOMAIN server'.subscriber : watcher'[server'.subscriber[i]] # "new"
    BY <1>4, <1>5, <2>2, <2>3, <2>4
  <2>7. ASSUME NEW i \in DOMAIN inbox', inbox'[i].kind = "subscribe"
        PROVE  /\ watcher'[inbox'[i].from] = "subscribes"
               /\ \A j \in DOMAIN server'.subscriber : server'.subscriber[j] # inbox'[i].from
    <3>1. inbox'[i].from # m.from
      BY <1>3, <1>4, <1>8, <2>7
    <3>2. inbox'[i].from \in Subscriber
      <4>1. inbox'[i] \in Messages
        BY TurnIs
      <4> QED BY <2>7, <4>1, MessageParts
    <3>3. watcher[inbox'[i].from] = "subscribes" /\ \A j \in DOMAIN l : l[j] # inbox'[i].from
      BY <1>3, <1>4, <2>7
    <3> QED BY <2>2, <2>4, <3>1, <3>2, <3>3
  <2> QED BY <1>6, <2>5, <2>6, <2>7 DEF SubscribedOnce
<1> QED BY <1>7, <1>8

-----------------------------------------------------------------------------
(* The second theorem.                                                     *)

LEMMA DeliverIs ==
  ASSUME TypeInv, Deliver
  PROVE  LET work == courier.work[1] IN
         /\ work.to \in Subscriber /\ work.report.number \in Nat
         /\ courier.at = "watcher" /\ courier'.at # "watcher" /\ server' = server
         /\ watcher[work.to] = "waits"
         /\ \A s \in Subscriber : /\ told'[s] = IF s = work.to THEN work.report.number ELSE told[s]
                                  /\ watcher'[s] = IF s = work.to THEN "busy" ELSE watcher[s]
         /\ inbox' = Append(inbox, Message("courier"))
<1> DEFINE work == courier.work[1]
<1>1. courier.at = "watcher" /\ courier.work \in Seq(Work) /\ courier.work # <<>>
      /\ told \in [Subscriber -> Nat] /\ watcher \in [Subscriber -> {"new", "subscribes", "waits", "busy"}]
  BY DEF TypeInv, Deliver
<1>2. work \in Work
  BY <1>1
<1>3. /\ watcher[work.to] = "waits" /\ watcher' = [watcher EXCEPT ![work.to] = "busy"]
      /\ told' = [told EXCEPT ![work.to] = work.report.number]
      /\ courier' = Posting /\ server' = server /\ inbox' = Append(inbox, Message("courier"))
  BY DEF Deliver
<1> HIDE DEF work
<1>4. work.to \in Subscriber /\ work.report.number \in Nat
  BY <1>2 DEF Work, Report
<1>5. courier'.at # "watcher"
  BY <1>3 DEF Posting
<1>6. \A s \in Subscriber : /\ told'[s] = IF s = work.to THEN work.report.number ELSE told[s]
                            /\ watcher'[s] = IF s = work.to THEN "busy" ELSE watcher[s]
  BY <1>1, <1>3, <1>4
<1> QED BY <1>1, <1>3, <1>4, <1>5, <1>6 DEF work

LEMMA DeliverKeeps ==
  ASSUME TypeInv, ToldInv, SubscribedOnce, Deliver
  PROVE  ToldInv' /\ SubscribedOnce'
<1> DEFINE work == courier.work[1]
<1>1. /\ work.to \in Subscriber /\ work.report.number \in Nat
      /\ courier.at = "watcher" /\ courier'.at # "watcher" /\ server' = server
      /\ watcher[work.to] = "waits"
      /\ \A s \in Subscriber : /\ told'[s] = IF s = work.to THEN work.report.number ELSE told[s]
                               /\ watcher'[s] = IF s = work.to THEN "busy" ELSE watcher[s]
      /\ inbox' = Append(inbox, Message("courier"))
  BY DeliverIs
<1>2. /\ Ordered(server) /\ \A s \in Subscriber : Behind(server, s, told[s])
      /\ Behind(server, work.to, work.report.number)
  BY <1>1 DEF ToldInv
<1> HIDE DEF work
<1>3. \A s \in Subscriber : Behind(server', s, told'[s])
  BY <1>1, <1>2
<1>4. ToldInv'
  BY <1>1, <1>2, <1>3 DEF ToldInv
<1>5. Message("courier") \in Messages /\ Message("courier").kind # "subscribe"
  BY DEF Message, Messages, Signals
<1>6. SubscribedOnce'
  BY <1>1, <1>5, OthersSubscribed
<1> QED BY <1>4, <1>6

LEMMA TurnTold ==
  ASSUME TypeInv, ToldInv, SubscribedOnce, Serve
  PROVE  ToldInv'
<1>1. /\ Ordered(server)
      /\ \A s \in Subscriber : Behind(server, s, told[s])
  BY DEF ToldInv
<1>2. /\ Ordered(server')
      /\ \A s, x : x \in Nat /\ Behind(server, s, x) => Behind(After, s, x) /\ Behind(server', s, x)
      /\ Telling(After) => Behind(server', After.subscriber[After.update], Head(After.buffer).number)
      /\ server'.subscriber = After.subscriber
  BY <1>1, TurnNewer
<1>3. told' = told /\ told \in [Subscriber -> Nat] /\ After \in ServerState /\ InList(After)
  BY TurnIs DEF TypeInv
<1>4. \A s \in Subscriber : Behind(server', s, told'[s]) /\ Behind(After, s, told[s])
  BY <1>1, <1>2, <1>3
<1>5. courier'.at = "watcher" =>
        /\ told'[courier'.work[1].to] < courier'.work[1].report.number
        /\ Behind(server', courier'.work[1].to, courier'.work[1].report.number)
  <2>1. CASE courier' = courier
    <3> SUFFICES ASSUME courier.at = "watcher"
                 PROVE  /\ told[courier.work[1].to] < courier.work[1].report.number
                        /\ Behind(server', courier.work[1].to, courier.work[1].report.number)
      BY <1>3, <2>1
    <3> DEFINE work == courier.work[1]
    <3>1. told[work.to] < work.report.number /\ Behind(server, work.to, work.report.number)
      BY DEF ToldInv
    <3>2. work \in Work
      <4>1. courier.work \in Seq(Work) /\ courier.work # <<>>
        BY DEF TypeInv
      <4> QED BY <4>1
    <3> HIDE DEF work
    <3>3. work.report.number \in Nat
      BY <3>2 DEF Work, Report
    <3>4. Behind(server', work.to, work.report.number)
      BY <1>2, <3>1, <3>3
    <3> QED BY <3>1, <3>4 DEF work
  <2>2. CASE courier' = Waiting
    BY <2>2 DEF Waiting
  <2>3. CASE courier' # courier /\ courier' # Waiting
    <3> DEFINE to == After.subscriber[After.update]
               report == Head(After.buffer)
               w == [to |-> to, report |-> report]
    <3>1. Telling(After) /\ courier' = [at |-> "watcher", work |-> <<w>>]
      BY <2>3, TurnIs
    <3>2. After.update \in DOMAIN After.subscriber /\ After.buffer # <<>>
      BY <1>3, <3>1, ToldIs
    <3>3. /\ After.buffer \in Seq(Report) /\ After.subscriber \in Seq(Subscriber)
          /\ After.update \in Nat /\ DOMAIN After.subscriber \subseteq Nat
      BY <1>3 DEF ServerState
    <3>4. /\ 1 \in DOMAIN After.buffer /\ report = After.buffer[1] /\ report \in Report
          /\ to \in Subscriber
      BY <3>2, <3>3
    <3>5. SubscribedOnce'
      BY <1>1, TurnSubscribed
    <3>6. \A j \in DOMAIN After.subscriber : After.subscriber[j] = to => j = After.update
      BY <1>2, <3>2, <3>5 DEF SubscribedOnce
    <3>7. ~ \E j \in DOMAIN After.subscriber : j < After.update /\ After.subscriber[j] = to
      BY <3>3, <3>6
    <3>8. Behind(server', to, report.number)
      BY <1>2, <3>1
    <3> HIDE DEF to, report
    <3>9. told[to] <= report.number /\ told[to] # report.number
      BY <1>4, <3>4, <3>7 DEF Behind
    <3>10. told[to] < report.number
      <4>1. told[to] \in Nat /\ report.number \in Nat
        BY <1>3, <3>4 DEF Report
      <4> QED BY <3>9, <4>1
    <3>11. courier'.work[1] = w /\ w.to = to /\ w.report = report
      BY <3>1
    <3> HIDE DEF w
    <3> QED BY <1>3, <3>8, <3>10, <3>11
  <2> QED BY <2>1, <2>2, <2>3
<1> QED BY <1>2, <1>4, <1>5 DEF ToldInv

\* The other steps leave the reports alone.
LEMMA RestKeeps ==
  ASSUME TypeInv, ToldInv, SubscribedOnce, Next \/ UNCHANGED vars, ~Serve, ~Deliver
  PROVE  /\ told' = told /\ server' = server /\ courier' = courier
         /\ ToldInv' /\ SubscribedOnce'
         /\ \A s \in Subscriber : ~(watcher[s] = "waits" /\ watcher'[s] = "busy")
<1> DEFINE Same == told' = told /\ server' = server /\ courier' = courier
<1>1. CASE \E s \in Subscriber : Watch(s)
  <2>1. PICK s \in Subscriber : Watch(s)
    BY <1>1
  <2>2. SubscribedOnce' /\ Same
    BY <2>1, WatchSubscribed DEF Watch
  <2>3. \A u \in Subscriber : ~(watcher[u] = "waits" /\ watcher'[u] = "busy")
    <3>1. watcher \in [Subscriber -> {"new", "subscribes", "waits", "busy"}]
      BY DEF TypeInv
    <3>2. watcher' = [watcher EXCEPT ![s] = "subscribes"] \/ watcher' = [watcher EXCEPT ![s] = "waits"]
      BY <2>1 DEF Watch
    <3> QED BY <3>1, <3>2
  <2> QED BY <2>2, <2>3 DEF ToldInv
<1>2. CASE ~ \E s \in Subscriber : Watch(s)
  <2>1. Same /\ watcher' = watcher
    BY <1>2 DEF Next, vars, QuietTick, ByteTick, TimersElapse, Workers, Query, Response,
                    QueryTimeout, ResponseTimeout, FakeTrigger
  <2>2. \E m \in Messages : m.kind # "subscribe" /\ (inbox' = inbox \/ inbox' = Append(inbox, m))
    <3>1. \A k \in Signals : Message(k) \in Messages /\ Message(k).kind # "subscribe"
      BY DEF Message, Messages, Signals
    <3>2. CASE inbox' = inbox
      BY <3>1, <3>2 DEF Signals
    <3>3. CASE Query \/ QueryTimeout \/ ResponseTimeout
      BY <3>1, <3>3 DEF Query, QueryTimeout, ResponseTimeout, Signals
    <3>4. CASE Response
      <4> DEFINE m == [kind |-> "byte", byte |-> Head(rx)]
      <4>1. Head(rx) \in Received
        BY <3>4 DEF TypeInv, Response
      <4>2. m \in Messages /\ m.kind # "subscribe"
        BY <4>1 DEF Messages
      <4>3. inbox' = Append(inbox, m)
        BY <3>4 DEF Response
      <4> HIDE DEF m
      <4> QED BY <4>2, <4>3
    <3>5. CASE \E i \in Fake : FakeTrigger(i)
      <4>1. PICK i \in Fake : FakeTrigger(i)
        BY <3>5
      <4> DEFINE m == [kind |-> "fake", sensor |-> i]
      <4>2. m \in Messages /\ m.kind # "subscribe"
        BY DEF Messages
      <4>3. inbox' = Append(inbox, m)
        BY <4>1 DEF FakeTrigger
      <4> HIDE DEF m
      <4> QED BY <4>2, <4>3
    <3>6. CASE QuietTick \/ \E loses \in BOOLEAN : ByteTick(loses)
      BY <3>2, <3>6 DEF QuietTick, ByteTick, TimersElapse
    <3> QED BY <1>2, <3>2, <3>3, <3>4, <3>5, <3>6 DEF Next, Workers, vars
  <2>3. SubscribedOnce'
    BY <2>1, <2>2, OthersSubscribed
  <2> QED BY <2>1, <2>3 DEF ToldInv
<1> QED BY <1>1, <1>2

\* What keeps the reports in order, with the types.
OrderInv == TypeInv /\ ToldInv /\ SubscribedOnce

LEMMA InitOrder == Init => OrderInv
<1> SUFFICES ASSUME Init PROVE OrderInv
  OBVIOUS
<1>1. TypeInv
  BY InitTypes
<1>2. /\ server.buffer = <<>> /\ server.number = 0 /\ server.subscriber = <<>>
      /\ courier.at # "watcher" /\ \A s \in Subscriber : told[s] = 0
  BY DEF Init, Posting
<1>3. Ordered(server) /\ \A s \in Subscriber : Behind(server, s, told[s])
  BY <1>2 DEF Ordered, Behind
<1>4. \A i \in DOMAIN inbox : inbox[i].kind # "subscribe"
  <2>1. /\ DOMAIN inbox = 1 .. 4 /\ inbox[1].kind = "query_worker" /\ inbox[2].kind = "query_timeout"
        /\ inbox[3].kind = "answer_timeout" /\ inbox[4].kind = "courier"
    BY DEF Init, Message
  <2>2. \A i \in 1 .. 4 : i = 1 \/ i = 2 \/ i = 3 \/ i = 4
    OBVIOUS
  <2> QED BY <2>1, <2>2
<1>5. SubscribedOnce
  BY <1>2, <1>4 DEF SubscribedOnce
<1> QED BY <1>1, <1>2, <1>3, <1>5 DEF OrderInv, ToldInv

LEMMA NextOrder == OrderInv /\ [Next]_vars => OrderInv'
<1> SUFFICES ASSUME OrderInv, [Next]_vars PROVE OrderInv'
  OBVIOUS
<1>1. TypeInv /\ ToldInv /\ SubscribedOnce /\ Ordered(server)
  BY DEF OrderInv, ToldInv
<1>2. TypeInv'
  BY <1>1, NextTypes
<1>3. ToldInv' /\ SubscribedOnce'
  BY <1>1, DeliverKeeps, TurnTold, TurnSubscribed, RestKeeps
<1> QED BY <1>2, <1>3 DEF OrderInv

\* A watcher gets reports in the order of the triggers and none twice, whatever
\* the courier's refused replies skip and whoever subscribes in between.
THEOREM ToldInOrderAlways == Spec => ToldInOrder
<1>1. ASSUME OrderInv, [Next]_vars
      PROVE  \A s \in Subscriber : told'[s] >= told[s] /\
               (watcher[s] = "waits" /\ watcher'[s] = "busy" => told'[s] > told[s])
  <2>1. TypeInv /\ ToldInv /\ SubscribedOnce /\ told \in [Subscriber -> Nat]
    BY <1>1 DEF OrderInv, TypeInv
  <2>2. CASE Deliver
    <3> DEFINE work == courier.work[1]
    <3>1. /\ work.to \in Subscriber /\ work.report.number \in Nat /\ courier.at = "watcher"
          /\ \A s \in Subscriber : /\ told'[s] = IF s = work.to THEN work.report.number ELSE told[s]
                                   /\ watcher'[s] = IF s = work.to THEN "busy" ELSE watcher[s]
      BY <2>1, <2>2, DeliverIs
    <3>2. told[work.to] < work.report.number
      BY <2>1, <3>1 DEF ToldInv
    <3> HIDE DEF work
    <3> QED BY <2>1, <3>1, <3>2
  <2>3. CASE Serve
    <3>1. told' = told /\ watcher \in [Subscriber -> {"new", "subscribes", "waits", "busy"}]
      BY <2>1, <2>3, TurnIs DEF TypeInv
    <3>2. \/ watcher' = watcher
          \/ Head(inbox).kind = "subscribe" /\ watcher' = [watcher EXCEPT ![Head(inbox).from] = "waits"]
      BY <2>1, <2>3, TurnIs
    <3>3. \A s \in Subscriber : ~(watcher[s] = "waits" /\ watcher'[s] = "busy")
      BY <3>1, <3>2
    <3> QED BY <2>1, <3>1, <3>3
  <2>4. CASE ~Deliver /\ ~Serve
    <3>1. told' = told /\ \A s \in Subscriber : ~(watcher[s] = "waits" /\ watcher'[s] = "busy")
      BY <1>1, <2>1, <2>4, RestKeeps
    <3> QED BY <2>1, <3>1
  <2> QED BY <2>2, <2>3, <2>4
<1>2. OrderInv /\ [Next]_vars =>
        [\A s \in Subscriber : told'[s] >= told[s] /\
           (watcher[s] = "waits" /\ watcher'[s] = "busy" => told'[s] > told[s])]_vars
  BY <1>1
<1> QED BY <1>2, InitOrder, NextOrder, PTL DEF Spec, ToldInOrder
=============================================================================
