---------------------------- MODULE SensorServer ----------------------------
(***************************************************************************)
(* The sensor server of Sensor.c with its workers.  Every QueryDelay ticks *)
(* a worker asks the train controller for all sensors; the answer is       *)
(* Bytes bytes without any framing, so a byte belongs to the sensor its    *)
(* place in the answer says, and a lost byte moves all later ones.  A      *)
(* second timer drops an answer that stays incomplete.  Reports of sensors *)
(* that changed go to the subscribers one by one through a courier.  One   *)
(* bit stands for the eight sensors of a byte.  A tick is the time a byte  *)
(* takes on the line, 11 bits at 2400 baud or 4.6 ms.                      *)
(***************************************************************************)
EXTENDS Integers, Sequences, SequencesExt

CONSTANTS
    Bytes,       \* bytes of an answer (10, NUM_SENSOR_BOX * 2)
    BufferSize,  \* slots of sensorBuffer (10), one of them always empty
    Subscriber,  \* the watchers that subscribe
    QueryDelay,  \* ticks between queries (21: 100 ms)
    AnswerDelay, \* ticks after which an incomplete answer is dropped (15: 70 ms)
    Latency,     \* ticks after which an answer that has not begun is late
    MaxQueries,  \* queries that wait in COM1's ring; a full ring drops the next
    Fake,        \* sensors users may fake (any)
    MaxStale,    \* bytes that may be left over from before the start
    MaxReports   \* bound: triggers in a run

\* The timer of an answer lasts as long as its bytes.  The last conjunct says
\* which answers are late: the timer of an answer that is not late ends before
\* the next query.  Nothing in the code keeps an answer from being late.
ASSUME SensorAssumption ==
    /\ {Bytes, BufferSize, QueryDelay, AnswerDelay} \subseteq Nat \ {0}
    /\ {Latency, MaxStale, MaxReports} \subseteq Nat
    /\ MaxQueries \in Nat \ {0}
    /\ Fake \subseteq 0 .. Bytes - 1
    /\ Bytes <= AnswerDelay
    /\ Latency + 1 + AnswerDelay < QueryDelay

Off     == -1   \* a timer whose worker waits for the server

VARIABLES
    box,         \* the train controller: queries that wait in COM1's output ring
                 \* for an answer, ticks they wait, next byte of the answer
    late, lost,  \* history: an answer was late; a byte was lost
    rx,          \* bytes in COM1's input ring
    queryTimer,  \* ticks left in sensorQueryTimeoutWorker's Delay
    answerTimer, \* ticks left in sensorQueryResponseTimeoutWorker's Delay
    asking,      \* sensorQueryWorker is about to Putc the query
    inbox,       \* messages sent to the server, in order
    server,      \* the server's variables
    courier,     \* the courier: its message waits, it waits, or it delivers
    watcher,     \* what a subscriber's watcher does
    told,        \* subscriber -> number of the last report it got
    count        \* triggers so far

vars == <<box, late, lost, rx, queryTimer, answerTimer, asking, inbox, server, courier,
          watcher, told, count>>

Sensors == 0 .. Bytes - 1
Stale   == [pos |-> -1, on |-> 0]
Idle    == [queries |-> 0, wait |-> 0, pos |-> Bytes]
Posting == [at |-> "inbox", work |-> <<>>]
Waiting == [at |-> "server", work |-> <<>>]
Message(kind) == [kind |-> kind]

Init ==
    /\ box = Idle
    /\ late = FALSE
    /\ rx \in {[i \in 1 .. n |-> Stale] : n \in 0 .. MaxStale}
    /\ lost = FALSE
    /\ queryTimer = Off
    /\ answerTimer = Off
    /\ asking = FALSE
    /\ inbox = <<Message("query_worker"), Message("query_timeout"),
                 Message("answer_timeout"), Message("courier")>>
    /\ server = [queryWorkerReady |-> FALSE, queryTimeout |-> FALSE,
                 queryResponseTimeout |-> FALSE, startQueryResponseTimeout |-> FALSE,
                 courierReady |-> FALSE, response |-> <<>>, ignore |-> TRUE,
                 value |-> [i \in Sensors |-> 0], buffer |-> <<>>,
                 number |-> 0,
                 subscriber |-> <<>>, update |-> 1]
    /\ courier = Posting
    /\ watcher = [s \in Subscriber |-> "new"]
    /\ told = [s \in Subscriber |-> 0]
    /\ count = 0

----------------------------------------------------------------------------
(* The train controller, the line and the ticks.                           *)

Yields == inbox = <<>>
Urgent == ~Yields \/ rx # <<>> \/ asking \/ queryTimer = 0 \/ answerTimer = 0
Elapse(timer) == IF timer > 0 THEN timer - 1 ELSE timer

\* The queries wait behind the speeds and switch settings in COM1's ring, for
\* as long as the controller takes to accept those.
Wait ==
    /\ box.pos = Bytes
    /\ late' = (late \/ (box.queries > 0 /\ box.wait = Latency))
    /\ box' = [box EXCEPT !.wait = IF box.queries = 0 \/ late' THEN 0 ELSE @ + 1]
    /\ UNCHANGED <<lost, rx, count>>

\* The box sends the next byte of its answer or begins the next answer, never
\* in the middle of one.  The line may lose the byte.
SendByte(loses) ==
    \E on \in {0, 1} :
        /\ box.pos < Bytes \/ box.queries > 0
        /\ LET pos == IF box.pos < Bytes THEN box.pos ELSE 0 IN
               /\ box' = [queries |-> IF box.pos < Bytes THEN box.queries ELSE box.queries - 1,
                          wait    |-> 0,
                          pos     |-> pos + 1]
               /\ rx' = IF loses THEN rx ELSE Append(rx, [pos |-> pos, on |-> on])
        /\ lost' = (lost \/ loses)
        /\ count + on <= MaxReports
        /\ count' = count + on
        /\ UNCHANGED late

\* A tick passes when no task of the sensor server has anything to do.
TimersElapse ==
    /\ ~Urgent
    /\ queryTimer' = Elapse(queryTimer)
    /\ answerTimer' = Elapse(answerTimer)
    /\ UNCHANGED <<asking, inbox, server, courier, watcher, told>>

QuietTick == TimersElapse /\ Wait
ByteTick(loses) == TimersElapse /\ SendByte(loses)

----------------------------------------------------------------------------
(* The workers.  The server's priority is higher than theirs, so they run  *)
(* only when it has no message left; only the watchers run beside it.      *)

\* sensorQueryWorker: Putc(com1, 133) adds to COM1's ring, or drops the byte
\* when that is full, and the worker goes back to the server
Query ==
    /\ Yields
    /\ asking
    /\ asking' = FALSE
    /\ box' = [box EXCEPT !.queries = IF @ < MaxQueries THEN @ + 1 ELSE @]
    /\ inbox' = Append(inbox, Message("query_worker"))
    /\ UNCHANGED <<late, lost, rx, queryTimer, answerTimer, server, courier, watcher, told, count>>

\* sensorQueryResponseWorker: Getc, then Send
Response ==
    /\ Yields
    /\ rx # <<>>
    /\ rx' = Tail(rx)
    /\ inbox' = Append(inbox, [kind |-> "byte", byte |-> Head(rx)])
    /\ UNCHANGED <<box, late, lost, queryTimer, answerTimer, asking, server, courier, watcher, told, count>>

QueryTimeout ==
    /\ Yields
    /\ queryTimer = 0
    /\ queryTimer' = Off
    /\ inbox' = Append(inbox, Message("query_timeout"))
    /\ UNCHANGED <<box, late, lost, rx, answerTimer, asking, server, courier, watcher, told, count>>

ResponseTimeout ==
    /\ Yields
    /\ answerTimer = 0
    /\ answerTimer' = Off
    /\ inbox' = Append(inbox, Message("answer_timeout"))
    /\ UNCHANGED <<box, late, lost, rx, queryTimer, asking, server, courier, watcher, told, count>>

\* sensorCourier reaches a watcher, which replies at once and passes the
\* report on to its driver or to the user interface.
Deliver ==
    /\ Yields
    /\ courier.at = "watcher"
    /\ LET work == courier.work[1] IN
           /\ watcher[work.to] = "waits"
           /\ watcher' = [watcher EXCEPT ![work.to] = "busy"]
           /\ told' = [told EXCEPT ![work.to] = work.report.number]
    /\ courier' = Posting
    /\ inbox' = Append(inbox, Message("courier"))
    /\ UNCHANGED <<box, late, lost, rx, queryTimer, answerTimer, asking, server, count>>

\* A watcher subscribes, or is answered by its parent.
Watch(s) ==
    /\ \/ watcher[s] = "new"
          /\ watcher' = [watcher EXCEPT ![s] = "subscribes"]
          /\ inbox' = Append(inbox, [kind |-> "subscribe", from |-> s])
       \/ watcher[s] = "busy"
          /\ watcher' = [watcher EXCEPT ![s] = "waits"]
          /\ UNCHANGED inbox
    /\ UNCHANGED <<box, late, lost, rx, queryTimer, answerTimer, asking, server, courier, told, count>>

\* triggerFakeSensor of a user command
FakeTrigger(i) ==
    /\ Yields
    /\ count < MaxReports
    /\ count' = count + 1
    /\ inbox' = Append(inbox, [kind |-> "fake", sensor |-> i])
    /\ UNCHANGED <<box, late, lost, rx, queryTimer, answerTimer, asking, server, courier, watcher, told>>

----------------------------------------------------------------------------
(* sensorServer.  A report carries the sensor it names, the place its byte *)
(* had in the answer, and a number.                                        *)

\* Mutant: the newest report is told first.
add_to_buffer_front(b, r) == IF Len(b) < BufferSize - 1 THEN <<r>> \o b ELSE b
add_to_buffer(b, r) == IF Len(b) < BufferSize - 1 THEN Append(b, r) ELSE b

\* sensorResponded for one byte: a report when the sensor was off before.
sensorResponded(sv, i, byte) ==
    LET r == [sensor |-> i, pos |-> byte.pos, number |-> sv.number + 1]
    IN  IF ~sv.ignore /\ byte.on = 1 /\ sv.value[i] = 0
        THEN [sv EXCEPT !.buffer = add_to_buffer(@, r), !.number = @ + 1, !.value[i] = 1]
        ELSE IF ~sv.ignore THEN [sv EXCEPT !.value[i] = byte.on] ELSE sv

\* The loop over the bytes of a complete answer.
Processed(sv, answer) ==
    LET upTo[i \in 0 .. Bytes] ==
            IF i = 0 THEN sv ELSE sensorResponded(upTo[i - 1], i - 1, answer[i])
    IN  upTo[Bytes]

Known(sv, m) ==
    CASE m.kind = "query_worker"  -> [sv EXCEPT !.queryWorkerReady = TRUE]
      [] m.kind = "query_timeout" -> [sv EXCEPT !.queryTimeout = TRUE]
      [] m.kind = "courier"       -> [sv EXCEPT !.courierReady = TRUE]
      [] m.kind = "subscribe"     -> [sv EXCEPT !.subscriber = Append(@, m.from)]
      [] m.kind = "fake" ->
             [sv EXCEPT !.number = @ + 1,
                        !.buffer = add_to_buffer(@, [sensor |-> m.sensor, pos |-> m.sensor,
                                                     number |-> sv.number + 1])]

\* QUERY_RESPONSE_WORKER: the first byte of an answer restarts the timer or,
\* when it still runs, leaves that to its end; the last one processes it.
Byte(sv, byte) ==
    LET r == Append(sv.response, byte)
        first == Len(r) = 1
        s1 == [sv EXCEPT !.queryResponseTimeout = @ /\ ~first,
                         !.startQueryResponseTimeout = @ \/ (first /\ ~sv.queryResponseTimeout),
                         !.response = r]
    IN  IF Len(r) < Bytes THEN s1
        ELSE [Processed(s1, r) EXCEPT !.response = <<>>, !.ignore = FALSE]

\* Mutant: the incomplete answer is kept.
TimedOutKeeping(sv) ==
    IF sv.startQueryResponseTimeout THEN [sv EXCEPT !.startQueryResponseTimeout = FALSE]
    ELSE [sv EXCEPT !.queryResponseTimeout = TRUE]

\* QUERY_RESPONSE_TIMEOUT_WORKER
TimedOut(sv) ==
    IF sv.startQueryResponseTimeout THEN [sv EXCEPT !.startQueryResponseTimeout = FALSE]
    ELSE [sv EXCEPT !.queryResponseTimeout = TRUE, !.response = <<>>]

Handled(sv, m) == CASE m.kind = "byte"           -> Byte(sv, m.byte)
                    [] m.kind = "answer_timeout" -> TimedOut(sv)
                    [] OTHER                     -> Known(sv, m)

\* The worker behind the answer timer is replied to: by the first byte of an
\* answer, or at once.
Rearmed(sv, m) == \/ m.kind = "byte" /\ sv.response = <<>> /\ sv.queryResponseTimeout
                  \/ m.kind = "answer_timeout" /\ sv.startQueryResponseTimeout

Telling(sv) == sv.courierReady /\ sv.buffer # <<>> /\ sv.subscriber # <<>>

\* The end of a turn: the oldest report goes to the next subscriber, and is
\* removed with the last.  The reply is refused, and that subscriber never
\* told, while the courier is with a watcher: courierReady stays set.
Told(sv) ==
    IF ~Telling(sv) THEN sv
    ELSE IF sv.update = Len(sv.subscriber)
    THEN [sv EXCEPT !.update = 1, !.buffer = Tail(@)]
    ELSE [sv EXCEPT !.update = @ + 1]

\* The start of the next turn: both workers are ready for another query.
Asks(sv) == sv.queryTimeout /\ sv.queryWorkerReady
AskedAgain(sv) == IF Asks(sv) THEN [sv EXCEPT !.queryWorkerReady = FALSE] ELSE sv    \* mutant
Asked(sv) == IF Asks(sv) THEN [sv EXCEPT !.queryTimeout = FALSE, !.queryWorkerReady = FALSE] ELSE sv

\* One turn of the server, for the message that came first.
Serve ==
    /\ inbox # <<>>
    /\ LET m == Head(inbox)
           h == Handled(server, m)
       IN  /\ server' = Asked(Told(h))
           /\ courier' = CASE Telling(h) /\ (courier.at = "server" \/ m.kind = "courier") ->
                                [at |-> "watcher", work |-> <<[to     |-> h.subscriber[h.update],
                                                               report |-> Head(h.buffer)]>>]
                           [] ~Telling(h) /\ m.kind = "courier" -> Waiting
                           [] OTHER -> courier
           /\ answerTimer' = IF Rearmed(server, m) THEN AnswerDelay ELSE answerTimer
           /\ asking' = (asking \/ Asks(Told(h)))
           /\ queryTimer' = IF Asks(Told(h)) THEN QueryDelay ELSE queryTimer
           /\ watcher' = IF m.kind = "subscribe" THEN [watcher EXCEPT ![m.from] = "waits"] ELSE watcher
    /\ inbox' = Tail(inbox)
    /\ UNCHANGED <<box, late, lost, rx, told, count>>

Workers == Query \/ Response \/ QueryTimeout \/ ResponseTimeout

Next ==
    \/ QuietTick
    \/ \E loses \in BOOLEAN : ByteTick(loses)
    \/ Workers
    \/ Serve
    \/ Deliver
    \/ \E s \in Subscriber : Watch(s)
    \/ \E i \in Fake : FakeTrigger(i)

\* The kernel runs every ready task and the clock ticks on; COM1's ring gets
\* sent, so a query that waits is answered.
Fairness ==
    /\ WF_vars(QuietTick \/ \E loses \in BOOLEAN : ByteTick(loses))
    /\ SF_vars(\E loses \in BOOLEAN : ByteTick(loses))
    /\ WF_vars(Query) /\ WF_vars(Response)
    /\ WF_vars(QueryTimeout) /\ WF_vars(ResponseTimeout)
    /\ WF_vars(Serve)

Spec == Init /\ [][Next]_vars /\ Fairness

----------------------------------------------------------------------------
(* Properties.                                                             *)

\* A report names the sensor that was triggered.  When the line loses bytes,
\* no byte of an answer is taken for the byte of another sensor box, because
\* the answer timer drops what is incomplete before the next answer begins,
\* unless COM1's output held an answer up for more than Latency ticks.  When it
\* loses none, this holds however late the answers come and however many
\* queries wait.  Of a late answer after a lost byte the code may tell anything.
ReportsAreTrue ==
    \/ late /\ lost
    \/ \A r \in ToSet(server.buffer) \cup {w.report : w \in ToSet(courier.work)} : r.pos = r.sensor

\* A watcher gets reports in the order of the triggers and none twice, also
\* when the courier's reply is refused or a watcher subscribes in between.
ToldInOrder == [][\A s \in Subscriber : told'[s] >= told[s] /\
                     (watcher[s] = "waits" /\ watcher'[s] = "busy" => told'[s] > told[s])]_vars

\* The server recovers from lost bytes: if the line does not lose bytes again
\* and again, complete answers are processed again and again, so neither
\* timer and neither of their flags can get stuck.
AnswersGetThrough ==
    \/ []<><<ByteTick(TRUE)>>_vars
    \/ []<><<Serve /\ Len(server.response) = Bytes - 1 /\ server'.response = <<>>
             /\ Head(inbox).kind = "byte">>_vars
=============================================================================
