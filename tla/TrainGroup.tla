----------------------------- MODULE TrainGroup -----------------------------
(***************************************************************************)
(* The train drivers.  Every train has a driver, multitrain_driver of      *)
(* MultiTrainDriver.c, and below it a task that knows the train itself,    *)
(* dumb_driver of DumbDriver.c.  MERGE_TAIL makes a driver the tail of     *)
(* another one: from then on it only passes messages on, between its own   *)
(* dumb train and the head.  A driver blocks in Send until the task below  *)
(* answers; what goes up is carried by couriers, who are woken by Reply,   *)
(* and a Reply to a courier that is under way is refused and lost.         *)
(*                                                                         *)
(* Commands come from several tasks, each of which waits for the driver's  *)
(* Reply; trainController passes them on one after the other, without      *)
(* waiting for that Reply.                                                 *)
(*                                                                         *)
(* A dumb train takes a message as soon as it is sent.  Speeds are 0, 1    *)
(* for any other, and -1 for reverse.  What the track server answers, and  *)
(* which distances, sensors and routes there are, is left open.            *)
(***************************************************************************)
EXTENDS Integers, Sequences, FiniteSets, SequencesExt

CONSTANTS
    Train,       \* the trains; a name stands for the driver
    None,        \* no driver
    Client,      \* the tasks that send commands
    Located,     \* trains whose position was found before the start
    MaxCommands, \* bound: commands and merges
    MaxWork,     \* bound: sensors and nags
    MaxTimers,   \* bound: this many timers of a train stand for more
    MaxNaggers   \* bound: this many naggers of a driver stand for more

ASSUME TrainAssumption ==
    /\ IsFiniteSet(Train)
    /\ None \notin Train
    /\ Located \subseteq Train
    /\ Client \cap (Train \cup {None}) = {}
    /\ MaxCommands \in Nat
    /\ MaxWork \in Nat
    /\ MaxTimers \in Nat \ {0}
    /\ MaxNaggers \in Nat \ {0}

VARIABLES
    drv,    \* the variables of a driver, with the Sends its handler has left
    dumb,   \* those of its dumb train, with the stop delayer and the courier
    inbox,  \* messages sent to a driver, in order
    stray,  \* a server still has an answer for the driver, who waits no more
    holds,  \* the train has track reserved in its name
    client, \* waits for a driver's Reply; the merge it is in the middle of
    left    \* bound: the commands, and the sensors and nags, still to come

vars == <<drv, dumb, inbox, stray, holds, client, left>>

Message(kind, v, from) == [kind |-> kind, v |-> v, from |-> from]

Init ==
    /\ drv = [d \in Train |->
                 [tailMode |-> FALSE, headTid |-> None, trainId |-> <<d>>,
                  stoppedCount |-> 0, isReversing |-> FALSE,
                  reserveTrackMode |-> d \in Located, finding |-> FALSE,
                  naggers |-> IF d \in Located THEN 1 ELSE 0, route |-> FALSE, routeRemaining |-> FALSE,
                  stopCommited |-> FALSE, rerouteCountdown |-> FALSE,
                  courier |-> "home", todo |-> <<>>, blocked |-> FALSE]]
    /\ dumb = [d \in Train |->
                 [moving |-> FALSE, located |-> d \in Located, courier |-> "home",
                  delaying |-> FALSE, timers |-> 0]]
    /\ inbox = [d \in Train |-> <<>>]
    /\ stray = [d \in Train |-> FALSE]
    /\ holds = [d \in Train |-> d \in Located]
    /\ client = [c \in Client |-> [waits |-> FALSE, merge |-> <<>>]]
    /\ left = [commands |-> MaxCommands, work |-> MaxWork]

Running(d) == ~drv[d].blocked /\ drv[d].todo # <<>>

\* No message is on its way to a dumb train: these are answered first.
Settled == \A d \in Train : Running(d) => Head(drv[d].todo).to # d
Receiving(d) == Settled /\ ~drv[d].blocked /\ drv[d].todo = <<>>

----------------------------------------------------------------------------
(* The dumb train, with its couriers.                                      *)

\* Replies to dumbDriverCourier: the first message leaves with it, the
\* others of the same turn are lost, and all are when it is under way.
Carried(u, kinds) == IF u.courier = "home" THEN <<Head(kinds)>> ELSE <<>>
Leaves(u, kinds) ==
    [new |-> [u EXCEPT !.courier = "away"], sent |-> Carried(u, kinds)]
Stays(u) == [new |-> u, sent |-> <<>>]

\* STOP_DELAYER
StopDelayed(u) ==
    IF u.located /\ ~u.moving THEN Leaves(u, <<"stopped">>) ELSE Stays(u)

\* SET_SPEED: a stop wakes the stop delayer, who goes to the time server; a
\* second stop wakes it there, before the train has come to a halt.
SetSpeed(u, v) ==
    CASE v = -1 -> Stays(u)
      [] v = 1  -> Stays([u EXCEPT !.moving = TRUE])
      [] v = 0 /\ ~u.delaying ->
             Stays([u EXCEPT !.moving = FALSE, !.delaying = TRUE,
                             !.timers = IF @ < MaxTimers THEN @ + 1 ELSE @])
      [] v = 0 /\ u.delaying ->
             StopDelayed([u EXCEPT !.moving = FALSE, !.delaying = FALSE])

\* REVERSE_SPEED
ReverseSpeed(u, v) ==
    IF v = -1 THEN Stays(u) ELSE Leaves([u EXCEPT !.moving = (v # 0)], <<"predict">>)

\* SENSOR_TRIGGER: any sensor for a train without position, else a predicted
\* one; behind a failed switch or sensor the head is to plan a new route.
Triggered(u) ==
    LET at == [u EXCEPT !.located = TRUE]
    IN  {Leaves(at, <<"predict">>)} \cup
        IF u.located THEN {Stays(u), Leaves(at, <<"secondary", "predict">>)} ELSE {}

\* What a message to the dumb train does.
Dumb(u, m) ==
    CASE m.kind = "set_speed"     -> {SetSpeed(u, m.v)}
      [] m.kind = "reverse_speed" -> {ReverseSpeed(u, m.v)}
      [] m.kind = "trigger"       -> Triggered(u)
      [] m.kind = "update_parent" -> {Leaves(u, <<"predict">>)}
      [] OTHER                    -> {Stays(u)}

Letters(d, kinds) == [i \in DOMAIN kinds |-> Message(kinds[i], 0, d)]

\* A timer of the stop delayer ends: it goes back to its train, also when it
\* was woken before and the answer reaches it there.
StopDelayer(d) ==
    /\ Settled
    /\ dumb[d].timers > 0
    /\ \E n \in {dumb[d].timers - 1} \cup (IF dumb[d].timers = MaxTimers THEN {MaxTimers} ELSE {}) :
           LET r == StopDelayed([dumb[d] EXCEPT !.timers = n, !.delaying = FALSE])
           IN  /\ dumb' = [dumb EXCEPT ![d] = r.new]
               /\ inbox' = [inbox EXCEPT ![d] = @ \o Letters(d, r.sent)]
    /\ UNCHANGED <<drv, stray, holds, client, left>>

----------------------------------------------------------------------------
(* A driver's Sends.  A handler leaves the messages it has still to send   *)
(* in todo; the driver receives again when all are answered.               *)

Send(to, kind, v) == [to |-> to, kind |-> kind, v |-> v]
ToAll(s, kind, v) == [i \in DOMAIN s.trainId |-> Send(s.trainId[i], kind, v)]

\* A trigger goes no further once a train took it: the loop that offers it to
\* the trains ends.  Nothing else is sent after that loop.
Taken(sends) ==
    IF \A i \in DOMAIN sends : sends[i].kind = "trigger" THEN <<>> ELSE sends

\* A message for the driver's own dumb train.
SendOwn(d) ==
    LET m == Head(drv[d].todo) IN
    /\ Running(d)
    /\ m.to = d
    /\ \E r \in Dumb(dumb[d], m) :
           /\ dumb' = [dumb EXCEPT ![d] = r.new]
           /\ inbox' = [inbox EXCEPT ![d] = @ \o Letters(d, r.sent)]
           /\ drv' = [drv EXCEPT ![d].todo =
                         IF m.kind = "trigger" /\ r.new # dumb[d]
                         THEN Taken(Tail(@)) ELSE Tail(@)]
    /\ UNCHANGED <<stray, holds, client, left>>

\* A message for the driver of a tail: this driver is blocked.
SendTail(d) ==
    LET m == Head(drv[d].todo) IN
    /\ Running(d)
    /\ Settled
    /\ m.kind # "answer"
    /\ inbox' = [inbox EXCEPT ![m.to] = Append(@, Message(m.kind, m.v, d))]
    /\ drv' = [drv EXCEPT ![d].blocked = TRUE]
    /\ UNCHANGED <<dumb, stray, holds, client, left>>

\* Above the number of trains all counts are the same to the drivers.
Counted(n) == IF n > Cardinality(Train) THEN Cardinality(Train) + 1 ELSE n

\* What another's answer can be for the driver: any count, if it asked for one.
Mistaken(d) ==
    IF Head(drv[d].todo).kind = "stop_count" THEN 0 .. Cardinality(Train) + 1 ELSE {0}

\* The driver that waits goes on with its handler, with the next trigger
\* only if no train has taken it; n is the answer to QUERY_STOP_COUNT.
Resumed(s, handled, n) ==
    [s EXCEPT !.blocked = FALSE, !.stoppedCount = Counted(@ + n),
              !.todo = IF handled THEN Taken(Tail(@)) ELSE Tail(@)]

\* What a courier carries.
Carries(m) == m.kind \in {"predict", "stopped", "secondary"}

\* The other has received the message: Reply to d is accepted, whoever replies.
Awaits(d) ==
    LET t == Head(drv[d].todo).to
    IN  drv[d].blocked /\ ~ \E i \in DOMAIN inbox[t] : inbox[t][i].from = d /\ ~Carries(inbox[t][i])

\* Reply to the head at the end of a handler.  A head that got an answer before,
\* and is in another Send since, takes it for the answer to that.  It is
\* refused if it waits for nothing; and if it waits for a server or a dumb
\* train, these will answer later.
Answer(d) ==
    LET m    == Head(drv[d].todo)
        h    == m.to
        ns   == IF Head(drv[h].todo).to = d THEN {m.v} ELSE Mistaken(h)
        sent == [drv EXCEPT ![d].todo = Tail(@)]
    IN  /\ Running(d)
        /\ Settled
        /\ m.kind = "answer"
        /\ \/ /\ Awaits(h)
              /\ \E handled \in BOOLEAN, n \in ns : drv' = [sent EXCEPT ![h] = Resumed(@, handled, n)]
              /\ UNCHANGED stray
           \/ /\ ~Awaits(h)
              /\ drv' = sent
              /\ \E late \in {stray[h], stray[h] \/ ~drv[h].blocked} : stray' = [stray EXCEPT ![h] = late]
        /\ UNCHANGED <<dumb, inbox, holds, client, left>>

\* The answer of a server to a driver that has gone on without it.
LateAnswer(d) ==
    /\ Settled
    /\ stray[d]
    /\ stray' = [stray EXCEPT ![d] = FALSE]
    /\ \/ /\ Awaits(d)
          /\ \E handled \in BOOLEAN, n \in Mistaken(d) : drv' = [drv EXCEPT ![d] = Resumed(@, handled, n)]
       \/ /\ ~Awaits(d)
          /\ UNCHANGED drv
    /\ UNCHANGED <<dumb, inbox, holds, client, left>>

----------------------------------------------------------------------------
(* What a handler does: its driver's variables and its reservation, as     *)
(* [s |-> drv[d], h |-> holds[d]].  The track server's answers, the speeds *)
(* reported and the route decide between the results.                      *)

Then(E, F(_)) == UNION {F(e) : e \in E}
Doing(e, sends) == [e EXCEPT !.s.todo = @ \o sends]

\* makeReservation: a refused request leaves the old reservation.  What the
\* driver is told may be another's late answer.
makeReservation(e) ==
    IF e.s.tailMode \/ ~e.s.reserveTrackMode THEN {[ok |-> TRUE, e |-> e]}
    ELSE {[ok |-> ok, e |-> [e EXCEPT !.h = h]] : ok \in BOOLEAN, h \in {TRUE, e.h}}

\* groupSetSpeed: a standing train reserves before it starts.
groupSetSpeed(e, v) ==
    LET speed  == IF v = -1 THEN 0 ELSE v
        halted == [e EXCEPT !.s.stoppedCount = 0]
        Go(f)  == Doing(f, ToAll(f.s, "set_speed", speed))
        ask    == <<Send(e.s.trainId[1], "stop_dist", 0)>>
        kept   == [e EXCEPT !.h = @ /\ (v # 0 \/ e.s.reserveTrackMode)]
    IN  CASE e.s.tailMode -> {[ok |-> TRUE, e |-> Doing(kept, ToAll(e.s, "set_speed", v))]}
          [] ~e.s.tailMode /\ v # 1 ->
                 {[ok |-> TRUE, e |-> Go([halted EXCEPT !.h = @ /\ e.s.reserveTrackMode,
                                                        !.s.isReversing = @ \/ v = -1])]}
          [] OTHER ->
                 {[ok |-> TRUE, e |-> Go(halted)]} \cup
                 {[r EXCEPT !.e = IF r.ok THEN Go(@) ELSE @] : r \in makeReservation(Doing(halted, ask))}

Effect(R) == {r.e : r \in R}

\* updateInfo: REPORT_INFO to all, then a follower whose speed is off is told
\* another one, and one whose distance is off too.
updateInfo(e) ==
    LET n == Len(e.s.trainId)
        Adjusted(i, speeds) ==
            [k \in DOMAIN speeds |-> Send(e.s.trainId[i], "set_speed", speeds[k])]
            \o <<Send(e.s.trainId[i], "delta", 0)>>
    IN  {Doing(e, ToAll(e.s, "report_info", 0)
                  \o FlattenSeq([k \in 1 .. n - 1 |-> Adjusted(k + 1, f[k + 1])])
                  \o <<Send(e.s.trainId[1], "delta", 0)>>) :
            f \in [2 .. n -> UNION {[1 .. k -> {0, 1}] : k \in 0 .. 2}]}

\* setRoute, with getRoute: a route may be found or not.
setRoute(e) ==
    LET got(route) == [e EXCEPT !.s.stopCommited = ~route, !.s.routeRemaining = TRUE, !.s.route = route]
        Driven(r)  == IF r.ok THEN {r.e}
                      ELSE Effect(groupSetSpeed([r.e EXCEPT !.s.rerouteCountdown = TRUE], 0))
    IN  Then(groupSetSpeed(got(TRUE), 1), Driven) \cup Effect(groupSetSpeed(got(FALSE), 0))

\* handleReverse: the last train is now the first.  The speed to go on with
\* is the old one, or 0 or -1 as updateStopNode found.
handleReverse(e) ==
    LET turned == [e EXCEPT !.s.trainId = Reverse(@), !.s.isReversing = FALSE,
                            !.s.stopCommited = @ /\ ~e.s.route]
        Told(v) == Doing([turned EXCEPT !.s.stoppedCount = IF v = 0 THEN @ ELSE 0],
                         ToAll(turned.s, "reverse_speed", v))
    IN  UNION {updateInfo(Told(v)) : v \in {-1, 0, 1}}

----------------------------------------------------------------------------
(* Messages.                                                               *)

\* The handlers that reply before they do anything else; the others answer a
\* head when they are done.
RepliesFirst(kind) == kind \notin {"trigger", "report_info", "delta", "stop_count"}

\* Whether the handler replies to the client too.
AnswersClient(s, m) ==
    m.from \in Client /\ (m.kind \in {"set_route", "set_following"} \/ ~s.tailMode)

\* Mutant: the head is not answered.
ForwardedOnly(e, m) == {Doing(e, <<Send(e.s.trainId[1], m.kind, m.v)>>)}

\* What a tail sends to its own train for the head, and whom it answers then;
\* QUERY_STOPPING_DISTANCE is answered a second time.
Forwarded(e, m) ==
    {Doing(e, <<Send(e.s.trainId[1], m.kind, m.v)>> \o
              (IF m.kind = "update_parent" THEN <<>> ELSE <<Send(e.s.headTid, "answer", 0)>>))}

\* SENSOR_TRIGGER: a head asks the track server whose sensor it is.
Trigger(d, e, m) ==
    CASE e.s.tailMode /\ m.from = d -> {e}
      [] e.s.tailMode /\ m.from # d ->
             {Doing(e, <<Send(e.s.trainId[1], "trigger", 0), Send(m.from, "answer", 0)>>)}
      [] OTHER -> {e, Doing(e, ToAll(e.s, "trigger", 0))}

\* NAVIGATE_NAGGER: the train may have reached its stop node, which may be a
\* reverse; a switch ahead may be set; and the wait for a new route may end.
Arrived(e) ==
    LET Committed(f) == [f EXCEPT !.s.stopCommited = TRUE]
    IN  IF ~e.s.routeRemaining \/ e.s.stopCommited THEN {e}
        ELSE {e} \cup {Committed(f) : f \in Effect(groupSetSpeed(e, -1))}
             \cup {[Committed(f) EXCEPT !.s.route = FALSE, !.s.routeRemaining = FALSE] :
                       f \in Effect(groupSetSpeed(e, 0))}
trySetSwitch(e) ==
    {e} \cup IF e.s.routeRemaining \/ e.s.stopCommited
             THEN {Doing(e, ToAll(e.s, "update_parent", 0))} ELSE {}
Rerouted(e) ==
    LET due == [e EXCEPT !.s.rerouteCountdown = FALSE]
    IN  {e} \cup CASE ~e.s.rerouteCountdown -> {}
                   [] e.s.rerouteCountdown /\ e.s.route -> setRoute(due)
                   [] OTHER -> {due}
Nagged(e) ==
    IF e.s.tailMode THEN {e}
    ELSE Then(Then(Then(updateInfo(e), Arrived), trySetSwitch), Rerouted)

\* Mutant: a tail reports to its head with a Send of its own.
StopReported(e) ==
    IF e.s.tailMode THEN {Doing(e, <<Send(e.s.headTid, "stopped", 0)>>)} ELSE {e}

\* STOP_COMPLETED: the last train of the group to stop lets it go on.
StopCompleted(e) ==
    LET s == e.s
        n == Counted(s.stoppedCount + 1)
        counted == [e EXCEPT !.s.stoppedCount = n]
        GoOn(f) == CASE f.s.isReversing -> handleReverse(f)
                     [] ~f.s.isReversing /\ f.s.route -> setRoute(f)
                     [] OTHER -> {f}
        done == IF n = Len(s.trainId) THEN Then(Effect(makeReservation(counted)), GoOn)
                ELSE {counted}
    IN  IF s.tailMode THEN {e} ELSE {[f EXCEPT !.h = @ /\ f.s.reserveTrackMode] : f \in done}

\* FIND_POSITION: at slow speed until the first sensor.
FindPosition(e, v) ==
    IF e.s.tailMode THEN {e}
    ELSE {Doing([e EXCEPT !.s.reserveTrackMode = (v = 1), !.s.finding = TRUE],
                <<Send(e.s.trainId[1], "set_speed", 1)>>)}

\* Mutant: a tail can be told another head.
MergeTailAgain(e, head) == {[e EXCEPT !.s.tailMode = TRUE, !.s.headTid = head, !.h = FALSE]}

\* MERGE_HEAD and MERGE_TAIL
MergeHead(e, tail) ==
    IF e.s.tailMode THEN {e}
    ELSE {Doing([e EXCEPT !.s.reserveTrackMode = TRUE, !.s.trainId = Append(@, tail)],
                <<Send(tail, "stop_count", 0), Send(tail, "update_parent", 0)>>)}
MergeTail(e, head) ==
    IF e.s.tailMode THEN {e}
    ELSE {[e EXCEPT !.s.tailMode = TRUE, !.s.headTid = head, !.h = FALSE]}

\* The switch of the message loop.
Handled(d, m) ==
    LET e == [s |-> drv[d], h |-> holds[d]]
        tail == e.s.tailMode
    IN  CASE m.kind = "set_speed"     -> Effect(groupSetSpeed(e, m.v))
          [] m.kind = "trigger"       -> Trigger(d, e, m)
          [] m.kind = "nag"           -> Nagged(e)
          [] m.kind = "predict"       -> Effect(makeReservation(e))
          [] m.kind = "stopped"       -> StopCompleted(e)
          [] m.kind = "set_route"     -> setRoute(e)
          [] m.kind = "find"          -> FindPosition(e, m.v)
          [] m.kind = "merge_head"    -> MergeHead(e, m.v)
          [] m.kind = "merge_tail"    -> MergeTail(e, m.v)
          [] m.kind = "stop_count"    -> {Doing(e, <<Send(m.from, "answer", e.s.stoppedCount)>>)}
          [] m.kind = "secondary"     -> IF e.s.route THEN Effect(groupSetSpeed(e, 0)) ELSE {e}
          [] m.kind = "reverse_speed" -> {IF tail THEN Doing(e, ToAll(e.s, m.kind, m.v)) ELSE e}
          [] m.kind \in {"report_info", "delta", "update_parent", "stop_dist"} ->
                 IF tail THEN Forwarded(e, m) ELSE {e}
          [] OTHER                    -> {e}

----------------------------------------------------------------------------
(* Receiving.                                                              *)

\* A tail gives what its train reports to its own courier, if that is there.
Relays(d, m) ==
    drv[d].tailMode /\ ~drv[d].finding /\ m.kind \in {"predict", "stopped"} /\ drv[d].courier = "home"

\* The courier whose message d receives: of the dumb train, or of a tail that
\* passes it on (v = 1), which is home when its own driver has received it.
Returning(m, t) == Carries(m) /\ m.v = 1 /\ t = m.from

\* Receive at d wakes another driver, if its Send is answered first.
Woken(D, d, m, replied) ==
    [t \in Train |-> IF ~Carries(m) /\ t = m.from /\ t # d /\ replied
                     THEN Resumed(D[t], FALSE, 0) ELSE D[t]]

Delivered(d, m, relay, answered) ==
    /\ inbox' = [t \in Train |->
                    (IF t = d THEN Tail(inbox[t]) ELSE inbox[t])
                    \o (IF Returning(m, t) THEN <<Message("courier", 0, t)>> ELSE <<>>)
                    \o (IF relay /\ t = drv[d].headTid THEN <<Message(m.kind, 1, d)>> ELSE <<>>)]
    /\ dumb' = IF Carries(m) /\ m.v = 0 THEN [dumb EXCEPT ![d].courier = "home"] ELSE dumb
    /\ client' = IF answered THEN [client EXCEPT ![m.from].waits = FALSE] ELSE client
    /\ UNCHANGED <<stray, left>>

Receive(d) ==
    LET m == Head(inbox[d]) IN
    /\ Receiving(d) /\ ~drv[d].finding
    /\ inbox[d] # <<>>
    /\ \E e \in Handled(d, m) :
           LET s == [e.s EXCEPT !.courier = CASE Relays(d, m) -> "away"
                                              [] m.kind = "courier" -> "home"
                                              [] OTHER -> @]
           IN  /\ drv' = Woken([drv EXCEPT ![d] = s], d, m, RepliesFirst(m.kind))
               /\ holds' = [holds EXCEPT ![d] = e.h]
    /\ Delivered(d, m, Relays(d, m), AnswersClient(drv[d], m))

\* The loop in FIND_POSITION: what comes is replied to and dropped, with a
\* reply to the client for GET_POSITION only; a sensor ends it, and another
\* nagger is created.
FindReceive(d) ==
    LET m == Head(inbox[d])
        first == drv[d].trainId[1]
        found == [drv[d] EXCEPT !.finding = FALSE,
                                !.naggers = IF @ < MaxNaggers THEN @ + 1 ELSE @,
                                !.todo = <<Send(first, "trigger", 0), Send(first, "set_speed", 0)>>
                                         \o ToAll(drv[d], "report_info", 0)]
    IN  /\ Receiving(d) /\ drv[d].finding
        /\ inbox[d] # <<>>
        /\ drv' = Woken([drv EXCEPT ![d] = IF m.kind = "trigger" THEN found ELSE @], d, m, TRUE)
        /\ Delivered(d, m, FALSE, m.kind = "get_position")
        /\ UNCHANGED holds

----------------------------------------------------------------------------
(* The workers and the clients.                                            *)

Works(d, m) ==
    /\ Settled
    /\ left.work > 0
    /\ left' = [left EXCEPT !.work = @ - 1]
    /\ inbox' = [inbox EXCEPT ![d] = Append(@, m)]
    /\ UNCHANGED <<drv, dumb, stray, holds, client>>

\* trainSensor has one message in the inbox, and so has each of the
\* trainNavigateNaggers.
Sensor(d) ==
    LET m == Message("trigger", 0, d)
    IN  m \notin Range(inbox[d]) /\ Works(d, m)
Nag(d) ==
    LET m == Message("nag", 0, d)
    IN  Cardinality({i \in DOMAIN inbox[d] : inbox[d][i] = m}) < drv[d].naggers /\ Works(d, m)

\* trainController passes a command on when the driver it gave the last one
\* to has received it; before that, the client has not sent it.
Commands(c, to, kind, v) ==
    /\ Settled
    /\ \A d \in Train : \A i \in DOMAIN inbox[d] : inbox[d][i].from \notin Client
    /\ ~client[c].waits
    /\ inbox' = [inbox EXCEPT ![to] = Append(@, Message(kind, v, c))]
    /\ UNCHANGED <<drv, dumb, stray, holds>>

Ordered(c, merge) ==
    /\ left.commands > 0
    /\ left' = [left EXCEPT !.commands = @ - 1]
    /\ client[c].merge = <<>>
    /\ client' = [client EXCEPT ![c] = [waits |-> TRUE, merge |-> merge]]

Command(c) ==
    /\ Ordered(c, <<>>)
    /\ \E d \in Train :
           \/ \E v \in {-1, 0, 1} : Commands(c, d, "set_speed", v)
           \/ \E v \in {0, 1} : Commands(c, d, "find", v)
           \/ \E kind \in {"set_route", "get_position", "set_following"} : Commands(c, d, kind, 0)

\* DoTrainMerge: the tail is told first, and the head when the tail has replied.
DoTrainMerge(c) ==
    \E head, tail \in Train : Ordered(c, <<head, tail>>) /\ Commands(c, tail, "merge_tail", head)
TellHead(c) ==
    /\ client[c].merge # <<>>
    /\ Commands(c, client[c].merge[1], "merge_head", client[c].merge[2])
    /\ client' = [client EXCEPT ![c] = [waits |-> TRUE, merge |-> <<>>]]
    /\ UNCHANGED left

Step(d) ==
    \/ StopDelayer(d) \/ SendOwn(d) \/ SendTail(d) \/ Answer(d) \/ LateAnswer(d)
    \/ Receive(d) \/ FindReceive(d) \/ Sensor(d) \/ Nag(d)

Next ==
    \/ \E d \in Train : Step(d)
    \/ \E c \in Client : Command(c) \/ DoTrainMerge(c) \/ TellHead(c)

Spec == Init /\ [][Next]_vars

----------------------------------------------------------------------------
(* Properties.                                                             *)

Members(d) == Range(drv[d].trainId)

\* A train in the group of another driver is that driver's tail, reports to that
\* one and no other, and has nothing reserved in its own name: whatever two
\* merges at a time do, and whichever half of a merge comes to a tail.
MembersFollow ==
    \A h \in Train : \A t \in Members(h) \ {h} :
        drv[t].tailMode /\ drv[t].headTid = h /\ ~holds[t]

\* Whom a driver is blocked on.
WaitsFor(d, t) == drv[d].blocked /\ Head(drv[d].todo).to = t

\* A driver blocked in Send has its message in the inbox of the other, or that
\* one has an answer still to send: no branch of the loop leaves without it,
\* and a late answer does not use it up.
SendsAreOwed ==
    \A d, t \in Train : WaitsFor(d, t) =>
        \/ \E i \in DOMAIN inbox[t] :
               /\ inbox[t][i].from = d
               /\ inbox[t][i].kind = Head(drv[d].todo).kind
        \/ \E i \in DOMAIN drv[t].todo :
               drv[t].todo[i].kind = "answer" /\ drv[t].todo[i].to = d

\* Drivers do not wait for each other in a circle: among any of them there is
\* one that does not wait for another of these.
NoCircularWait ==
    \A S \in (SUBSET Train) \ {{}} : \E d \in S : \A t \in S : ~WaitsFor(d, t)
=============================================================================
