------------------------------- MODULE Track -------------------------------
(***************************************************************************)
(* The track server, trackController of Track.c: it owns the track graph,  *)
(* the reservation of every edge and the state of every switch, and        *)
(* answers one message at a time.  Trains reserve the edges ahead of their *)
(* last and predicted sensors before they move; an edge is one direction   *)
(* of a piece of track, so its owner is kept twice.                        *)
(***************************************************************************)
EXTENDS Integers, Sequences, SequencesExt

CONSTANTS
    Train,       \* trains that reserve track (trainNum)
    NoTrain,     \* UNRESERVED
    Layout,      \* the node tables by name, see TrackData
    FirstLayout, \* the layout main.c selects
    Group,       \* where the trains of a group are: the last sensor of each
    Distance,    \* stopping distances asked for, in millimetres
    Switch       \* numbers of the switches that move

ASSUME TrackAssumption ==
    /\ NoTrain \notin Train
    /\ FirstLayout \in DOMAIN Layout
    /\ Distance \subseteq Nat

SWITCH_STRAIGHT == 0
SWITCH_CURVED   == 1

VARIABLES
    layout,       \* name of the layout in use
    owner,        \* edge -> reserved_train_num
    switchStatus, \* switchStatus[], of the switches that move
    refused,      \* the train whose request was just answered with a landmark
    held,         \* history: train -> the last request the server granted it
    dropped       \* history: trains whose last reservation failed although
                  \* its dry run went through, so that the old one was gone

vars == <<layout, owner, switchStatus, refused, held, dropped>>

----------------------------------------------------------------------------
(* The graph.  Nodes are array indices from 0, edges <<node, direction>>.  *)

At(g, n)   == g.node[n + 1]
Nodes(g)   == 0 .. Len(g.node) - 1
Type(g, n) == At(g, n).type
Legs(g, n) == {<<n, d - 1>> : d \in DOMAIN At(g, n).edge}
Leg(g, e)  == At(g, e[1]).edge[e[2] + 1]
Dest(g, e) == Leg(g, e).dest
Dist(g, e) == Leg(g, e).dist
Back(g, e) == Leg(g, e).back
Rev(g, n)  == At(g, n).reverse

\* A layout: the rows of its table and the set of its edges.
Graph(rows) ==
    [node |-> rows,
     edge |-> UNION {{<<i - 1, d - 1>> : d \in DOMAIN rows[i].edge} : i \in DOMAIN rows}]

\* Nodes from which k edges can be followed without coming past a sensor.
PassesSensor(g, n) == Type(g, n) \in {"SENSOR", "EXIT"}
Before(g, S)       == {n \in Nodes(g) : ~PassesSensor(g, n) /\ \E e \in Legs(g, n) : Dest(g, e) \in S}
Unsensed(g) ==
    LET from[k \in 0 .. Len(g.node)] == IF k = 0 THEN Nodes(g) ELSE Before(g, from[k - 1])
    IN  from

\* What the tables of track_data.c are: every edge leads to a node and has the
\* edge of the other direction, which starts at the reverse of that node; none
\* that starts at a sensor is without length; only a branch has two edges and
\* an exit has none; the reverse of a branch is a merge, and no edge leads to
\* an enter; every circle of the track has a sensor on it.
IsLayout(g) ==
    /\ Len(g.node) \in Nat
    /\ g.edge = UNION {Legs(g, n) : n \in Nodes(g)}
    /\ \A e \in g.edge :
           /\ Dest(g, e) \in Nodes(g)
           /\ Type(g, Dest(g, e)) # "ENTER"
           /\ Dist(g, e) \in Nat
           /\ Dist(g, e) = 0 => ~PassesSensor(g, e[1])
           /\ Back(g, e) \in g.edge
           /\ Back(g, Back(g, e)) = e
           /\ Back(g, e)[1] = Rev(g, Dest(g, e))
    /\ \A n \in Nodes(g) :
           /\ Rev(g, n) \in Nodes(g)
           /\ Rev(g, Rev(g, n)) = n
           /\ Type(g, n) = "BRANCH" <=> Type(g, Rev(g, n)) = "MERGE"
           /\ Legs(g, n) = CASE Type(g, n) = "EXIT"   -> {}
                             [] Type(g, n) = "BRANCH" -> {<<n, 0>>, <<n, 1>>}
                             [] OTHER                 -> {<<n, 0>>}
    /\ \E k \in 0 .. Len(g.node) : Unsensed(g)[k] = {}

\* The switches numbered above 100, in the centre of the track: one behind the
\* straight leg of a branch leads straight to an exit, EX1 or EX2, and curved
\* to a sensor.
CentreIsClosed(g) ==
    \A n \in Nodes(g) :
        LET c == Dest(g, <<n, 0>>) IN
        Type(g, n) = "BRANCH" /\ At(g, c).num > 100 =>
            /\ Type(g, c) = "BRANCH"
            /\ Type(g, Rev(g, Dest(g, <<c, 0>>))) = "ENTER"
            /\ Type(g, Rev(g, Dest(g, <<c, 1>>))) = "SENSOR"

\* Trains stand at sensors, which have the same place in every layout.
ASSUME LayoutAssumption ==
    \A l \in DOMAIN Layout :
        /\ IsLayout(Layout[l])
        /\ CentreIsClosed(Layout[l])
        /\ \A group \in Group :
               /\ group \in Seq(Nodes(Layout[l]))
               /\ \A i \in DOMAIN group : Type(Layout[l], group[i]) = "SENSOR"

\* The branch nodes of the switches that move.
Branches(g) == {n \in Nodes(g) : Type(g, n) = "BRANCH" /\ At(g, n).num \in Switch}

IsBranch(g, n) == Type(g, n) = "BRANCH"    \* mutant: a merge is not a switch
IsSwitch(g, n) == Type(g, n) \in {"BRANCH", "MERGE"}
OneWay(g, E)    == E    \* mutant: the other direction is forgotten
WithBacks(g, E) == E \cup {Back(g, e) : e \in E}
Unreserved(g) == [e \in g.edge |-> NoTrain]

----------------------------------------------------------------------------
(* reserveEdges.                                                           *)

\* Mutant: edges of other trains are taken.
ViewTaking(own, t) == [mine |-> {e \in DOMAIN own : own[e] = t}, others |-> {}]

\* What reserveEdges sees of the owners: the edges that are the train's and
\* those it can not have.
View(own, t) == [mine   |-> {e \in DOMAIN own : own[e] = t},
                 others |-> {e \in DOMAIN own : own[e] \notin {t, NoTrain}}]
Owners(own, t, view) ==
    [e \in DOMAIN own |-> IF e \in view.mine THEN t
                          ELSE IF e \in view.others THEN own[e] ELSE NoTrain]

\* The switch a merge node closes: the branch of the same place.
Facing(g, n) == Dest(g, Back(g, <<n, 0>>))

\* The edges a node claims with both directions: its own, and for a merge
\* also both legs of the switch, so that nobody comes in from the side.
Claim(g, n) ==
    WithBacks(g, Legs(g, n) \cup IF Type(g, n) = "MERGE" THEN Legs(g, Facing(g, n)) ELSE {})

\* The double switches in the centre of the track have numbers above 100:
\* a merge whose straight leg comes from one takes that switch as well.
Centre(g, n) ==
    LET c == Dest(g, <<Facing(g, n), 0>>)
    IN  IF Type(g, n) = "MERGE" /\ At(g, c).num > 100 THEN c ELSE -1

\* Those of the double switch are taken unless its curved leg is another's.
CentreEdges(g, n) ==
    IF Centre(g, n) = -1 THEN {} ELSE WithBacks(g, Legs(g, Centre(g, n)))
Taken(g, n, own)  == IF <<Centre(g, n), 1>> \in own.others THEN {} ELSE CentreEdges(g, n)
Marked(g, n, own) == Claim(g, n) \cup Taken(g, n, own)

\* A call of reserveEdges(node, trainNum, stoppingDistance, dryrun), and what
\* it returns: ok is RESERVE_SUCESS, own the owners it leaves, clash that some
\* canReserve failed on the way, which is what sets reserveFailNode.
Sides(g)          == [mine : SUBSET g.edge, others : SUBSET g.edge]
Calls(g)          == [node : Nodes(g), dist : Int, own : Sides(g)]
Call(n, D, own)   == [node |-> n, dist |-> D, own |-> own]
Result(ok, own, c) == [ok |-> ok, own |-> own, clash |-> c]

\* The call for the node an edge leads to, if that is a switch or some of the
\* distance is left, and if nothing has failed yet.
Follow(g, walk, D, r, e) ==
    LET d == D - Dist(g, e)
        w == walk[Call(Dest(g, e), d, r.own)]
    IN  IF r.ok /\ (IsSwitch(g, Dest(g, e)) \/ d > 0)
        THEN [w EXCEPT !.clash = @ \/ r.clash] ELSE r

\* Behind the recursion a failure unreserves what the node had marked, and a
\* dry run puts back what it had found.
Leave(g, dryrun, n, own, r) ==
    LET marked == Marked(g, n, own)
        all    == marked \cup CentreEdges(g, n)
        Undone(old, now) == (now \ all) \cup (old \cap marked)
    IN  CASE dryrun          -> [r EXCEPT !.own = [mine   |-> Undone(own.mine, @.mine),
                                                   others |-> Undone(own.others, @.others)]]
          [] ~dryrun /\ ~r.ok -> [r EXCEPT !.own = [mine   |-> @.mine \ all,
                                                   others |-> @.others \ all]]
          [] OTHER           -> r

\* The body of reserveEdges, where walk is reserveEdges itself.
Visit(g, dryrun, walk, n, D, own) ==
    LET marked == Marked(g, n, own)
        start  == Result(TRUE,
                         [mine |-> own.mine \cup marked, others |-> own.others \ marked],
                         Taken(g, n, own) # CentreEdges(g, n))
        ahead  == Follow(g, walk, D, start, <<n, 0>>)
    IN  IF \/ Type(g, n) = "EXIT"
           \/ Type(g, n) # "ENTER" /\ <<n, 0>> \in own.mine /\ D < 0
        THEN Result(TRUE, own, FALSE)
        ELSE IF Claim(g, n) \cap own.others # {}
        THEN Result(FALSE, own, TRUE)
        ELSE Leave(g, dryrun, n, own,
                   IF Type(g, n) = "BRANCH" THEN Follow(g, walk, D, ahead, <<n, 1>>) ELSE ahead)

reserveEdges(g, dryrun) ==
    LET walk[c \in Calls(g)] == Visit(g, dryrun, walk, c.node, c.dist, c.own)
    IN  walk

\* One call per start node in turn; a dry run stops at the first failure,
\* the reservation itself goes on whatever its calls return.
NextCall(g, dryrun, D, r, n) ==
    IF dryrun /\ ~r.ok THEN r
    ELSE [reserveEdges(g, dryrun)[Call(n, D, r.own)] EXCEPT !.clash = @ \/ r.clash]
ReserveAll(g, t, dryrun, starts, D, own) ==
    LET calls[i \in 0 .. Len(starts)] ==
            IF i = 0 THEN Result(TRUE, View(own, t), FALSE)
            ELSE NextCall(g, dryrun, D, calls[i - 1], starts[i])
    IN  [calls[Len(starts)] EXCEPT !.own = Owners(own, t, @)]

\* clearNodeReservation for every node
Cleared(own, t) == [e \in DOMAIN own |-> IF own[e] = t THEN NoTrain ELSE own[e]]

\* What is done after the dry run: if it failed, nothing more.
InEarnest(g, t, starts, D, own, dry) ==
    IF ~dry.ok THEN dry
    ELSE [ReserveAll(g, t, FALSE, starts, D, own) EXCEPT !.clash = @ \/ dry.clash]

----------------------------------------------------------------------------
(* findNextSensorsHelper: the sensor or exit ahead if all goes well, then  *)
(* those one failed sensor or one failed switch away.  A prediction keeps  *)
(* the condition it stands under: a switch node, and the state to record   *)
(* for it.                                                                 *)

NoCondition == [node |-> -1, state |-> -1]

Conditions(g) ==
    {NoCondition}
    \cup {[node |-> n, state |-> -1] : n \in {m \in Nodes(g) : Type(g, m) = "SENSOR"}}
    \cup {[node |-> n, state |-> SWITCH_CURVED] : n \in {m \in Nodes(g) : Type(g, m) = "BRANCH"}}
Searches(g)      == [node : Nodes(g), error : BOOLEAN, condition : Conditions(g)]
Search(n, er, c) == [node |-> n, error |-> er, condition |-> c]

\* The body of findNextSensorsHelper, where find is the function itself.
Look(g, sw, find, n, error, c) ==
    LET set == IF At(g, n).num \in DOMAIN sw THEN sw[At(g, n).num] ELSE SWITCH_CURVED
        From(leg, er, d) == find[Search(Dest(g, <<n, leg>>), er, d)]
    IN  CASE Type(g, n) \in {"SENSOR", "EXIT"} ->
                 <<[sensor |-> n, condition |-> c]>>
                 \o (IF ~error /\ Type(g, n) = "SENSOR"
                     THEN From(0, TRUE, [node |-> n, state |-> -1]) ELSE <<>>)
          [] Type(g, n) = "BRANCH" ->
                 From(set, error, c)
                 \o (IF error THEN <<>>
                     ELSE From(1 - set, TRUE, [node |-> n, state |-> SWITCH_CURVED]))
          [] OTHER -> From(0, error, c)

nextSensors(g, sw) ==
    LET find[s \in Searches(g)] == Look(g, sw, find, s.node, s.error, s.condition)
    IN  find

\* findNextSensors from the edge ahead of a node
findNextSensors(g, sw, n) == nextSensors(g, sw)[Search(Dest(g, <<n, 0>>), FALSE, NoCondition)]

\* What makeReservation asks for: the last sensor of each train of a group
\* and, unless the group stands, its predicted sensors, each once.
SensorsToReserve(g, sw, n, moving) ==
    LET p == findNextSensors(g, sw, n)
    IN  <<n>> \o IF moving THEN [i \in DOMAIN p |-> p[i].sensor] ELSE <<>>
AddNew(s, n) == IF n \in ToSet(s) THEN s ELSE Append(s, n)
Requested(g, sw, group, moving) ==
    LET all[i \in 0 .. Len(group)] ==
            IF i = 0 THEN <<>> ELSE all[i - 1] \o SensorsToReserve(g, sw, group[i], moving)
        asked == all[Len(group)]
        once[i \in 0 .. Len(asked)] == IF i = 0 THEN <<>> ELSE AddNew(once[i - 1], asked[i])
    IN  once[Len(asked)]

----------------------------------------------------------------------------
(* The messages.                                                           *)

NoRequest == [starts |-> <<>>, predicted |-> {}, dist |-> 0]

Init ==
    /\ layout = FirstLayout
    /\ owner = Unreserved(Layout[FirstLayout])
    /\ switchStatus = [n \in Switch |-> SWITCH_CURVED]
    /\ refused = NoTrain
    /\ held = [t \in Train |-> NoRequest]
    /\ dropped = {}

\* Mutant: the old reservation is dropped before the dry run.
ReserveNewReleasing(t, group, moving, D, sw) ==
    LET g      == Layout[layout]
        starts == Requested(g, sw, group, moving)
        dry    == ReserveAll(g, t, TRUE, starts, D, Cleared(owner, t))
    IN  /\ \E r \in {InEarnest(g, t, starts, D, dry.own, dry)} :
               /\ owner' = r.own
               /\ refused' = IF r.clash THEN t ELSE NoTrain
        /\ UNCHANGED <<layout, switchStatus, held, dropped>>

\* RELEASE_OLD_N_RESERVE_NEW: a dry run of every start node, then the old
\* reservation is dropped and the calls are made again in earnest, whatever
\* they return.  A driver's predictions may be older than the switches, hence
\* any sw.
ReserveNew(t, group, moving, D, sw) ==
    LET g      == Layout[layout]
        starts == Requested(g, sw, group, moving)
        dry    == ReserveAll(g, t, TRUE, starts, D, owner)
    IN  /\ \E r \in {InEarnest(g, t, starts, D, Cleared(dry.own, t), dry)} :
               /\ owner' = r.own
               /\ refused' = IF r.clash THEN t ELSE NoTrain
               /\ held' = IF r.clash THEN held
                          ELSE [held EXCEPT ![t] =
                                   [starts |-> starts, predicted |-> ToSet(starts) \ ToSet(group), dist |-> D]]
               /\ dropped' = IF ~r.clash THEN dropped \ {t}
                             ELSE IF dry.ok THEN dropped \cup {t} ELSE dropped
        /\ UNCHANGED <<layout, switchStatus>>

\* RELEASE_ALL_RESERVATION
ReleaseAll(t) ==
    /\ owner' = Cleared(owner, t)
    /\ refused' = NoTrain
    /\ held' = [held EXCEPT ![t] = NoRequest]
    /\ dropped' = dropped \ {t}
    /\ UNCHANGED <<layout, switchStatus>>

\* SET_SWITCH and SUDO_SET_SWITCH name a switch by its branch or its merge
\* node; the first needs both legs reserved for the train that asks.
SetSwitch(t, b, state, sudo) ==
    /\ sudo \/ (owner[<<b, 0>>] = t /\ owner[<<b, 1>>] = t)
    /\ switchStatus' = [switchStatus EXCEPT ![At(Layout[layout], b).num] = state]
    /\ refused' = NoTrain
    /\ UNCHANGED <<layout, owner, held, dropped>>

\* UPDATE_SWITCH_STATE: a driver was hit by the sensor another state of the
\* switch leads to, and reports the state of that prediction.
UpdateSwitchState(n) ==
    \E p \in ToSet(findNextSensors(Layout[layout], switchStatus, n)) :
        LET c == p.condition IN
        /\ c.node # -1
        /\ IsSwitch(Layout[layout], c.node)
        /\ At(Layout[layout], c.node).num \in Switch
        /\ switchStatus' = [switchStatus EXCEPT ![At(Layout[layout], c.node).num] = c.state]
        /\ refused' = NoTrain
        /\ UNCHANGED <<layout, owner, held, dropped>>

\* SET_TRACK rebuilds the graph; reservations are gone, switches stay.
SetTrack(l) ==
    /\ layout' = l
    /\ owner' = Unreserved(Layout[l])
    /\ refused' = NoTrain
    /\ held' = [t \in Train |-> NoRequest]
    /\ dropped' = {}
    /\ UNCHANGED switchStatus

\* QUERY_SENSOR_RESERVED: a trigger of a sensor counts for a train only if
\* the train holds the track on both sides of it.
SensorReserved(t, n) ==
    /\ owner[<<n, 0>>] = t
    /\ owner[<<Rev(Layout[layout], n), 0>>] = t

Moves == {TRUE, FALSE}
SwitchStates == [Switch -> {SWITCH_STRAIGHT, SWITCH_CURVED}]

Next ==
    \/ \E t \in Train, group \in Group, D \in Distance, sw \in SwitchStates :
           ReserveNew(t, group, TRUE, D, sw)
    \/ \E t \in Train, group \in Group : ReserveNew(t, group, FALSE, 1, switchStatus)
    \/ \E t \in Train : ReleaseAll(t)
    \/ \E b \in Branches(Layout[layout]), t \in Train, sudo \in BOOLEAN,
          state \in {SWITCH_STRAIGHT, SWITCH_CURVED} : SetSwitch(t, b, state, sudo)
    \/ \E n \in Nodes(Layout[layout]) : Type(Layout[layout], n) = "SENSOR" /\ UpdateSwitchState(n)
    \/ \E l \in DOMAIN Layout : SetTrack(l)

Spec == Init /\ [][Next]_vars

----------------------------------------------------------------------------
(* Properties.                                                             *)

\* Both directions of a piece of track always have the same owner: no order
\* of reservations, refusals and releases lets two trains meet head on.
OwnersAgree ==
    \A e \in Layout[layout].edge : owner[e] = owner[Back(Layout[layout], e)]

\* The pieces of track a train ahead of an edge may still touch when it needs
\* so many millimetres to stop, whatever the switches do.
Ahead(g) ==
    LET touch[c \in g.edge \X Int] ==
        LET n == Dest(g, c[1])
            d == c[2] - Dist(g, c[1])
        IN  {c[1]} \cup IF d <= 0 THEN {}
                        ELSE Legs(g, n) \cup Legs(g, Rev(g, n))
                             \cup UNION {touch[<<f, d>>] : f \in Legs(g, n)}
    IN  touch

\* A granted request stays in force until the train releases it or a later
\* reservation of its own fails: in front of each of its sensors the train
\* owns every piece of track it can touch within the stopping distance, and
\* every way into a switch on it, so neither a later request of another train,
\* granted, refused or dropped, nor a dry run ever takes any of it.
GrantedIsHeld ==
    LET g == Layout[layout] IN
    \A t \in Train \ dropped : \A n \in ToSet(held[t].starts) :
        \A e \in Legs(g, n) : \A f \in Ahead(g)[<<e, held[t].dist>>] : owner[f] = t

\* The trains that a driver asks for keep together: all but the last stand on
\* track that another of them has within its stopping distance.
Together(g, group, d) ==
    \E last \in group : \A m \in group \ {last} : \E n \in group \ {m} :
        \E e \in Legs(g, n) : \E f \in Ahead(g)[<<e, d>>] : Dest(g, f) = m

\* The sensors a moving train, or one of a group that keeps together, was
\* predicted to hit next are reserved on both sides, also the ones behind a
\* failed switch or sensor: the driver would otherwise drop the trigger and
\* lose its train.  In a group that stands apart the track marked for one train
\* can cut short the walk for another.
PredictedSensorsCount ==
    LET g == Layout[layout] IN
    \A t \in Train \ dropped :
        Together(g, ToSet(held[t].starts) \ held[t].predicted, held[t].dist) =>
            \A n \in held[t].predicted : Type(g, n) = "SENSOR" => SensorReserved(t, n)

\* A request whose dry run fails changes nothing, although the dry run marks
\* edges of the train and of the switches behind, and takes the marks back:
\* as long as no reservation in earnest failed, refused trains keep what they
\* had.
DryRunChangesNothing == [][refused' # NoTrain /\ dropped' = {} => owner' = owner]_vars

=============================================================================
