---------------------------- MODULE MCTrainGroup ----------------------------
(* Two trains, which are alike, and two clients, which are alike.  The run *)
(* begins with two drivers on their own, or, with one command less to come,*)
(* with a group that has reversed once and stands: its driver leads it     *)
(* from behind.                                                            *)
EXTENDS TrainGroup

Behind(h, t) ==
    /\ drv = [d \in Train |->
                 [tailMode |-> d = t, headTid |-> IF d = t THEN h ELSE None,
                  trainId |-> IF d = h THEN <<t, h>> ELSE <<d>>,
                  stoppedCount |-> IF d = h THEN 2 ELSE 0, isReversing |-> FALSE,
                  reserveTrackMode |-> TRUE, finding |-> FALSE,
                  naggers |-> 1, route |-> FALSE, routeRemaining |-> FALSE,
                  stopCommited |-> FALSE, rerouteCountdown |-> FALSE,
                  courier |-> "home", todo |-> <<>>, blocked |-> FALSE]]
    /\ dumb = [d \in Train |->
                 [moving |-> FALSE, located |-> TRUE, courier |-> "home",
                  delaying |-> FALSE, timers |-> 0]]
    /\ inbox = [d \in Train |-> <<>>]
    /\ stray = [d \in Train |-> FALSE]
    /\ holds = [d \in Train |-> d = h]
    /\ client = [c \in Client |-> [waits |-> FALSE, merge |-> <<>>]]
    /\ left = [commands |-> MaxCommands - 1, work |-> MaxWork]

MCInit == Init \/ \E h, t \in Train : h # t /\ Behind(h, t)
MCSpec == MCInit /\ [][Next]_vars

MCSymmetry == Permutations(Train) \cup Permutations(Client)
=============================================================================
