-------------------------- MODULE TrainGroupProofs --------------------------
(***************************************************************************)
(* Theorems about the train drivers, for any number of trains and clients: *)
(* the members of a group follow its head and reserve nothing, every Send  *)
(* of a driver is answered by the handler that takes it, and no drivers    *)
(* wait for each other in a circle.                                        *)
(*                                                                         *)
(* The invariant GroupInv is about pairs of drivers.  The members of a     *)
(* group other than its driver are tails of that driver, told so before    *)
(* the head was told (DoTrainMerge), so that leading has no circle; a      *)
(* driver waits for a member only; a request of one driver in the inbox of *)
(* another is the only one, and the one it waits with; and as long as it   *)
(* waits, the request is there, or an answer among what the other has      *)
(* still to send.  A reception is shown to keep this by the outcome of its *)
(* handler (Outcome), which for most messages follows from what the parts  *)
(* of the handler keep (Keeps).                                            *)
(***************************************************************************)
EXTENDS TrainGroup, TLAPS, SequenceTheorems, FiniteSetTheorems, WellFoundedInduction

----------------------------------------------------------------------------
(* Sequences.                                                              *)

\* Some element of q is in E; no two are.
Has(q, E)  == \E i \in DOMAIN q : q[i] \in E
Once(q, E) == \A i, j \in DOMAIN q : q[i] \in E /\ q[j] \in E => i = j

\* What a sequence has, its head or its tail has.
LEMMA HasTail ==
  ASSUME NEW S, NEW q \in Seq(S), q # <<>>, NEW E
  PROVE  /\ Has(q, E) <=> Head(q) \in E \/ Has(Tail(q), E)
         /\ Once(q, E) => Once(Tail(q), E) /\ (Head(q) \in E => ~Has(Tail(q), E))
<1>1. /\ Len(q) \in Nat \ {0} /\ Head(q) = q[1]
      /\ DOMAIN q = 1 .. Len(q) /\ DOMAIN Tail(q) = 1 .. Len(q) - 1
      /\ \A i \in 1 .. Len(q) - 1 : Tail(q)[i] = q[i + 1]
  BY HeadTailProperties, LenProperties, EmptySeq
<1>2. ASSUME Has(q, E), Head(q) \notin E PROVE Has(Tail(q), E)
  <2>1. PICK i \in 1 .. Len(q) : q[i] \in E
    BY <1>1, <1>2 DEF Has
  <2>2. i - 1 \in 1 .. Len(q) - 1 /\ q[(i - 1) + 1] \in E
    BY <1>1, <1>2, <2>1
  <2> QED BY <1>1, <2>2 DEF Has
<1>3. ASSUME Head(q) \in E \/ Has(Tail(q), E) PROVE Has(q, E)
  BY <1>1, <1>3 DEF Has
<1>4. ASSUME Once(q, E) PROVE Once(Tail(q), E) /\ (Head(q) \in E => ~Has(Tail(q), E))
  <2>1. \A i, j \in 1 .. Len(q) - 1 : q[i + 1] \in E /\ q[j + 1] \in E => i + 1 = j + 1
    BY <1>1, <1>4 DEF Once
  <2>2. \A i \in 1 .. Len(q) - 1 : q[1] \in E /\ q[i + 1] \in E => 1 = i + 1
    BY <1>1, <1>4 DEF Once
  <2> QED BY <1>1, <2>1, <2>2 DEF Once, Has
<1> QED BY <1>2, <1>3, <1>4

\* What a concatenation has, one of its two parts has.
LEMMA HasConcat ==
  ASSUME NEW S, NEW q \in Seq(S), NEW r \in Seq(S), NEW E
  PROVE  /\ Has(q \o r, E) <=> Has(q, E) \/ Has(r, E)
         /\ Once(q, E) /\ Once(r, E) /\ ~(Has(q, E) /\ Has(r, E)) => Once(q \o r, E)
<1>1. /\ Len(q) \in Nat /\ Len(r) \in Nat
      /\ DOMAIN q = 1 .. Len(q) /\ DOMAIN r = 1 .. Len(r)
      /\ DOMAIN (q \o r) = 1 .. Len(q) + Len(r)
      /\ \A i \in 1 .. Len(q) : (q \o r)[i] = q[i]
      /\ \A i \in Len(q) + 1 .. Len(q) + Len(r) : (q \o r)[i] = r[i - Len(q)]
      /\ \A i \in 1 .. Len(r) : (q \o r)[Len(q) + i] = r[i]
  BY ConcatProperties, LenProperties
<1>2. ASSUME Has(q \o r, E) PROVE Has(q, E) \/ Has(r, E)
  <2>1. PICK i \in 1 .. Len(q) + Len(r) : (q \o r)[i] \in E
    BY <1>1, <1>2 DEF Has
  <2>2. CASE i \in 1 .. Len(q)
    BY <1>1, <2>1, <2>2 DEF Has
  <2>3. CASE i \in Len(q) + 1 .. Len(q) + Len(r)
    <3>1. i - Len(q) \in 1 .. Len(r) /\ r[i - Len(q)] \in E
      BY <1>1, <2>1, <2>3
    <3> QED BY <1>1, <3>1 DEF Has
  <2> QED BY <1>1, <2>2, <2>3
<1>3. ASSUME Has(q, E) \/ Has(r, E) PROVE Has(q \o r, E)
  <2>1. \A i \in 1 .. Len(q) : i \in 1 .. Len(q) + Len(r)
    BY <1>1
  <2>2. \A i \in 1 .. Len(r) : Len(q) + i \in 1 .. Len(q) + Len(r)
    BY <1>1
  <2> QED BY <1>1, <1>3, <2>1, <2>2 DEF Has
<1>4. ASSUME Once(q, E), Once(r, E), ~(Has(q, E) /\ Has(r, E)) PROVE Once(q \o r, E)
  <2> SUFFICES ASSUME NEW i \in 1 .. Len(q) + Len(r), NEW j \in 1 .. Len(q) + Len(r),
                      (q \o r)[i] \in E, (q \o r)[j] \in E
               PROVE  i = j
    BY <1>1 DEF Once
  <2>1. CASE i \in 1 .. Len(q) /\ j \in 1 .. Len(q)
    BY <1>1, <1>4, <2>1 DEF Once
  <2>2. CASE i > Len(q) /\ j > Len(q)
    <3>1. i - Len(q) \in 1 .. Len(r) /\ j - Len(q) \in 1 .. Len(r)
      BY <1>1, <2>2
    <3>2. r[i - Len(q)] \in E /\ r[j - Len(q)] \in E
      BY <1>1, <2>2
    <3>3. \A x, y \in 1 .. Len(r) : r[x] \in E /\ r[y] \in E => x = y
      BY <1>1, <1>4 DEF Once
    <3>4. i - Len(q) = j - Len(q)
      BY <3>1, <3>2, <3>3
    <3> QED BY <1>1, <3>4
  <2>3. CASE i \in 1 .. Len(q) /\ j > Len(q)
    <3>1. j - Len(q) \in 1 .. Len(r) /\ r[j - Len(q)] \in E
      BY <1>1, <2>3
    <3> QED BY <1>1, <1>4, <2>3, <3>1 DEF Has
  <2>4. CASE j \in 1 .. Len(q) /\ i > Len(q)
    <3>1. i - Len(q) \in 1 .. Len(r) /\ r[i - Len(q)] \in E
      BY <1>1, <2>4
    <3> QED BY <1>1, <1>4, <2>4, <3>1 DEF Has
  <2> QED BY <1>1, <2>1, <2>2, <2>3, <2>4
<1> QED BY <1>2, <1>3, <1>4

\* A sequence of one, and the empty one.
LEMMA HasOne ==
  ASSUME NEW m, NEW E
  PROVE  /\ Has(<<m>>, E) <=> m \in E
         /\ Once(<<m>>, E)
         /\ ~Has(<<>>, E) /\ Once(<<>>, E)
  BY DEF Has, Once

\* Every non-empty set of naturals has a least element.
LEMMA LeastNatural ==
  ASSUME NEW B \in SUBSET Nat, B # {}
  PROVE  \E k \in B : \A m \in B : k <= m
<1>1. PICK k \in B : \A m \in B : ~(<<m, k>> \in OpToRel(<, Nat))
  BY WFMin, NatLessThanWellFounded
<1>2. \A m \in B : ~(m < k)
  BY <1>1 DEF OpToRel
<1> QED BY <1>2

\* g holds the beginnings of FlattenSeq(q), the first k of them.
Flattens(q, k, g) == g = [i \in 1 .. k |-> IF i = 1 THEN q[i] ELSE g[i - 1] \o q[i]]

\* The beginnings can be continued by one.
LEMMA FlattensStep ==
  ASSUME NEW S, NEW n \in Nat, NEW q \in [1 .. n -> Seq(S)], NEW k \in 2 .. n,
         NEW g \in [1 .. k - 1 -> Seq(S)], Flattens(q, k - 1, g)
  PROVE  \E h \in [1 .. k -> Seq(S)] : Flattens(q, k, h)
<1> DEFINE h == [i \in 1 .. k |-> IF i = k THEN g[k - 1] \o q[k] ELSE g[i]]
<1>1. /\ k - 1 \in 1 .. k - 1 /\ k \in 1 .. n
      /\ g[k - 1] \in Seq(S) /\ q[k] \in Seq(S)
  OBVIOUS
<1>2. g[k - 1] \o q[k] \in Seq(S)
  BY <1>1, ConcatProperties
<1>3. h \in [1 .. k -> Seq(S)]
  BY <1>1, <1>2
<1>4. ASSUME NEW i \in 1 .. k
      PROVE  h[i] = IF i = 1 THEN q[i] ELSE h[i - 1] \o q[i]
  <2>1. CASE i = k
    <3>1. k \in 1 .. k /\ k - 1 \in 1 .. k /\ k - 1 # k /\ k # 1
      OBVIOUS
    <3>2. h[k] = g[k - 1] \o q[k]
      BY <3>1
    <3>3. h[k - 1] = g[k - 1]
      BY <3>1
    <3> HIDE DEF h
    <3> QED BY <2>1, <3>1, <3>2, <3>3
  <2>2. CASE i # k
    <3>1. i \in 1 .. k - 1 /\ (i # 1 => i - 1 \in 1 .. k - 1 /\ i - 1 # k)
      BY <2>2
    <3>2. g[i] = IF i = 1 THEN q[i] ELSE g[i - 1] \o q[i]
      BY <3>1 DEF Flattens
    <3>3. h[i] = g[i] /\ (i # 1 => h[i - 1] = g[i - 1])
      BY <2>2, <3>1
    <3> HIDE DEF h
    <3> QED BY <3>2, <3>3
  <2> QED BY <2>1, <2>2
<1>5. h = [i \in 1 .. k |-> h[i]]
  OBVIOUS
<1> HIDE DEF h
<1>6. Flattens(q, k, h)
  BY <1>4, <1>5 DEF Flattens
<1> QED BY <1>3, <1>6

\* FlattenSeq of sequences over S is one.
LEMMA FlattenTyped ==
  ASSUME NEW S, NEW n \in Nat, NEW q \in [1 .. n -> Seq(S)]
  PROVE  FlattenSeq(q) \in Seq(S)
<1>1. q \in Seq(Seq(S)) /\ Len(q) = n
  BY IsASeq, LenProperties
<1>2. CASE n = 0
  <2>1. q = <<>>
    BY <1>1, <1>2, EmptySeq
  <2> QED BY <1>1, <1>2, <2>1 DEF FlattenSeq
<1>3. CASE n # 0
  <2> DEFINE Bad == {k \in Nat : k \in 1 .. n /\ ~ \E g \in [1 .. k -> Seq(S)] : Flattens(q, k, g)}
  <2>1. Bad = {}
    <3> SUFFICES ASSUME Bad # {} PROVE FALSE
      OBVIOUS
    <3>1. Bad \in SUBSET Nat
      OBVIOUS
    <3>2. PICK k \in Bad : \A m \in Bad : k <= m
      <4> HIDE DEF Bad
      <4> QED BY <3>1, LeastNatural
    <3>3. CASE k = 1
      <4>1. [i \in 1 .. 1 |-> q[i]] \in [1 .. 1 -> Seq(S)]
        BY <1>3
      <4>2. Flattens(q, 1, [i \in 1 .. 1 |-> q[i]])
        BY DEF Flattens
      <4> QED BY <3>2, <3>3, <4>1, <4>2
    <3>4. CASE k # 1
      <4>1. k \in 2 .. n /\ k - 1 \in Nat /\ k - 1 \in 1 .. n
        BY <3>2, <3>4
      <4>1a. k - 1 \notin Bad
        <5> HIDE DEF Bad
        <5> QED BY <3>1, <3>2, <4>1
      <4>2. PICK g \in [1 .. k - 1 -> Seq(S)] : Flattens(q, k - 1, g)
        BY <4>1, <4>1a
      <4> QED BY <3>2, <4>1, <4>2, FlattensStep
    <3> QED BY <3>3, <3>4
  <2> DEFINE f == CHOOSE g : Flattens(q, n, g)
  <2>2. Flattens(q, n, f)
    <3>1. n \in 1 .. n
      BY <1>3
    <3>2. \E g \in [1 .. n -> Seq(S)] : Flattens(q, n, g)
      BY <2>1, <3>1
    <3> QED BY <3>2
  <2>3. FlattenSeq(q) = f[n]
    BY <1>1, <1>3 DEF FlattenSeq, Flattens
  <2> HIDE DEF f
  <2>4. \A i \in 1 .. n : f[i] = IF i = 1 THEN q[i] ELSE f[i - 1] \o q[i]
    BY <2>2 DEF Flattens
  <2> DEFINE Odd == {k \in Nat : k \in 1 .. n /\ f[k] \notin Seq(S)}
  <2>5. Odd = {}
    <3> SUFFICES ASSUME Odd # {} PROVE FALSE
      OBVIOUS
    <3>1. Odd \in SUBSET Nat
      OBVIOUS
    <3>2. PICK k \in Odd : \A m \in Odd : k <= m
      <4> HIDE DEF Odd
      <4> QED BY <3>1, LeastNatural
    <3>3. k # 1
      BY <2>4, <3>2
    <3>4. k - 1 \in 1 .. n /\ f[k - 1] \in Seq(S) /\ q[k] \in Seq(S)
      BY <3>2, <3>3
    <3>5. f[k] = f[k - 1] \o q[k]
      BY <2>4, <3>2, <3>3
    <3>6. f[k - 1] \o q[k] \in Seq(S)
      BY <3>4, ConcatProperties
    <3> QED BY <3>2, <3>5, <3>6
  <2> QED BY <1>3, <2>3, <2>5
<1> QED BY <1>2, <1>3

----------------------------------------------------------------------------
(* A driver in the middle of a handler.                                    *)

Speed      == {-1, 0, 1}
SendKind   == {"set_speed", "stop_dist", "report_info", "delta", "reverse_speed",
               "trigger", "update_parent", "stop_count"}

\* What a driver asks of its members.
Asks(members) == [to : members, kind : SendKind, v : Speed]

Driver ==
    [tailMode : BOOLEAN, headTid : Train \cup {None}, trainId : Seq(Train),
     stoppedCount : Int, isReversing : BOOLEAN, reserveTrackMode : BOOLEAN,
     finding : BOOLEAN, naggers : Nat, route : BOOLEAN, routeRemaining : BOOLEAN,
     stopCommited : BOOLEAN, rerouteCountdown : BOOLEAN, courier : {"home", "away"},
     todo : Seq([to : Train, kind : SendKind \cup {"answer"}, v : Int]), blocked : BOOLEAN]

\* A driver in the middle of a handler, with its reservation.
At == [s : Driver, h : BOOLEAN]
Handling ==
    {e \in At : /\ ~e.s.blocked /\ e.s.trainId # <<>>
                /\ e.s.todo \in Seq(Asks(Range(e.s.trainId)))}

\* What no part of a handler changes but MERGE_HEAD and MERGE_TAIL; and a tail
\* reserves nothing.
Keeps(e, f) ==
    /\ f \in Handling
    /\ f.s.tailMode = e.s.tailMode /\ f.s.headTid = e.s.headTid
    /\ Range(f.s.trainId) = Range(e.s.trainId)
    /\ e.s.tailMode /\ f.h => e.h

\* Two parts of a handler in a row keep what each of them keeps.
LEMMA KeepsTransitive ==
  ASSUME NEW e, NEW f, NEW g, Keeps(e, f), Keeps(f, g)
  PROVE  Keeps(e, g)
  BY DEF Keeps

\* The members, in any order, are trains.
LEMMA MembersTyped ==
  ASSUME NEW q \in Seq(Train)
  PROVE  /\ Range(q) \subseteq Train
         /\ DOMAIN q = 1 .. Len(q) /\ Len(q) \in Nat
         /\ \A i \in DOMAIN q : q[i] \in Range(q)
  BY LenProperties, ElementOfSeq DEF Range

\* handleReverse: the members stay the same in reverse order.
LEMMA ReverseTyped ==
  ASSUME NEW q \in Seq(Train), q # <<>>
  PROVE  Reverse(q) \in Seq(Train) /\ Range(Reverse(q)) = Range(q) /\ Reverse(q) # <<>>
<1>1. /\ Len(q) \in Nat \ {0} /\ DOMAIN q = 1 .. Len(q)
      /\ \A i \in 1 .. Len(q) : q[i] \in Train
  BY LenProperties, ElementOfSeq, EmptySeq
<1>2. /\ Reverse(q) = [i \in 1 .. Len(q) |-> q[(Len(q) - i) + 1]]
      /\ \A i \in 1 .. Len(q) : (Len(q) - i) + 1 \in 1 .. Len(q)
      /\ \A i \in 1 .. Len(q) : (Len(q) - ((Len(q) - i) + 1)) + 1 = i
  BY <1>1 DEF Reverse
<1>3. Reverse(q) \in [1 .. Len(q) -> Train]
  BY <1>1, <1>2
<1>4. Reverse(q) \in Seq(Train) /\ Len(Reverse(q)) = Len(q) /\ DOMAIN Reverse(q) = 1 .. Len(q)
  BY <1>1, <1>3, IsASeq, LenProperties
<1>5. \A i \in 1 .. Len(q) : Reverse(q)[(Len(q) - i) + 1] = q[i]
  BY <1>1, <1>2
<1>6. Range(Reverse(q)) = Range(q)
  <2>1. ASSUME NEW x \in Range(q) PROVE x \in Range(Reverse(q))
    <3>1. PICK i \in 1 .. Len(q) : q[i] = x
      BY <1>1 DEF Range
    <3> QED BY <1>2, <1>4, <1>5, <3>1 DEF Range
  <2>2. ASSUME NEW x \in Range(Reverse(q)) PROVE x \in Range(q)
    <3>1. PICK i \in 1 .. Len(q) : Reverse(q)[i] = x
      BY <1>4 DEF Range
    <3> QED BY <1>1, <1>2, <3>1 DEF Range
  <2> QED BY <2>1, <2>2
<1> QED BY <1>1, <1>4, <1>6, EmptySeq

\* One Send to each member.
LEMMA ToAllTyped ==
  ASSUME NEW e \in Handling, NEW kind \in SendKind, NEW v \in Speed
  PROVE  ToAll(e.s, kind, v) \in Seq(Asks(Range(e.s.trainId)))
<1> DEFINE q == e.s.trainId
<1>1. q \in Seq(Train)
  BY DEF Handling, At, Driver
<1> HIDE DEF q
<1>2. \A i \in 1 .. Len(q) : Send(q[i], kind, v) \in Asks(Range(q))
  BY <1>1, MembersTyped DEF Send, Asks
<1>3. [i \in 1 .. Len(q) |-> Send(q[i], kind, v)] \in Seq(Asks(Range(q)))
  BY <1>1, <1>2, IsASeq, LenProperties
<1> QED BY <1>1, <1>3, MembersTyped DEF ToAll, q

\* What is asked of members is something a driver can have in todo.
LEMMA AsksAreSends ==
  ASSUME NEW q \in Seq(Train), NEW r \in Seq(Asks(Range(q)))
  PROVE  r \in Seq([to : Train, kind : SendKind \cup {"answer"}, v : Int])
<1>1. Asks(Range(q)) \subseteq [to : Train, kind : SendKind \cup {"answer"}, v : Int]
  BY MembersTyped DEF Asks, Speed
<1> QED BY <1>1, SeqMonotonic

\* A handler that sends to its members keeps all.
LEMMA DoingKeeps ==
  ASSUME NEW e \in Handling, NEW q \in Seq(Asks(Range(e.s.trainId)))
  PROVE  Keeps(e, Doing(e, q))
<1>1. e.s.todo \o q \in Seq(Asks(Range(e.s.trainId)))
  BY ConcatProperties DEF Handling
<1>2. e \in At /\ e.s \in Driver /\ e.s.trainId \in Seq(Train)
  BY DEF Handling, At, Driver
<1>3. e.s.todo \o q \in Seq([to : Train, kind : SendKind \cup {"answer"}, v : Int])
  BY <1>1, <1>2, AsksAreSends
<1> DEFINE f == Doing(e, q)
<1>4. f \in At /\ f.s = [e.s EXCEPT !.todo = @ \o q] /\ f.h = e.h
  <2>1. [e.s EXCEPT !.todo = @ \o q] \in Driver
    BY <1>2, <1>3 DEF Driver
  <2> QED BY <1>2, <2>1 DEF Doing, At
<1>5. /\ f.s.todo = e.s.todo \o q /\ f.s.trainId = e.s.trainId /\ f.s.blocked = e.s.blocked
      /\ f.s.tailMode = e.s.tailMode /\ f.s.headTid = e.s.headTid
  BY <1>2, <1>4 DEF Driver
<1> HIDE DEF f
<1> QED BY <1>1, <1>4, <1>5 DEF Keeps, Handling, f

\* Flags, counts and the reservation of a driver that is no tail.
LEMMA FlagsKeep ==
  ASSUME NEW e \in Handling, NEW f \in At,
         f.s.todo = e.s.todo, f.s.trainId = e.s.trainId, f.s.blocked = e.s.blocked,
         f.s.tailMode = e.s.tailMode, f.s.headTid = e.s.headTid, e.s.tailMode /\ f.h => e.h
  PROVE  Keeps(e, f)
  BY DEF Keeps, Handling

\* Doing nothing keeps all.
LEMMA KeepsItself ==
  ASSUME NEW e \in Handling
  PROVE  Keeps(e, e)
  BY DEF Keeps, Handling

\* makeReservation leaves a tail without a reservation.
LEMMA ReservationKeeps ==
  ASSUME NEW e \in Handling, NEW r \in makeReservation(e)
  PROVE  Keeps(e, r.e)
<1>1. e \in At
  BY DEF Handling
<1>2. CASE r.e = e
  BY <1>2, KeepsItself
<1>3. CASE r.e # e
  <2>1. ~e.s.tailMode /\ \E h \in {TRUE, e.h} : r.e = [e EXCEPT !.h = h]
    <3>1. CASE e.s.tailMode \/ ~e.s.reserveTrackMode
      BY <1>3, <3>1 DEF makeReservation
    <3>2. CASE ~(e.s.tailMode \/ ~e.s.reserveTrackMode)
      <4>1. PICK ok \in BOOLEAN, h \in {TRUE, e.h} : r = [ok |-> ok, e |-> [e EXCEPT !.h = h]]
        BY <3>2 DEF makeReservation
      <4>2. r.e = [e EXCEPT !.h = h]
        BY <4>1
      <4> QED BY <3>2, <4>2
    <3> QED BY <3>1, <3>2
  <2>1a. r.e = [e EXCEPT !.h = TRUE]
    <3>1. [e EXCEPT !.h = e.h] = e
      BY <1>1 DEF At
    <3> QED BY <1>3, <2>1, <3>1
  <2>2. r.e \in At /\ r.e.s = e.s
    BY <1>1, <2>1a DEF At
  <2> HIDE DEF At
  <2> QED BY <2>1, <2>2, FlagsKeep
<1> QED BY <1>2, <1>3

\* A Send to the first member.
LEMMA OneAsk ==
  ASSUME NEW e \in Handling, NEW i \in DOMAIN e.s.trainId, NEW kind \in SendKind, NEW v \in Speed
  PROVE  <<Send(e.s.trainId[i], kind, v)>> \in Seq(Asks(Range(e.s.trainId)))
<1>1. e.s.trainId \in Seq(Train)
  BY DEF Handling, At, Driver
<1>2. e.s.trainId[i] \in Range(e.s.trainId)
  BY <1>1, MembersTyped
<1>3. Send(e.s.trainId[i], kind, v) \in Asks(Range(e.s.trainId))
  BY <1>2 DEF Send, Asks
<1> QED BY <1>3

\* A driver has a first train, its own or one it leads.
LEMMA FirstMember ==
  ASSUME NEW e \in Handling
  PROVE  1 \in DOMAIN e.s.trainId
<1>1. e.s.trainId \in Seq(Train) /\ e.s.trainId # <<>>
  BY DEF Handling, At, Driver
<1> QED BY <1>1, MembersTyped, EmptySeq

\* groupSetSpeed, for a head and for a tail, for all three kinds of speed.
LEMMA SpeedKeeps ==
  ASSUME NEW e \in Handling, NEW v \in Speed, NEW r \in groupSetSpeed(e, v)
  PROVE  Keeps(e, r.e)
<1> DEFINE halted == [e EXCEPT !.s.stoppedCount = 0]
<1> DEFINE kept == [e EXCEPT !.h = @ /\ (v # 0 \/ e.s.reserveTrackMode)]
<1> DEFINE speed == IF v = -1 THEN 0 ELSE v
<1> DEFINE stopped == [halted EXCEPT !.h = @ /\ e.s.reserveTrackMode,
                                     !.s.isReversing = @ \/ v = -1]
<1> DEFINE ask == <<Send(e.s.trainId[1], "stop_dist", 0)>>
<1> DEFINE Go(f) == Doing(f, ToAll(f.s, "set_speed", speed))
<1>1. e \in At /\ e.s \in Driver /\ speed \in Speed
  BY DEF Handling, At, Speed
<1>2. Keeps(e, halted) /\ halted.s.trainId = e.s.trainId
  <2>1. halted \in At /\ halted.s = [e.s EXCEPT !.stoppedCount = 0] /\ halted.h = e.h
    <3>1. [e.s EXCEPT !.stoppedCount = 0] \in Driver
      <4>1. 0 \in Int
        OBVIOUS
      <4> QED BY <1>1, <4>1, ZenonT(30) DEF Driver
    <3> QED BY <1>1, <3>1 DEF At
  <2>2. /\ halted.s.todo = e.s.todo /\ halted.s.trainId = e.s.trainId
        /\ halted.s.blocked = e.s.blocked /\ halted.s.tailMode = e.s.tailMode
        /\ halted.s.headTid = e.s.headTid
    BY <1>1, <2>1 DEF Driver
  <2> HIDE DEF halted
  <2> QED BY <2>1, <2>2, FlagsKeep
<1>3. ASSUME NEW f \in Handling, Keeps(e, f) PROVE Keeps(e, Go(f))
  <2>1. Keeps(f, Go(f))
    BY <1>1, <1>3, ToAllTyped, DoingKeeps DEF SendKind
  <2> HIDE DEF Go
  <2> QED BY <1>3, <2>1, KeepsTransitive
<1>4. CASE e.s.tailMode
  <2>1. r.e = Doing(kept, ToAll(e.s, "set_speed", v))
    BY <1>4 DEF groupSetSpeed
  <2>2. kept \in At /\ kept.s = e.s /\ (kept.h => e.h)
    BY <1>1 DEF At
  <2>3. Keeps(e, kept) /\ kept \in Handling
    <3> HIDE DEF kept
    <3> QED BY <2>2, FlagsKeep DEF Keeps
  <2>4. Keeps(kept, Doing(kept, ToAll(kept.s, "set_speed", v)))
    <3> HIDE DEF kept
    <3> QED BY <2>3, ToAllTyped, DoingKeeps DEF SendKind
  <2> HIDE DEF kept
  <2> QED BY <2>1, <2>2, <2>3, <2>4, KeepsTransitive
<1>5. CASE ~e.s.tailMode /\ v # 1
  <2>1. r.e = Go(stopped)
    BY <1>5 DEF groupSetSpeed
  <2>2. halted \in At /\ halted.s \in Driver
    BY <1>2 DEF Keeps, Handling, At
  <2>3. /\ stopped \in At /\ stopped.s.todo = halted.s.todo /\ stopped.s.trainId = halted.s.trainId
        /\ stopped.s.blocked = halted.s.blocked /\ stopped.s.tailMode = halted.s.tailMode
        /\ stopped.s.headTid = halted.s.headTid
    <3> HIDE DEF halted
    <3>1. [halted.s EXCEPT !.isReversing = @ \/ v = -1] \in Driver
      BY <2>2 DEF Driver
    <3>2. stopped.s = [halted.s EXCEPT !.isReversing = @ \/ v = -1] /\ stopped \in At
      <4> DEFINE b == e.s.reserveTrackMode
      <4>1. b \in BOOLEAN /\ halted.h \in BOOLEAN
        BY <1>1, <2>2 DEF At, Driver
      <4> DEFINE rev == [halted.s EXCEPT !.isReversing = @ \/ v = -1]
      <4>2. rev \in Driver
        BY <3>1
      <4>3. stopped = [halted EXCEPT !.h = @ /\ b, !.s = rev]
        BY <2>2 DEF At
      <4> HIDE DEF b, rev, stopped
      <4>4. stopped.s = rev /\ stopped \in At
        BY <2>2, <4>1, <4>2, <4>3 DEF At
      <4> QED BY <4>4 DEF rev
    <3> HIDE DEF stopped
    <3> QED BY <2>2, <3>2 DEF Driver
  <2>4. Keeps(halted, stopped)
    <3> HIDE DEF halted, stopped
    <3> QED BY <1>2, <1>5, <2>3, FlagsKeep DEF Keeps
  <2>5. Keeps(e, stopped) /\ stopped \in Handling
    <3> HIDE DEF halted, stopped
    <3> QED BY <1>2, <2>4, KeepsTransitive DEF Keeps
  <2> HIDE DEF halted, stopped, Go
  <2> QED BY <1>3, <2>1, <2>5
<1>6. CASE ~e.s.tailMode /\ v = 1
  <2>1. halted \in Handling
    BY <1>2 DEF Keeps
  <2>2. ask \in Seq(Asks(Range(halted.s.trainId)))
    BY <1>2, FirstMember, OneAsk DEF SendKind, Speed
  <2>3. Keeps(e, Doing(halted, ask)) /\ Doing(halted, ask) \in Handling
    <3> HIDE DEF halted, ask
    <3>1. Keeps(halted, Doing(halted, ask))
      BY <2>1, <2>2, DoingKeeps
    <3> QED BY <1>2, <3>1, KeepsTransitive DEF Keeps
  <2>4. CASE r.e = Go(halted)
    <3> HIDE DEF halted, Go
    <3> QED BY <1>2, <1>3, <2>1, <2>4
  <2>5. ASSUME NEW p \in makeReservation(Doing(halted, ask)),
               r = [p EXCEPT !.e = IF p.ok THEN Go(@) ELSE @]
        PROVE  Keeps(e, r.e)
    <3>1. Keeps(e, p.e) /\ p.e \in Handling
      <4> HIDE DEF halted, ask
      <4> QED BY <2>3, <2>5, ReservationKeeps, KeepsTransitive DEF Keeps
    <3>2. p = [ok |-> p.ok, e |-> p.e]
      BY DEF makeReservation
    <3>3. r.e = Go(p.e) \/ r.e = p.e
      BY <2>5, <3>2
    <3> HIDE DEF Go
    <3> QED BY <1>3, <3>1, <3>3
  <2>6. \/ r.e = Go(halted)
        \/ \E p \in makeReservation(Doing(halted, ask)) :
              r = [p EXCEPT !.e = IF p.ok THEN Go(@) ELSE @]
    BY <1>6 DEF groupSetSpeed
  <2> QED BY <2>4, <2>5, <2>6
<1> QED BY <1>4, <1>5, <1>6

\* What one part of a handler keeps, the next part keeps too.
KeepsAll(e, F) == \A f \in F : Keeps(e, f)

\* groupSetSpeed and makeReservation, whatever they return.
LEMMA EffectKeeps ==
  ASSUME NEW e \in Handling, NEW v \in Speed
  PROVE  /\ KeepsAll(e, Effect(groupSetSpeed(e, v)))
         /\ KeepsAll(e, Effect(makeReservation(e)))
  BY SpeedKeeps, ReservationKeeps DEF KeepsAll, Effect

\* REPORT_INFO to all, and the followers told their speed.
LEMMA UpdateInfoKeeps ==
  ASSUME NEW e \in Handling
  PROVE  KeepsAll(e, updateInfo(e))
<1> DEFINE n == Len(e.s.trainId)
<1> DEFINE A == Asks(Range(e.s.trainId))
<1>1. /\ e.s.trainId \in Seq(Train) /\ n \in Nat \ {0} /\ DOMAIN e.s.trainId = 1 .. n
  <2>1. e.s.trainId \in Seq(Train) /\ e.s.trainId # <<>>
    BY DEF Handling, At, Driver
  <2> QED BY <2>1, MembersTyped, EmptySeq
<1> DEFINE Adjust(i, speeds) ==
               [k \in DOMAIN speeds |-> Send(e.s.trainId[i], "set_speed", speeds[k])]
               \o <<Send(e.s.trainId[i], "delta", 0)>>
<1>2. ASSUME NEW f \in [2 .. n -> UNION {[1 .. k -> {0, 1}] : k \in 0 .. 2}]
      PROVE  Keeps(e, Doing(e, ToAll(e.s, "report_info", 0)
                               \o FlattenSeq([k \in 1 .. n - 1 |-> Adjust(k + 1, f[k + 1])])
                               \o <<Send(e.s.trainId[1], "delta", 0)>>))
  <2> DEFINE Adjusted(i) == Adjust(i, f[i])
  <2>1. ASSUME NEW i \in 2 .. n PROVE Adjusted(i) \in Seq(A)
    <3>1. i \in DOMAIN e.s.trainId
      BY <1>1
    <3>1a. PICK k \in 0 .. 2 : f[i] \in [1 .. k -> {0, 1}]
      BY <1>2
    <3>2. <<Send(e.s.trainId[i], "delta", 0)>> \in Seq(A)
      BY <3>1, OneAsk DEF SendKind, Speed
    <3> DEFINE first == [j \in 1 .. k |-> Send(e.s.trainId[i], "set_speed", f[i][j])]
    <3>3. first \in Seq(A)
      <4>1. e.s.trainId[i] \in Range(e.s.trainId)
        BY <1>1, <3>1, MembersTyped
      <4>2. \A j \in 1 .. k : f[i][j] \in Speed
        BY <3>1a DEF Speed
      <4>3. \A j \in 1 .. k : Send(e.s.trainId[i], "set_speed", f[i][j]) \in A
        BY <4>1, <4>2 DEF Send, Asks, SendKind
      <4> HIDE DEF A
      <4>4. k \in Nat
        OBVIOUS
      <4> QED BY <4>3, <4>4, IsASeq
    <3>3a. first = [j \in DOMAIN f[i] |-> Send(e.s.trainId[i], "set_speed", f[i][j])]
      BY <3>1a
    <3> HIDE DEF A
    <3> HIDE DEF first
    <3>4. first \o <<Send(e.s.trainId[i], "delta", 0)>> \in Seq(A)
      BY <3>2, <3>3, ConcatProperties
    <3> QED BY <3>3a, <3>4 DEF first
  <2> HIDE DEF Adjusted
  <2> DEFINE middle == [k \in 1 .. n - 1 |-> Adjusted(k + 1)]
  <2>2. middle \in [1 .. n - 1 -> Seq(A)]
    <3>1. \A k \in 1 .. n - 1 : k + 1 \in 2 .. n
      BY <1>1
    <3> HIDE DEF A, n
    <3> QED BY <2>1, <3>1
  <2>3. FlattenSeq(middle) \in Seq(A)
    <3>1. n - 1 \in Nat
      BY <1>1
    <3> HIDE DEF A, n, middle
    <3> QED BY <2>2, <3>1, FlattenTyped
  <2>4. ToAll(e.s, "report_info", 0) \in Seq(A)
    BY ToAllTyped DEF SendKind, Speed
  <2>5. <<Send(e.s.trainId[1], "delta", 0)>> \in Seq(A)
    BY FirstMember, OneAsk DEF SendKind, Speed
  <2> DEFINE q == ToAll(e.s, "report_info", 0) \o FlattenSeq(middle)
                  \o <<Send(e.s.trainId[1], "delta", 0)>>
  <2>6. q \in Seq(A)
    <3> HIDE DEF A, middle
    <3>1. ToAll(e.s, "report_info", 0) \o FlattenSeq(middle) \in Seq(A)
      BY <2>3, <2>4, ConcatProperties
    <3> QED BY <2>5, <3>1, ConcatProperties
  <2> HIDE DEF q
  <2>7. Keeps(e, Doing(e, q))
    BY <2>6, DoingKeeps
  <2> QED BY <2>7 DEF q, Adjusted
<1> QED BY <1>2 DEF updateInfo, KeepsAll

\* The next part of a handler, after one that keeps all.
LEMMA ThenKeeps ==
  ASSUME NEW e \in Handling, NEW f, Keeps(e, f), NEW G, KeepsAll(f, G)
  PROVE  KeepsAll(e, G)
  BY KeepsTransitive DEF KeepsAll

\* The fields of a driver that a handler sets on its way.
Noted(s, t) ==
    /\ t \in Driver
    /\ t.todo = s.todo /\ t.trainId = s.trainId /\ t.blocked = s.blocked
    /\ t.tailMode = s.tailMode /\ t.headTid = s.headTid

\* Setting such fields keeps all.
LEMMA NotedKeeps ==
  ASSUME NEW e \in Handling, NEW t, Noted(e.s, t)
  PROVE  Keeps(e, [e EXCEPT !.s = t])
<1>1. [e EXCEPT !.s = t] \in At /\ [e EXCEPT !.s = t].s = t /\ [e EXCEPT !.s = t].h = e.h
  BY DEF Noted, Handling, At
<1> QED BY <1>1, FlagsKeep DEF Noted

\* setRoute: a route to follow, or none and the train is stopped.
LEMMA SetRouteKeeps ==
  ASSUME NEW e \in Handling
  PROVE  KeepsAll(e, setRoute(e))
<1> DEFINE got(route) == [e EXCEPT !.s.stopCommited = ~route, !.s.routeRemaining = TRUE,
                                   !.s.route = route]
<1> DEFINE Driven(r) == IF r.ok THEN {r.e}
                        ELSE Effect(groupSetSpeed([r.e EXCEPT !.s.rerouteCountdown = TRUE], 0))
<1>0. e \in At /\ e.s \in Driver /\ 0 \in Speed /\ 1 \in Speed
  BY DEF Handling, At, Speed
<1>1. ASSUME NEW route \in BOOLEAN PROVE Keeps(e, got(route)) /\ got(route) \in Handling
  <2> DEFINE t == [e.s EXCEPT !.stopCommited = ~route, !.routeRemaining = TRUE, !.route = route]
  <2>1. t \in Driver
    BY <1>0 DEF Driver
  <2>2. Noted(e.s, t)
    BY <1>0, <2>1 DEF Noted, Driver
  <2>3. got(route) = [e EXCEPT !.s = t]
    BY <1>0 DEF At, Driver
  <2> HIDE DEF t, got
  <2> QED BY <2>2, <2>3, NotedKeeps DEF Keeps
<1>2. ASSUME NEW r \in groupSetSpeed(got(TRUE), 1) PROVE KeepsAll(e, Driven(r))
  <2>1. Keeps(e, r.e) /\ r.e \in Handling
    <3> HIDE DEF got
    <3> QED BY <1>0, <1>1, <1>2, SpeedKeeps, KeepsTransitive DEF Keeps
  <2>2. CASE r.ok
    BY <2>1, <2>2 DEF KeepsAll
  <2>3. CASE ~r.ok
    <3> DEFINE t == [r.e.s EXCEPT !.rerouteCountdown = TRUE]
    <3> DEFINE f == [r.e EXCEPT !.s.rerouteCountdown = TRUE]
    <3>0. r.e \in At /\ r.e.s \in Driver
      BY <2>1 DEF Handling, At
    <3>1. t \in Driver
      BY <3>0 DEF Driver
    <3>2. Noted(r.e.s, t)
      BY <3>0, <3>1 DEF Noted, Driver
    <3>3. f = [r.e EXCEPT !.s = t]
      BY <3>0 DEF At, Driver
    <3>4. Keeps(e, f) /\ f \in Handling
      <4> HIDE DEF t, f
      <4> QED BY <2>1, <3>2, <3>3, NotedKeeps, KeepsTransitive DEF Keeps
    <3>5. KeepsAll(e, Effect(groupSetSpeed(f, 0)))
      <4> HIDE DEF f
      <4> QED BY <1>0, <3>4, EffectKeeps, ThenKeeps
    <3> QED BY <2>3, <3>5
  <2> QED BY <2>2, <2>3
<1>3. KeepsAll(e, Effect(groupSetSpeed(got(FALSE), 0)))
  <2> HIDE DEF got
  <2> QED BY <1>0, <1>1, EffectKeeps, ThenKeeps
<1>4. KeepsAll(e, UNION {Driven(r) : r \in groupSetSpeed(got(TRUE), 1)})
  <2> HIDE DEF Driven, got
  <2> QED BY <1>2 DEF KeepsAll
<1> QED BY <1>3, <1>4 DEF setRoute, Then, KeepsAll

\* Two parts of a handler, one after the other.
LEMMA UnionKeeps ==
  ASSUME NEW e \in Handling, NEW F, KeepsAll(e, F), NEW G,
         \A g \in G : \E f \in F : Keeps(f, g)
  PROVE  KeepsAll(e, G)
  BY KeepsTransitive DEF KeepsAll

\* Every result of a part of a handler can be handled on.
LEMMA AllHandling ==
  ASSUME NEW e \in Handling, NEW F, KeepsAll(e, F), NEW f \in F
  PROVE  f \in Handling /\ Keeps(e, f)
  BY DEF KeepsAll, Keeps

\* handleReverse: the same members in reverse order.
LEMMA HandleReverseKeeps ==
  ASSUME NEW e \in Handling
  PROVE  KeepsAll(e, handleReverse(e))
<1> DEFINE turned == [e EXCEPT !.s.trainId = Reverse(@), !.s.isReversing = FALSE,
                               !.s.stopCommited = @ /\ ~e.s.route]
<1> DEFINE Told(v) == Doing([turned EXCEPT !.s.stoppedCount = IF v = 0 THEN @ ELSE 0],
                            ToAll(turned.s, "reverse_speed", v))
<1>0. e \in At /\ e.s \in Driver /\ e.s.trainId \in Seq(Train) /\ e.s.trainId # <<>>
  BY DEF Handling, At, Driver
<1>1. /\ turned \in Handling /\ Keeps(e, turned)
  <2> DEFINE t == [e.s EXCEPT !.trainId = Reverse(@), !.isReversing = FALSE,
                              !.stopCommited = @ /\ ~e.s.route]
  <2>1. /\ Reverse(e.s.trainId) \in Seq(Train) /\ Reverse(e.s.trainId) # <<>>
        /\ Range(Reverse(e.s.trainId)) = Range(e.s.trainId)
    BY <1>0, ReverseTyped
  <2>2. t \in Driver
    BY <1>0, <2>1, ZenonT(30) DEF Driver
  <2>3. /\ t.trainId = Reverse(e.s.trainId) /\ t.todo = e.s.todo /\ t.blocked = e.s.blocked
        /\ t.tailMode = e.s.tailMode /\ t.headTid = e.s.headTid
    BY <1>0 DEF Driver
  <2>4. turned \in At /\ turned.s = t /\ turned.h = e.h
    <3>1. turned = [e EXCEPT !.s = t]
      BY <1>0 DEF At, Driver
    <3> HIDE DEF t, turned
    <3> QED BY <1>0, <2>2, <3>1 DEF At
  <2> HIDE DEF t, turned
  <2> QED BY <2>1, <2>3, <2>4 DEF Keeps, Handling
<1>2. ASSUME NEW v \in Speed PROVE Told(v) \in Handling /\ Keeps(e, Told(v))
  <2> DEFINE f == [turned EXCEPT !.s.stoppedCount = IF v = 0 THEN @ ELSE 0]
  <2>1. f \in Handling /\ Keeps(e, f) /\ f.s.trainId = turned.s.trainId
    <3> HIDE DEF turned
    <3> DEFINE t == [turned.s EXCEPT !.stoppedCount = IF v = 0 THEN @ ELSE 0]
    <3>0. turned \in At /\ turned.s \in Driver
      BY <1>1 DEF Handling, At
    <3>1. t \in Driver
      <4>1. turned.s.stoppedCount \in Int /\ 0 \in Int
        BY <3>0 DEF Driver
      <4>2. (IF v = 0 THEN turned.s.stoppedCount ELSE 0) \in Int
        BY <4>1
      <4> DEFINE c == IF v = 0 THEN turned.s.stoppedCount ELSE 0
      <4> HIDE DEF c
      <4>3. [turned.s EXCEPT !.stoppedCount = c] \in Driver
        BY <3>0, <4>2 DEF Driver, c
      <4> QED BY <4>3 DEF c
    <3>2. Noted(turned.s, t)
      BY <3>0, <3>1 DEF Noted, Driver
    <3>3. f = [turned EXCEPT !.s = t]
      BY <3>0 DEF At, Driver
    <3>4. f.s = t
      BY <3>0, <3>3 DEF At
    <3> HIDE DEF t, f
    <3> QED BY <1>1, <3>2, <3>3, <3>4, NotedKeeps, KeepsTransitive DEF Keeps, Noted
  <2>2. ToAll(f.s, "reverse_speed", v) = ToAll(turned.s, "reverse_speed", v)
    <3> HIDE DEF f, turned
    <3> QED BY <2>1 DEF ToAll
  <2>3. Keeps(f, Doing(f, ToAll(f.s, "reverse_speed", v)))
    <3> HIDE DEF f
    <3> QED BY <2>1, ToAllTyped, DoingKeeps DEF SendKind
  <2>4. Told(v) = Doing(f, ToAll(f.s, "reverse_speed", v))
    BY <2>2
  <2> HIDE DEF f, Told
  <2> QED BY <2>1, <2>3, <2>4, KeepsTransitive DEF Keeps
<1>3. KeepsAll(e, UNION {updateInfo(Told(v)) : v \in {-1, 0, 1}})
  <2> HIDE DEF Told
  <2>1. \A v \in {-1, 0, 1} : KeepsAll(e, updateInfo(Told(v)))
    BY <1>2, UpdateInfoKeeps, ThenKeeps DEF Speed
  <2> QED BY <2>1 DEF KeepsAll
<1> QED BY <1>3 DEF handleReverse

\* The train has reached its stop node, or not.
LEMMA ArrivedKeeps ==
  ASSUME NEW e \in Handling
  PROVE  KeepsAll(e, Arrived(e))
<1> DEFINE Committed(f) == [f EXCEPT !.s.stopCommited = TRUE]
<1> DEFINE Ended(f) == [Committed(f) EXCEPT !.s.route = FALSE, !.s.routeRemaining = FALSE]
<1>1. ASSUME NEW f \in Handling PROVE Keeps(f, Committed(f)) /\ Keeps(f, Ended(f))
  <2> DEFINE t == [f.s EXCEPT !.stopCommited = TRUE]
  <2> DEFINE u == [f.s EXCEPT !.stopCommited = TRUE, !.route = FALSE, !.routeRemaining = FALSE]
  <2>0. f \in At /\ f.s \in Driver
    BY <1>1 DEF Handling, At
  <2>1. Noted(f.s, t)
    <3>1. t \in Driver
      BY <2>0 DEF Driver
    <3> QED BY <2>0, <3>1 DEF Noted, Driver
  <2>2. Noted(f.s, u)
    <3>1. u \in Driver
      BY <2>0 DEF Driver
    <3> QED BY <2>0, <3>1 DEF Noted, Driver
  <2>3. Committed(f) = [f EXCEPT !.s = t]
    BY <2>0 DEF At, Driver
  <2>4. Ended(f) = [f EXCEPT !.s = u]
    BY <2>0 DEF At, Driver
  <2> HIDE DEF t, u, Committed, Ended
  <2> QED BY <1>1, <2>1, <2>2, <2>3, <2>4, NotedKeeps
<1>2. KeepsAll(e, Effect(groupSetSpeed(e, -1))) /\ KeepsAll(e, Effect(groupSetSpeed(e, 0)))
  BY EffectKeeps DEF Speed
<1>3. ASSUME NEW f \in Effect(groupSetSpeed(e, -1)) PROVE Keeps(e, Committed(f))
  <2> HIDE DEF Committed, Ended
  <2> QED BY <1>1, <1>2, <1>3, AllHandling, KeepsTransitive
<1>4. ASSUME NEW f \in Effect(groupSetSpeed(e, 0)) PROVE Keeps(e, Ended(f))
  <2> HIDE DEF Committed, Ended
  <2> QED BY <1>1, <1>2, <1>4, AllHandling, KeepsTransitive
<1>5. ASSUME NEW g \in Arrived(e)
      PROVE  \/ g = e
             \/ \E f \in Effect(groupSetSpeed(e, -1)) : g = Committed(f)
             \/ \E f \in Effect(groupSetSpeed(e, 0)) : g = Ended(f)
  BY <1>5 DEF Arrived
<1> QED
  <2> HIDE DEF Committed, Ended
  <2> QED BY <1>3, <1>4, <1>5, KeepsItself DEF KeepsAll

\* UPDATE_PARENT_ABOUT_PREDICTION to all when a switch was set.
LEMMA TrySetSwitchKeeps ==
  ASSUME NEW e \in Handling
  PROVE  KeepsAll(e, trySetSwitch(e))
<1>1. Keeps(e, Doing(e, ToAll(e.s, "update_parent", 0)))
  BY ToAllTyped, DoingKeeps DEF SendKind, Speed
<1>2. \A f \in trySetSwitch(e) : f = e \/ f = Doing(e, ToAll(e.s, "update_parent", 0))
  BY DEF trySetSwitch
<1> QED BY <1>1, <1>2, KeepsItself DEF KeepsAll

\* A new route when the wait for it is over.
LEMMA ReroutedKeeps ==
  ASSUME NEW e \in Handling
  PROVE  KeepsAll(e, Rerouted(e))
<1> DEFINE due == [e EXCEPT !.s.rerouteCountdown = FALSE]
<1>1. Keeps(e, due) /\ due \in Handling
  <2> DEFINE t == [e.s EXCEPT !.rerouteCountdown = FALSE]
  <2>0. e \in At /\ e.s \in Driver
    BY DEF Handling, At
  <2>1. Noted(e.s, t)
    <3>1. t \in Driver
      BY <2>0 DEF Driver
    <3> QED BY <2>0, <3>1 DEF Noted, Driver
  <2>2. due = [e EXCEPT !.s = t]
    BY <2>0 DEF At, Driver
  <2> HIDE DEF t, due
  <2> QED BY <2>1, <2>2, NotedKeeps DEF Keeps
<1>2. KeepsAll(e, setRoute(due))
  <2> HIDE DEF due
  <2> QED BY <1>1, SetRouteKeeps, ThenKeeps
<1>3. \A f \in Rerouted(e) : f = e \/ f = due \/ f \in setRoute(due)
  BY DEF Rerouted
<1> QED
  <2> HIDE DEF due
  <2> QED BY <1>1, <1>2, <1>3, KeepsItself DEF KeepsAll

\* NAVIGATE_NAGGER
LEMMA NaggedKeeps ==
  ASSUME NEW e \in Handling
  PROVE  KeepsAll(e, Nagged(e))
<1>1. CASE e.s.tailMode
  BY <1>1, KeepsItself DEF Nagged, KeepsAll
<1>2. CASE ~e.s.tailMode
  <2> DEFINE F == updateInfo(e)
  <2> DEFINE G == UNION {Arrived(f) : f \in F}
  <2> DEFINE H == UNION {trySetSwitch(g) : g \in G}
  <2> DEFINE K == UNION {Rerouted(h) : h \in H}
  <2>1. KeepsAll(e, F)
    BY UpdateInfoKeeps
  <2>2. KeepsAll(e, G)
    <3>1. \A f \in F : KeepsAll(e, Arrived(f))
      BY <2>1, AllHandling, ArrivedKeeps, ThenKeeps
    <3> QED BY <3>1 DEF KeepsAll
  <2>3. KeepsAll(e, H)
    <3> HIDE DEF G
    <3>1. \A g \in G : KeepsAll(e, trySetSwitch(g))
      BY <2>2, AllHandling, TrySetSwitchKeeps, ThenKeeps
    <3> QED BY <3>1 DEF KeepsAll
  <2>4. KeepsAll(e, K)
    <3> HIDE DEF H
    <3>1. \A h \in H : KeepsAll(e, Rerouted(h))
      BY <2>3, AllHandling, ReroutedKeeps, ThenKeeps
    <3> QED BY <3>1 DEF KeepsAll
  <2>5. Nagged(e) = K
    BY <1>2 DEF Nagged, Then
  <2> QED BY <2>4, <2>5
<1> QED BY <1>1, <1>2

\* STOP_COMPLETED
LEMMA CountedTyped ==
  ASSUME NEW n \in Int
  PROVE  Counted(n) \in Int
<1>1. Cardinality(Train) \in Nat
  BY TrainAssumption, FS_CardinalityType
<1> QED BY <1>1 DEF Counted

\* STOP_COMPLETED, with all that follows when the last train has stopped.
LEMMA StopCompletedKeeps ==
  ASSUME NEW e \in Handling
  PROVE  KeepsAll(e, StopCompleted(e))
<1>1. CASE e.s.tailMode
  BY <1>1, KeepsItself DEF StopCompleted, KeepsAll
<1>2. CASE ~e.s.tailMode
  <2> DEFINE n == Counted(e.s.stoppedCount + 1)
  <2> DEFINE counted == [e EXCEPT !.s.stoppedCount = n]
  <2> DEFINE GoOn(f) == CASE f.s.isReversing -> handleReverse(f)
                          [] ~f.s.isReversing /\ f.s.route -> setRoute(f)
                          [] OTHER -> {f}
  <2> DEFINE F == Effect(makeReservation(counted))
  <2> DEFINE G == UNION {GoOn(f) : f \in F}
  <2> DEFINE Ended(f) == [f EXCEPT !.h = @ /\ f.s.reserveTrackMode]
  <2>1. Keeps(e, counted) /\ counted \in Handling
    <3> DEFINE t == [e.s EXCEPT !.stoppedCount = n]
    <3>0. e \in At /\ e.s \in Driver
      BY DEF Handling, At
    <3>1. n \in Int
      <4>1. e.s.stoppedCount + 1 \in Int
        BY <3>0 DEF Driver
      <4> QED BY <4>1, CountedTyped
    <3> HIDE DEF n
    <3>2. Noted(e.s, t)
      <4>1. t \in Driver
        BY <3>0, <3>1 DEF Driver
      <4> QED BY <3>0, <4>1 DEF Noted, Driver
    <3>3. counted = [e EXCEPT !.s = t]
      BY <3>0 DEF At, Driver
    <3> HIDE DEF t, counted
    <3> QED BY <3>2, <3>3, NotedKeeps DEF Keeps
  <2>2. KeepsAll(e, F)
    <3> HIDE DEF counted
    <3>1. KeepsAll(counted, F)
      BY <2>1, EffectKeeps DEF Speed
    <3> QED BY <2>1, <3>1, ThenKeeps
  <2>3. ASSUME NEW f \in Handling PROVE KeepsAll(f, GoOn(f))
    <3>1. CASE f.s.isReversing
      BY <3>1, HandleReverseKeeps
    <3>2. CASE ~f.s.isReversing /\ f.s.route
      BY <3>2, SetRouteKeeps
    <3>3. CASE ~f.s.isReversing /\ ~f.s.route
      BY <3>3, KeepsItself DEF KeepsAll
    <3> QED BY <3>1, <3>2, <3>3
  <2>4. KeepsAll(e, G)
    <3> HIDE DEF F, GoOn
    <3>1. \A f \in F : KeepsAll(e, GoOn(f))
      BY <2>2, <2>3, AllHandling, ThenKeeps
    <3> QED BY <3>1 DEF KeepsAll
  <2>5. ASSUME NEW f \in Handling PROVE Keeps(f, Ended(f))
    <3>1. f \in At /\ Ended(f) \in At /\ Ended(f).s = f.s /\ (Ended(f).h => f.h)
      BY <2>5 DEF Handling, At
    <3> HIDE DEF Ended
    <3> QED BY <2>5, <3>1, FlagsKeep
  <2>6. \A g \in StopCompleted(e) : \E f \in G \cup {counted} : g = Ended(f)
    BY <1>2 DEF StopCompleted, Then
  <2> HIDE DEF G, counted, Ended
  <2> QED BY <2>1, <2>4, <2>5, <2>6, AllHandling, KeepsTransitive DEF KeepsAll
<1> QED BY <1>1, <1>2

\* FIND_POSITION
LEMMA FindPositionKeeps ==
  ASSUME NEW e \in Handling, NEW v
  PROVE  KeepsAll(e, FindPosition(e, v))
<1> DEFINE f == [e EXCEPT !.s.reserveTrackMode = (v = 1), !.s.finding = TRUE]
<1> DEFINE t == [e.s EXCEPT !.reserveTrackMode = (v = 1), !.finding = TRUE]
<1>0. e \in At /\ e.s \in Driver
  BY DEF Handling, At
<1>1. Noted(e.s, t)
  <2>1. t \in Driver
    BY <1>0 DEF Driver
  <2> QED BY <1>0, <2>1 DEF Noted, Driver
<1>2. f = [e EXCEPT !.s = t] /\ f.s = t
  BY <1>0 DEF At, Driver
<1> HIDE DEF f, t
<1>3. Keeps(e, f) /\ f \in Handling /\ f.s.trainId = e.s.trainId
  BY <1>1, <1>2, NotedKeeps DEF Keeps, Noted
<1>4. <<Send(e.s.trainId[1], "set_speed", 1)>> \in Seq(Asks(Range(f.s.trainId)))
  BY <1>3, FirstMember, OneAsk DEF SendKind, Speed
<1>5. Keeps(e, Doing(f, <<Send(e.s.trainId[1], "set_speed", 1)>>))
  BY <1>3, <1>4, DoingKeeps, KeepsTransitive
<1>6. \A g \in FindPosition(e, v) :
         g = e \/ g = Doing(f, <<Send(e.s.trainId[1], "set_speed", 1)>>)
  BY DEF FindPosition, f
<1> QED BY <1>5, <1>6, KeepsItself DEF KeepsAll

----------------------------------------------------------------------------
(* The invariant.                                                          *)

ReportKind == {"predict", "stopped", "secondary"}
WorkKind   == {"nag", "trigger"}
UserKind   == {"set_speed", "find", "set_route", "get_position", "set_following"}

AnswersTo(f)    == [to : {f}, kind : {"answer"}, v : Int]
Sends(members)  == Asks(members) \cup [to : Train, kind : {"answer"}, v : Int]

Requests(f)     == [kind : SendKind, v : Speed, from : {f}]
RequestOf(f, k) == [kind : {k}, v : Speed, from : {f}]
LeadOf(t)       == [kind : {"merge_head"}, v : {t}, from : Client]
FollowOf(h)     == [kind : {"merge_tail"}, v : {h}, from : Client]
UserLetters     == [kind : UserKind, v : Speed, from : Client] \cup
                   [kind : {"merge_head", "merge_tail"}, v : Train, from : Client]
LettersOf(c)    == {m \in UserLetters : m.from = c}

\* What arrives at d: reports, its own work, its courier, requests of others, commands.
Letter(d) ==
    [kind : ReportKind, v : {0, 1}, from : Train] \cup
    [kind : WorkKind \cup {"courier"}, v : {0}, from : {d}] \cup
    [kind : SendKind, v : Speed, from : Train \ {d}] \cup
    UserLetters

Types ==
    /\ drv \in [Train -> Driver]
    /\ \A d \in Train : drv[d].trainId # <<>> /\ drv[d].todo \in Seq(Sends(Members(d)))
    /\ DOMAIN inbox = Train /\ \A d \in Train : inbox[d] \in Seq(Letter(d))
    /\ holds \in [Train -> BOOLEAN]
    /\ client \in [Client -> [waits : BOOLEAN, merge : {<<>>} \cup (Train \X Train)]]

MembersAreTails ==
    \A h \in Train : \A t \in Members(h) \ {h} : drv[t].tailMode /\ drv[t].headTid = h

OnlyHeadsReserve == \A d \in Train : drv[d].tailMode => ~holds[d]

NoLeaderCircle ==
    \A S \in (SUBSET Train) \ {{}} : \E d \in S : \A t \in S : ~(t \in Members(d) \ {d})

WaitsForTail ==
    \A d \in Train : drv[d].blocked =>
        drv[d].todo # <<>> /\ Head(drv[d].todo).to # d /\ Head(drv[d].todo).kind # "answer"

\* What t owes to f: a request of f in the inbox of t is the one that f waits
\* with, and while f waits for t, that request is there or an answer is due.
Owed(t, f) ==
    /\ Once(inbox[t], Requests(f))
    /\ Has(inbox[t], Requests(f)) =>
          WaitsFor(f, t) /\ Has(inbox[t], RequestOf(f, Head(drv[f].todo).kind))
    /\ WaitsFor(f, t) => Has(inbox[t], Requests(f)) \/ Has(drv[t].todo, AnswersTo(f))

AllOwed == \A t, f \in Train : t # f => Owed(t, f)

NoAnswerToItself == \A t \in Train : ~Has(drv[t].todo, AnswersTo(t))

\* One letter of a client is under way at a time, and this client waits: in the
\* first half of a merge, it is the one to the tail.
OneCommand ==
    /\ \A d \in Train : Once(inbox[d], UserLetters)
    /\ \A d, e \in Train : Has(inbox[d], UserLetters) /\ Has(inbox[e], UserLetters) => d = e
    /\ \A d \in Train, c \in Client : Has(inbox[d], LettersOf(c)) => client[c].waits
    /\ \A c \in Client, d, head, tail \in Train :
          client[c].waits /\ client[c].merge = <<head, tail>> =>
          ~Has(inbox[d], LettersOf(c) \ (IF d = tail THEN FollowOf(head) ELSE {}))

\* The head is told, or about to be told, of a driver that is its tail.
HeadsToldLast ==
    /\ \A h, t \in Train : Has(inbox[h], LeadOf(t)) => drv[t].tailMode /\ drv[t].headTid = h
    /\ \A c \in Client, h, t \in Train :
          client[c].merge = <<h, t>> /\ ~client[c].waits => drv[t].tailMode /\ drv[t].headTid = h

GroupInv ==
    /\ Types
    /\ MembersAreTails
    /\ OnlyHeadsReserve
    /\ NoLeaderCircle
    /\ WaitsForTail
    /\ AllOwed
    /\ NoAnswerToItself
    /\ OneCommand
    /\ HeadsToldLast

\* The two properties that follow from it.
LEMMA InvImpliesOwed ==
  ASSUME GroupInv
  PROVE  SendsAreOwed
<1> SUFFICES ASSUME NEW d \in Train, NEW t \in Train, WaitsFor(d, t)
             PROVE  \/ \E i \in DOMAIN inbox[t] :
                          /\ inbox[t][i].from = d
                          /\ inbox[t][i].kind = Head(drv[d].todo).kind
                    \/ \E i \in DOMAIN drv[t].todo :
                          drv[t].todo[i].kind = "answer" /\ drv[t].todo[i].to = d
  BY DEF SendsAreOwed
<1>1. t # d
  BY DEF WaitsFor, GroupInv, WaitsForTail
<1>2. \/ Has(inbox[t], RequestOf(d, Head(drv[d].todo).kind))
      \/ Has(drv[t].todo, AnswersTo(d))
  BY <1>1 DEF GroupInv, AllOwed, Owed
<1> QED BY <1>2 DEF Has, RequestOf, AnswersTo

\* Members are tails, and these reserve nothing.
LEMMA InvImpliesFollow ==
  ASSUME GroupInv
  PROVE  MembersFollow
<1>1. \A h \in Train : Members(h) \subseteq Train
  <2> SUFFICES ASSUME NEW h \in Train PROVE Members(h) \subseteq Train
    OBVIOUS
  <2>1. drv[h].trainId \in Seq(Train)
    BY DEF GroupInv, Types, Driver
  <2> QED BY <2>1, MembersTyped DEF Members
<1> QED BY <1>1 DEF GroupInv, MembersAreTails, OnlyHeadsReserve, MembersFollow

\* The one a driver waits for is a member of its group.
LEMMA WaitsForMember ==
  ASSUME GroupInv, NEW d \in Train, NEW t \in Train, WaitsFor(d, t)
  PROVE  t \in Members(d) \ {d} /\ Head(drv[d].todo).kind \in SendKind
<1>1. /\ drv[d].todo # <<>> /\ Head(drv[d].todo).to = t /\ t # d
      /\ Head(drv[d].todo).kind # "answer" /\ drv[d].todo \in Seq(Sends(Members(d)))
  BY DEF WaitsFor, GroupInv, WaitsForTail, Types
<1>2. Head(drv[d].todo) \in Sends(Members(d))
  BY <1>1, HeadTailProperties
<1> QED BY <1>1, <1>2 DEF Sends, Asks

\* Who waits for whom is a part of who leads whom, and that has no circle.
LEMMA InvImpliesNoCircle ==
  ASSUME GroupInv
  PROVE  NoCircularWait
  BY WaitsForMember DEF GroupInv, NoLeaderCircle, NoCircularWait

\* At the start every driver is the only member of its own group.
LEMMA InitEstablishes ==
  ASSUME Init
  PROVE  GroupInv
<1>1. \A d \in Train : /\ drv[d].trainId = <<d>> /\ drv[d].todo = <<>> /\ ~drv[d].blocked
                       /\ ~drv[d].tailMode /\ inbox[d] = <<>>
  BY DEF Init
<1>2. \A d \in Train : Range(<<d>>) = {d} /\ <<d>> \in Seq(Train) /\ <<d>> # <<>>
  BY DEF Range
<1>3. \A d \in Train : Members(d) = {d}
  BY <1>1, <1>2 DEF Members
<1>4. Types
  <2>1. drv \in [Train -> Driver]
    <3>1. \A d \in Train : drv[d] \in Driver
      <4> SUFFICES ASSUME NEW d \in Train PROVE drv[d] \in Driver
        OBVIOUS
      <4>1. /\ (d \in Located) \in BOOLEAN /\ <<d>> \in Seq(Train) /\ 0 \in Int
            /\ (IF d \in Located THEN 1 ELSE 0) \in Nat
            /\ <<>> \in Seq([to : Train, kind : SendKind \cup {"answer"}, v : Int])
        BY <1>2, EmptySeq
      <4> QED BY <4>1 DEF Init, Driver
    <3> QED BY <3>1 DEF Init
  <2>2. \A d \in Train : inbox[d] \in Seq(Letter(d)) /\ drv[d].todo \in Seq(Sends(Members(d)))
    BY <1>1, EmptySeq
  <2>3. DOMAIN inbox = Train
    BY DEF Init
  <2>4. holds \in [Train -> BOOLEAN]
    BY DEF Init
  <2>5. client \in [Client -> [waits : BOOLEAN, merge : {<<>>} \cup (Train \X Train)]]
    BY DEF Init
  <2> QED BY <1>1, <1>2, <2>1, <2>2, <2>3, <2>4, <2>5 DEF Types
<1>5. \A d \in Train : \A E : /\ ~Has(inbox[d], E) /\ ~Has(drv[d].todo, E)
                              /\ Once(inbox[d], E) /\ Once(drv[d].todo, E)
  BY <1>1 DEF Has, Once
<1>6. OnlyHeadsReserve /\ WaitsForTail
  BY <1>1 DEF OnlyHeadsReserve, WaitsForTail
<1>6a. MembersAreTails
  BY <1>3 DEF MembersAreTails
<1>6b. NoLeaderCircle
  <2> SUFFICES ASSUME NEW S \in (SUBSET Train) \ {{}}
               PROVE  \E d \in S : \A t \in S : ~(t \in Members(d) \ {d})
    BY DEF NoLeaderCircle
  <2>1. PICK d \in S : d \in Train
    OBVIOUS
  <2>2. \A t \in S : ~(t \in {d} \ {d})
    OBVIOUS
  <2> QED BY <1>3, <2>1, <2>2
<1>7. AllOwed /\ NoAnswerToItself
  BY <1>1, <1>5 DEF AllOwed, Owed, WaitsFor, NoAnswerToItself
<1>7a. HeadsToldLast
  <2>1. \A c \in Client, h, t \in Train : client[c].merge # <<h, t>>
    <3>1. \A h, t \in Train : <<>> # <<h, t>>
      OBVIOUS
    <3> QED BY <3>1 DEF Init
  <2> QED BY <1>5, <2>1 DEF HeadsToldLast
<1>8. OneCommand
  BY <1>5 DEF OneCommand
<1> QED BY <1>4, <1>6, <1>6a, <1>6b, <1>7, <1>7a, <1>8 DEF GroupInv

----------------------------------------------------------------------------
(* What a step that is no reception does.                                  *)

\* Nothing of q is in E when nothing of its kind is.
LEMMA NoneIn ==
  ASSUME NEW S, NEW E, S \cap E = {}, NEW q \in Seq(S)
  PROVE  ~Has(q, E) /\ Once(q, E)
<1>1. \A i \in DOMAIN q : q[i] \in S
  BY ElementOfSeq, LenProperties
<1> QED BY <1>1 DEF Has, Once

\* What comes from a dumb train.
Reports(d) == [kind : ReportKind, v : {0, 1}, from : Train]

\* A dumb train sends nothing but reports, whatever it is told.
LEMMA DumbReports ==
  ASSUME NEW u, NEW m, m.kind = "set_speed" => m.v \in Speed, NEW r \in Dumb(u, m)
  PROVE  r.sent \in Seq(ReportKind)
<1>1. /\ <<>> \in Seq(ReportKind)
      /\ "predict" \in ReportKind /\ "stopped" \in ReportKind /\ "secondary" \in ReportKind
  BY EmptySeq DEF ReportKind
<1>2. ASSUME NEW w PROVE Stays(w).sent \in Seq(ReportKind)
  BY <1>1 DEF Stays
<1>3. ASSUME NEW w, NEW kinds, Head(kinds) \in ReportKind
      PROVE  Leaves(w, kinds).sent \in Seq(ReportKind)
  BY <1>1, <1>3 DEF Leaves, Carried
<1>4. /\ Head(<<"predict">>) \in ReportKind /\ Head(<<"stopped">>) \in ReportKind
      /\ Head(<<"secondary", "predict">>) \in ReportKind
  BY <1>1
<1>5. ASSUME NEW w PROVE StopDelayed(w).sent \in Seq(ReportKind)
  BY <1>2, <1>3, <1>4 DEF StopDelayed
<1>6. CASE m.kind = "set_speed"
  <2>1. r = SetSpeed(u, m.v) /\ m.v \in Speed
    BY <1>6 DEF Dumb
  <2>2. CASE m.v = -1
    BY <1>2, <2>1, <2>2 DEF SetSpeed
  <2>3. CASE m.v = 1
    BY <1>2, <2>1, <2>3 DEF SetSpeed
  <2>4. CASE m.v = 0 /\ ~u.delaying
    BY <1>2, <2>1, <2>4 DEF SetSpeed
  <2>5. CASE m.v = 0 /\ u.delaying
    BY <1>5, <2>1, <2>5 DEF SetSpeed
  <2> QED BY <2>1, <2>2, <2>3, <2>4, <2>5 DEF Speed
<1>7. CASE m.kind = "reverse_speed"
  BY <1>2, <1>3, <1>4, <1>7 DEF Dumb, ReverseSpeed
<1>8. CASE m.kind = "trigger"
  BY <1>2, <1>3, <1>4, <1>8 DEF Dumb, Triggered
<1>9. CASE m.kind = "update_parent"
  BY <1>2, <1>3, <1>4, <1>9 DEF Dumb
<1>10. CASE m.kind \notin {"set_speed", "reverse_speed", "trigger", "update_parent"}
  BY <1>2, <1>10 DEF Dumb
<1> QED BY <1>6, <1>7, <1>8, <1>9, <1>10

\* So does its stop delayer.
LEMMA DelayerReports ==
  ASSUME NEW w
  PROVE  StopDelayed(w).sent \in Seq(ReportKind)
<1>1. <<>> \in Seq(ReportKind) /\ <<"stopped">> \in Seq(ReportKind)
      /\ Head(<<"stopped">>) = "stopped"
  BY EmptySeq DEF ReportKind
<1> QED BY <1>1 DEF StopDelayed, Leaves, Carried, Stays

\* Reports as letters.
LEMMA LettersTyped ==
  ASSUME NEW d \in Train, NEW q \in Seq(ReportKind)
  PROVE  Letters(d, q) \in Seq(Reports(d))
<1>1. /\ Len(q) \in Nat /\ DOMAIN q = 1 .. Len(q)
      /\ \A i \in 1 .. Len(q) : q[i] \in ReportKind
  BY ElementOfSeq, LenProperties
<1>2. \A i \in 1 .. Len(q) : Message(q[i], 0, d) \in Reports(d)
  BY <1>1 DEF Message, Reports
<1> QED BY <1>1, <1>2, IsASeq DEF Letters

\* The kinds of letters differ.
LEMMA KindsDiffer ==
  ASSUME NEW d \in Train, NEW f \in Train
  PROVE  /\ Reports(d) \subseteq Letter(d)
         /\ Reports(d) \cap Requests(f) = {} /\ Reports(d) \cap UserLetters = {}
         /\ UserLetters \cap Requests(f) = {}
<1>1. f \notin Client /\ d \notin Client
  BY TrainAssumption
<1>2. Reports(d) \subseteq Letter(d)
  BY DEF Letter, Reports
<1>3. Reports(d) \cap Requests(f) = {}
  BY DEF Reports, Requests, ReportKind, SendKind
<1>4. Reports(d) \cap UserLetters = {}
  BY <1>1, TrainAssumption DEF Reports, UserLetters
<1>5. UserLetters \cap Requests(f) = {}
  BY <1>1 DEF UserLetters, Requests
<1> QED BY <1>2, <1>3, <1>4, <1>5

\* A request of a kind is a request.
LEMMA RequestKinds ==
  ASSUME NEW f, NEW k, NEW q
  PROVE  Has(q, RequestOf(f, k)) => k \notin SendKind \/ Has(q, Requests(f))
  BY DEF Has, RequestOf, Requests

\* What tells drivers to lead and to follow comes from clients.
LEMMA LeadIsCommand ==
  ASSUME NEW t \in Train
  PROVE  LeadOf(t) \subseteq UserLetters /\ FollowOf(t) \subseteq UserLetters
  BY DEF LeadOf, FollowOf, UserLetters

\* r holds the requests of f that q holds.
SameMail(q, r, f) ==
    /\ Has(r, Requests(f)) <=> Has(q, Requests(f))
    /\ Once(q, Requests(f)) => Once(r, Requests(f))
    /\ \A k \in SendKind : Has(q, RequestOf(f, k)) => Has(r, RequestOf(f, k))

SameAnswers(q, r, f) == Has(r, AnswersTo(f)) <=> Has(q, AnswersTo(f))

\* A step that leaves the requests of f at t, the answers for f there, and what f
\* waits for as they are leaves t's debt to f as it is.
LEMMA OwedStays ==
  ASSUME GroupInv, NEW t \in Train, NEW f \in Train, t # f,
         SameMail(inbox[t], inbox'[t], f), SameAnswers(drv[t].todo, drv'[t].todo, f),
         WaitsFor(f, t)' <=> WaitsFor(f, t),
         WaitsFor(f, t) => Head(drv'[f].todo).kind = Head(drv[f].todo).kind
  PROVE  Owed(t, f)'
<1>1. Owed(t, f)
  BY DEF GroupInv, AllOwed
<1>2. WaitsFor(f, t) => Head(drv[f].todo).kind \in SendKind
  BY WaitsForMember
<1>3. /\ Once(inbox[t], Requests(f))'
      /\ (WaitsFor(f, t) => Has(inbox[t], Requests(f)) \/ Has(drv[t].todo, AnswersTo(f)))'
  BY <1>1 DEF Owed, SameMail, SameAnswers
<1>4. ASSUME Has(inbox'[t], Requests(f))
      PROVE  (WaitsFor(f, t) /\ Has(inbox[t], RequestOf(f, Head(drv[f].todo).kind)))'
  <2>1. WaitsFor(f, t) /\ Has(inbox[t], RequestOf(f, Head(drv[f].todo).kind))
    BY <1>1, <1>4 DEF Owed, SameMail
  <2>2. Has(inbox'[t], RequestOf(f, Head(drv[f].todo).kind))
    BY <1>2, <2>1 DEF SameMail
  <2>3. Has(inbox'[t], RequestOf(f, Head(drv'[f].todo).kind))
    BY <2>1, <2>2
  <2> QED BY <2>1, <2>3
<1> QED BY <1>3, <1>4 DEF Owed

\* Letters that are no requests of f arrive; the first letter is taken.
LEMMA MailGrows ==
  ASSUME NEW S, NEW q \in Seq(S), NEW r \in Seq(S), NEW f,
         ~Has(r, Requests(f)), Once(r, Requests(f))
  PROVE  SameMail(q, q \o r, f)
<1>1. /\ Has(q \o r, Requests(f)) <=> Has(q, Requests(f)) \/ Has(r, Requests(f))
      /\ Once(q, Requests(f)) /\ Once(r, Requests(f))
         /\ ~(Has(q, Requests(f)) /\ Has(r, Requests(f)))
            => Once(q \o r, Requests(f))
  BY HasConcat
<1>2. \A k \in SendKind : Has(q, RequestOf(f, k)) => Has(q \o r, RequestOf(f, k))
  BY HasConcat
<1> QED BY <1>1, <1>2 DEF SameMail

\* A letter that is no request of f is taken.
LEMMA MailTaken ==
  ASSUME NEW S, NEW q \in Seq(S), q # <<>>, NEW f, Head(q) \notin Requests(f)
  PROVE  SameMail(q, Tail(q), f)
<1>1. /\ Has(q, Requests(f)) <=> Head(q) \in Requests(f) \/ Has(Tail(q), Requests(f))
      /\ Once(q, Requests(f)) => Once(Tail(q), Requests(f))
  BY HasTail
<1>2. ASSUME NEW k \in SendKind PROVE Has(q, RequestOf(f, k)) => Has(Tail(q), RequestOf(f, k))
  <2>1. Head(q) \notin RequestOf(f, k)
    BY DEF RequestOf, Requests
  <2> QED BY <2>1, HasTail
<1> QED BY <1>1, <1>2 DEF SameMail

\* Nothing changes.
LEMMA MailSame ==
  ASSUME NEW q, NEW f
  PROVE  SameMail(q, q, f) /\ SameAnswers(q, q, f)
  BY DEF SameMail, SameAnswers

\* SameMail and another SameMail.
LEMMA MailTwice ==
  ASSUME NEW q, NEW r, NEW p, NEW f, SameMail(q, r, f), SameMail(r, p, f)
  PROVE  SameMail(q, p, f)
  BY DEF SameMail

\* A Send that is no answer to f is over.
LEMMA TodoTaken ==
  ASSUME NEW S, NEW q \in Seq(S), q # <<>>
  PROVE  /\ Tail(q) \in Seq(S) /\ Taken(Tail(q)) \in Seq(S)
         /\ \A f : Head(q) \notin AnswersTo(f) =>
               SameAnswers(q, Tail(q), f) /\ SameAnswers(q, Taken(Tail(q)), f)
<1>1. Tail(q) \in Seq(S) /\ <<>> \in Seq(S)
  BY HeadTailProperties, EmptySeq
<1>2. Taken(Tail(q)) \in Seq(S)
  BY <1>1 DEF Taken
<1>3. ASSUME NEW f, Head(q) \notin AnswersTo(f) PROVE SameAnswers(q, Tail(q), f)
  BY <1>3, HasTail DEF SameAnswers
<1>4. ASSUME NEW f, SameAnswers(q, Tail(q), f) PROVE SameAnswers(q, Taken(Tail(q)), f)
  <2>1. CASE \A i \in DOMAIN Tail(q) : Tail(q)[i].kind = "trigger"
    <3>1. Taken(Tail(q)) = <<>>
      BY <2>1 DEF Taken
    <3>2. ~Has(Tail(q), AnswersTo(f))
      BY <2>1 DEF Has, AnswersTo
    <3> QED BY <1>4, <3>1, <3>2, HasOne DEF SameAnswers
  <2>2. CASE ~ \A i \in DOMAIN Tail(q) : Tail(q)[i].kind = "trigger"
    BY <1>4, <2>2 DEF Taken
  <2> QED BY <2>1, <2>2
<1> QED BY <1>1, <1>2, <1>3, <1>4

\* What a driver is to the others: its group, and what it does for them.
Place(s, t) == t.trainId = s.trainId /\ t.tailMode = s.tailMode /\ t.headTid = s.headTid

\* A step that leaves every driver its members, its mode and its head.
LEMMA GroupsStay ==
  ASSUME GroupInv, \A x \in Train : Place(drv[x], drv'[x])
  PROVE  MembersAreTails' /\ NoLeaderCircle' /\ \A x \in Train : Members(x)' = Members(x)
<1>1. \A x \in Train : Members(x)' = Members(x)
  BY DEF Members, Place
<1>2. MembersAreTails'
  <2> SUFFICES ASSUME NEW h \in Train, NEW t \in Members(h)' \ {h}
               PROVE  drv'[t].tailMode /\ drv'[t].headTid = h
    BY DEF MembersAreTails
  <2>1. t \in Members(h) \ {h}
    BY <1>1
  <2>2. t \in Train
    BY <2>1, MembersTyped DEF Members, GroupInv, Types, Driver
  <2>3. drv[t].tailMode /\ drv[t].headTid = h
    BY <2>1 DEF GroupInv, MembersAreTails
  <2> QED BY <2>2, <2>3 DEF Place
<1>3. NoLeaderCircle'
  <2> SUFFICES ASSUME NEW S \in (SUBSET Train) \ {{}}
               PROVE  \E d \in S : \A t \in S : ~(t \in Members(d)' \ {d})
    BY DEF NoLeaderCircle
  <2>1. PICK d \in S : \A t \in S : ~(t \in Members(d) \ {d})
    BY DEF GroupInv, NoLeaderCircle
  <2>2. d \in Train
    OBVIOUS
  <2> QED BY <1>1, <2>1, <2>2
<1> QED BY <1>1, <1>2, <1>3

\* No command arrives, and the clients go on waiting for the same.
LEMMA CommandsStay ==
  ASSUME GroupInv, \A x \in Train : Place(drv[x], drv'[x]), client' = client,
         \A x \in Train : \A E \in SUBSET UserLetters :
             /\ Has(inbox'[x], E) => Has(inbox[x], E)
             /\ Once(inbox[x], E) => Once(inbox'[x], E)
  PROVE  OneCommand' /\ HeadsToldLast'
<1>1. OneCommand'
  <2>1. \A d \in Train : Once(inbox'[d], UserLetters)
    BY DEF GroupInv, OneCommand
  <2>2. \A d \in Train : Has(inbox'[d], UserLetters) => Has(inbox[d], UserLetters)
    OBVIOUS
  <2>3. ASSUME NEW d \in Train, NEW c \in Client, Has(inbox'[d], LettersOf(c))
        PROVE  client'[c].waits
    <3>1. LettersOf(c) \in SUBSET UserLetters
      BY DEF LettersOf
    <3>2. Has(inbox[d], LettersOf(c))
      BY <2>3, <3>1
    <3> QED BY <3>2 DEF GroupInv, OneCommand
  <2>4. ASSUME NEW c \in Client, NEW d \in Train, NEW head \in Train, NEW tail \in Train,
               client'[c].waits, client'[c].merge = <<head, tail>>
        PROVE  ~Has(inbox'[d], LettersOf(c) \ (IF d = tail THEN FollowOf(head) ELSE {}))
    <3>1. (LettersOf(c) \ (IF d = tail THEN FollowOf(head) ELSE {})) \in SUBSET UserLetters
      BY DEF LettersOf
    <3>2. ~Has(inbox[d], LettersOf(c) \ (IF d = tail THEN FollowOf(head) ELSE {}))
      BY <2>4 DEF GroupInv, OneCommand
    <3> QED BY <3>1, <3>2
  <2>5. \A d, e \in Train : Has(inbox'[d], UserLetters) /\ Has(inbox'[e], UserLetters) => d = e
    BY <2>2 DEF GroupInv, OneCommand
  <2> QED BY <2>1, <2>3, <2>4, <2>5 DEF OneCommand
<1>2. HeadsToldLast'
  <2>1. ASSUME NEW h \in Train, NEW t \in Train, Has(inbox'[h], LeadOf(t))
        PROVE  drv'[t].tailMode /\ drv'[t].headTid = h
    <3>1. Has(inbox[h], LeadOf(t))
      BY <2>1, LeadIsCommand
    <3>2. drv[t].tailMode /\ drv[t].headTid = h
      BY <3>1 DEF GroupInv, HeadsToldLast
    <3> QED BY <3>2 DEF Place
  <2>2. ASSUME NEW c \in Client, NEW h \in Train, NEW t \in Train,
               client'[c].merge = <<h, t>>, ~client'[c].waits
        PROVE  drv'[t].tailMode /\ drv'[t].headTid = h
    <3>1. drv[t].tailMode /\ drv[t].headTid = h
      BY <2>2 DEF GroupInv, HeadsToldLast
    <3> QED BY <3>1 DEF Place
  <2> QED BY <2>1, <2>2 DEF HeadsToldLast
<1> QED BY <1>1, <1>2

\* Letters of a driver's own train and workers: no request of another, no command.
LEMMA PostQuiet ==
  ASSUME GroupInv, NEW d \in Train, NEW q \in Seq(Letter(d)),
         ~Has(q, UserLetters), Once(q, UserLetters),
         \A f \in Train \ {d} : ~Has(q, Requests(f)) /\ Once(q, Requests(f)),
         inbox' = [inbox EXCEPT ![d] = @ \o q]
  PROVE  /\ DOMAIN inbox' = Train /\ \A x \in Train : inbox'[x] \in Seq(Letter(x))
         /\ \A x, f \in Train : x # f => SameMail(inbox[x], inbox'[x], f)
         /\ \A x \in Train : \A E \in SUBSET UserLetters :
                /\ Has(inbox'[x], E) => Has(inbox[x], E)
                /\ Once(inbox[x], E) => Once(inbox'[x], E)
<1>1. DOMAIN inbox = Train /\ \A x \in Train : inbox[x] \in Seq(Letter(x))
  BY DEF GroupInv, Types
<1>2. /\ DOMAIN inbox' = Train /\ inbox'[d] = inbox[d] \o q
      /\ \A x \in Train : x # d => inbox'[x] = inbox[x]
  BY <1>1
<1>3. inbox[d] \o q \in Seq(Letter(d))
  BY <1>1, ConcatProperties
<1>4. ASSUME NEW x \in Train, NEW f \in Train, x # f PROVE SameMail(inbox[x], inbox'[x], f)
  <2>1. CASE x = d
    BY <1>1, <1>2, <1>4, <2>1, MailGrows
  <2>2. CASE x # d
    BY <1>2, <2>2, MailSame
  <2> QED BY <2>1, <2>2
<1>5. ASSUME NEW x \in Train, NEW E \in SUBSET UserLetters
      PROVE  /\ Has(inbox'[x], E) => Has(inbox[x], E)
             /\ Once(inbox[x], E) => Once(inbox'[x], E)
  <2>1. CASE x = d
    <3>1. ~Has(q, E) /\ Once(q, E)
      BY DEF Has, Once
    <3> QED BY <1>1, <1>2, <2>1, <3>1, HasConcat
  <2>2. CASE x # d
    BY <1>2, <2>2
  <2> QED BY <2>1, <2>2
<1> QED BY <1>1, <1>2, <1>3, <1>4, <1>5

\* The letters of a dumb train are such letters.
LEMMA ReportsQuiet ==
  ASSUME NEW d \in Train, NEW r \in Seq(ReportKind)
  PROVE  /\ Letters(d, r) \in Seq(Letter(d))
         /\ ~Has(Letters(d, r), UserLetters) /\ Once(Letters(d, r), UserLetters)
         /\ \A f \in Train : ~Has(Letters(d, r), Requests(f)) /\ Once(Letters(d, r), Requests(f))
<1>1. Letters(d, r) \in Seq(Reports(d))
  BY LettersTyped
<1>2. Letters(d, r) \in Seq(Letter(d))
  BY <1>1, KindsDiffer, SeqMonotonic
<1> QED BY <1>1, <1>2, KindsDiffer, NoneIn

\* The step of a driver that ends a Send to its own train, or of none.
LEMMA QuietStep ==
  ASSUME GroupInv, NEW d \in Train, NEW q \in Seq(Letter(d)),
         ~Has(q, UserLetters), Once(q, UserLetters),
         \A f \in Train \ {d} : ~Has(q, Requests(f)) /\ Once(q, Requests(f)),
         inbox' = [inbox EXCEPT ![d] = @ \o q],
         drv' = drv, client' = client, holds' = holds
  PROVE  GroupInv'
<1>1. /\ DOMAIN inbox' = Train /\ \A x \in Train : inbox'[x] \in Seq(Letter(x))
      /\ \A x, f \in Train : x # f => SameMail(inbox[x], inbox'[x], f)
      /\ \A x \in Train : \A E \in SUBSET UserLetters :
             /\ Has(inbox'[x], E) => Has(inbox[x], E)
             /\ Once(inbox[x], E) => Once(inbox'[x], E)
  BY PostQuiet
<1>2. \A x \in Train : Place(drv[x], drv'[x])
  BY DEF Place
<1>3. MembersAreTails' /\ NoLeaderCircle' /\ \A x \in Train : Members(x)' = Members(x)
  BY <1>2, GroupsStay
<1>4. OneCommand' /\ HeadsToldLast'
  BY <1>1, <1>2, CommandsStay
<1>5. Types'
  BY <1>1, <1>3 DEF GroupInv, Types
<1>6. AllOwed'
  <2> SUFFICES ASSUME NEW t \in Train, NEW f \in Train, t # f PROVE Owed(t, f)'
    BY DEF AllOwed
  <2>1. WaitsFor(f, t)' <=> WaitsFor(f, t)
    BY DEF WaitsFor
  <2> QED BY <1>1, <2>1, MailSame, OwedStays
<1>7. OnlyHeadsReserve' /\ WaitsForTail' /\ NoAnswerToItself'
  BY DEF GroupInv, OnlyHeadsReserve, WaitsForTail, NoAnswerToItself
<1> QED BY <1>3, <1>4, <1>5, <1>6, <1>7 DEF GroupInv

\* The stop delayer brings a report.
LEMMA StopDelayerStep ==
  ASSUME GroupInv, NEW d \in Train, StopDelayer(d)
  PROVE  GroupInv'
<1>1. PICK n : LET r == StopDelayed([dumb[d] EXCEPT !.timers = n, !.delaying = FALSE])
               IN  inbox' = [inbox EXCEPT ![d] = @ \o Letters(d, r.sent)]
  BY DEF StopDelayer
<1>2. PICK r \in Seq(ReportKind) : inbox' = [inbox EXCEPT ![d] = @ \o Letters(d, r)]
  BY <1>1, DelayerReports
<1>3. drv' = drv /\ client' = client /\ holds' = holds
  BY DEF StopDelayer
<1> DEFINE q == Letters(d, r)
<1>4. /\ q \in Seq(Letter(d)) /\ ~Has(q, UserLetters) /\ Once(q, UserLetters)
      /\ \A f \in Train \ {d} : ~Has(q, Requests(f)) /\ Once(q, Requests(f))
  BY ReportsQuiet
<1>5. inbox' = [inbox EXCEPT ![d] = @ \o q]
  BY <1>2
<1> HIDE DEF q
<1> QED BY <1>3, <1>4, <1>5, QuietStep

\* A sensor or the nagger sends its message.
LEMMA WorksStep ==
  ASSUME GroupInv, NEW d \in Train, NEW kind \in WorkKind, Works(d, Message(kind, 0, d))
  PROVE  GroupInv'
<1> DEFINE m == Message(kind, 0, d)
<1>1. /\ m \in Letter(d) /\ m \notin UserLetters /\ \A f \in Train \ {d} : m \notin Requests(f)
  <2>1. d \notin Client
    BY TrainAssumption
  <2> QED BY <2>1 DEF Message, Letter, WorkKind, UserLetters, Requests
<1>2. inbox' = [inbox EXCEPT ![d] = @ \o <<m>>]
  <2>1. inbox' = [inbox EXCEPT ![d] = Append(@, m)]
    BY DEF Works
  <2>2. inbox[d] \in Seq(Letter(d))
    BY DEF GroupInv, Types
  <2>3. Append(inbox[d], m) = inbox[d] \o <<m>>
    BY <1>1, <2>2, AppendIsConcat
  <2> QED BY <2>1, <2>3
<1>3. drv' = drv /\ client' = client /\ holds' = holds
  BY DEF Works
<1> DEFINE q == <<m>>
<1>4. /\ q \in Seq(Letter(d)) /\ ~Has(q, UserLetters) /\ Once(q, UserLetters)
      /\ \A f \in Train \ {d} : ~Has(q, Requests(f)) /\ Once(q, Requests(f))
  <2> HIDE DEF m
  <2> QED BY <1>1, HasOne
<1>5. inbox' = [inbox EXCEPT ![d] = @ \o q]
  BY <1>2
<1> HIDE DEF q, m
<1> QED BY <1>3, <1>4, <1>5, QuietStep

\* A driver about to send: what it sends.
LEMMA AboutToSend ==
  ASSUME GroupInv, NEW d \in Train, Running(d)
  PROVE  /\ drv[d] \in Driver /\ ~drv[d].blocked /\ drv[d].todo # <<>>
         /\ drv[d].todo \in Seq(Sends(Members(d)))
         /\ Head(drv[d].todo) \in Sends(Members(d))
         /\ Head(drv[d].todo).to \in Train /\ Members(d) \subseteq Train
<1>1. /\ drv[d] \in Driver /\ ~drv[d].blocked /\ drv[d].todo # <<>>
      /\ drv[d].todo \in Seq(Sends(Members(d)))
  BY DEF GroupInv, Types, Running
<1>2. Head(drv[d].todo) \in Sends(Members(d))
  BY <1>1, HeadTailProperties
<1>3. Members(d) \subseteq Train
  BY <1>1, MembersTyped DEF Members, Driver
<1> QED BY <1>1, <1>2, <1>3 DEF Sends, Asks

\* A driver with fewer Sends to do.
LEMMA TodoTyped ==
  ASSUME NEW s \in Driver, NEW q \in Seq(Sends(Range(s.trainId)))
  PROVE  [s EXCEPT !.todo = q] \in Driver
<1>1. Sends(Range(s.trainId)) \subseteq [to : Train, kind : SendKind \cup {"answer"}, v : Int]
  <2>1. Range(s.trainId) \subseteq Train
    BY MembersTyped DEF Driver
  <2> QED BY <2>1 DEF Sends, Asks, Speed
<1>2. q \in Seq([to : Train, kind : SendKind \cup {"answer"}, v : Int])
  BY <1>1, SeqMonotonic
<1> QED BY <1>2 DEF Driver

\* A Send to the own dumb train, which answers at once.
LEMMA SendOwnStep ==
  ASSUME GroupInv, NEW d \in Train, SendOwn(d)
  PROVE  GroupInv'
<1> DEFINE m == Head(drv[d].todo)
<1>1. /\ drv[d] \in Driver /\ ~drv[d].blocked /\ drv[d].todo # <<>>
      /\ drv[d].todo \in Seq(Sends(Members(d))) /\ m \in Sends(Members(d)) /\ m.to = d
  BY AboutToSend DEF SendOwn
<1>2. PICK r \in Dumb(dumb[d], m) :
          /\ inbox' = [inbox EXCEPT ![d] = @ \o Letters(d, r.sent)]
          /\ drv' = [drv EXCEPT ![d].todo = IF m.kind = "trigger" /\ r.new # dumb[d]
                                            THEN Taken(Tail(@)) ELSE Tail(@)]
  BY DEF SendOwn
<1>3. client' = client /\ holds' = holds
  BY DEF SendOwn
<1>4. r.sent \in Seq(ReportKind)
  <2>1. m.kind = "set_speed" => m.v \in Speed
    BY <1>1 DEF Sends, Asks
  <2> HIDE DEF m
  <2> QED BY <2>1, DumbReports
<1> DEFINE q == Letters(d, r.sent)
<1>5. /\ q \in Seq(Letter(d)) /\ ~Has(q, UserLetters) /\ Once(q, UserLetters)
      /\ \A f \in Train \ {d} : ~Has(q, Requests(f)) /\ Once(q, Requests(f))
  BY <1>4, ReportsQuiet
<1>6. inbox' = [inbox EXCEPT ![d] = @ \o q]
  BY <1>2
<1>7. /\ DOMAIN inbox' = Train /\ \A x \in Train : inbox'[x] \in Seq(Letter(x))
      /\ \A x, f \in Train : x # f => SameMail(inbox[x], inbox'[x], f)
      /\ \A x \in Train : \A E \in SUBSET UserLetters :
             /\ Has(inbox'[x], E) => Has(inbox[x], E)
             /\ Once(inbox[x], E) => Once(inbox'[x], E)
  <2> HIDE DEF q
  <2> QED BY <1>5, <1>6, PostQuiet
<1>8. \A f \in Train \ {d} : m \notin AnswersTo(f)
  BY <1>1 DEF AnswersTo
<1>9. m \notin AnswersTo(d)
  <2>1. ~Has(drv[d].todo, AnswersTo(d))
    BY DEF GroupInv, NoAnswerToItself
  <2> QED BY <1>1, <2>1, HasTail
<1> DEFINE left1 == IF m.kind = "trigger" /\ r.new # dumb[d]
                    THEN Taken(Tail(drv[d].todo)) ELSE Tail(drv[d].todo)
<1>10. /\ left1 \in Seq(Sends(Members(d)))
       /\ \A f \in Train : SameAnswers(drv[d].todo, left1, f)
  BY <1>1, <1>8, <1>9, TodoTaken
<1>11. /\ drv' \in [Train -> Driver]
       /\ drv'[d] = [drv[d] EXCEPT !.todo = left1]
       /\ \A x \in Train : x # d => drv'[x] = drv[x]
  <2>0. drv \in [Train -> Driver]
    BY DEF GroupInv, Types
  <2>1. drv' = [drv EXCEPT ![d] = [@ EXCEPT !.todo = left1]]
    BY <1>2
  <2> HIDE DEF left1
  <2>2. [drv[d] EXCEPT !.todo = left1] \in Driver
    BY <1>1, <1>10, TodoTyped DEF Members
  <2> QED BY <2>0, <2>1, <2>2
<1> HIDE DEF left1, q, m
<1>12. /\ drv'[d].todo = left1 /\ drv'[d].blocked = drv[d].blocked /\ Place(drv[d], drv'[d])
  BY <1>1, <1>11 DEF Driver, Place
<1>13. \A x \in Train : Place(drv[x], drv'[x])
  BY <1>11, <1>12 DEF Place
<1>14. MembersAreTails' /\ NoLeaderCircle' /\ \A x \in Train : Members(x)' = Members(x)
  BY <1>13, GroupsStay
<1>15. OneCommand' /\ HeadsToldLast'
  BY <1>3, <1>7, <1>13, CommandsStay
<1>16. Types'
  <2>1. \A x \in Train : drv'[x].trainId # <<>> /\ drv'[x].todo \in Seq(Sends(Members(x)'))
    <3> SUFFICES ASSUME NEW x \in Train
                 PROVE  drv'[x].trainId # <<>> /\ drv'[x].todo \in Seq(Sends(Members(x)'))
      OBVIOUS
    <3>1. Members(x)' = Members(x) /\ drv'[x].trainId = drv[x].trainId
      BY <1>13, <1>14 DEF Place
    <3>2. drv[x].trainId # <<>> /\ drv[x].todo \in Seq(Sends(Members(x)))
      BY DEF GroupInv, Types
    <3>3. CASE x = d
      BY <1>10, <1>12, <3>1, <3>2, <3>3
    <3>4. CASE x # d
      BY <1>11, <3>1, <3>2, <3>4
    <3> QED BY <3>3, <3>4
  <2> QED BY <1>3, <1>7, <1>11, <2>1 DEF GroupInv, Types
<1>17. AllOwed'
  <2> SUFFICES ASSUME NEW t \in Train, NEW f \in Train, t # f PROVE Owed(t, f)'
    BY DEF AllOwed
  <2>1. SameAnswers(drv[t].todo, drv'[t].todo, f)
    BY <1>10, <1>11, <1>12, MailSame
  <2>2. /\ WaitsFor(f, t)' <=> WaitsFor(f, t)
        /\ WaitsFor(f, t) => Head(drv'[f].todo).kind = Head(drv[f].todo).kind
    BY <1>1, <1>11, <1>12 DEF WaitsFor
  <2> QED BY <1>7, <2>1, <2>2, OwedStays
<1>18. NoAnswerToItself'
  <2> SUFFICES ASSUME NEW t \in Train PROVE ~Has(drv'[t].todo, AnswersTo(t))
    BY DEF NoAnswerToItself
  <2>1. ~Has(drv[t].todo, AnswersTo(t))
    BY DEF GroupInv, NoAnswerToItself
  <2> QED BY <1>10, <1>11, <1>12, <2>1 DEF SameAnswers
<1>19. OnlyHeadsReserve'
  BY <1>3, <1>13 DEF GroupInv, OnlyHeadsReserve, Place
<1>20. WaitsForTail'
  <2> SUFFICES ASSUME NEW x \in Train, drv'[x].blocked
               PROVE  drv'[x].todo # <<>> /\ Head(drv'[x].todo).to # x
                      /\ Head(drv'[x].todo).kind # "answer"
    BY DEF WaitsForTail
  <2>1. x # d
    BY <1>1, <1>12
  <2> QED BY <1>11, <2>1 DEF GroupInv, WaitsForTail
<1> QED BY <1>14, <1>15, <1>16, <1>17, <1>18, <1>19, <1>20 DEF GroupInv

\* A driver sends to the driver of a tail, and is blocked.
LEMMA SendTailStep ==
  ASSUME GroupInv, NEW d \in Train, SendTail(d)
  PROVE  GroupInv'
<1> DEFINE m == Head(drv[d].todo)
<1> DEFINE p == Message(m.kind, m.v, d)
<1>1. /\ drv[d] \in Driver /\ ~drv[d].blocked /\ drv[d].todo # <<>>
      /\ drv[d].todo \in Seq(Sends(Members(d))) /\ m \in Sends(Members(d)) /\ m.to \in Train
  BY AboutToSend DEF SendTail
<1>2. m.to # d /\ m.kind \in SendKind /\ m.v \in Speed
  <2>1. m.kind # "answer" /\ Settled /\ Running(d)
    BY DEF SendTail
  <2> QED BY <1>1, <2>1 DEF Settled, Sends, Asks
<1>3. /\ inbox' = [inbox EXCEPT ![m.to] = Append(@, p)]
      /\ drv' = [drv EXCEPT ![d].blocked = TRUE]
      /\ client' = client /\ holds' = holds
  BY DEF SendTail
<1>4. /\ p \in Letter(m.to) /\ p \notin UserLetters
      /\ p \in Requests(d) /\ p \in RequestOf(d, m.kind)
      /\ \A f \in Train \ {d} : p \notin Requests(f)
  <2>1. d \notin Client
    BY TrainAssumption
  <2> HIDE DEF m
  <2> QED BY <1>1, <1>2, <2>1 DEF Message, Letter, UserLetters, Requests, RequestOf
<1> DEFINE t0 == m.to
<1> DEFINE q == <<p>>
<1>5. /\ DOMAIN inbox' = Train /\ inbox'[t0] = inbox[t0] \o q
      /\ \A x \in Train : x # t0 => inbox'[x] = inbox[x]
      /\ inbox[t0] \in Seq(Letter(t0)) /\ q \in Seq(Letter(t0))
  <2>1. DOMAIN inbox = Train /\ inbox[t0] \in Seq(Letter(t0))
    BY <1>1 DEF GroupInv, Types
  <2> HIDE DEF p, m
  <2>2. Append(inbox[t0], p) = inbox[t0] \o q
    BY <1>4, <2>1, AppendIsConcat
  <2> QED BY <1>1, <1>3, <1>4, <2>1, <2>2
<1> DEFINE k == m.kind
<1>6. /\ t0 \in Train /\ t0 # d /\ k \in SendKind /\ p \notin UserLetters
      /\ p \in Requests(d) /\ p \in RequestOf(d, k) /\ \A f \in Train \ {d} : p \notin Requests(f)
      /\ Head(drv[d].todo).to = t0 /\ Head(drv[d].todo).kind = k /\ k # "answer"
  BY <1>1, <1>2, <1>4 DEF SendKind
<1>7. /\ drv' \in [Train -> Driver] /\ drv'[d] = [drv[d] EXCEPT !.blocked = TRUE]
      /\ \A x \in Train : x # d => drv'[x] = drv[x]
  <2>0. drv \in [Train -> Driver]
    BY DEF GroupInv, Types
  <2>1. [drv[d] EXCEPT !.blocked = TRUE] \in Driver
    BY <1>1 DEF Driver
  <2> QED BY <1>3, <2>0, <2>1
<1>8. drv'[d].todo = drv[d].todo /\ drv'[d].blocked /\ Place(drv[d], drv'[d])
  BY <1>1, <1>7 DEF Driver, Place
<1>6a. \A E : Has(q, E) <=> p \in E
  BY HasOne
<1>6b. \A E : Once(q, E)
  BY HasOne
<1> HIDE DEF p, m, t0, k, q
<1>6c. ASSUME NEW E
       PROVE  /\ Has(inbox'[t0], E) <=> Has(inbox[t0], E) \/ Has(q, E)
              /\ Once(inbox[t0], E) /\ ~(Has(inbox[t0], E) /\ Has(q, E)) => Once(inbox'[t0], E)
  <2>1. inbox[t0] \in Seq(Letter(t0)) /\ q \in Seq(Letter(t0)) /\ Once(q, E)
    BY <1>5, <1>6b
  <2> DEFINE i0 == inbox[t0]
  <2>2. inbox'[t0] = i0 \o q
    BY <1>5
  <2>3. i0 \in Seq(Letter(t0))
    BY <2>1
  <2> HIDE DEF i0
  <2>4. /\ Has(i0 \o q, E) <=> Has(i0, E) \/ Has(q, E)
        /\ Once(i0, E) /\ ~(Has(i0, E) /\ Has(q, E)) => Once(i0 \o q, E)
    BY <2>1, <2>3, HasConcat
  <2> QED BY <2>2, <2>4 DEF i0
<1>9. \A x \in Train : drv'[x].todo = drv[x].todo /\ Place(drv[x], drv'[x])
  BY <1>7, <1>8 DEF Place
<1>10. MembersAreTails' /\ NoLeaderCircle' /\ \A x \in Train : Members(x)' = Members(x)
  BY <1>9, GroupsStay
<1>11. \A x \in Train : \A E \in SUBSET UserLetters :
           /\ Has(inbox'[x], E) => Has(inbox[x], E)
           /\ Once(inbox[x], E) => Once(inbox'[x], E)
  <2> SUFFICES ASSUME NEW x \in Train, NEW E \in SUBSET UserLetters
               PROVE  /\ Has(inbox'[x], E) => Has(inbox[x], E)
                      /\ Once(inbox[x], E) => Once(inbox'[x], E)
    OBVIOUS
  <2>1. CASE x = t0
    <3>1. ~Has(q, E) /\ Once(q, E)
      BY <1>6, <1>6a, <1>6b
    <3> QED BY <1>6c, <2>1, <3>1
  <2>2. CASE x # t0
    BY <1>5, <2>2
  <2> QED BY <2>1, <2>2
<1>12. OneCommand' /\ HeadsToldLast'
  BY <1>3, <1>9, <1>11, CommandsStay
<1>13. Types'
  <2>1. \A x \in Train : inbox'[x] \in Seq(Letter(x))
    <3>1. inbox[t0] \o q \in Seq(Letter(t0))
      BY <1>5, ConcatProperties
    <3>2. \A x \in Train : inbox[x] \in Seq(Letter(x))
      BY DEF GroupInv, Types
    <3> QED BY <1>5, <3>1, <3>2
  <2>2. \A x \in Train : drv'[x].trainId # <<>> /\ drv'[x].todo \in Seq(Sends(Members(x)'))
    BY <1>9, <1>10 DEF GroupInv, Types, Place
  <2> QED BY <1>3, <1>5, <1>7, <2>1, <2>2 DEF GroupInv, Types
<1>14. AllOwed'
  <2> SUFFICES ASSUME NEW t \in Train, NEW f \in Train, t # f PROVE Owed(t, f)'
    BY DEF AllOwed
  <2>0. SameAnswers(drv[t].todo, drv'[t].todo, f)
    BY <1>9, MailSame
  <2>1. CASE f # d
    <3>1. SameMail(inbox[t], inbox'[t], f)
      <4>1. CASE t = t0
        <5>1. ~Has(q, Requests(f)) /\ Once(q, Requests(f))
          BY <1>6, <1>6a, <1>6b, <2>1
        <5> QED BY <1>5, <4>1, <5>1, MailGrows
      <4>2. CASE t # t0
        BY <1>5, <4>2, MailSame
      <4> QED BY <4>1, <4>2
    <3>2. drv'[f] = drv[f]
      BY <1>7, <2>1
    <3>3. WaitsFor(f, t)' <=> WaitsFor(f, t)
      BY <3>2 DEF WaitsFor
    <3> QED BY <2>0, <3>1, <3>2, <3>3, OwedStays
  <2>2. CASE f = d
    <3>1. Owed(t, d) /\ ~WaitsFor(d, t)
      BY <1>1, <2>2 DEF GroupInv, AllOwed, WaitsFor
    <3>2. ~Has(inbox[t], Requests(d))
      BY <3>1 DEF Owed
    <3>4. CASE t = t0
      <4>1. WaitsFor(d, t)' /\ Head(drv'[d].todo).kind = k
        BY <1>6, <1>8, <3>4 DEF WaitsFor
      <4>2. Once(inbox[t], Requests(d))
        BY <3>1 DEF Owed
      <4>3. Has(inbox'[t], Requests(d)) /\ Once(inbox'[t], Requests(d))
        <5>1. Has(q, Requests(d)) /\ Once(q, Requests(d))
          BY <1>6, <1>6a, <1>6b
        <5> QED BY <1>6c, <3>2, <3>4, <4>2, <5>1
      <4>4. Has(inbox'[t], RequestOf(d, k))
        <5>1. Has(q, RequestOf(d, k))
          BY <1>6, <1>6a, <1>6b
        <5> QED BY <1>6c, <3>4, <5>1
      <4> QED BY <2>2, <4>1, <4>3, <4>4 DEF Owed
    <3>5. CASE t # t0
      <4>1. ~WaitsFor(d, t)'
        BY <1>6, <1>8, <3>5 DEF WaitsFor
      <4>2. ~Has(inbox'[t], Requests(d)) /\ Once(inbox'[t], Requests(d))
        BY <1>5, <3>1, <3>2, <3>5 DEF Owed
      <4> QED BY <2>2, <4>1, <4>2 DEF Owed
    <3> QED BY <3>4, <3>5
  <2> QED BY <2>1, <2>2
<1>15. NoAnswerToItself'
  BY <1>9 DEF GroupInv, NoAnswerToItself
<1>16. OnlyHeadsReserve'
  BY <1>3, <1>9 DEF GroupInv, OnlyHeadsReserve, Place
<1>17. WaitsForTail'
  <2> SUFFICES ASSUME NEW x \in Train, drv'[x].blocked
               PROVE  drv'[x].todo # <<>> /\ Head(drv'[x].todo).to # x
                      /\ Head(drv'[x].todo).kind # "answer"
    BY DEF WaitsForTail
  <2>1. CASE x = d
    BY <1>1, <1>6, <1>8, <2>1
  <2>2. CASE x # d
    BY <1>7, <2>2 DEF GroupInv, WaitsForTail
  <2> QED BY <2>1, <2>2
<1> QED BY <1>10, <1>12, <1>13, <1>14, <1>15, <1>16, <1>17 DEF GroupInv

\* A driver that was blocked goes on.
LEMMA ResumedTyped ==
  ASSUME NEW s \in Driver, NEW handled \in BOOLEAN, NEW n \in Int,
         s.todo \in Seq(Sends(Range(s.trainId))), s.todo # <<>>, Head(s.todo).kind # "answer"
  PROVE  LET r == Resumed(s, handled, n) IN
         /\ r \in Driver /\ Place(s, r) /\ ~r.blocked
         /\ r.todo \in Seq(Sends(Range(s.trainId)))
         /\ \A f : SameAnswers(s.todo, r.todo, f)
<1> DEFINE q == IF handled THEN Taken(Tail(s.todo)) ELSE Tail(s.todo)
<1> DEFINE c == Counted(s.stoppedCount + n)
<1> DEFINE r == Resumed(s, handled, n)
<1>1. q \in Seq(Sends(Range(s.trainId))) /\ \A f : SameAnswers(s.todo, q, f)
  <2>1. \A f : Head(s.todo) \notin AnswersTo(f)
    BY DEF AnswersTo
  <2> QED BY <2>1, TodoTaken
<1>2. c \in Int
  <2>1. s.stoppedCount + n \in Int
    BY DEF Driver
  <2> QED BY <2>1, CountedTyped
<1>3. r = [s EXCEPT !.blocked = FALSE, !.stoppedCount = c, !.todo = q]
  BY DEF Resumed
<1> HIDE DEF q, c
<1>4. q \in Seq([to : Train, kind : SendKind \cup {"answer"}, v : Int])
  <2>1. [s EXCEPT !.todo = q] \in Driver
    BY <1>1, TodoTyped
  <2>2. [s EXCEPT !.todo = q].todo = q
    BY DEF Driver
  <2> QED BY <2>1, <2>2 DEF Driver
<1>5. r \in Driver
  BY <1>2, <1>3, <1>4 DEF Driver
<1>6. Place(s, r) /\ ~r.blocked /\ r.todo = q
  BY <1>3 DEF Driver, Place
<1> QED BY <1>1, <1>5, <1>6

\* A driver that waits for d: what is known of it.
LEMMA WaiterTyped ==
  ASSUME GroupInv, NEW f \in Train, NEW d \in Train, WaitsFor(f, d)
  PROVE  /\ f # d /\ drv[f] \in Driver /\ drv[f].blocked
         /\ drv[f].todo \in Seq(Sends(Range(drv[f].trainId))) /\ drv[f].todo # <<>>
         /\ Head(drv[f].todo).kind # "answer" /\ Head(drv[f].todo).to = d
  BY DEF GroupInv, Types, WaitsForTail, WaitsFor, Members

\* A step in which drivers that wait with a request on its way stay as they are,
\* the others may go on, and those who are left waiting are still owed an answer.
LEMMA GoOnStep ==
  ASSUME GroupInv, inbox' = inbox, client' = client, holds' = holds,
         drv' \in [Train -> Driver], \A x \in Train : Place(drv[x], drv'[x]),
         \A x \in Train : drv'[x].todo \in Seq(Sends(Members(x))),
         \A x \in Train : drv'[x].blocked => drv'[x] = drv[x],
         \A t, f \in Train : t # f /\ Has(inbox[t], Requests(f)) => drv'[f] = drv[f],
         \A t, f \in Train : t # f /\ WaitsFor(f, t)' =>
             Has(inbox[t], Requests(f)) \/ Has(drv'[t].todo, AnswersTo(f)),
         \A t \in Train : ~Has(drv'[t].todo, AnswersTo(t))
  PROVE  GroupInv'
<1>1. MembersAreTails' /\ NoLeaderCircle' /\ \A x \in Train : Members(x)' = Members(x)
  BY GroupsStay
<1>2. OneCommand' /\ HeadsToldLast'
  BY CommandsStay
<1>3. Types'
  <2>1. \A x \in Train : drv'[x].trainId # <<>> /\ drv'[x].todo \in Seq(Sends(Members(x)'))
    BY <1>1 DEF GroupInv, Types, Place
  <2> QED BY <2>1 DEF GroupInv, Types
<1>4. AllOwed'
  <2> SUFFICES ASSUME NEW t \in Train, NEW f \in Train, t # f PROVE Owed(t, f)'
    BY DEF AllOwed
  <2>1. Owed(t, f)
    BY DEF GroupInv, AllOwed
  <2>2. ASSUME Has(inbox[t], Requests(f))
        PROVE  (WaitsFor(f, t) /\ Has(inbox[t], RequestOf(f, Head(drv[f].todo).kind)))'
    <3>1. drv'[f] = drv[f]
      BY <2>2
    <3>2. WaitsFor(f, t) /\ Has(inbox[t], RequestOf(f, Head(drv[f].todo).kind))
      BY <2>1, <2>2 DEF Owed
    <3> QED BY <3>1, <3>2 DEF WaitsFor
  <2> QED BY <2>1, <2>2 DEF Owed
<1>5. OnlyHeadsReserve' /\ NoAnswerToItself' /\ WaitsForTail'
  BY DEF GroupInv, OnlyHeadsReserve, NoAnswerToItself, WaitsForTail, Place
<1> QED BY <1>1, <1>2, <1>3, <1>4, <1>5 DEF GroupInv

\* A driver whose message was received has no request in any inbox.
LEMMA NoneUnderWay ==
  ASSUME GroupInv, NEW h \in Train, Awaits(h)
  PROVE  \A t \in Train : t # h => ~Has(inbox[t], Requests(h))
<1> SUFFICES ASSUME NEW t \in Train, t # h, Has(inbox[t], Requests(h)) PROVE FALSE
  OBVIOUS
<1>1. WaitsFor(h, t)
  BY DEF GroupInv, AllOwed, Owed
<1>2. PICK i \in DOMAIN inbox[t] : inbox[t][i] \in Requests(h)
  BY DEF Has
<1>3. inbox[t][i].from = h /\ ~Carries(inbox[t][i])
  BY <1>2 DEF Requests, Carries, SendKind
<1> QED BY <1>1, <1>3 DEF Awaits, WaitsFor

\* A driver that waits for another, who has not received its message yet, has its
\* request there.
LEMMA StillUnderWay ==
  ASSUME GroupInv, NEW h \in Train, NEW t \in Train, t # h, WaitsFor(h, t), ~Awaits(h)
  PROVE  Has(inbox[t], Requests(h))
<1>1. PICK i \in DOMAIN inbox[t] : inbox[t][i].from = h /\ ~Carries(inbox[t][i])
  BY DEF Awaits, WaitsFor
<1>2. inbox[t][i] \in Letter(t)
  <2>1. inbox[t] \in Seq(Letter(t))
    BY DEF GroupInv, Types
  <2> QED BY <2>1, ElementOfSeq, LenProperties
<1>3. h \notin Client
  BY TrainAssumption
<1>4. inbox[t][i] \in [kind : SendKind, v : Speed, from : Train \ {t}]
  BY <1>1, <1>2, <1>3 DEF Letter, Carries, ReportKind, UserLetters
<1>5. inbox[t][i] \in Requests(h)
  BY <1>1, <1>4 DEF Requests
<1> QED BY <1>5 DEF Has

\* The driver of an accepted Reply, which resumes it.
LEMMA AwaitsResumed ==
  ASSUME GroupInv, NEW h \in Train, Awaits(h), NEW handled \in BOOLEAN, NEW n \in Int
  PROVE  LET r == Resumed(drv[h], handled, n) IN
         /\ r \in Driver /\ Place(drv[h], r) /\ ~r.blocked
         /\ r.todo \in Seq(Sends(Members(h)))
         /\ \A f : SameAnswers(drv[h].todo, r.todo, f)
<1>1. /\ drv[h] \in Driver /\ drv[h].todo \in Seq(Sends(Range(drv[h].trainId)))
      /\ drv[h].todo # <<>> /\ Head(drv[h].todo).kind # "answer"
  BY DEF GroupInv, Types, WaitsForTail, Awaits, Members
<1> QED BY <1>1, ResumedTyped DEF Members

\* What another's answer is taken for is a number.
LEMMA MistakenTyped ==
  ASSUME NEW h
  PROVE  Mistaken(h) \subseteq Int
<1>1. Cardinality(Train) \in Nat
  BY TrainAssumption, FS_CardinalityType
<1>2. 0 .. Cardinality(Train) + 1 \subseteq Int /\ {0} \subseteq Int
  BY <1>1
<1> QED BY <1>2 DEF Mistaken

\* The answer to the head, at the end of a tail's handler.
LEMMA AnswerStep ==
  ASSUME GroupInv, NEW d \in Train, Answer(d)
  PROVE  GroupInv'
<1> DEFINE m == Head(drv[d].todo)
<1>0. PICK g \in Train : g = m.to
  BY AboutToSend DEF Answer
<1>1. /\ drv[d] \in Driver /\ ~drv[d].blocked /\ drv[d].todo # <<>>
      /\ drv[d].todo \in Seq(Sends(Members(d))) /\ m \in Sends(Members(d)) /\ m.to = g
  BY <1>0, AboutToSend DEF Answer
<1>2. m.kind = "answer" /\ g # d /\ m.v \in Int
  <2>1. Settled /\ Running(d) /\ m.kind = "answer"
    BY DEF Answer
  <2> QED BY <1>1, <2>1 DEF Settled, Sends, Asks, SendKind
<1> DEFINE q == Tail(drv[d].todo)
<1>3. \A f : f # g => m \notin AnswersTo(f)
  BY <1>1, <1>2 DEF AnswersTo, Sends, Asks
<1>4. /\ q \in Seq(Sends(Members(d)))
      /\ \A f : f # g => SameAnswers(drv[d].todo, q, f)
  BY <1>1, <1>3, TodoTaken
<1> DEFINE sent == [drv EXCEPT ![d].todo = q]
<1>5. /\ sent \in [Train -> Driver] /\ sent[d] = [drv[d] EXCEPT !.todo = q]
      /\ \A x \in Train : x # d => sent[x] = drv[x]
  <2>1. drv \in [Train -> Driver]
    BY DEF GroupInv, Types
  <2>2. [drv[d] EXCEPT !.todo = q] \in Driver
    <3> HIDE DEF q
    <3> QED BY <1>1, <1>4, TodoTyped DEF Members
  <2> HIDE DEF q
  <2> QED BY <2>1, <2>2
<1>6. inbox' = inbox /\ client' = client /\ holds' = holds
  BY DEF Answer
<1>7. \/ /\ Awaits(g)
         /\ \E handled \in BOOLEAN, n \in Int : drv' = [sent EXCEPT ![g] = Resumed(@, handled, n)]
      \/ ~Awaits(g) /\ drv' = sent
  <2> DEFINE ns == IF Head(drv[g].todo).to = d THEN {m.v} ELSE Mistaken(g)
  <2>1. ns \subseteq Int
    <3> HIDE DEF m
    <3> QED BY <1>2, MistakenTyped
  <2>2. \/ /\ Awaits(g)
           /\ \E handled \in BOOLEAN, n \in ns : drv' = [sent EXCEPT ![g] = Resumed(@, handled, n)]
        \/ ~Awaits(g) /\ drv' = sent
    BY <1>1 DEF Answer
  <2> HIDE DEF ns, sent
  <2> QED BY <2>1, <2>2
<1>8. sent[d].todo = q /\ ~sent[d].blocked /\ Place(drv[d], sent[d])
  <2> HIDE DEF q, sent
  <2> QED BY <1>1, <1>5 DEF Driver, Place
<1> HIDE DEF q, sent, m
<1>9. \A x \in Train : drv[x].todo \in Seq(Sends(Members(x))) /\ ~Has(drv[x].todo, AnswersTo(x))
  BY DEF GroupInv, Types, NoAnswerToItself
<1>10. \A t, f \in Train : t # f => Owed(t, f)
  BY DEF GroupInv, AllOwed
<1>11. CASE ~Awaits(g) /\ drv' = sent
  <2>1. \A x \in Train : /\ Place(drv[x], drv'[x]) /\ drv'[x].todo \in Seq(Sends(Members(x)))
                         /\ (drv'[x].blocked => drv'[x] = drv[x])
    BY <1>4, <1>5, <1>8, <1>9, <1>11 DEF Place
  <2>2. ASSUME NEW t \in Train, NEW f \in Train, t # f, Has(inbox[t], Requests(f))
        PROVE  drv'[f] = drv[f]
    <3>1. WaitsFor(f, t)
      BY <1>10, <2>2 DEF Owed
    <3>2. f # d
      BY <1>1, <3>1 DEF WaitsFor
    <3> QED BY <1>5, <1>11, <3>2
  <2>3. ASSUME NEW t \in Train, NEW f \in Train, t # f, WaitsFor(f, t)'
        PROVE  Has(inbox[t], Requests(f)) \/ Has(drv'[t].todo, AnswersTo(f))
    <3>1. f # d
      BY <1>8, <1>11, <2>3 DEF WaitsFor
    <3>2. WaitsFor(f, t)
      BY <1>5, <1>11, <2>3, <3>1 DEF WaitsFor
    <3>3. CASE t # d
      BY <1>5, <1>10, <1>11, <2>3, <3>2, <3>3 DEF Owed
    <3>4. CASE t = d /\ f # g
      BY <1>4, <1>8, <1>10, <1>11, <2>3, <3>2, <3>4 DEF Owed, SameAnswers
    <3>5. CASE f = g
      BY <1>11, <2>3, <3>2, <3>5, StillUnderWay
    <3> QED BY <3>3, <3>4, <3>5
  <2>4. \A t \in Train : ~Has(drv'[t].todo, AnswersTo(t))
    BY <1>2, <1>4, <1>5, <1>8, <1>9, <1>11 DEF SameAnswers
  <2>5. drv' \in [Train -> Driver]
    BY <1>5, <1>11
  <2> QED BY <1>6, <2>1, <2>2, <2>3, <2>4, <2>5, GoOnStep
<1>12. ASSUME Awaits(g), NEW handled \in BOOLEAN, NEW n \in Int,
              drv' = [sent EXCEPT ![g] = Resumed(@, handled, n)]
       PROVE  GroupInv'
  <2> DEFINE r == Resumed(drv[g], handled, n)
  <2>1. /\ r \in Driver /\ Place(drv[g], r) /\ ~r.blocked
        /\ r.todo \in Seq(Sends(Members(g))) /\ \A f : SameAnswers(drv[g].todo, r.todo, f)
    BY <1>12, AwaitsResumed
  <2>2. /\ drv' \in [Train -> Driver] /\ drv'[g] = r /\ drv'[d] = sent[d]
        /\ \A x \in Train : x # d /\ x # g => drv'[x] = drv[x]
    <3>1. sent[g] = drv[g]
      BY <1>2, <1>5
    <3> HIDE DEF r
    <3>2. drv' = [sent EXCEPT ![g] = r]
      BY <1>12, <3>1 DEF r
    <3> QED BY <1>2, <1>5, <2>1, <3>2
  <2> HIDE DEF r
  <2>3. \A x \in Train : /\ Place(drv[x], drv'[x]) /\ drv'[x].todo \in Seq(Sends(Members(x)))
                         /\ (drv'[x].blocked => drv'[x] = drv[x])
    BY <1>4, <1>8, <1>9, <2>1, <2>2 DEF Place
  <2>4. ASSUME NEW t \in Train, NEW f \in Train, t # f, Has(inbox[t], Requests(f))
        PROVE  drv'[f] = drv[f]
    <3>1. WaitsFor(f, t)
      BY <1>10, <2>4 DEF Owed
    <3>2. f # d
      BY <1>1, <3>1 DEF WaitsFor
    <3>3. f # g
      BY <1>12, <2>4, NoneUnderWay
    <3> QED BY <2>2, <3>2, <3>3
  <2>5. ASSUME NEW t \in Train, NEW f \in Train, t # f, WaitsFor(f, t)'
        PROVE  Has(inbox[t], Requests(f)) \/ Has(drv'[t].todo, AnswersTo(f))
    <3>1. f # d /\ f # g
      BY <1>8, <2>1, <2>2, <2>5 DEF WaitsFor
    <3>2. WaitsFor(f, t)
      BY <2>2, <2>5, <3>1 DEF WaitsFor
    <3>3. SameAnswers(drv[t].todo, drv'[t].todo, f)
      BY <1>4, <1>8, <2>1, <2>2, <3>1, MailSame
    <3> QED BY <1>10, <2>5, <3>2, <3>3 DEF Owed, SameAnswers
  <2>6. ASSUME NEW t \in Train PROVE ~Has(drv'[t].todo, AnswersTo(t))
    <3>1. SameAnswers(drv[t].todo, drv'[t].todo, t)
      BY <1>2, <1>4, <1>8, <2>1, <2>2, MailSame
    <3> QED BY <1>9, <3>1 DEF SameAnswers
  <2> QED BY <1>6, <2>2, <2>3, <2>4, <2>5, <2>6, GoOnStep
<1> QED BY <1>7, <1>11, <1>12

\* A server's answer that comes late: a driver in another Send takes it for that.
LEMMA LateAnswerStep ==
  ASSUME GroupInv, NEW d \in Train, LateAnswer(d)
  PROVE  GroupInv'
<1>1. inbox' = inbox /\ client' = client /\ holds' = holds
  BY DEF LateAnswer
<1>2. CASE ~Awaits(d)
  <2>1. drv' = drv
    BY <1>2 DEF LateAnswer
  <2>2. drv' \in [Train -> Driver] /\ \A x \in Train : Place(drv[x], drv'[x])
    BY <2>1 DEF GroupInv, Types, Place
  <2>3. \A t, f \in Train : t # f /\ WaitsFor(f, t)' =>
            Has(inbox[t], Requests(f)) \/ Has(drv'[t].todo, AnswersTo(f))
    BY <2>1 DEF GroupInv, AllOwed, Owed, WaitsFor
  <2>4. \A x \in Train : drv'[x].todo \in Seq(Sends(Members(x))) /\ ~Has(drv'[x].todo, AnswersTo(x))
    BY <2>1 DEF GroupInv, Types, NoAnswerToItself
  <2> QED BY <1>1, <2>1, <2>2, <2>3, <2>4, GoOnStep
<1>3. CASE Awaits(d)
  <2>1. PICK handled \in BOOLEAN, n \in Int : drv' = [drv EXCEPT ![d] = Resumed(@, handled, n)]
    BY <1>3, MistakenTyped DEF LateAnswer
  <2> DEFINE r == Resumed(drv[d], handled, n)
  <2>2. /\ r \in Driver /\ Place(drv[d], r) /\ ~r.blocked
        /\ r.todo \in Seq(Sends(Members(d))) /\ \A f : SameAnswers(drv[d].todo, r.todo, f)
    BY <1>3, AwaitsResumed
  <2>3. drv' = [drv EXCEPT ![d] = r]
    BY <2>1
  <2> HIDE DEF r
  <2>4. /\ drv' \in [Train -> Driver] /\ drv'[d] = r
        /\ \A x \in Train : x # d => drv'[x] = drv[x]
    <3>1. drv \in [Train -> Driver]
      BY DEF GroupInv, Types
    <3> QED BY <2>2, <2>3, <3>1
  <2>5. \A x \in Train : /\ Place(drv[x], drv'[x]) /\ drv'[x].todo \in Seq(Sends(Members(x)))
                         /\ (drv'[x].blocked => drv'[x] = drv[x])
    BY <2>2, <2>4 DEF GroupInv, Types, Place
  <2>6. \A t, f \in Train : t # f /\ Has(inbox[t], Requests(f)) => drv'[f] = drv[f]
    BY <1>3, <2>4, NoneUnderWay
  <2>7. \A t \in Train : \A f : SameAnswers(drv[t].todo, drv'[t].todo, f)
    BY <2>2, <2>4, MailSame
  <2>8. ASSUME NEW t \in Train, NEW f \in Train, t # f, WaitsFor(f, t)'
        PROVE  Has(inbox[t], Requests(f)) \/ Has(drv'[t].todo, AnswersTo(f))
    <3>1. f # d
      BY <2>2, <2>4, <2>8 DEF WaitsFor
    <3>2. WaitsFor(f, t)
      BY <2>4, <2>8, <3>1 DEF WaitsFor
    <3>3. Owed(t, f)
      BY <2>8 DEF GroupInv, AllOwed
    <3> QED BY <2>7, <3>2, <3>3 DEF Owed, SameAnswers
  <2>9. \A t \in Train : ~Has(drv'[t].todo, AnswersTo(t))
    BY <2>7 DEF GroupInv, NoAnswerToItself, SameAnswers
  <2> QED BY <1>1, <2>4, <2>5, <2>6, <2>8, <2>9, GoOnStep
<1> QED BY <1>2, <1>3

\* A client's command, or half of its merge, comes to a driver.
Coming(c, d, kind, v, merge) ==
    /\ Commands(c, d, kind, v)
    /\ Message(kind, v, c) \in UserLetters
    /\ client' = [client EXCEPT ![c] = [waits |-> TRUE, merge |-> merge]]
    /\ \A head, tail \in Train :
           merge = <<head, tail>> => d = tail /\ Message(kind, v, c) \in FollowOf(head)
    /\ \A t \in Train :
           Message(kind, v, c) \in LeadOf(t) => drv[t].tailMode /\ drv[t].headTid = d

LEMMA CommandsStep ==
  ASSUME GroupInv, NEW c \in Client, NEW d \in Train, NEW kind, NEW v,
         NEW merge \in {<<>>} \cup (Train \X Train), Coming(c, d, kind, v, merge)
  PROVE  GroupInv'
<1> USE DEF Coming
<1> DEFINE m == Message(kind, v, c)
<1>1. /\ drv' = drv /\ holds' = holds
      /\ inbox' = [inbox EXCEPT ![d] = Append(@, m)]
      /\ \A x \in Train : \A i \in DOMAIN inbox[x] : inbox[x][i].from \notin Client
  BY DEF Commands
<1>1a. m \in UserLetters /\ m.from = c
  BY DEF Message
<1>1b. /\ \A head, tail \in Train : merge = <<head, tail>> => d = tail /\ m \in FollowOf(head)
       /\ \A t \in Train : m \in LeadOf(t) => drv[t].tailMode /\ drv[t].headTid = d
  OBVIOUS
<1>1c. /\ client' \in [Client -> [waits : BOOLEAN, merge : {<<>>} \cup (Train \X Train)]]
       /\ client'[c].waits /\ client'[c].merge = merge
       /\ \A x \in Client : x # c => client'[x] = client[x]
  <2>1. client \in [Client -> [waits : BOOLEAN, merge : {<<>>} \cup (Train \X Train)]]
    BY DEF GroupInv, Types
  <2> QED BY <2>1
<1> HIDE DEF m
<1> DEFINE q == <<m>>
<1>2. m \in Letter(d) /\ \A f \in Train : m \notin Requests(f)
  BY <1>1a, KindsDiffer DEF Letter
<1>3. /\ DOMAIN inbox = Train /\ \A x \in Train : inbox[x] \in Seq(Letter(x))
      /\ q \in Seq(Letter(d))
  BY <1>2 DEF GroupInv, Types
<1>4. \A E : (Has(q, E) <=> m \in E) /\ Once(q, E)
  BY HasOne
<1>5. /\ DOMAIN inbox' = Train /\ inbox'[d] = inbox[d] \o q
      /\ \A x \in Train : x # d => inbox'[x] = inbox[x]
  <2>1. Append(inbox[d], m) = inbox[d] \o q
    BY <1>2, <1>3, AppendIsConcat
  <2> HIDE DEF q
  <2> QED BY <1>1, <1>3, <2>1
<1> HIDE DEF q
<1>6. ASSUME NEW E
      PROVE  /\ Has(inbox'[d], E) <=> Has(inbox[d], E) \/ m \in E
             /\ Once(inbox[d], E) /\ ~(Has(inbox[d], E) /\ m \in E) => Once(inbox'[d], E)
  <2>1. inbox[d] \in Seq(Letter(d))
    BY <1>3
  <2> DEFINE i0 == inbox[d]
  <2>2. i0 \in Seq(Letter(d)) /\ inbox'[d] = i0 \o q
    BY <1>5, <2>1
  <2> HIDE DEF i0
  <2>3. /\ Has(i0 \o q, E) <=> Has(i0, E) \/ Has(q, E)
        /\ Once(i0, E) /\ Once(q, E) /\ ~(Has(i0, E) /\ Has(q, E)) => Once(i0 \o q, E)
    BY <1>3, <2>2, HasConcat
  <2> QED BY <1>4, <2>2, <2>3 DEF i0
<1>7. \A x \in Train : ~Has(inbox[x], UserLetters)
  BY <1>1 DEF Has, UserLetters
<1>7a. ASSUME NEW x \in Train, NEW E \in SUBSET UserLetters, Has(inbox'[x], E)
       PROVE  x = d /\ m \in E
  <2>1. ~Has(inbox[x], E)
    BY <1>7 DEF Has
  <2> QED BY <1>5, <1>6, <1>7a, <2>1
<1>8. \A x \in Train : Place(drv[x], drv'[x])
  BY <1>1 DEF Place
<1>9. MembersAreTails' /\ NoLeaderCircle' /\ \A x \in Train : Members(x)' = Members(x)
  BY <1>8, GroupsStay
<1>10. OneCommand'
  <2>1. \A x \in Train : Has(inbox'[x], UserLetters) => x = d
    BY <1>7a
  <2>2. \A x \in Train : Once(inbox'[x], UserLetters)
    BY <1>5, <1>6, <1>7 DEF GroupInv, OneCommand
  <2>3. ASSUME NEW x \in Train, NEW a \in Client, Has(inbox'[x], LettersOf(a))
        PROVE  a = c
    <3>1. LettersOf(a) \in SUBSET UserLetters
      BY DEF LettersOf
    <3>2. m \in LettersOf(a)
      BY <1>7a, <2>3, <3>1
    <3> QED BY <1>1a, <3>2 DEF LettersOf
  <2>4. ASSUME NEW a \in Client, NEW x \in Train, NEW head \in Train, NEW tail \in Train,
               client'[a].merge = <<head, tail>>
        PROVE  ~Has(inbox'[x], LettersOf(a) \ (IF x = tail THEN FollowOf(head) ELSE {}))
    <3> DEFINE E == LettersOf(a) \ (IF x = tail THEN FollowOf(head) ELSE {})
    <3> SUFFICES ASSUME Has(inbox'[x], E) PROVE FALSE
      OBVIOUS
    <3>1. E \in SUBSET UserLetters
      BY DEF LettersOf
    <3>2. x = d /\ m \in E
      <4> HIDE DEF E
      <4> QED BY <1>7a, <3>1
    <3>3. a = c
      BY <1>1a, <3>2 DEF LettersOf
    <3> QED BY <1>1b, <1>1c, <2>4, <3>2, <3>3
  <2>5. \A x, y \in Train : Has(inbox'[x], UserLetters) /\ Has(inbox'[y], UserLetters) => x = y
    BY <2>1
  <2>6. \A x \in Train, a \in Client : Has(inbox'[x], LettersOf(a)) => client'[a].waits
    BY <1>1c, <2>3
  <2> QED BY <2>2, <2>4, <2>5, <2>6 DEF OneCommand
<1>11. HeadsToldLast'
  <2>1. ASSUME NEW h \in Train, NEW t \in Train, Has(inbox'[h], LeadOf(t))
        PROVE  drv'[t].tailMode /\ drv'[t].headTid = h
    <3>1. h = d /\ m \in LeadOf(t)
      BY <1>7a, <2>1, LeadIsCommand
    <3> QED BY <1>1, <1>1b, <3>1
  <2>2. ASSUME NEW a \in Client, NEW h \in Train, NEW t \in Train,
               client'[a].merge = <<h, t>>, ~client'[a].waits
        PROVE  drv'[t].tailMode /\ drv'[t].headTid = h
    <3>1. client'[a] = client[a]
      BY <1>1c, <2>2
    <3> QED BY <1>1, <2>2, <3>1 DEF GroupInv, HeadsToldLast
  <2> QED BY <2>1, <2>2 DEF HeadsToldLast
<1>12. Types'
  <2>1. inbox[d] \o q \in Seq(Letter(d))
    BY <1>3, ConcatProperties
  <2>2. \A x \in Train : inbox'[x] \in Seq(Letter(x))
    BY <1>3, <1>5, <2>1
  <2> QED BY <1>1, <1>1c, <1>5, <1>9, <2>2 DEF GroupInv, Types
<1>13. AllOwed'
  <2> SUFFICES ASSUME NEW t \in Train, NEW f \in Train, t # f PROVE Owed(t, f)'
    BY DEF AllOwed
  <2>1. WaitsFor(f, t)' <=> WaitsFor(f, t)
    BY <1>1 DEF WaitsFor
  <2>2. SameMail(inbox[t], inbox'[t], f)
    <3>1. ~Has(q, Requests(f)) /\ Once(q, Requests(f))
      BY <1>2, <1>4
    <3>2. CASE t = d
      <4>1. inbox[d] \in Seq(Letter(d)) /\ q \in Seq(Letter(d))
        BY <1>3
      <4>2. SameMail(inbox[d], inbox[d] \o q, f)
        BY <3>1, <4>1, MailGrows
      <4> QED BY <1>5, <3>2, <4>2
    <3>3. CASE t # d
      BY <1>5, <3>3, MailSame
    <3> QED BY <3>2, <3>3
  <2> QED BY <1>1, <2>1, <2>2, MailSame, OwedStays
<1>14. OnlyHeadsReserve' /\ WaitsForTail' /\ NoAnswerToItself'
  BY <1>1 DEF GroupInv, OnlyHeadsReserve, WaitsForTail, NoAnswerToItself
<1> QED BY <1>9, <1>10, <1>11, <1>12, <1>13, <1>14 DEF GroupInv

----------------------------------------------------------------------------
(* What a reception does.                                                  *)

\* What the handler of m leaves at d: answers for the head that sent m, and one at
\* least if it was not replied to; MERGE_HEAD and MERGE_TAIL make groups.
Outcome(d, m, s, h, replied) ==
    /\ s \in Driver /\ ~s.blocked /\ s.trainId # <<>> /\ h \in BOOLEAN
    /\ s.todo \in Seq(Sends(Range(s.trainId)))
    /\ \A f \in Train : /\ Has(s.todo, AnswersTo(f)) => f # d /\ m \in Requests(f)
                        /\ f # d /\ m \in Requests(f) /\ ~replied => Has(s.todo, AnswersTo(f))
    /\ \/ Range(s.trainId) = Members(d)
       \/ /\ m.kind = "merge_head" /\ ~drv[d].tailMode
          /\ Range(s.trainId) = Members(d) \cup {m.v}
    /\ \/ s.tailMode = drv[d].tailMode /\ s.headTid = drv[d].headTid
       \/ ~drv[d].tailMode /\ s.tailMode /\ s.headTid = m.v
    /\ m.kind = "merge_tail" /\ ~drv[d].tailMode /\ ~drv[d].finding => s.tailMode /\ s.headTid = m.v
    /\ s.tailMode => ~h

\* A message that a driver receives; another driver's comes from its head.
LEMMA Received ==
  ASSUME GroupInv, NEW d \in Train, inbox[d] # <<>>
  PROVE  /\ Head(inbox[d]) \in Letter(d)
         /\ \A f \in Train : f # d /\ Head(inbox[d]) \in Requests(f) =>
               WaitsFor(f, d) /\ drv[d].tailMode /\ drv[d].headTid = f
<1>1. inbox[d] \in Seq(Letter(d))
  BY DEF GroupInv, Types
<1>2. Head(inbox[d]) \in Letter(d)
  BY <1>1, HeadTailProperties
<1>3. ASSUME NEW f \in Train, f # d, Head(inbox[d]) \in Requests(f)
      PROVE  WaitsFor(f, d) /\ drv[d].tailMode /\ drv[d].headTid = f
  <2>1. Has(inbox[d], Requests(f))
    BY <1>1, <1>3, HasTail
  <2>2. WaitsFor(f, d)
    BY <1>3, <2>1 DEF GroupInv, AllOwed, Owed
  <2>3. d \in Members(f) \ {f}
    BY <2>2, WaitsForMember
  <2> QED BY <2>2, <2>3 DEF GroupInv, MembersAreTails
<1> QED BY <1>2, <1>3

\* The driver when it begins to handle a message.
LEMMA Beginning ==
  ASSUME GroupInv, NEW d \in Train, Receiving(d)
  PROVE  LET e == [s |-> drv[d], h |-> holds[d]] IN
         /\ e \in Handling /\ e.s = drv[d] /\ e.h = holds[d] /\ e.s.todo = <<>>
         /\ Range(e.s.trainId) = Members(d) /\ (e.s.tailMode => ~e.h)
<1>1. /\ drv[d] \in Driver /\ holds[d] \in BOOLEAN /\ drv[d].trainId # <<>>
      /\ ~drv[d].blocked /\ drv[d].todo = <<>> /\ (drv[d].tailMode => ~holds[d])
  BY DEF GroupInv, Types, OnlyHeadsReserve, Receiving
<1>2. <<>> \in Seq(Asks(Range(drv[d].trainId)))
  BY EmptySeq
<1> QED BY <1>1, <1>2 DEF Handling, At, Members

\* What is asked of members is no answer.
LEMMA AsksNoAnswers ==
  ASSUME NEW S, NEW q \in Seq(Asks(S))
  PROVE  \A f : ~Has(q, AnswersTo(f)) /\ Once(q, AnswersTo(f))
<1>1. \A f : Asks(S) \cap AnswersTo(f) = {}
  BY DEF Asks, AnswersTo, SendKind
<1> QED BY <1>1, NoneIn

\* A handler that has nobody to answer.
LEMMA KeepsOutcome ==
  ASSUME GroupInv, NEW d \in Train, Receiving(d), NEW m, NEW e,
         Keeps([s |-> drv[d], h |-> holds[d]], e), NEW replied \in BOOLEAN,
         \A f \in Train : f # d /\ m \in Requests(f) => replied,
         m.kind = "merge_tail" => drv[d].tailMode \/ drv[d].finding
  PROVE  Outcome(d, m, e.s, e.h, replied)
<1> DEFINE b == [s |-> drv[d], h |-> holds[d]]
<1>1. /\ b.s = drv[d] /\ b.h = holds[d] /\ Range(b.s.trainId) = Members(d) /\ (b.s.tailMode => ~b.h)
      /\ Keeps(b, e)
  BY Beginning
<1> HIDE DEF b
<1>2. /\ e.s \in Driver /\ ~e.s.blocked /\ e.s.trainId # <<>> /\ e.h \in BOOLEAN
      /\ e.s.todo \in Seq(Asks(Range(e.s.trainId)))
  BY <1>1 DEF Keeps, Handling, At
<1>3. e.s.todo \in Seq(Sends(Range(e.s.trainId)))
  <2>1. Asks(Range(e.s.trainId)) \subseteq Sends(Range(e.s.trainId))
    BY DEF Sends
  <2> QED BY <1>2, <2>1, SeqMonotonic
<1>4. \A f \in Train : ~Has(e.s.todo, AnswersTo(f)) /\ Once(e.s.todo, AnswersTo(f))
  BY <1>2, AsksNoAnswers
<1>5. /\ Range(e.s.trainId) = Members(d) /\ e.s.tailMode = drv[d].tailMode
      /\ e.s.headTid = drv[d].headTid /\ (e.s.tailMode => ~e.h)
  BY <1>1 DEF Keeps
<1> QED BY <1>2, <1>3, <1>4, <1>5 DEF Outcome

\* A tail's handler that answers its head when it is done.
LEMMA AnswersOutcome ==
  ASSUME GroupInv, NEW d \in Train, Receiving(d), NEW m, NEW g \in Train, g # d, m \in Requests(g),
         drv[d].tailMode, NEW q \in Seq(Asks(Members(d))), NEW n \in Int, NEW replied
  PROVE  LET e == Doing([s |-> drv[d], h |-> holds[d]], q \o <<Send(g, "answer", n)>>)
         IN  Outcome(d, m, e.s, e.h, replied)
<1> DEFINE b == [s |-> drv[d], h |-> holds[d]]
<1> DEFINE a == <<Send(g, "answer", n)>>
<1> DEFINE e == Doing(b, q \o a)
<1>1. /\ b \in Handling /\ b.s = drv[d] /\ b.h = holds[d] /\ b.s.todo = <<>>
      /\ Range(b.s.trainId) = Members(d) /\ (b.s.tailMode => ~b.h)
  BY Beginning
<1>2. /\ q \in Seq(Sends(Members(d))) /\ a \in Seq(Sends(Members(d)))
      /\ \A f \in Train : (Has(a, AnswersTo(f)) <=> f = g) /\ Once(a, AnswersTo(f))
  <2>1. Asks(Members(d)) \subseteq Sends(Members(d)) /\ Send(g, "answer", n) \in Sends(Members(d))
    BY DEF Sends, Send
  <2>2. \A f \in Train : Send(g, "answer", n) \in AnswersTo(f) <=> f = g
    BY DEF Send, AnswersTo
  <2> QED BY <2>1, <2>2, SeqMonotonic, HasOne
<1>3. \A f \in Train : ~Has(q, AnswersTo(f)) /\ Once(q, AnswersTo(f))
  BY AsksNoAnswers
<1> DEFINE todo == q \o a
<1> HIDE DEF a
<1>4. /\ todo \in Seq(Sends(Members(d)))
      /\ \A f \in Train : (Has(todo, AnswersTo(f)) <=> f = g) /\ Once(todo, AnswersTo(f))
  <2>1. todo \in Seq(Sends(Members(d)))
    BY <1>2, ConcatProperties
  <2>2. ASSUME NEW f \in Train
        PROVE  (Has(todo, AnswersTo(f)) <=> f = g) /\ Once(todo, AnswersTo(f))
    BY <1>2, <1>3, HasConcat
  <2> QED BY <2>1, <2>2
<1>5. <<>> \o todo = todo
  <2> HIDE DEF todo
  <2> QED BY <1>4, ConcatEmptySeq
<1>6. e.s = [drv[d] EXCEPT !.todo = todo] /\ e.h = holds[d]
  <2> HIDE DEF todo
  <2>1. Doing(b, todo).s = [drv[d] EXCEPT !.todo = @ \o todo] /\ Doing(b, todo).h = holds[d]
    BY <1>1 DEF Doing, Handling, At, Driver
  <2> HIDE DEF b
  <2>2. e = Doing(b, todo)
    BY DEF todo
  <2> HIDE DEF e
  <2> QED BY <1>1, <1>5, <2>1, <2>2
<1>7. drv[d] \in Driver /\ drv[d].trainId # <<>> /\ ~drv[d].blocked /\ holds[d] \in BOOLEAN
  BY <1>1 DEF Handling, At
<1> HIDE DEF todo, e, b
<1>8. e.s \in Driver
  BY <1>4, <1>6, <1>7, TodoTyped DEF Members
<1>9. /\ e.s.todo = todo /\ e.s.trainId = drv[d].trainId /\ e.s.blocked = drv[d].blocked
      /\ e.s.tailMode = drv[d].tailMode /\ e.s.headTid = drv[d].headTid
  BY <1>6, <1>7 DEF Driver
<1>10. \A f \in Train : f = g <=> f # d /\ m \in Requests(f)
  BY DEF Requests
<1>11. Range(e.s.trainId) = Members(d)
  BY <1>9 DEF Members
<1>12. e.s.tailMode => ~e.h
  BY <1>1, <1>6
<1>13. Outcome(d, m, e.s, e.h, replied)
  BY <1>4, <1>6, <1>7, <1>8, <1>9, <1>10, <1>11, <1>12 DEF Outcome
<1> QED BY <1>13 DEF e, b, a

\* A message sent on to the first train, and what a tail sends to all of its.
LEMMA AllKeep ==
  ASSUME NEW e \in Handling, NEW kind \in SendKind, NEW v \in Speed
  PROVE  Keeps(e, Doing(e, ToAll(e.s, kind, v))) /\ Keeps(e, e)
  BY ToAllTyped, DoingKeeps, KeepsItself

\* The letters by their kind.
LEMMA LetterKinds ==
  ASSUME NEW d \in Train, NEW m \in Letter(d)
  PROVE  /\ m.kind \in ReportKind \cup WorkKind \cup SendKind \cup UserKind
                       \cup {"courier", "merge_head", "merge_tail"}
         /\ m.kind \in {"merge_head", "merge_tail"} => m.v \in Train /\ m.from \in Client
         /\ m.kind \in SendKind \cup UserKind => m.v \in Speed
         /\ m.kind \in {"report_info", "delta", "stop_count", "stop_dist", "update_parent"} =>
               m.from \in Train \ {d} /\ m \in Requests(m.from)
         /\ m.kind = "trigger" =>
               m.from = d \/ (m.from \in Train \ {d} /\ m \in Requests(m.from))
         /\ \A f \in Train : m \in Requests(f) => m.kind \in SendKind /\ m.from = f
  BY DEF Letter, UserLetters, ReportKind, WorkKind, SendKind, UserKind, Speed, Requests

\* MERGE_HEAD: the tail becomes a member, and is asked.
LEMMA MergeHeadOutcome ==
  ASSUME GroupInv, NEW d \in Train, Receiving(d), NEW m, m.kind = "merge_head", m.v \in Train,
         NEW replied \in BOOLEAN, \A f \in Train : m \notin Requests(f),
         NEW e \in MergeHead([s |-> drv[d], h |-> holds[d]], m.v)
  PROVE  Outcome(d, m, e.s, e.h, replied)
<1> DEFINE b == [s |-> drv[d], h |-> holds[d]]
<1>1. /\ b \in Handling /\ b.s = drv[d] /\ b.h = holds[d] /\ b.s.todo = <<>>
      /\ Range(b.s.trainId) = Members(d) /\ (b.s.tailMode => ~b.h)
  BY Beginning
<1>2. CASE drv[d].tailMode
  <2>1. e = b
    BY <1>2 DEF MergeHead
  <2>2. Keeps(b, b)
    BY <1>1, KeepsItself
  <2>3. Keeps([s |-> drv[d], h |-> holds[d]], e)
    BY <2>1, <2>2
  <2> HIDE DEF b
  <2> QED BY <2>3, KeepsOutcome
<1>3. CASE ~drv[d].tailMode
  <2> DEFINE todo == <<Send(m.v, "stop_count", 0), Send(m.v, "update_parent", 0)>>
  <2> DEFINE s == [drv[d] EXCEPT !.reserveTrackMode = TRUE, !.trainId = Append(@, m.v),
                            !.todo = todo]
  <2>1. drv[d] \in Driver /\ drv[d].trainId \in Seq(Train) /\ drv[d].todo = <<>> /\ ~drv[d].blocked
        /\ holds[d] \in BOOLEAN
    BY <1>1 DEF Handling, At, Driver
  <2> DEFINE ids == Append(drv[d].trainId, m.v)
  <2>2. ids \in Seq(Train) /\ ids # <<>> /\ Range(ids) = Members(d) \cup {m.v}
    <3>1. /\ ids \in Seq(Train) /\ ids # <<>> /\ Len(drv[d].trainId) \in Nat
          /\ DOMAIN ids = 1 .. Len(drv[d].trainId) + 1
          /\ DOMAIN drv[d].trainId = 1 .. Len(drv[d].trainId)
          /\ \A i \in 1 .. Len(drv[d].trainId) : ids[i] = drv[d].trainId[i]
          /\ ids[Len(drv[d].trainId) + 1] = m.v
      BY <2>1, AppendProperties, LenProperties
    <3>2. \A x : x \in Range(ids) <=> \E i \in 1 .. Len(drv[d].trainId) + 1 : x = ids[i]
      BY <3>1 DEF Range
    <3>3. \A x : x \in Members(d) <=> \E i \in 1 .. Len(drv[d].trainId) : x = ids[i]
      BY <3>1 DEF Range, Members
    <3> DEFINE n == Len(drv[d].trainId)
    <3>4. n \in Nat /\ \A i : i \in 1 .. n + 1 <=> i \in 1 .. n \/ i = n + 1
      BY <3>1
    <3>5. Range(ids) = Members(d) \cup {m.v}
      <4>1. \A x : x \in Range(ids) <=> (\E i \in 1 .. n : x = ids[i]) \/ x = ids[n + 1]
        <5> HIDE DEF ids, n
        <5> QED BY <3>2, <3>4 DEF n
      <4> HIDE DEF ids
      <4> QED BY <3>1, <3>3, <4>1
    <3> HIDE DEF ids
    <3> QED BY <3>1, <3>5
  <2>3. e.s = s /\ e.h = holds[d]
    <3>1. e = Doing([b EXCEPT !.s.reserveTrackMode = TRUE, !.s.trainId = Append(@, m.v)], todo)
      BY <1>3 DEF MergeHead
    <3>2. <<>> \o todo = todo
      OBVIOUS
    <3>3. e.h = holds[d]
      BY <3>1 DEF Doing
    <3> HIDE DEF todo
    <3>4. e.s = [drv[d] EXCEPT !.reserveTrackMode = TRUE, !.trainId = Append(@, m.v),
                               !.todo = <<>> \o todo]
      BY <2>1, <3>1 DEF Doing, Driver
    <3> QED BY <3>2, <3>3, <3>4
  <2>4. todo \in Seq(Sends(Range(ids))) /\ todo \in Seq(Asks(Range(ids)))
    <3>1. /\ Send(m.v, "stop_count", 0) \in Asks(Range(ids))
          /\ Send(m.v, "update_parent", 0) \in Asks(Range(ids))
      BY <2>2 DEF Send, Asks, SendKind, Speed
    <3>2. Asks(Range(ids)) \subseteq Sends(Range(ids))
      BY DEF Sends
    <3> HIDE DEF ids
    <3>3. todo \in Seq(Asks(Range(ids)))
      BY <3>1
    <3> QED BY <3>2, <3>3, SeqMonotonic
  <2> HIDE DEF ids, todo
  <2>5. /\ s.trainId = ids /\ s.todo = todo /\ s.tailMode = drv[d].tailMode
        /\ s.headTid = drv[d].headTid /\ s.blocked = drv[d].blocked
    BY <2>1 DEF Driver, ids
  <2>6. s \in Driver
    <3> DEFINE s1 == [drv[d] EXCEPT !.reserveTrackMode = TRUE, !.trainId = ids]
    <3>1. s1 \in Driver /\ s1.trainId = ids
      BY <2>1, <2>2 DEF Driver
    <3>2. s = [s1 EXCEPT !.todo = todo]
      BY <2>1 DEF Driver, ids
    <3> HIDE DEF s1, s
    <3> QED BY <2>4, <3>1, <3>2, TodoTyped
  <2>7. \A f \in Train : ~Has(todo, AnswersTo(f)) /\ Once(todo, AnswersTo(f))
    BY <2>4, AsksNoAnswers
  <2> HIDE DEF s, b
  <2> QED BY <1>3, <2>1, <2>2, <2>3, <2>4, <2>5, <2>6, <2>7 DEF Outcome
<1> QED BY <1>2, <1>3

\* MERGE_TAIL: the driver is a tail from now on, without a reservation.
LEMMA MergeTailOutcome ==
  ASSUME GroupInv, NEW d \in Train, Receiving(d), NEW m, m.kind = "merge_tail", m.v \in Train,
         NEW replied \in BOOLEAN, \A f \in Train : m \notin Requests(f),
         NEW e \in MergeTail([s |-> drv[d], h |-> holds[d]], m.v)
  PROVE  Outcome(d, m, e.s, e.h, replied)
<1> DEFINE b == [s |-> drv[d], h |-> holds[d]]
<1>1. /\ b \in Handling /\ b.s = drv[d] /\ b.h = holds[d] /\ b.s.todo = <<>>
      /\ Range(b.s.trainId) = Members(d) /\ (b.s.tailMode => ~b.h)
  BY Beginning
<1>2. CASE drv[d].tailMode
  <2>1. e = b
    BY <1>2 DEF MergeTail
  <2>2. Keeps(b, b)
    BY <1>1, KeepsItself
  <2>3. Keeps([s |-> drv[d], h |-> holds[d]], e)
    BY <2>1, <2>2
  <2> HIDE DEF b
  <2> QED BY <1>2, <2>3, KeepsOutcome
<1>3. CASE ~drv[d].tailMode
  <2> DEFINE s == [drv[d] EXCEPT !.tailMode = TRUE, !.headTid = m.v]
  <2>1. drv[d] \in Driver /\ drv[d].todo = <<>> /\ ~drv[d].blocked /\ drv[d].trainId # <<>>
    BY <1>1 DEF Handling, At, Driver
  <2>2. e.s = s /\ e.h = FALSE
    BY <1>3, <2>1 DEF MergeTail, Driver
  <2>3. s \in Driver
    BY <2>1 DEF Driver
  <2>4. /\ s.trainId = drv[d].trainId /\ s.todo = <<>> /\ s.tailMode
        /\ s.headTid = m.v /\ ~s.blocked
    BY <2>1 DEF Driver
  <2>5. <<>> \in Seq(Sends(Range(s.trainId)))
    BY EmptySeq
  <2>6. \A f \in Train : ~Has(<<>>, AnswersTo(f)) /\ Once(<<>>, AnswersTo(f))
    BY HasOne
  <2> HIDE DEF s, b
  <2>7. Range(s.trainId) = Members(d)
    BY <2>4 DEF Members
  <2> QED BY <1>3, <2>1, <2>2, <2>3, <2>4, <2>5, <2>6, <2>7 DEF Outcome
<1> QED BY <1>2, <1>3

\* A tail passes a message on to its own train.
LEMMA ForwardedOutcome ==
  ASSUME GroupInv, NEW d \in Train, Receiving(d), inbox[d] # <<>>,
         NEW m, m = Head(inbox[d]),
         m.kind \in {"report_info", "delta", "update_parent", "stop_dist"},
         NEW e, e \in IF drv[d].tailMode THEN Forwarded([s |-> drv[d], h |-> holds[d]], m)
                      ELSE {[s |-> drv[d], h |-> holds[d]]}
  PROVE  Outcome(d, m, e.s, e.h, RepliesFirst(m.kind))
<1> DEFINE b == [s |-> drv[d], h |-> holds[d]]
<1> DEFINE q == <<Send(drv[d].trainId[1], m.kind, m.v)>>
<1>0. m.kind \in SendKind /\ RepliesFirst(m.kind) \in BOOLEAN
  BY DEF SendKind, RepliesFirst
<1>1. /\ b \in Handling /\ b.s = drv[d] /\ b.h = holds[d] /\ b.s.todo = <<>>
      /\ Range(b.s.trainId) = Members(d)
  BY Beginning
<1>2. /\ m \in Letter(d)
      /\ \A f \in Train : f # d /\ m \in Requests(f) =>
            WaitsFor(f, d) /\ drv[d].tailMode /\ drv[d].headTid = f
  BY Received
<1>3. m.v \in Speed
  BY <1>0, <1>2, LetterKinds
<1>4. q \in Seq(Asks(Members(d)))
  <2>1. <<Send(b.s.trainId[1], m.kind, m.v)>> \in Seq(Asks(Range(b.s.trainId)))
    <3> HIDE DEF b
    <3> QED BY <1>0, <1>1, <1>3, FirstMember, OneAsk
  <2> QED BY <1>1, <2>1
<1>4a. m.from \in Train \ {d} /\ m \in Requests(m.from)
  BY <1>2, LetterKinds
<1>4b. drv[d].tailMode /\ drv[d].headTid = m.from
  BY <1>2, <1>4a
<1>5. CASE m.kind = "update_parent"
  <2>1. e = Doing(b, q \o <<>>)
    BY <1>4b, <1>5 DEF Forwarded
  <2>2. q \o <<>> = q
    OBVIOUS
  <2>3. Keeps(b, e)
    <3>1. Keeps(b, Doing(b, q))
      <4> HIDE DEF b, q
      <4> QED BY <1>1, <1>4, DoingKeeps
    <3> HIDE DEF b, q
    <3> QED BY <2>1, <2>2, <3>1
  <2>4. RepliesFirst(m.kind) = TRUE
    BY <1>5 DEF RepliesFirst
  <2> HIDE DEF q
  <2> QED BY <1>5, <2>3, <2>4, KeepsOutcome
<1>6. CASE m.kind # "update_parent"
  <2>1. e = Doing(b, q \o <<Send(m.from, "answer", 0)>>)
    BY <1>4b, <1>6 DEF Forwarded
  <2>2. LET r == Doing([s |-> drv[d], h |-> holds[d]], q \o <<Send(m.from, "answer", 0)>>)
        IN  Outcome(d, m, r.s, r.h, RepliesFirst(m.kind))
    <3>1. 0 \in Int /\ m.from \in Train /\ m.from # d
      BY <1>4a
    <3> HIDE DEF q, b
    <3> QED BY <1>4, <1>4a, <1>4b, <3>1, AnswersOutcome
  <2> HIDE DEF q
  <2> QED BY <2>1, <2>2
<1> QED BY <1>5, <1>6

\* SENSOR_TRIGGER: of its own sensor, or passed on by the head.
LEMMA TriggerOutcome ==
  ASSUME GroupInv, NEW d \in Train, Receiving(d), inbox[d] # <<>>,
         NEW m, m = Head(inbox[d]), m.kind = "trigger",
         NEW e \in Trigger(d, [s |-> drv[d], h |-> holds[d]], m)
  PROVE  Outcome(d, m, e.s, e.h, RepliesFirst(m.kind))
<1> DEFINE b == [s |-> drv[d], h |-> holds[d]]
<1> DEFINE q == <<Send(drv[d].trainId[1], "trigger", 0)>>
<1>0. RepliesFirst(m.kind) = FALSE /\ "trigger" \in SendKind /\ 0 \in Speed
  BY DEF RepliesFirst, SendKind, Speed
<1>1. /\ b \in Handling /\ b.s = drv[d] /\ b.h = holds[d] /\ b.s.todo = <<>>
      /\ Range(b.s.trainId) = Members(d)
  BY Beginning
<1>2. /\ m.from = d \/ (m.from \in Train \ {d} /\ m \in Requests(m.from))
      /\ \A f \in Train : f # d /\ m \in Requests(f) =>
            m.from = f /\ drv[d].tailMode /\ drv[d].headTid = f
  BY Received, LetterKinds
<1>3. CASE m.from # d
  <2>1. m.from \in Train \ {d} /\ m \in Requests(m.from) /\ drv[d].tailMode
    BY <1>2, <1>3
  <2>2. q \in Seq(Asks(Members(d)))
    <3>1. <<Send(b.s.trainId[1], "trigger", 0)>> \in Seq(Asks(Range(b.s.trainId)))
      <4> HIDE DEF b
      <4> QED BY <1>0, <1>1, FirstMember, OneAsk
    <3> QED BY <1>1, <3>1
  <2>3. e = Doing(b, <<Send(drv[d].trainId[1], "trigger", 0), Send(m.from, "answer", 0)>>)
    BY <1>3, <2>1 DEF Trigger
  <2>4. <<Send(drv[d].trainId[1], "trigger", 0), Send(m.from, "answer", 0)>>
        = q \o <<Send(m.from, "answer", 0)>>
    OBVIOUS
  <2>5. LET r == Doing([s |-> drv[d], h |-> holds[d]], q \o <<Send(m.from, "answer", 0)>>)
        IN  Outcome(d, m, r.s, r.h, FALSE)
    <3>1. 0 \in Int /\ m.from \in Train /\ m.from # d
      BY <2>1
    <3> HIDE DEF q, b
    <3> QED BY <2>1, <2>2, <3>1, AnswersOutcome
  <2>6. e = Doing([s |-> drv[d], h |-> holds[d]], q \o <<Send(m.from, "answer", 0)>>)
    BY <2>3, <2>4
  <2> HIDE DEF q
  <2> QED BY <1>0, <2>5, <2>6
<1>4. CASE m.from = d
  <2>1. e = b \/ e = Doing(b, ToAll(b.s, "trigger", 0))
    BY <1>4 DEF Trigger
  <2>2. Keeps(b, e)
    <3> HIDE DEF b
    <3> QED BY <1>0, <1>1, <2>1, AllKeep
  <2>3. \A f \in Train : ~(f # d /\ m \in Requests(f))
    BY <1>2, <1>4
  <2>4. Outcome(d, m, e.s, e.h, FALSE)
    BY <2>2, <2>3, KeepsOutcome
  <2> QED BY <1>0, <2>4
<1> QED BY <1>3, <1>4

\* QUERY_STOP_COUNT: the count is the answer.
LEMMA StopCountOutcome ==
  ASSUME GroupInv, NEW d \in Train, Receiving(d), inbox[d] # <<>>,
         NEW m, m = Head(inbox[d]), m.kind = "stop_count",
         NEW e, e = Doing([s |-> drv[d], h |-> holds[d]],
                          <<Send(m.from, "answer", drv[d].stoppedCount)>>)
  PROVE  Outcome(d, m, e.s, e.h, RepliesFirst(m.kind))
<1>0. RepliesFirst(m.kind) = FALSE
  BY DEF RepliesFirst
<1>1. /\ m.from \in Train \ {d} /\ m \in Requests(m.from) /\ drv[d].tailMode
  BY Received, LetterKinds
<1>2. drv[d].stoppedCount \in Int
  BY DEF GroupInv, Types, Driver
<1>3. <<>> \in Seq(Asks(Members(d)))
  BY EmptySeq
<1>4. LET r == Doing([s |-> drv[d], h |-> holds[d]],
                     <<>> \o <<Send(m.from, "answer", drv[d].stoppedCount)>>)
      IN  Outcome(d, m, r.s, r.h, FALSE)
  BY <1>1, <1>2, <1>3, AnswersOutcome
<1>5. <<>> \o <<Send(m.from, "answer", drv[d].stoppedCount)>>
      = <<Send(m.from, "answer", drv[d].stoppedCount)>>
  OBVIOUS
<1> QED BY <1>0, <1>4, <1>5

\* The handlers that reply first and make no groups.
LEMMA RepliedKeeps ==
  ASSUME GroupInv, NEW d \in Train, Receiving(d), NEW m \in Letter(d),
         m.kind \notin {"trigger", "report_info", "delta", "stop_count", "update_parent",
                        "stop_dist", "merge_head", "merge_tail"},
         NEW e \in Handled(d, m)
  PROVE  Keeps([s |-> drv[d], h |-> holds[d]], e)
<1> DEFINE b == [s |-> drv[d], h |-> holds[d]]
<1>1. b \in Handling
  BY Beginning
<1>2. Keeps(b, b)
  <2> HIDE DEF b
  <2> QED BY <1>1, KeepsItself
<1>3. CASE m.kind = "set_speed"
  <2>1. e \in Effect(groupSetSpeed(b, m.v))
    BY <1>3 DEF Handled
  <2>2. m.v \in Speed
    BY <1>3, LetterKinds DEF SendKind
  <2> HIDE DEF b
  <2> QED BY <1>1, <2>1, <2>2, EffectKeeps DEF KeepsAll, b
<1>4. CASE m.kind = "nag"
  <2>1. e \in Nagged(b)
    BY <1>4 DEF Handled
  <2> HIDE DEF b
  <2> QED BY <1>1, <2>1, NaggedKeeps DEF KeepsAll, b
<1>5. CASE m.kind = "predict"
  <2>1. e \in Effect(makeReservation(b))
    BY <1>5 DEF Handled
  <2> HIDE DEF b
  <2> QED BY <1>1, <2>1, EffectKeeps DEF KeepsAll, Speed, b
<1>6. CASE m.kind = "stopped"
  <2>1. e \in StopCompleted(b)
    BY <1>6 DEF Handled
  <2> HIDE DEF b
  <2> QED BY <1>1, <2>1, StopCompletedKeeps DEF KeepsAll, b
<1>7. CASE m.kind = "set_route"
  <2>1. e \in setRoute(b)
    BY <1>7 DEF Handled
  <2> HIDE DEF b
  <2> QED BY <1>1, <2>1, SetRouteKeeps DEF KeepsAll, b
<1>8. CASE m.kind = "find"
  <2>1. e \in FindPosition(b, m.v)
    BY <1>8 DEF Handled
  <2> HIDE DEF b
  <2> QED BY <1>1, <2>1, FindPositionKeeps DEF KeepsAll, b
<1>9. CASE m.kind = "secondary"
  <2>1. e = b \/ e \in Effect(groupSetSpeed(b, 0))
    BY <1>9 DEF Handled
  <2> HIDE DEF b
  <2> QED BY <1>1, <1>2, <2>1, EffectKeeps DEF KeepsAll, Speed, b
<1>10. CASE m.kind = "reverse_speed"
  <2>1. e = b \/ e = Doing(b, ToAll(b.s, "reverse_speed", m.v))
    BY <1>10 DEF Handled
  <2>2. m.v \in Speed /\ "reverse_speed" \in SendKind
    BY <1>10, LetterKinds DEF SendKind
  <2> HIDE DEF b
  <2> QED BY <1>1, <2>1, <2>2, AllKeep DEF b
<1>11. CASE m.kind \in {"get_position", "set_following", "courier"}
  <2>1. e = b
    BY <1>11 DEF Handled
  <2> HIDE DEF b
  <2> QED BY <1>2, <2>1 DEF b
<1> QED
  BY <1>3, <1>4, <1>5, <1>6, <1>7, <1>8, <1>9, <1>10, <1>11, LetterKinds
     DEF ReportKind, WorkKind, SendKind, UserKind

\* Every message of the loop.
LEMMA HandledOutcome ==
  ASSUME GroupInv, NEW d \in Train, Receiving(d), inbox[d] # <<>>,
         NEW m, m = Head(inbox[d]), NEW e \in Handled(d, m)
  PROVE  Outcome(d, m, e.s, e.h, RepliesFirst(m.kind))
<1> DEFINE b == [s |-> drv[d], h |-> holds[d]]
<1>0. RepliesFirst(m.kind) \in BOOLEAN
  BY DEF RepliesFirst
<1>1. m \in Letter(d)
  BY Received
<1>2. CASE m.kind = "trigger"
  <2>1. e \in Trigger(d, b, m)
    BY <1>2 DEF Handled
  <2> QED BY <1>2, <2>1, TriggerOutcome
<1>3. CASE m.kind = "stop_count"
  <2>1. e = Doing(b, <<Send(m.from, "answer", drv[d].stoppedCount)>>)
    BY <1>3 DEF Handled
  <2> QED BY <1>3, <2>1, StopCountOutcome
<1>4. CASE m.kind \in {"report_info", "delta", "update_parent", "stop_dist"}
  <2>1. e \in IF drv[d].tailMode THEN Forwarded(b, m) ELSE {b}
    BY <1>4 DEF Handled
  <2> QED BY <1>4, <2>1, ForwardedOutcome
<1>5. CASE m.kind \in {"merge_head", "merge_tail"}
  <2>1. m.v \in Train /\ \A f \in Train : m \notin Requests(f)
    BY <1>1, <1>5, LetterKinds DEF SendKind
  <2>2. CASE m.kind = "merge_head"
    <3>1. e \in MergeHead(b, m.v)
      BY <2>2 DEF Handled
    <3> QED BY <1>0, <2>1, <2>2, <3>1, MergeHeadOutcome
  <2>3. CASE m.kind = "merge_tail"
    <3>1. e \in MergeTail(b, m.v)
      BY <2>3 DEF Handled
    <3> QED BY <1>0, <2>1, <2>3, <3>1, MergeTailOutcome
  <2> QED BY <1>5, <2>2, <2>3
<1>6. CASE m.kind \notin {"trigger", "report_info", "delta", "stop_count", "update_parent",
                          "stop_dist", "merge_head", "merge_tail"}
  <2>1. Keeps(b, e)
    BY <1>1, <1>6, RepliedKeeps
  <2>2. RepliesFirst(m.kind) = TRUE
    BY <1>6 DEF RepliesFirst
  <2>3. Outcome(d, m, e.s, e.h, TRUE)
    BY <1>6, <2>1, KeepsOutcome
  <2> QED BY <2>2, <2>3
<1> QED BY <1>2, <1>3, <1>4, <1>5, <1>6

----------------------------------------------------------------------------
(* The step of a reception.                                                *)

\* The sensor that ends FIND_POSITION.
LEMMA FoundOutcome ==
  ASSUME GroupInv, NEW d \in Train, Receiving(d), drv[d].finding, NEW m, NEW s,
         s = IF m.kind = "trigger"
             THEN [drv[d] EXCEPT !.finding = FALSE, !.naggers = IF @ < MaxNaggers THEN @ + 1 ELSE @,
                     !.todo = <<Send(drv[d].trainId[1], "trigger", 0),
                                Send(drv[d].trainId[1], "set_speed", 0)>>
                              \o ToAll(drv[d], "report_info", 0)]
             ELSE drv[d]
  PROVE  Outcome(d, m, s, holds[d], TRUE)
<1> DEFINE b == [s |-> drv[d], h |-> holds[d]]
<1>1. b \in Handling /\ b.s = drv[d] /\ b.h = holds[d] /\ b.s.todo = <<>>
  BY Beginning
<1> DEFINE e == [s |-> s, h |-> holds[d]]
<1>2. Keeps(b, e)
  <2>1. CASE m.kind # "trigger"
    <3>1. e = b
      BY <2>1
    <3> HIDE DEF b, e
    <3> QED BY <1>1, <3>1, KeepsItself
  <2>2. CASE m.kind = "trigger"
    <3> DEFINE first == <<Send(b.s.trainId[1], "trigger", 0)>>
    <3> DEFINE second == <<Send(b.s.trainId[1], "set_speed", 0)>>
    <3> DEFINE all == ToAll(b.s, "report_info", 0)
    <3> DEFINE A == Asks(Range(b.s.trainId))
    <3>1. first \in Seq(A) /\ second \in Seq(A) /\ all \in Seq(A)
      <4> HIDE DEF b
      <4> QED BY <1>1, FirstMember, OneAsk, ToAllTyped DEF SendKind, Speed
    <3> DEFINE todo == <<Send(drv[d].trainId[1], "trigger", 0),
                         Send(drv[d].trainId[1], "set_speed", 0)>>
                      \o ToAll(drv[d], "report_info", 0)
    <3>2. todo = (first \o second) \o all
      BY <1>1
    <3>3. todo \in Seq(A)
      <4> HIDE DEF first, second, all, A, todo
      <4>1. first \o second \in Seq(A)
        BY <3>1, ConcatProperties
      <4> QED BY <3>1, <3>2, <4>1, ConcatProperties
    <3> HIDE DEF todo
    <3> DEFINE n == IF drv[d].naggers < MaxNaggers THEN drv[d].naggers + 1 ELSE drv[d].naggers
    <3>4. s = [drv[d] EXCEPT !.finding = FALSE, !.naggers = n, !.todo = todo]
      BY <2>2 DEF todo
    <3>5. drv[d] \in Driver /\ todo \in Seq(Asks(Range(drv[d].trainId))) /\ holds[d] \in BOOLEAN
          /\ drv[d].trainId # <<>> /\ ~drv[d].blocked
      BY <1>1, <3>3 DEF Handling, At
    <3>6. todo \in Seq([to : Train, kind : SendKind \cup {"answer"}, v : Int])
      <4>1. drv[d].trainId \in Seq(Train)
        BY <3>5 DEF Driver
      <4> QED BY <3>5, <4>1, AsksAreSends
    <3>6a. n \in Nat
      <4>1. drv[d].naggers \in Nat
        BY <3>5 DEF Driver
      <4> QED BY <4>1
    <3> HIDE DEF n
    <3>7. s \in Driver
      BY <3>4, <3>5, <3>6, <3>6a, ZenonT(30) DEF Driver
    <3>8. /\ s.todo = todo /\ s.trainId = drv[d].trainId /\ s.tailMode = drv[d].tailMode
          /\ s.headTid = drv[d].headTid /\ s.blocked = drv[d].blocked
      BY <3>4, <3>5 DEF Driver
    <3>9. e \in At /\ e.s = s /\ e.h = b.h
      BY <1>1, <3>5, <3>7 DEF At
    <3> HIDE DEF e, b, A
    <3> QED BY <1>1, <3>5, <3>8, <3>9 DEF Keeps, Handling
  <2> QED BY <2>1, <2>2
<1>3. Outcome(d, m, e.s, e.h, TRUE)
  <2> HIDE DEF e
  <2> QED BY <1>2, KeepsOutcome
<1> QED BY <1>3

\* d receives m, and its handler has the outcome s and h.
Reception(d, m, s, h, replied, relay, answered) ==
    /\ Receiving(d) /\ inbox[d] # <<>> /\ m = Head(inbox[d])
    /\ Outcome(d, m, s, h, replied) /\ replied \in BOOLEAN
    /\ relay => m.kind \in {"predict", "stopped"}
    /\ answered \in BOOLEAN
    /\ answered = TRUE => m.from \in Client /\ (m.kind = "merge_tail" => ~drv[d].tailMode /\ ~drv[d].finding)
    /\ drv' = Woken([drv EXCEPT ![d] = s], d, m, replied)
    /\ holds' = [holds EXCEPT ![d] = h]
    /\ Delivered(d, m, relay, answered)

\* Whom the reply to m wakes.
Resumes(x, d, m, replied) == x # d /\ m \in Requests(x) /\ replied

\* The drivers after a reception: d as its handler left it, the one that was
\* replied to goes on, the others are as they were.
LEMMA DriversAfter ==
  ASSUME GroupInv, NEW d \in Train, NEW m, NEW s, NEW h, NEW replied, NEW relay, NEW answered,
         Reception(d, m, s, h, replied, relay, answered)
  PROVE  /\ drv' \in [Train -> Driver]
         /\ Noted(s, drv'[d])
         /\ \A x \in Train : x # d /\ ~Resumes(x, d, m, replied) => Noted(drv[x], drv'[x])
         /\ \A x \in Train : Resumes(x, d, m, replied) =>
               /\ WaitsFor(x, d) /\ Place(drv[x], drv'[x]) /\ ~drv'[x].blocked
               /\ drv'[x].todo \in Seq(Sends(Members(x)))
               /\ \A f : SameAnswers(drv[x].todo, drv'[x].todo, f)
<1> DEFINE D == [drv EXCEPT ![d] = s]
<1>1. /\ m \in Letter(d) /\ s \in Driver /\ drv \in [Train -> Driver]
      /\ \A f \in Train : f # d /\ m \in Requests(f) => WaitsFor(f, d)
  BY Received DEF Reception, Outcome, GroupInv, Types
<1>2. /\ D \in [Train -> Driver] /\ D[d] = s /\ \A x \in Train : x # d => D[x] = drv[x]
  BY <1>1
<1>3. /\ DOMAIN drv' = Train
      /\ \A x \in Train : drv'[x] = IF ~Carries(m) /\ x = m.from /\ x # d /\ replied
                                    THEN Resumed(D[x], FALSE, 0) ELSE D[x]
  <2>1. drv' = Woken(D, d, m, replied)
    BY DEF Reception
  <2> HIDE DEF D
  <2>2. drv' = [x \in Train |-> IF ~Carries(m) /\ x = m.from /\ x # d /\ replied
                                THEN Resumed(D[x], FALSE, 0) ELSE D[x]]
    BY <2>1 DEF Woken
  <2> QED BY <2>2
<1>4. ASSUME NEW x \in Train
      PROVE  ~Carries(m) /\ x = m.from /\ x # d /\ replied <=> Resumes(x, d, m, replied)
  <2>1. x \notin Client
    BY TrainAssumption
  <2> QED BY <1>1, <2>1 DEF Resumes, Carries, Letter, UserLetters, Requests, ReportKind, SendKind
<1> HIDE DEF D
<1>5. ASSUME NEW x \in Train, ~Resumes(x, d, m, replied)
      PROVE  Noted(D[x], drv'[x])
  <2>1. D[x] \in Driver
    BY <1>2
  <2>2. drv'[x] = D[x]
    BY <1>3, <1>4, <1>5
  <2> QED BY <2>1, <2>2 DEF Noted
<1>6. ASSUME NEW x \in Train, Resumes(x, d, m, replied)
      PROVE  /\ WaitsFor(x, d) /\ Place(drv[x], drv'[x]) /\ ~drv'[x].blocked
             /\ drv'[x].todo \in Seq(Sends(Members(x))) /\ drv'[x] \in Driver
             /\ \A f : SameAnswers(drv[x].todo, drv'[x].todo, f)
  <2>1. WaitsFor(x, d) /\ x # d
    BY <1>1, <1>6 DEF Resumes
  <2>2. drv'[x] = Resumed(drv[x], FALSE, 0)
    <3>1. ~Carries(m) /\ x = m.from /\ x # d /\ replied
      BY <1>4, <1>6
    <3> QED BY <1>2, <1>3, <3>1
  <2>3. /\ drv[x] \in Driver /\ drv[x].todo \in Seq(Sends(Range(drv[x].trainId)))
        /\ drv[x].todo # <<>> /\ Head(drv[x].todo).kind # "answer" /\ FALSE \in BOOLEAN /\ 0 \in Int
    BY <2>1, WaiterTyped
  <2>4. LET r == Resumed(drv[x], FALSE, 0) IN
        /\ r \in Driver /\ Place(drv[x], r) /\ ~r.blocked
        /\ r.todo \in Seq(Sends(Range(drv[x].trainId)))
        /\ \A f : SameAnswers(drv[x].todo, r.todo, f)
    BY <2>3, ResumedTyped
  <2> QED BY <2>1, <2>2, <2>4 DEF Members
<1>7. drv' \in [Train -> Driver]
  <2>1. \A x \in Train : drv'[x] \in Driver
    BY <1>5, <1>6 DEF Noted
  <2>2. drv' = [x \in Train |-> drv'[x]]
    BY DEF Reception, Woken
  <2> QED BY <2>1, <2>2
<1>8. ~Resumes(d, d, m, replied)
  BY DEF Resumes
<1> QED BY <1>2, <1>5, <1>6, <1>7, <1>8

\* The merge that client a is in the middle of is the one d was just told of.
ToldOf(a, d, s) ==
    \A head, tail \in Train :
        client[a].merge = <<head, tail>> => d = tail /\ s.tailMode /\ s.headTid = head

\* A client that is answered has its letter received; and when that was the first
\* half of its merge, the receiver is the tail now.
LEMMA AnsweredClient ==
  ASSUME GroupInv, NEW d \in Train, NEW m, NEW s, NEW h, NEW replied, NEW relay, NEW answered,
         Reception(d, m, s, h, replied, relay, answered), answered = TRUE
  PROVE  /\ m.from \in Client /\ m \in LettersOf(m.from) /\ client[m.from].waits
         /\ ToldOf(m.from, d, s)
<1>1. /\ m \in Letter(d) /\ m.from \in Client /\ inbox[d] \in Seq(Letter(d)) /\ inbox[d] # <<>>
      /\ m = Head(inbox[d])
  BY Received DEF Reception, GroupInv, Types
<1>2. m \in UserLetters
  <2>1. Client \cap Train = {}
    BY TrainAssumption
  <2> QED BY <1>1, <2>1 DEF Letter
<1>3. m \in LettersOf(m.from)
  BY <1>2 DEF LettersOf
<1>4. client[m.from].waits
  <2>1. Has(inbox[d], LettersOf(m.from))
    BY <1>1, <1>3, HasTail
  <2> QED BY <1>1, <2>1 DEF GroupInv, OneCommand
<1>5. ASSUME NEW head \in Train, NEW tail \in Train, client[m.from].merge = <<head, tail>>
      PROVE  d = tail /\ s.tailMode /\ s.headTid = head
  <2> DEFINE E == LettersOf(m.from) \ (IF d = tail THEN FollowOf(head) ELSE {})
  <2>1. ~Has(inbox[d], E)
    BY <1>1, <1>4, <1>5 DEF GroupInv, OneCommand
  <2>2. m \notin E
    <3> HIDE DEF E
    <3> QED BY <1>1, <2>1, HasTail
  <2>3. d = tail /\ m \in FollowOf(head)
    BY <1>3, <2>2
  <2>4. m.kind = "merge_tail" /\ m.v = head
    BY <2>3 DEF FollowOf
  <2> QED BY <2>3, <2>4 DEF Reception, Outcome
<1> QED BY <1>1, <1>3, <1>4, <1>5 DEF ToldOf

\* What is left in the inboxes, and what comes in.
Before(x, d) == IF x = d THEN Tail(inbox[x]) ELSE inbox[x]

\* The message that is received is gone.
LEMMA BeforeTyped ==
  ASSUME GroupInv, NEW d \in Train, inbox[d] # <<>>, NEW x \in Train
  PROVE  /\ Before(x, d) \in Seq(Letter(x))
         /\ \A E : /\ Has(inbox[x], E) <=> Has(Before(x, d), E) \/ (x = d /\ Head(inbox[d]) \in E)
                   /\ Once(inbox[x], E) => Once(Before(x, d), E)
                   /\ Once(inbox[x], E) /\ x = d /\ Head(inbox[d]) \in E => ~Has(Before(x, d), E)
<1>1. inbox[x] \in Seq(Letter(x))
  BY DEF GroupInv, Types
<1>2. CASE x = d
  BY <1>1, <1>2, HasTail, HeadTailProperties DEF Before
<1>3. CASE x # d
  BY <1>1, <1>3 DEF Before
<1> QED BY <1>2, <1>3

\* The inboxes after a reception: one letter less, perhaps the courier that brought
\* it back at its driver, perhaps a report for the head.
LEMMA MailAfter ==
  ASSUME GroupInv, NEW d \in Train, NEW m, NEW s, NEW h, NEW replied, NEW relay, NEW answered,
         Reception(d, m, s, h, replied, relay, answered), NEW x \in Train
  PROVE  /\ inbox'[x] \in Seq(Letter(x))
         /\ \A f \in Train : SameMail(Before(x, d), inbox'[x], f)
         /\ \A E \in SUBSET UserLetters :
               /\ Has(inbox'[x], E) <=> Has(Before(x, d), E)
               /\ Once(Before(x, d), E) => Once(inbox'[x], E)
<1> DEFINE q0 == Before(x, d)
<1> DEFINE q1 == IF Returning(m, x) THEN <<Message("courier", 0, x)>> ELSE <<>>
<1> DEFINE q2 == IF relay /\ x = drv[d].headTid THEN <<Message(m.kind, 1, d)>> ELSE <<>>
<1>1. inbox'[x] = (q0 \o q1) \o q2
  BY DEF Reception, Delivered, Before
<1>2. q0 \in Seq(Letter(x))
  BY BeforeTyped DEF Reception
<1> DEFINE Quiet(q) == /\ q \in Seq(Letter(x))
                       /\ \A f \in Train : ~Has(q, Requests(f)) /\ Once(q, Requests(f))
                       /\ \A E \in SUBSET UserLetters : ~Has(q, E) /\ Once(q, E)
<1>3. ASSUME NEW p \in Letter(x), p \notin UserLetters, \A f \in Train : p \notin Requests(f)
      PROVE  Quiet(<<p>>)
  <2>1. /\ <<p>> \in Seq(Letter(x))
        /\ \A E : (Has(<<p>>, E) <=> p \in E) /\ Once(<<p>>, E)
    BY HasOne
  <2> QED BY <1>3, <2>1
<1>4. Quiet(<<>>)
  BY EmptySeq, HasOne
<1>5. Quiet(q1)
  <2> DEFINE p == Message("courier", 0, x)
  <2>1. p \in Letter(x) /\ p \notin UserLetters /\ \A f \in Train : p \notin Requests(f)
    BY DEF Message, Letter, UserLetters, UserKind, Requests, SendKind
  <2>2. q1 = <<p>> \/ q1 = <<>>
    OBVIOUS
  <2> HIDE DEF p, q1, Quiet
  <2> QED BY <1>3, <1>4, <2>1, <2>2
<1>6. Quiet(q2)
  <2> DEFINE p == Message(m.kind, 1, d)
  <2>1. CASE relay /\ x = drv[d].headTid
    <3>1. p \in Reports(d)
      BY <2>1 DEF Reception, Message, Reports, ReportKind
    <3>2. p \in Letter(x) /\ p \notin UserLetters /\ \A f \in Train : p \notin Requests(f)
      BY <3>1, KindsDiffer DEF Reports
    <3>3. q2 = <<p>>
      BY <2>1
    <3> HIDE DEF p, q2, Quiet
    <3> QED BY <1>3, <3>2, <3>3
  <2>2. CASE ~(relay /\ x = drv[d].headTid)
    <3>1. q2 = <<>>
      BY <2>2
    <3> HIDE DEF q2, Quiet
    <3> QED BY <1>4, <3>1
  <2> QED BY <2>1, <2>2
<1> DEFINE q01 == q0 \o q1
<1> HIDE DEF q0, q1, q2
<1>7. /\ q1 \in Seq(Letter(x)) /\ q2 \in Seq(Letter(x))
      /\ \A f \in Train : ~Has(q1, Requests(f)) /\ Once(q1, Requests(f))
      /\ \A f \in Train : ~Has(q2, Requests(f)) /\ Once(q2, Requests(f))
      /\ \A E \in SUBSET UserLetters : ~Has(q1, E) /\ Once(q1, E)
      /\ \A E \in SUBSET UserLetters : ~Has(q2, E) /\ Once(q2, E)
  BY <1>5, <1>6
<1>8. q01 \in Seq(Letter(x)) /\ q01 \o q2 \in Seq(Letter(x))
  BY <1>2, <1>7, ConcatProperties
<1>9. ASSUME NEW f \in Train PROVE SameMail(q0, inbox'[x], f)
  <2>1. SameMail(q0, q01, f)
    BY <1>2, <1>7, MailGrows
  <2> HIDE DEF q01
  <2>2. SameMail(q01, q01 \o q2, f)
    BY <1>7, <1>8, MailGrows
  <2>3. inbox'[x] = q01 \o q2
    BY <1>1 DEF q01
  <2> QED BY <2>1, <2>2, <2>3, MailTwice
<1>10. ASSUME NEW E \in SUBSET UserLetters
       PROVE  /\ Has(inbox'[x], E) <=> Has(q0, E)
              /\ Once(q0, E) => Once(inbox'[x], E)
  <2>1. /\ Has(q01, E) <=> Has(q0, E) \/ Has(q1, E)
        /\ Once(q0, E) /\ Once(q1, E) /\ ~(Has(q0, E) /\ Has(q1, E)) => Once(q01, E)
    BY <1>2, <1>7, HasConcat
  <2> HIDE DEF q01
  <2>2. /\ Has(q01 \o q2, E) <=> Has(q01, E) \/ Has(q2, E)
        /\ Once(q01, E) /\ Once(q2, E) /\ ~(Has(q01, E) /\ Has(q2, E)) => Once(q01 \o q2, E)
    BY <1>7, <1>8, HasConcat
  <2>3. inbox'[x] = q01 \o q2
    BY <1>1 DEF q01
  <2> QED BY <1>7, <2>1, <2>2, <2>3
<1>11. inbox'[x] \in Seq(Letter(x))
  BY <1>1, <1>8
<1> QED BY <1>9, <1>10, <1>11 DEF q0

\* After a reception a tail is still one, with the same head.
LEMMA TailsStay ==
  ASSUME GroupInv, NEW d \in Train, NEW m, NEW s, NEW h, NEW replied, NEW relay, NEW answered,
         Reception(d, m, s, h, replied, relay, answered), NEW x \in Train
  PROVE  /\ drv[x].tailMode => drv'[x].tailMode /\ drv'[x].headTid = drv[x].headTid
         /\ x # d => Place(drv[x], drv'[x])
         /\ x = d => Place(s, drv'[x])
<1>1. CASE x = d
  <2>1. Noted(s, drv'[d])
    BY DriversAfter
  <2>2. \/ s.tailMode = drv[d].tailMode /\ s.headTid = drv[d].headTid
        \/ ~drv[d].tailMode /\ s.tailMode /\ s.headTid = m.v
    BY DEF Reception, Outcome
  <2> QED BY <1>1, <2>1, <2>2 DEF Noted, Place
<1>2. CASE x # d
  BY <1>2, DriversAfter DEF Noted, Place
<1> QED BY <1>1, <1>2

\* A driver that gets a new member is nobody's tail, and the member its own.
LEMMA GroupsAfter ==
  ASSUME GroupInv, NEW d \in Train, NEW m, NEW s, NEW h, NEW replied, NEW relay, NEW answered,
         Reception(d, m, s, h, replied, relay, answered)
  PROVE  MembersAreTails' /\ NoLeaderCircle'
<1>1. \A x \in Train : x # d => Members(x)' = Members(x)
  BY TailsStay DEF Place, Members
<1>2. Members(d)' = Range(s.trainId)
  BY TailsStay DEF Place, Members
<1>3. \/ Members(d)' = Members(d)
      \/ /\ Members(d)' = Members(d) \cup {m.v} /\ ~drv[d].tailMode
         /\ m.v \in Train /\ drv[m.v].tailMode /\ drv[m.v].headTid = d /\ m.v # d
  <2>1. CASE Range(s.trainId) = Members(d)
    BY <1>2, <2>1
  <2>2. CASE m.kind = "merge_head" /\ ~drv[d].tailMode /\ Range(s.trainId) = Members(d) \cup {m.v}
    <3>1. m \in Letter(d) /\ inbox[d] # <<>> /\ m = Head(inbox[d]) /\ inbox[d] \in Seq(Letter(d))
      BY Received DEF Reception, GroupInv, Types
    <3>2. m.v \in Train /\ m \in LeadOf(m.v)
      BY <2>2, <3>1
         DEF Letter, ReportKind, WorkKind, SendKind, UserLetters, UserKind, LeadOf
    <3>3. Has(inbox[d], LeadOf(m.v))
      BY <3>1, <3>2, HasTail
    <3>4. drv[m.v].tailMode /\ drv[m.v].headTid = d
      BY <3>2, <3>3 DEF GroupInv, HeadsToldLast
    <3> QED BY <1>2, <2>2, <3>2, <3>4
  <2> QED BY <2>1, <2>2 DEF Reception, Outcome
<1>4. ASSUME NEW x \in Train PROVE Members(x) \subseteq Train
  BY MembersTyped DEF Members, GroupInv, Types, Driver
<1>5. MembersAreTails'
  <2> SUFFICES ASSUME NEW g \in Train, NEW t \in Members(g)' \ {g}
               PROVE  drv'[t].tailMode /\ drv'[t].headTid = g
    BY DEF MembersAreTails
  <2>1. CASE t \in Members(g)
    <3>1. t \in Train /\ drv[t].tailMode /\ drv[t].headTid = g
      BY <1>4, <2>1 DEF GroupInv, MembersAreTails
    <3> QED BY <3>1, TailsStay
  <2>2. CASE t \notin Members(g)
    <3>1. g = d /\ t = m.v /\ t \in Train /\ drv[t].tailMode /\ drv[t].headTid = g
      BY <1>1, <1>3, <2>2
    <3> QED BY <3>1, TailsStay
  <2> QED BY <2>1, <2>2
<1>6. NoLeaderCircle'
  <2> SUFFICES ASSUME NEW S \in (SUBSET Train) \ {{}}
               PROVE  \E x \in S : \A t \in S : ~(t \in Members(x)' \ {x})
    BY DEF NoLeaderCircle
  <2>1. CASE Members(d)' = Members(d)
    <3>1. PICK x \in S : \A t \in S : ~(t \in Members(x) \ {x})
      BY DEF GroupInv, NoLeaderCircle
    <3>2. x \in Train
      OBVIOUS
    <3> QED BY <1>1, <2>1, <3>1, <3>2
  <2>2. CASE Members(d)' = Members(d) \cup {m.v} /\ ~drv[d].tailMode /\ m.v # d
    <3>1. CASE S \ {d} = {}
      <4>1. \A t \in S : ~(t \in Members(d)' \ {d})
        BY <3>1
      <4> QED BY <3>1, <4>1
    <3>2. CASE S \ {d} # {}
      <4>1. S \ {d} \in (SUBSET Train) \ {{}}
        BY <3>2
      <4>2. PICK x \in S \ {d} : \A t \in S \ {d} : ~(t \in Members(x) \ {x})
        BY <4>1 DEF GroupInv, NoLeaderCircle
      <4>3. x \in Train /\ x # d /\ Members(x)' = Members(x)
        BY <1>1
      <4>4. d \notin Members(x) \ {x}
        BY <2>2, <4>3 DEF GroupInv, MembersAreTails
      <4> QED BY <4>2, <4>3, <4>4
    <3> QED BY <3>1, <3>2
  <2> QED BY <1>3, <2>1, <2>2
<1> QED BY <1>5, <1>6

\* A client's letter is gone when the client is answered; the others go on waiting.
LEMMA CommandsAfter ==
  ASSUME GroupInv, NEW d \in Train, NEW m, NEW s, NEW h, NEW replied, NEW relay, NEW answered,
         Reception(d, m, s, h, replied, relay, answered)
  PROVE  OneCommand' /\ HeadsToldLast'
         /\ client' \in [Client -> [waits : BOOLEAN, merge : {<<>>} \cup (Train \X Train)]]
<1>0. /\ m \in Letter(d) /\ inbox[d] # <<>> /\ m = Head(inbox[d])
      /\ client \in [Client -> [waits : BOOLEAN, merge : {<<>>} \cup (Train \X Train)]]
  BY Received DEF Reception, GroupInv, Types
<1>1. client' = IF answered THEN [client EXCEPT ![m.from].waits = FALSE] ELSE client
  BY DEF Reception, Delivered
<1>2. \A x \in Train : \A E :
          /\ Has(Before(x, d), E) => Has(inbox[x], E)
          /\ Once(inbox[x], E) => Once(Before(x, d), E)
  BY <1>0, BeforeTyped
<1>3. ASSUME NEW x \in Train, NEW E \in SUBSET UserLetters, Has(inbox'[x], E)
      PROVE  Has(Before(x, d), E) /\ Has(inbox[x], E)
  <2>1. Has(Before(x, d), E)
    BY <1>3, MailAfter
  <2> QED BY <1>2, <2>1
<1>4. UserLetters \in SUBSET UserLetters /\ \A c : LettersOf(c) \in SUBSET UserLetters
  BY DEF LettersOf
<1>5. \A x \in Train : Once(inbox'[x], UserLetters)
  <2> SUFFICES ASSUME NEW x \in Train PROVE Once(inbox'[x], UserLetters)
    OBVIOUS
  <2>1. Once(Before(x, d), UserLetters)
    BY <1>2 DEF GroupInv, OneCommand
  <2> QED BY <1>4, <2>1, MailAfter
<1>6. CASE answered = FALSE
  <2>1. client' = client
    BY <1>1, <1>6
  <2>2. OneCommand'
    <3>1. \A x, y \in Train : Has(inbox'[x], UserLetters) /\ Has(inbox'[y], UserLetters) => x = y
      BY <1>3, <1>4 DEF GroupInv, OneCommand
    <3>2. \A x \in Train, c \in Client : Has(inbox'[x], LettersOf(c)) => client'[c].waits
      BY <1>3, <1>4, <2>1 DEF GroupInv, OneCommand
    <3>3. ASSUME NEW c \in Client, NEW x \in Train, NEW head \in Train, NEW tail \in Train,
                 client'[c].waits, client'[c].merge = <<head, tail>>
          PROVE  ~Has(inbox'[x], LettersOf(c) \ (IF x = tail THEN FollowOf(head) ELSE {}))
      <4> DEFINE E == LettersOf(c) \ (IF x = tail THEN FollowOf(head) ELSE {})
      <4>1. E \in SUBSET UserLetters
        BY DEF LettersOf
      <4>2. ~Has(inbox[x], E)
        BY <2>1, <3>3 DEF GroupInv, OneCommand
      <4> HIDE DEF E
      <4>3. ~Has(inbox'[x], E)
        BY <1>3, <4>1, <4>2
      <4> QED BY <4>3 DEF E
    <3> QED BY <1>5, <3>1, <3>2, <3>3 DEF OneCommand
  <2>3. HeadsToldLast'
    <3>1. ASSUME NEW g \in Train, NEW t \in Train, Has(inbox'[g], LeadOf(t))
          PROVE  drv'[t].tailMode /\ drv'[t].headTid = g
      <4>1. LeadOf(t) \in SUBSET UserLetters
        BY LeadIsCommand
      <4>2. drv[t].tailMode /\ drv[t].headTid = g
        BY <1>3, <3>1, <4>1 DEF GroupInv, HeadsToldLast
      <4> QED BY <4>2, TailsStay
    <3>2. ASSUME NEW c \in Client, NEW g \in Train, NEW t \in Train,
                 client'[c].merge = <<g, t>>, ~client'[c].waits
          PROVE  drv'[t].tailMode /\ drv'[t].headTid = g
      <4>1. drv[t].tailMode /\ drv[t].headTid = g
        BY <2>1, <3>2 DEF GroupInv, HeadsToldLast
      <4> QED BY <4>1, TailsStay
    <3> QED BY <3>1, <3>2 DEF HeadsToldLast
  <2> QED BY <1>0, <2>1, <2>2, <2>3
<1>7. CASE answered = TRUE
  <2>1. /\ m.from \in Client /\ m \in LettersOf(m.from) /\ ToldOf(m.from, d, s)
    BY <1>7, AnsweredClient
  <2>1a. client' = [client EXCEPT ![m.from].waits = FALSE]
    BY <1>1, <1>7
  <2>2. /\ client' \in [Client -> [waits : BOOLEAN, merge : {<<>>} \cup (Train \X Train)]]
        /\ client'[m.from].merge = client[m.from].merge
        /\ \A c \in Client : c # m.from => client'[c] = client[c]
    <3> DEFINE Merges == {<<>>} \cup (Train \X Train)
    <3>1. client \in [Client -> [waits : BOOLEAN, merge : Merges]]
      BY <1>0
    <3> HIDE DEF Merges
    <3>2. /\ client' \in [Client -> [waits : BOOLEAN, merge : Merges]]
          /\ client'[m.from].merge = client[m.from].merge
          /\ \A c \in Client : c # m.from => client'[c] = client[c]
      BY <2>1, <2>1a, <3>1
    <3> QED BY <3>2 DEF Merges
  <2>3. \A x \in Train : ~Has(Before(x, d), UserLetters)
    <3> SUFFICES ASSUME NEW x \in Train, Has(Before(x, d), UserLetters) PROVE FALSE
      OBVIOUS
    <3>0. m \in UserLetters
      BY <2>1 DEF LettersOf
    <3>1. Has(inbox[d], UserLetters) /\ Has(inbox[x], UserLetters)
      BY <1>0, <1>2, <3>0, BeforeTyped
    <3>2. x = d /\ Once(inbox[x], UserLetters)
      BY <3>1 DEF GroupInv, OneCommand
    <3> QED BY <1>0, <3>0, <3>2, BeforeTyped
  <2>4. \A x \in Train : \A E \in SUBSET UserLetters : ~Has(inbox'[x], E)
    <3>1. \A x \in Train : ~Has(inbox'[x], UserLetters)
      BY <1>3, <1>4, <2>3
    <3> QED BY <3>1 DEF Has
  <2>5. OneCommand'
    <3>1. \A c : \A E : LettersOf(c) \ E \in SUBSET UserLetters
      BY DEF LettersOf
    <3> QED BY <1>4, <1>5, <2>4, <3>1 DEF OneCommand
  <2>6. HeadsToldLast'
    <3>1. \A g, t \in Train : ~Has(inbox'[g], LeadOf(t))
      BY <2>4, LeadIsCommand
    <3>2. ASSUME NEW c \in Client, NEW g \in Train, NEW t \in Train,
                 client'[c].merge = <<g, t>>, ~client'[c].waits
          PROVE  drv'[t].tailMode /\ drv'[t].headTid = g
      <4>1. CASE c = m.from
        <5>1. d = t /\ s.tailMode /\ s.headTid = g
          BY <2>1, <2>2, <3>2, <4>1 DEF ToldOf
        <5> QED BY <5>1, TailsStay DEF Place
      <4>2. CASE c # m.from
        <5>1. client'[c] = client[c]
          BY <2>2, <4>2
        <5>2. drv[t].tailMode /\ drv[t].headTid = g
          BY <3>2, <5>1 DEF GroupInv, HeadsToldLast
        <5> QED BY <5>2, TailsStay
      <4> QED BY <4>1, <4>2
    <3> QED BY <3>1, <3>2 DEF HeadsToldLast
  <2> QED BY <2>2, <2>5, <2>6
<1>8. answered \in BOOLEAN
  BY DEF Reception
<1> QED BY <1>6, <1>7, <1>8

\* The handler of a request replies to its sender, or leaves an answer for it.
LEMMA OwedAfter ==
  ASSUME GroupInv, NEW d \in Train, NEW m, NEW s, NEW h, NEW replied, NEW relay, NEW answered,
         Reception(d, m, s, h, replied, relay, answered)
  PROVE  AllOwed' /\ NoAnswerToItself'
<1>1. /\ ~drv[d].blocked /\ drv[d].todo = <<>> /\ inbox[d] # <<>> /\ m = Head(inbox[d])
      /\ ~s.blocked
      /\ \A f \in Train : /\ Has(s.todo, AnswersTo(f)) => f # d /\ m \in Requests(f)
                          /\ f # d /\ m \in Requests(f) /\ ~replied => Has(s.todo, AnswersTo(f))
  BY DEF Reception, Receiving, Outcome
<1>2. drv'[d].todo = s.todo /\ ~drv'[d].blocked
  BY <1>1, DriversAfter DEF Noted
<1>3. \A x \in Train : x # d =>
          /\ \/ Resumes(x, d, m, replied)
             \/ drv'[x].todo = drv[x].todo /\ drv'[x].blocked = drv[x].blocked
          /\ \A f : SameAnswers(drv[x].todo, drv'[x].todo, f)
  <2>1. /\ \A x \in Train : x # d /\ ~Resumes(x, d, m, replied) => Noted(drv[x], drv'[x])
        /\ \A x \in Train : Resumes(x, d, m, replied) =>
              \A f : SameAnswers(drv[x].todo, drv'[x].todo, f)
    BY DriversAfter
  <2>2. \A x \in Train : Noted(drv[x], drv'[x]) =>
            /\ drv'[x].todo = drv[x].todo /\ drv'[x].blocked = drv[x].blocked
            /\ \A f : SameAnswers(drv[x].todo, drv'[x].todo, f)
    BY MailSame DEF Noted
  <2> SUFFICES ASSUME NEW x \in Train, x # d
               PROVE  /\ \/ Resumes(x, d, m, replied)
                         \/ drv'[x].todo = drv[x].todo /\ drv'[x].blocked = drv[x].blocked
                      /\ \A f : SameAnswers(drv[x].todo, drv'[x].todo, f)
    OBVIOUS
  <2>3. CASE Resumes(x, d, m, replied)
    BY <2>1, <2>3
  <2>4. CASE ~Resumes(x, d, m, replied)
    BY <2>1, <2>2, <2>4
  <2> QED BY <2>3, <2>4
<1>4. \A E : ~Has(drv[d].todo, E) /\ Once(drv[d].todo, E)
  BY <1>1, HasOne
<1>5. ASSUME NEW t \in Train, NEW f \in Train, t # f PROVE Owed(t, f)'
  <2>0. SameMail(Before(t, d), inbox'[t], f)
    BY MailAfter
  <2>1. CASE t = d /\ m \in Requests(f)
    <3>1. Owed(d, f) /\ WaitsFor(f, d)
      BY <1>1, <1>5, <2>1, Received DEF GroupInv, AllOwed
    <3>2. Has(inbox[d], Requests(f)) /\ Once(inbox[d], Requests(f))
      BY <1>1, <2>1, <3>1, BeforeTyped DEF Owed
    <3>3. ~Has(inbox'[d], Requests(f)) /\ Once(inbox'[d], Requests(f))
      <4>1. ~Has(Before(d, d), Requests(f)) /\ Once(Before(d, d), Requests(f))
        BY <1>1, <2>1, <3>2, BeforeTyped
      <4> QED BY <2>0, <2>1, <4>1 DEF SameMail
    <3>5. CASE replied
      <4>1. ~drv'[f].blocked
        BY <1>5, <2>1, <3>5, DriversAfter DEF Resumes
      <4>2. ~WaitsFor(f, t)'
        BY <4>1 DEF WaitsFor
      <4> QED BY <2>1, <3>3, <4>2 DEF Owed
    <3>6. CASE ~replied
      <4>1. Has(drv'[d].todo, AnswersTo(f))
        BY <1>1, <1>2, <1>5, <2>1, <3>6
      <4> QED BY <2>1, <3>3, <4>1 DEF Owed
    <3> QED BY <3>5, <3>6
  <2>2. CASE ~(t = d /\ m \in Requests(f))
    <3>1. SameMail(inbox[t], inbox'[t], f)
      <4>1. SameMail(inbox[t], Before(t, d), f)
        <5>1. CASE t = d
          <6>1. inbox[d] \in Seq(Letter(d))
            BY DEF GroupInv, Types
          <6> QED BY <1>1, <2>2, <5>1, <6>1, MailTaken DEF Before
        <5>2. CASE t # d
          BY <5>2, MailSame DEF Before
        <5> QED BY <5>1, <5>2
      <4> QED BY <2>0, <4>1, MailTwice
    <3>2. SameAnswers(drv[t].todo, drv'[t].todo, f)
      <4>1. CASE t = d
        BY <1>1, <1>2, <1>4, <2>2, <4>1 DEF SameAnswers
      <4>2. CASE t # d
        BY <1>3, <4>2
      <4> QED BY <4>1, <4>2
    <3>3. /\ WaitsFor(f, t)' <=> WaitsFor(f, t)
          /\ WaitsFor(f, t) => Head(drv'[f].todo).kind = Head(drv[f].todo).kind
      <4>1. CASE f = d
        BY <1>1, <1>2, <4>1 DEF WaitsFor
      <4>2. CASE Resumes(f, d, m, replied)
        <5>1. WaitsFor(f, d) /\ ~drv'[f].blocked
          BY <4>2, DriversAfter
        <5>2. t # d
          BY <2>2, <4>2 DEF Resumes
        <5> QED BY <5>1, <5>2 DEF WaitsFor
      <4>3. CASE f # d /\ ~Resumes(f, d, m, replied)
        <5>1. drv'[f].todo = drv[f].todo /\ drv'[f].blocked = drv[f].blocked
          BY <1>3, <4>3
        <5> QED BY <5>1 DEF WaitsFor
      <4> QED BY <4>1, <4>2, <4>3
    <3> QED BY <1>5, <3>1, <3>2, <3>3, OwedStays
  <2> QED BY <2>1, <2>2
<1>6. ASSUME NEW t \in Train PROVE ~Has(drv'[t].todo, AnswersTo(t))
  <2>1. CASE t = d
    BY <1>1, <1>2, <2>1
  <2>2. CASE t # d
    <3>1. ~Has(drv[t].todo, AnswersTo(t))
      BY DEF GroupInv, NoAnswerToItself
    <3> QED BY <1>3, <2>2, <3>1 DEF SameAnswers
  <2> QED BY <2>1, <2>2
<1> QED BY <1>5, <1>6 DEF AllOwed, NoAnswerToItself

\* A reception keeps the invariant.
LEMMA ReceptionStep ==
  ASSUME GroupInv, NEW d \in Train, NEW m, NEW s, NEW h, NEW replied, NEW relay, NEW answered,
         Reception(d, m, s, h, replied, relay, answered)
  PROVE  GroupInv'
<1>1. MembersAreTails' /\ NoLeaderCircle'
  BY GroupsAfter
<1>2. /\ OneCommand' /\ HeadsToldLast'
      /\ client' \in [Client -> [waits : BOOLEAN, merge : {<<>>} \cup (Train \X Train)]]
  BY CommandsAfter
<1>3. AllOwed' /\ NoAnswerToItself'
  BY OwedAfter
<1>4. /\ s.trainId # <<>> /\ s.todo \in Seq(Sends(Range(s.trainId))) /\ ~s.blocked
      /\ h \in BOOLEAN /\ (s.tailMode => ~h)
  BY DEF Reception, Outcome
<1>5. holds' = [holds EXCEPT ![d] = h] /\ holds \in [Train -> BOOLEAN]
  BY DEF Reception, GroupInv, Types
<1>6. Types'
  <2>1. drv' \in [Train -> Driver]
    BY DriversAfter
  <2>2. \A x \in Train : drv'[x].trainId # <<>> /\ drv'[x].todo \in Seq(Sends(Members(x)'))
    <3> SUFFICES ASSUME NEW x \in Train
                 PROVE  /\ drv'[x].trainId # <<>>
                        /\ drv'[x].todo \in Seq(Sends(Range(drv'[x].trainId)))
      BY DEF Members
    <3>1. CASE x = d
      BY <1>4, <3>1, DriversAfter DEF Noted
    <3>2. CASE x # d
      <4>1. drv'[x].trainId = drv[x].trainId
        BY <3>2, TailsStay DEF Place
      <4>2. drv[x].trainId # <<>> /\ drv[x].todo \in Seq(Sends(Members(x)))
        BY DEF GroupInv, Types
      <4>3. drv'[x].todo \in Seq(Sends(Members(x)))
        BY <3>2, <4>2, DriversAfter DEF Noted
      <4> QED BY <4>1, <4>2, <4>3 DEF Members
    <3> QED BY <3>1, <3>2
  <2>3. DOMAIN inbox' = Train
    BY DEF Reception, Delivered
  <2>4. \A x \in Train : inbox'[x] \in Seq(Letter(x))
    BY MailAfter
  <2>5. holds' \in [Train -> BOOLEAN]
    BY <1>4, <1>5
  <2> QED BY <1>2, <2>1, <2>2, <2>3, <2>4, <2>5 DEF Types
<1>7. OnlyHeadsReserve'
  <2> SUFFICES ASSUME NEW x \in Train, drv'[x].tailMode PROVE ~holds'[x]
    BY DEF OnlyHeadsReserve
  <2>1. CASE x = d
    BY <1>4, <1>5, <2>1, TailsStay DEF Place
  <2>2. CASE x # d
    BY <1>5, <2>2, TailsStay DEF Place, GroupInv, OnlyHeadsReserve
  <2> QED BY <2>1, <2>2
<1>8. WaitsForTail'
  <2> SUFFICES ASSUME NEW x \in Train, drv'[x].blocked
               PROVE  drv'[x].todo # <<>> /\ Head(drv'[x].todo).to # x
                      /\ Head(drv'[x].todo).kind # "answer"
    BY DEF WaitsForTail
  <2>1. x # d /\ ~Resumes(x, d, m, replied)
    BY <1>4, DriversAfter DEF Noted
  <2>2. drv'[x].todo = drv[x].todo /\ drv'[x].blocked = drv[x].blocked
    <3>1. Noted(drv[x], drv'[x])
      BY <2>1, DriversAfter
    <3> QED BY <3>1 DEF Noted
  <2> QED BY <2>2 DEF GroupInv, WaitsForTail
<1> QED BY <1>1, <1>2, <1>3, <1>6, <1>7, <1>8 DEF GroupInv

\* The message loop of the driver.
LEMMA ReceiveStep ==
  ASSUME GroupInv, NEW d \in Train, Receive(d)
  PROVE  GroupInv'
<1>1. PICK m : m = Head(inbox[d])
  OBVIOUS
<1> DEFINE c(e) == CASE Relays(d, m) -> "away"
                     [] m.kind = "courier" -> "home"
                     [] OTHER -> e.s.courier
<1> DEFINE S(e) == [e.s EXCEPT !.courier = c(e)]
<1>2. PICK e \in Handled(d, m) :
          /\ drv' = Woken([drv EXCEPT ![d] = S(e)], d, m, RepliesFirst(m.kind))
          /\ holds' = [holds EXCEPT ![d] = e.h]
  BY <1>1 DEF Receive
<1>3. /\ Receiving(d) /\ ~drv[d].finding /\ inbox[d] # <<>>
      /\ Delivered(d, m, Relays(d, m), AnswersClient(drv[d], m))
  BY <1>1 DEF Receive
<1>4. Outcome(d, m, e.s, e.h, RepliesFirst(m.kind))
  BY <1>1, <1>3, HandledOutcome
<1> DEFINE s == S(e)
<1>5. Outcome(d, m, s, e.h, RepliesFirst(m.kind))
  <2>1. Noted(e.s, s)
    <3>0. e.s \in Driver
      BY <1>4 DEF Outcome
    <3>1. c(e) \in {"home", "away"}
      <4>1. e.s.courier \in {"home", "away"}
        BY <3>0 DEF Driver
      <4> QED BY <4>1
    <3> HIDE DEF c
    <3>2. s \in Driver
      BY <3>0, <3>1 DEF Driver
    <3> QED BY <3>0, <3>2 DEF Noted, Driver
  <2> HIDE DEF s
  <2> QED BY <1>4, <2>1 DEF Outcome, Noted
<1>6. RepliesFirst(m.kind) \in BOOLEAN /\ AnswersClient(drv[d], m) \in BOOLEAN
  BY DEF RepliesFirst, AnswersClient
<1>7. Relays(d, m) => m.kind \in {"predict", "stopped"}
  BY DEF Relays
<1>8. AnswersClient(drv[d], m) = TRUE =>
         m.from \in Client /\ (m.kind = "merge_tail" => ~drv[d].tailMode /\ ~drv[d].finding)
  BY <1>3 DEF AnswersClient
<1>9. drv' = Woken([drv EXCEPT ![d] = s], d, m, RepliesFirst(m.kind))
  BY <1>2
<1> HIDE DEF s
<1>10. Reception(d, m, s, e.h, RepliesFirst(m.kind), Relays(d, m), AnswersClient(drv[d], m))
  BY <1>1, <1>2, <1>3, <1>5, <1>6, <1>7, <1>8, <1>9 DEF Reception
<1>11. PICK s0, h0, p0, r0, a0 : Reception(d, m, s0, h0, p0, r0, a0)
  BY <1>10
<1> QED BY <1>11, ReceptionStep

\* The loop that waits for the sensor of FIND_POSITION.
LEMMA FindReceiveStep ==
  ASSUME GroupInv, NEW d \in Train, FindReceive(d)
  PROVE  GroupInv'
<1>1. PICK m : m = Head(inbox[d])
  OBVIOUS
<1> DEFINE s == IF m.kind = "trigger"
                THEN [drv[d] EXCEPT !.finding = FALSE,
                         !.naggers = IF @ < MaxNaggers THEN @ + 1 ELSE @,
                         !.todo = <<Send(drv[d].trainId[1], "trigger", 0),
                                    Send(drv[d].trainId[1], "set_speed", 0)>>
                                  \o ToAll(drv[d], "report_info", 0)]
                ELSE drv[d]
<1> DEFINE answered == m.kind = "get_position"
<1>2. /\ Receiving(d) /\ drv[d].finding /\ inbox[d] # <<>>
      /\ drv' = Woken([drv EXCEPT ![d] = s], d, m, TRUE)
      /\ Delivered(d, m, FALSE, answered)
      /\ holds' = holds
  BY <1>1 DEF FindReceive
<1>3. Outcome(d, m, s, holds[d], TRUE)
  <2> HIDE DEF answered
  <2> QED BY <1>2, FoundOutcome
<1>4. holds' = [holds EXCEPT ![d] = holds[d]]
  BY <1>2 DEF GroupInv, Types
<1>5. /\ answered \in BOOLEAN
      /\ answered = TRUE =>
            m.from \in Client /\ (m.kind = "merge_tail" => ~drv[d].tailMode /\ ~drv[d].finding)
  <2>1. m \in Letter(d)
    BY <1>1, <1>2, Received
  <2> QED BY <2>1 DEF Letter, ReportKind, WorkKind, SendKind, UserLetters
<1> HIDE DEF s, answered
<1>6. Reception(d, m, s, holds[d], TRUE, FALSE, answered)
  BY <1>1, <1>2, <1>3, <1>4, <1>5 DEF Reception
<1>7. PICK s0, h0, p0, r0, a0 : Reception(d, m, s0, h0, p0, r0, a0)
  BY <1>6
<1> QED BY <1>7, ReceptionStep

\* The commands of a client, and the two halves of its merge.
LEMMA ClientStep ==
  ASSUME GroupInv, NEW c \in Client, Command(c) \/ DoTrainMerge(c) \/ TellHead(c)
  PROVE  GroupInv'
<1>1. CASE Command(c)
  <2>1. PICK d \in Train, kind \in UserKind, v \in Speed : Commands(c, d, kind, v)
    BY <1>1 DEF Command, UserKind, Speed
  <2>2. /\ Message(kind, v, c) \in UserLetters
        /\ \A t \in Train : Message(kind, v, c) \notin LeadOf(t)
    BY DEF Message, UserLetters, LeadOf, UserKind
  <2>3. client' = [client EXCEPT ![c] = [waits |-> TRUE, merge |-> <<>>]]
    BY <1>1 DEF Command, Ordered
  <2>4. \A head, tail \in Train : <<>> # <<head, tail>>
    OBVIOUS
  <2>5. Coming(c, d, kind, v, <<>>)
    BY <2>1, <2>2, <2>3, <2>4 DEF Coming
  <2> QED BY <2>1, <2>5, CommandsStep
<1>2. CASE DoTrainMerge(c)
  <2>1. PICK head \in Train, tail \in Train :
            Ordered(c, <<head, tail>>) /\ Commands(c, tail, "merge_tail", head)
    BY <1>2 DEF DoTrainMerge
  <2> DEFINE merge == <<head, tail>>
  <2>2. /\ Message("merge_tail", head, c) \in UserLetters
        /\ Message("merge_tail", head, c) \in FollowOf(head)
        /\ \A t \in Train : Message("merge_tail", head, c) \notin LeadOf(t)
    BY DEF Message, UserLetters, LeadOf, FollowOf
  <2>3. client' = [client EXCEPT ![c] = [waits |-> TRUE, merge |-> merge]]
    BY <2>1 DEF Ordered
  <2>4. /\ merge \in {<<>>} \cup (Train \X Train)
        /\ \A g, t \in Train : merge = <<g, t>> => tail = t /\ head = g
    OBVIOUS
  <2> HIDE DEF merge
  <2>5. Commands(c, tail, "merge_tail", head)
    BY <2>1
  <2>6. \A g, t \in Train :
            merge = <<g, t>> => tail = t /\ Message("merge_tail", head, c) \in FollowOf(g)
    BY <2>2, <2>4
  <2>7. Coming(c, tail, "merge_tail", head, merge)
    BY <2>2, <2>3, <2>5, <2>6 DEF Coming
  <2> QED BY <2>4, <2>7, CommandsStep
<1>3. CASE TellHead(c)
  <2>1. /\ client[c].merge # <<>> /\ ~client[c].waits
        /\ Commands(c, client[c].merge[1], "merge_head", client[c].merge[2])
        /\ client' = [client EXCEPT ![c] = [waits |-> TRUE, merge |-> <<>>]]
    BY <1>3 DEF TellHead, Commands
  <2>2. client[c].merge \in Train \X Train
    BY <2>1 DEF GroupInv, Types
  <2>3. PICK head \in Train, tail \in Train : client[c].merge = <<head, tail>>
    BY <2>2
  <2>4. drv[tail].tailMode /\ drv[tail].headTid = head
    BY <2>1, <2>3 DEF GroupInv, HeadsToldLast
  <2>5. Commands(c, head, "merge_head", tail)
    BY <2>1, <2>3
  <2>6. /\ Message("merge_head", tail, c) \in UserLetters
        /\ \A t \in Train : Message("merge_head", tail, c) \in LeadOf(t) => t = tail
    BY DEF Message, UserLetters, LeadOf
  <2>7. \A g, t \in Train : <<>> # <<g, t>>
    OBVIOUS
  <2>8. Coming(c, head, "merge_head", tail, <<>>)
    BY <2>1, <2>4, <2>5, <2>6, <2>7 DEF Coming
  <2> QED BY <2>8, CommandsStep
<1> QED BY <1>1, <1>2, <1>3

\* Nothing happens.
LEMMA StutterStep ==
  ASSUME GroupInv, UNCHANGED vars
  PROVE  GroupInv'
<1>1. drv' = drv /\ inbox' = inbox /\ holds' = holds /\ client' = client
  BY DEF vars
<1>2. \A x \in Train : Place(drv[x], drv'[x])
  BY <1>1 DEF Place
<1>3. MembersAreTails' /\ NoLeaderCircle' /\ \A x \in Train : Members(x)' = Members(x)
  BY <1>2, GroupsStay
<1>4. OneCommand' /\ HeadsToldLast'
  BY <1>1, <1>2, CommandsStay
<1>5. Types'
  BY <1>1, <1>3 DEF GroupInv, Types
<1>6. AllOwed'
  <2> SUFFICES ASSUME NEW t \in Train, NEW f \in Train, t # f PROVE Owed(t, f)'
    BY DEF AllOwed
  <2>1. WaitsFor(f, t)' <=> WaitsFor(f, t)
    BY <1>1 DEF WaitsFor
  <2> QED BY <1>1, <2>1, MailSame, OwedStays
<1>7. OnlyHeadsReserve' /\ WaitsForTail' /\ NoAnswerToItself'
  BY <1>1 DEF GroupInv, OnlyHeadsReserve, WaitsForTail, NoAnswerToItself
<1> QED BY <1>3, <1>4, <1>5, <1>6, <1>7 DEF GroupInv

\* The invariant holds in every state of the drivers.
THEOREM GroupInvariant == Spec => []GroupInv
<1>1. Init => GroupInv
  BY InitEstablishes
<1>2. GroupInv /\ [Next]_vars => GroupInv'
  <2> SUFFICES ASSUME GroupInv, [Next]_vars PROVE GroupInv'
    OBVIOUS
  <2>1. ASSUME NEW d \in Train, Sensor(d) \/ Nag(d) PROVE GroupInv'
    <3>1. PICK kind \in WorkKind : Works(d, Message(kind, 0, d))
      BY <2>1 DEF Sensor, Nag, WorkKind
    <3> QED BY <3>1, WorksStep
  <2>2. ASSUME NEW d \in Train, Step(d) PROVE GroupInv'
    BY <2>1, <2>2, StopDelayerStep, SendOwnStep, SendTailStep, AnswerStep, LateAnswerStep,
       ReceiveStep, FindReceiveStep
       DEF Step
  <2>3. ASSUME NEW c \in Client, Command(c) \/ DoTrainMerge(c) \/ TellHead(c) PROVE GroupInv'
    BY <2>3, ClientStep
  <2>4. CASE UNCHANGED vars
    BY <2>4, StutterStep
  <2> QED BY <2>2, <2>3, <2>4 DEF Next
<1> QED BY <1>1, <1>2, PTL DEF Spec

\* A train in the group of another driver is the tail of that one and no other,
\* with nothing reserved in its own name, also when several clients merge trains
\* at the same time.
THEOREM MembersAlwaysFollow == Spec => []MembersFollow
<1>1. GroupInv => MembersFollow
  BY InvImpliesFollow
<1> QED BY <1>1, GroupInvariant, PTL

\* A driver that is blocked in Send has its message in the inbox of the other,
\* or that one has still an answer for it: no branch of the message loop leaves a
\* head blocked for good, and a second answer that comes late takes none away.
THEOREM SendsAreAnswered == Spec => []SendsAreOwed
<1>1. GroupInv => SendsAreOwed
  BY InvImpliesOwed
<1> QED BY <1>1, GroupInvariant, PTL

\* No drivers wait for each other in a circle, however the halves of merges of
\* several clients come to the drivers.
THEOREM NobodyWaitsInACircle == Spec => []NoCircularWait
<1>1. GroupInv => NoCircularWait
  BY InvImpliesNoCircle
<1> QED BY <1>1, GroupInvariant, PTL

=============================================================================
