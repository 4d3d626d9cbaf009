-------------------------- MODULE TimeServerProofs --------------------------
(***************************************************************************)
(* The time server is right for any clients, any number of slots and any   *)
(* number of ticks: its list is sorted and nobody in it is overdue, every  *)
(* blocked client is in exactly one place and so is every slot, the list   *)
(* overflows only when as many clients wait as there are slots, and where  *)
(* no wake-up time can wrap around nobody is woken early.                  *)
(***************************************************************************)
EXTENDS TimeServer, TLAPS, SequenceTheorems, FiniteSetTheorems,
        WellFoundedInduction

TickMessage == [tid |-> notifierId, kind |-> "tick", ticks |-> 0]
DelayMessage == [tid : Client, kind : {"delay", "until"}, ticks : Ticks]
RequestMessage == DelayMessage \cup [tid : Client, kind : {"time"}, ticks : {0}]
Message == RequestMessage \cup {TickMessage}

DelayEntry == [tid : Client, slot : 1 .. Slots, time : Nat, due : Int]

\* At most one element of the sequence q belongs to any one task.
Once(q) == \A i, j \in DOMAIN q : q[i].tid = q[j].tid => i = j

\* Task c has an element in the sequence q.
Has(q, c) == \E i \in DOMAIN q : q[i].tid = c

Sorted(list) == \A i, j \in DOMAIN list : i < j => list[i].time <= list[j].time

\* The list and what the clients wait for agree.
ListFits(list, cl) ==
  /\ list \in Seq(DelayEntry)
  /\ cl \in [Client -> {"free", "send", "delayed"}]
  /\ Sorted(list) /\ Once(list)
  /\ \A c \in Client : cl[c] = "delayed" <=> Has(list, c)

\* No element of the sequence repeats.
Distinct(q) == \A i, j \in DOMAIN q : q[i] = q[j] => i = j

\* Each slot is free or holds an entry of the list.
PoolFits(list, slots) ==
  /\ slots \in Seq(1 .. Slots)
  /\ Len(slots) + Len(list) = Slots
  /\ Distinct(slots)
  /\ \A i, j \in DOMAIN list : list[i].slot = list[j].slot => i = j
  /\ \A i \in DOMAIN slots, j \in DOMAIN list : slots[i] # list[j].slot

\* The inbox, the notifier and the clients agree.
InboxFits(box, nt, cl) ==
  /\ box \in Seq(Message)
  /\ Once(box)
  /\ nt = "send" <=> Has(box, notifierId)
  /\ \A c \in Client : cl[c] = "send" <=> Has(box, c)

\* The inductive invariant.
TimeInv ==
  /\ numTick \in Nat
  /\ notifier \in {"ready", "await", "send"}
  /\ full \in BOOLEAN
  /\ ListFits(tasks, client)
  /\ InboxFits(inbox, notifier, client)
  /\ \A i \in DOMAIN tasks : tasks[i].time > numTick
  /\ PoolFits(tasks, taskSlots)

\* Where no wake-up time wraps around: the times are the ticks asked for.
UnwrappedInv ==
  /\ numTick <= LastTick
  /\ notifier = "send" => numTick < LastTick
  /\ \A i \in DOMAIN tasks : tasks[i].due <= tasks[i].time

Unwrapped == \A n \in Ticks : LastTick + n < Wrap

-----------------------------------------------------------------------------
(* The walks along the list.                                               *)

\* Every non-empty set of naturals has a least element.
LEMMA LeastNatural ==
  ASSUME NEW B \in SUBSET Nat, B # {}
  PROVE  \E k \in B : \A m \in B : k <= m
<1>1. PICK k \in B : \A m \in B : ~(<<m, k>> \in OpToRel(<, Nat))
  BY WFMin, NatLessThanWellFounded
<1>2. \A m \in B : ~(m < k)
  BY <1>1 DEF OpToRel
<1> QED BY <1>2

\* What the entries of a list are.
LEMMA Entries ==
  ASSUME NEW list \in Seq(DelayEntry)
  PROVE  /\ Len(list) \in Nat /\ DOMAIN list = 1 .. Len(list)
         /\ \A i \in 1 .. Len(list) : /\ list[i] \in DelayEntry
                                      /\ list[i].tid \in Client
                                      /\ list[i].time \in Nat
                                      /\ list[i].due \in Int
                                      /\ list[i].slot \in 1 .. Slots
<1>1. /\ Len(list) \in Nat /\ DOMAIN list = 1 .. Len(list)
      /\ \A i \in 1 .. Len(list) : list[i] \in DelayEntry
  OBVIOUS
<1>2. \A e \in DelayEntry : /\ e.tid \in Client /\ e.time \in Nat
                            /\ e.due \in Int /\ e.slot \in 1 .. Slots
  BY DEF DelayEntry
<1> QED BY <1>1, <1>2

\* The walk stops where it should, whatever the list.
LEMMA WalkStops ==
  ASSUME NEW list \in Seq(DelayEntry), NEW t \in Int
  PROVE  /\ Earlier(list, t) \in 0 .. Len(list)
         /\ \A i \in 1 .. Earlier(list, t) : list[i].time < t
         /\ Earlier(list, t) < Len(list) => list[Earlier(list, t) + 1].time >= t
<1> DEFINE P(n) == /\ \A i \in 1 .. n : list[i].time < t
                   /\ n < Len(list) => list[n + 1].time >= t
           B == {k \in Nat : k \in 1 .. Len(list) /\ list[k].time >= t}
<1>0. /\ Len(list) \in Nat
      /\ \A i \in 1 .. Len(list) : list[i].time \in Nat
  BY Entries
<1>1. \E n \in 0 .. Len(list) : P(n)
  <2>1. CASE B = {}
    <3>1. \A i \in 1 .. Len(list) : list[i].time < t
      BY <1>0, <2>1
    <3>2. P(Len(list)) /\ Len(list) \in 0 .. Len(list)
      BY <1>0, <3>1
    <3> QED BY <3>2
  <2>2. CASE B # {}
    <3>1. B \in SUBSET Nat
      OBVIOUS
    <3>2. PICK k \in B : \A m \in B : k <= m
      <4> HIDE DEF B
      <4> QED BY <2>2, <3>1, LeastNatural
    <3>3. k - 1 \in 0 .. Len(list) /\ k - 1 + 1 = k /\ list[k].time >= t
      BY <3>2
    <3>4. \A i \in 1 .. k - 1 : list[i].time < t
      BY <1>0, <3>2
    <3>5. P(k - 1)
      BY <3>3, <3>4
    <3> QED BY <3>3, <3>5
  <2> QED BY <2>1, <2>2
<1>2. Earlier(list, t) = CHOOSE n \in 0 .. Len(list) : P(n)
  BY DEF Earlier
<1> HIDE DEF P
<1>3. Earlier(list, t) \in 0 .. Len(list) /\ P(Earlier(list, t))
  BY <1>1, <1>2
<1> QED BY <1>3 DEF P

\* A sorted list holds nothing earlier behind the place where a walk stops.
LEMMA WalkSplits ==
  ASSUME NEW list \in Seq(DelayEntry), NEW t \in Int, Sorted(list)
  PROVE  \A i \in 1 .. Len(list) : i > Earlier(list, t) => list[i].time >= t
<1> DEFINE n == Earlier(list, t)
<1>1. n \in 0 .. Len(list) /\ (n < Len(list) => list[n + 1].time >= t)
  BY WalkStops
<1>2. \A i \in 1 .. Len(list) : list[i].time \in Nat
  BY Entries
<1> HIDE DEF n
<1>3. ASSUME NEW i \in 1 .. Len(list), i > n
      PROVE  list[i].time >= t
  <2>1. n + 1 \in 1 .. Len(list) /\ n < Len(list)
    BY <1>1, <1>3
  <2>2. list[n + 1].time <= list[i].time
    <3>1. CASE i = n + 1
      BY <1>2, <3>1
    <3>2. CASE i # n + 1
      <4>1. n + 1 < i /\ i \in DOMAIN list /\ n + 1 \in DOMAIN list
        BY <1>1, <1>3, <2>1, <3>2
      <4> QED BY <4>1 DEF Sorted
    <3> QED BY <3>1, <3>2
  <2> QED BY <1>1, <1>2, <2>1, <2>2
<1> QED BY <1>3 DEF n

\* What Insert returns.
LEMMA InsertIs ==
  ASSUME NEW list \in Seq(DelayEntry), NEW e \in DelayEntry
  PROVE  LET n == Earlier(list, e.time) IN
           /\ n \in 0 .. Len(list)
           /\ Insert(list, e) \in Seq(DelayEntry)
           /\ Len(Insert(list, e)) = Len(list) + 1
           /\ \A i \in 1 .. Len(list) + 1 :
                Insert(list, e)[i] = IF i <= n THEN list[i] ELSE
                                     IF i = n + 1 THEN e ELSE list[i - 1]
<1> DEFINE n == Earlier(list, e.time)
<1>0. e.time \in Int
  BY DEF DelayEntry
<1>1. n \in 0 .. Len(list)
  BY <1>0, WalkStops
<1>2. Insert(list, e) = SubSeq(list, 1, n) \o <<e>> \o SubSeq(list, n + 1, Len(list))
  BY DEF Insert
<1> HIDE DEF n
<1> DEFINE a == SubSeq(list, 1, n)
           b == SubSeq(list, n + 1, Len(list))
<1>3. /\ a \in Seq(DelayEntry) /\ Len(a) = n /\ \A i \in 1 .. n : a[i] = list[i]
      /\ b \in Seq(DelayEntry) /\ Len(b) = Len(list) - n
      /\ \A i \in 1 .. Len(list) - n : b[i] = list[n + i]
  BY <1>1
<1> HIDE DEF a, b
<1>4. /\ a \o <<e>> \in Seq(DelayEntry) /\ Len(a \o <<e>>) = n + 1
      /\ \A i \in 1 .. n + 1 : (a \o <<e>>)[i] = IF i <= n THEN list[i] ELSE e
  BY <1>1, <1>3
<1> DEFINE d == a \o <<e>>
<1> HIDE DEF d
<1>5. /\ d \o b \in Seq(DelayEntry) /\ Len(d \o b) = Len(list) + 1
      /\ \A i \in 1 .. Len(list) + 1 :
           (d \o b)[i] = IF i <= n + 1 THEN d[i] ELSE b[i - (n + 1)]
  BY <1>1, <1>3, <1>4 DEF d
<1>6. ASSUME NEW i \in 1 .. Len(list) + 1, i > n + 1
      PROVE  b[i - (n + 1)] = list[i - 1]
  <2>1. i - (n + 1) \in 1 .. Len(list) - n /\ n + (i - (n + 1)) = i - 1
    BY <1>1, <1>6
  <2> QED BY <1>3, <2>1
<1>7. Insert(list, e) = d \o b
  BY <1>2 DEF a, b, d
<1>8. \A i \in 1 .. Len(list) + 1 :
        Insert(list, e)[i] = IF i <= n THEN list[i] ELSE
                             IF i = n + 1 THEN e ELSE list[i - 1]
  BY <1>1, <1>4, <1>5, <1>6, <1>7 DEF d
<1> QED BY <1>1, <1>5, <1>7, <1>8 DEF n

\* A new entry keeps the list sorted, and its client is now in it.
LEMMA InsertFits ==
  ASSUME NEW list, NEW cl, ListFits(list, cl),
         NEW e \in DelayEntry, cl[e.tid] # "delayed"
  PROVE  /\ ListFits(Insert(list, e), [cl EXCEPT ![e.tid] = "delayed"])
         /\ Len(Insert(list, e)) = Len(list) + 1
         /\ \A i \in 1 .. Len(list) + 1 :
              Insert(list, e)[i] = e \/ \E j \in 1 .. Len(list) : Insert(list, e)[i] = list[j]
<1> DEFINE n == Earlier(list, e.time)
           q == Insert(list, e)
<1>1. /\ list \in Seq(DelayEntry) /\ Len(list) \in Nat
      /\ DOMAIN list = 1 .. Len(list) /\ cl \in [Client -> {"free", "send", "delayed"}]
      /\ e.tid \in Client /\ e.time \in Nat
  BY Entries DEF ListFits, DelayEntry
<1>2. /\ n \in 0 .. Len(list)
      /\ \A i \in 1 .. n : list[i].time < e.time
      /\ \A i \in 1 .. Len(list) : i > n => list[i].time >= e.time
  <2>1. Sorted(list) /\ e.time \in Int
    BY <1>1 DEF ListFits
  <2>2. n \in 0 .. Len(list) /\ \A i \in 1 .. n : list[i].time < e.time
    BY <1>1, <2>1, WalkStops
  <2>3. \A i \in 1 .. Len(list) : i > n => list[i].time >= e.time
    BY <1>1, <2>1, WalkSplits
  <2> QED BY <2>2, <2>3
<1>3. /\ q \in Seq(DelayEntry) /\ Len(q) = Len(list) + 1
      /\ \A i \in 1 .. Len(list) + 1 :
           q[i] = IF i <= n THEN list[i] ELSE IF i = n + 1 THEN e ELSE list[i - 1]
  BY <1>1, InsertIs
<1> HIDE DEF n, q
<1> DEFINE At(i) == IF i <= n THEN i ELSE i - 1
<1>4. ASSUME NEW i \in 1 .. Len(list) + 1
      PROVE  \/ i = n + 1 /\ q[i] = e
             \/ i # n + 1 /\ At(i) \in 1 .. Len(list) /\ q[i] = list[At(i)]
  BY <1>1, <1>2, <1>3
<1>5. /\ n + 1 \in 1 .. Len(list) + 1
      /\ \A k \in 1 .. Len(list) :
           LET i == IF k <= n THEN k ELSE k + 1 IN i \in 1 .. Len(list) + 1 /\ q[i] = list[k]
  BY <1>1, <1>2, <1>3
<1>6. Sorted(q)
  <2> SUFFICES ASSUME NEW i \in 1 .. Len(list) + 1, NEW j \in 1 .. Len(list) + 1, i < j
               PROVE  q[i].time <= q[j].time
    BY <1>3 DEF Sorted
  <2>0. \A k \in 1 .. Len(list) : list[k].time \in Nat
    BY <1>1, Entries
  <2>1. CASE i = n + 1
    <3>1. At(j) \in 1 .. Len(list) /\ At(j) > n /\ q[j] = list[At(j)] /\ q[i] = e
      BY <1>2, <1>4, <2>1
    <3> QED BY <1>1, <1>2, <2>0, <3>1
  <2>2. CASE j = n + 1
    <3>1. At(i) \in 1 .. n /\ At(i) \in 1 .. Len(list) /\ q[i] = list[At(i)] /\ q[j] = e
      BY <1>2, <1>4, <2>2
    <3> QED BY <1>1, <1>2, <2>0, <3>1
  <2>3. CASE i # n + 1 /\ j # n + 1
    <3>1. At(i) \in DOMAIN list /\ At(j) \in DOMAIN list /\ At(i) < At(j)
          /\ q[i] = list[At(i)] /\ q[j] = list[At(j)]
      BY <1>1, <1>2, <1>4, <2>3
    <3> HIDE DEF At
    <3> QED BY <3>1 DEF ListFits, Sorted
  <2> QED BY <2>1, <2>2, <2>3
<1>7. Once(q)
  <2> SUFFICES ASSUME NEW i \in 1 .. Len(list) + 1, NEW j \in 1 .. Len(list) + 1,
                      q[i].tid = q[j].tid
               PROVE  i = j
    BY <1>3 DEF Once
  <2>1. \A k \in 1 .. Len(list) : list[k].tid # e.tid
    BY <1>1 DEF ListFits, Has
  <2>2. CASE i = n + 1 \/ j = n + 1
    BY <1>4, <2>1, <2>2
  <2>3. CASE i # n + 1 /\ j # n + 1
    <3>1. At(i) \in DOMAIN list /\ At(j) \in DOMAIN list
          /\ q[i] = list[At(i)] /\ q[j] = list[At(j)]
      BY <1>1, <1>4, <2>3
    <3>2. At(i) = At(j)
      <4> HIDE DEF At
      <4> QED BY <3>1 DEF ListFits, Once
    <3> QED BY <1>2, <2>3, <3>2
  <2> QED BY <2>2, <2>3
<1>8. ASSUME NEW c \in Client
      PROVE  [cl EXCEPT ![e.tid] = "delayed"][c] = "delayed" <=> Has(q, c)
  <2>1. Has(q, c) <=> c = e.tid \/ Has(list, c)
    <3>1. Has(q, c) => c = e.tid \/ Has(list, c)
      <4> HIDE DEF At
      <4> QED BY <1>1, <1>3, <1>4 DEF Has
    <3>2. Has(list, c) => Has(q, c)
      BY <1>1, <1>3, <1>5 DEF Has
    <3>3. c = e.tid => Has(q, c)
      BY <1>3, <1>4, <1>5 DEF Has
    <3> QED BY <3>1, <3>2, <3>3
  <2> QED BY <1>1, <2>1 DEF ListFits
<1>9. [cl EXCEPT ![e.tid] = "delayed"] \in [Client -> {"free", "send", "delayed"}]
  BY <1>1
<1>10. \A i \in 1 .. Len(list) + 1 : q[i] = e \/ \E j \in 1 .. Len(list) : q[i] = list[j]
  <2> HIDE DEF At
  <2> QED BY <1>4
<1> QED BY <1>3, <1>6, <1>7, <1>8, <1>9, <1>10 DEF ListFits, q

\* The last part of a turn takes a first part of the list, the tasks due.
LEMMA ReplySplits ==
  ASSUME NEW list, NEW cl, NEW slots, NEW now, now \in Int, ListFits(list, cl),
         ReplyDue(list, now, cl, slots)
  PROVE  \E n \in 0 .. Len(list) :
           /\ \A i \in 1 .. n : list[i].time < now + 1
           /\ \A i \in 1 .. Len(list) : i > n => list[i].time >= now + 1
           /\ Len(DueNow(list, now)) = n /\ DOMAIN DueNow(list, now) = 1 .. n
           /\ \A i \in 1 .. n : DueNow(list, now)[i] = list[i]
           /\ tasks' \in Seq(DelayEntry) /\ Len(tasks') = Len(list) - n
           /\ DOMAIN tasks' = 1 .. Len(list) - n
           /\ \A i \in 1 .. Len(list) - n : tasks'[i] = list[i + n] /\ i + n \in 1 .. Len(list)
<1> DEFINE n == Earlier(list, now + 1)
<1>1. /\ list \in Seq(DelayEntry) /\ Len(list) \in Nat
      /\ DOMAIN list = 1 .. Len(list) /\ cl \in [Client -> {"free", "send", "delayed"}]
      /\ \A i \in 1 .. Len(list) : list[i].time \in Nat
  BY Entries DEF ListFits
<1>2. /\ n \in 0 .. Len(list)
      /\ \A i \in 1 .. n : list[i].time < now + 1
      /\ \A i \in 1 .. Len(list) : i > n => list[i].time >= now + 1
  <2>1. now + 1 \in Int
    OBVIOUS
  <2> QED BY <1>1, <2>1, WalkStops, WalkSplits DEF ListFits
<1>3. DueNow(list, now) = SubSeq(list, 1, n)
  BY DEF DueNow
<1> HIDE DEF n
<1>4. /\ Len(DueNow(list, now)) = n /\ DOMAIN DueNow(list, now) = 1 .. n
      /\ \A i \in 1 .. n : DueNow(list, now)[i] = list[i]
  BY <1>1, <1>2, <1>3
<1>5. tasks' = SubSeq(list, n + 1, Len(list))
  BY <1>4 DEF ReplyDue, DueLater
<1>6. /\ tasks' \in Seq(DelayEntry) /\ Len(tasks') = Len(list) - n
      /\ DOMAIN tasks' = 1 .. Len(list) - n
      /\ \A i \in 1 .. Len(list) - n : tasks'[i] = list[i + n] /\ i + n \in 1 .. Len(list)
  <2>0. /\ n + 1 \in Int /\ Len(list) \in Int
        /\ \A i \in n + 1 .. Len(list) : list[i] \in DelayEntry
        /\ Len(list) - n = IF n + 1 <= Len(list) THEN Len(list) - (n + 1) + 1 ELSE 0
    <3>1. n + 1 \in Int /\ Len(list) \in Int /\ \A i \in n + 1 .. Len(list) : i \in 1 .. Len(list)
      BY <1>1, <1>2
    <3>2. Len(list) - n = IF n + 1 <= Len(list) THEN Len(list) - (n + 1) + 1 ELSE 0
      <4>1. n \in Int /\ Len(list) \in Int /\ n <= Len(list)
        BY <1>1, <1>2
      <4>2. CASE n + 1 <= Len(list)
        BY <4>1, <4>2
      <4>3. CASE ~(n + 1 <= Len(list))
        BY <4>1, <4>3
      <4> QED BY <4>2, <4>3
    <3>3. \A i \in 1 .. Len(list) : list[i] \in DelayEntry
      BY <1>1, Entries
    <3> QED BY <3>1, <3>2, <3>3
  <2>1. tasks' \in Seq(DelayEntry) /\ Len(tasks') = Len(list) - n
    BY <1>5, <2>0, SubSeqProperties
  <2>2. ASSUME NEW i \in 1 .. Len(list) - n
        PROVE  tasks'[i] = list[i + n] /\ i + n \in 1 .. Len(list)
    <3>1. n + 1 + i - 1 = i + n /\ i + n \in 1 .. Len(list)
      BY <1>1, <1>2
    <3>2. tasks'[i] = list[n + 1 + i - 1]
      BY <1>1, <1>2, <1>5
    <3> QED BY <3>1, <3>2
  <2> QED BY <2>1, <2>2
<1> QED BY <1>2, <1>4, <1>6

\* It answers exactly the tasks that are due.
LEMMA ReplyFits ==
  ASSUME NEW list, NEW cl, NEW slots, NEW now, now \in Int, ListFits(list, cl),
         ReplyDue(list, now, cl, slots)
  PROVE  /\ ListFits(tasks', client')
         /\ Len(tasks') <= Len(list)
         /\ \A i \in DOMAIN tasks' : tasks'[i].time > now /\ \E j \in DOMAIN list : tasks'[i] = list[j]
         /\ \A c \in Client : client'[c] # cl[c] =>
              /\ cl[c] = "delayed" /\ client'[c] = "free"
              /\ \E i \in DOMAIN list : list[i].tid = c /\ list[i].time <= now
<1>1. /\ list \in Seq(DelayEntry) /\ Len(list) \in Nat
      /\ DOMAIN list = 1 .. Len(list) /\ cl \in [Client -> {"free", "send", "delayed"}]
      /\ \A i \in 1 .. Len(list) : list[i].time \in Nat
  BY Entries DEF ListFits
<1>2. PICK n \in 0 .. Len(list) :
        /\ \A i \in 1 .. n : list[i].time < now + 1
        /\ \A i \in 1 .. Len(list) : i > n => list[i].time >= now + 1
        /\ Len(DueNow(list, now)) = n /\ DOMAIN DueNow(list, now) = 1 .. n
        /\ \A i \in 1 .. n : DueNow(list, now)[i] = list[i]
        /\ tasks' \in Seq(DelayEntry) /\ Len(tasks') = Len(list) - n
        /\ DOMAIN tasks' = 1 .. Len(list) - n
        /\ \A i \in 1 .. Len(list) - n : tasks'[i] = list[i + n] /\ i + n \in 1 .. Len(list)
  BY ReplySplits
<1>4. /\ Len(DueNow(list, now)) = n /\ DOMAIN DueNow(list, now) = 1 .. n
      /\ \A i \in 1 .. n : DueNow(list, now)[i] = list[i]
  BY <1>2
<1>6. /\ tasks' \in Seq(DelayEntry) /\ Len(tasks') = Len(list) - n
      /\ DOMAIN tasks' = 1 .. Len(list) - n
      /\ \A i \in 1 .. Len(list) - n : tasks'[i] = list[i + n] /\ i + n \in 1 .. Len(list)
  BY <1>2
<1>7. \A c \in Client : client'[c] = IF \E i \in 1 .. n : list[i].tid = c THEN "free" ELSE cl[c]
  BY <1>4 DEF ReplyDue
<1>8. client' \in [Client -> {"free", "send", "delayed"}]
  BY <1>1 DEF ReplyDue
<1>9. Sorted(tasks')
  <2> SUFFICES ASSUME NEW i \in 1 .. Len(list) - n, NEW j \in 1 .. Len(list) - n, i < j
               PROVE  tasks'[i].time <= tasks'[j].time
    BY <1>6 DEF Sorted
  <2>1. i + n < j + n
    BY <1>2
  <2> QED BY <1>1, <1>6, <2>1 DEF ListFits, Sorted
<1>10. Once(tasks')
  <2> SUFFICES ASSUME NEW i \in 1 .. Len(list) - n, NEW j \in 1 .. Len(list) - n,
                      tasks'[i].tid = tasks'[j].tid
               PROVE  i = j
    BY <1>6 DEF Once
  <2>0. i + n \in DOMAIN list /\ j + n \in DOMAIN list /\ list[i + n].tid = list[j + n].tid
    BY <1>1, <1>6
  <2>1. i + n = j + n
    BY <2>0 DEF ListFits, Once
  <2> QED BY <1>2, <2>1
<1>11. ASSUME NEW c \in Client
       PROVE  client'[c] = "delayed" <=> Has(tasks', c)
  <2>1. CASE \E i \in 1 .. n : list[i].tid = c
    <3>1. PICK i \in 1 .. n : list[i].tid = c
      BY <2>1
    <3>2. client'[c] = "free"
      BY <1>7, <2>1
    <3>3. ASSUME NEW j \in 1 .. Len(list) - n, tasks'[j].tid = c PROVE FALSE
      <4>1. j + n \in DOMAIN list /\ i \in DOMAIN list /\ list[j + n].tid = list[i].tid
        BY <1>1, <1>2, <1>6, <3>1, <3>3
      <4>1a. j + n = i
        BY <4>1 DEF ListFits, Once
      <4> QED BY <1>2, <4>1a
    <3> QED BY <1>6, <3>2, <3>3 DEF Has
  <2>2. CASE ~ \E i \in 1 .. n : list[i].tid = c
    <3>1. client'[c] = "delayed" <=> Has(list, c)
      BY <1>7, <2>2 DEF ListFits
    <3>2. Has(tasks', c) => Has(list, c)
      BY <1>1, <1>6 DEF Has
    <3>3. ASSUME NEW i \in 1 .. Len(list), list[i].tid = c PROVE Has(tasks', c)
      <4>1. i - n \in 1 .. Len(list) - n /\ i - n + n = i
        BY <1>2, <2>2, <3>3
      <4> QED BY <1>6, <3>3, <4>1 DEF Has
    <3> QED BY <1>1, <3>1, <3>2, <3>3 DEF Has
  <2> QED BY <2>1, <2>2
<1>12. ASSUME NEW c \in Client, client'[c] # cl[c]
       PROVE  /\ cl[c] = "delayed" /\ client'[c] = "free"
              /\ \E i \in DOMAIN list : list[i].tid = c /\ list[i].time <= now
  <2>1. PICK i \in 1 .. n : list[i].tid = c
    BY <1>7, <1>12
  <2>2. client'[c] = "free" /\ i \in DOMAIN list /\ list[i].time <= now
    BY <1>1, <1>2, <1>7, <2>1
  <2>3. Has(list, c)
    BY <2>1, <2>2 DEF Has
  <2> QED BY <2>1, <2>2, <2>3 DEF ListFits
<1>13. ASSUME NEW i \in DOMAIN tasks'
       PROVE  tasks'[i].time > now /\ \E j \in DOMAIN list : tasks'[i] = list[j]
  <2>1. i \in 1 .. Len(list) - n /\ i + n > n
    BY <1>2, <1>6
  <2>2. tasks'[i] = list[i + n] /\ i + n \in 1 .. Len(list)
    BY <1>6, <2>1
  <2>3. list[i + n].time >= now + 1 /\ list[i + n].time \in Nat
    BY <1>1, <1>2, <2>1, <2>2
  <2>4. list[i + n].time > now
    BY <2>3
  <2> QED BY <1>1, <2>2, <2>4
<1>14. Len(tasks') <= Len(list)
  BY <1>1, <1>2, <1>6
<1> QED BY <1>6, <1>8, <1>9, <1>10, <1>11, <1>12, <1>13, <1>14 DEF ListFits

-----------------------------------------------------------------------------
(* The slots.                                                              *)

LEMMA Sums ==
  ASSUME NEW a \in Int, NEW b \in Int, NEW k \in Int
  PROVE  (k + a) + (b - k) = a + b
OBVIOUS

\* What two sequences one after the other are.
LEMMA ConcatIs ==
  ASSUME NEW S, NEW a \in Seq(S), NEW b \in Seq(S)
  PROVE  /\ Len(b) \in Nat /\ DOMAIN b = 1 .. Len(b) /\ \A i \in 1 .. Len(b) : b[i] \in S
         /\ a \o b \in Seq(S) /\ Len(a \o b) = Len(a) + Len(b)
         /\ DOMAIN (a \o b) = 1 .. Len(a) + Len(b)
         /\ \A i \in 1 .. Len(a) + Len(b) : (a \o b)[i] = IF i <= Len(a) THEN a[i] ELSE b[i - Len(a)]
OBVIOUS

\* A request takes the slot on top of the stack.
LEMMA InsertPool ==
  ASSUME NEW list \in Seq(DelayEntry), NEW e \in DelayEntry,
         NEW slots, PoolFits(list, slots), slots # <<>>, e.slot = Head(slots)
  PROVE  PoolFits(Insert(list, e), Tail(slots))
<1> DEFINE q == Insert(list, e)
           n == Earlier(list, e.time)
           rest == Tail(slots)
           At(i) == IF i <= n THEN i ELSE i - 1
<1>1. /\ slots \in Seq(1 .. Slots) /\ Len(slots) \in Nat /\ Len(slots) >= 1
      /\ DOMAIN slots = 1 .. Len(slots) /\ Head(slots) = slots[1]
      /\ rest \in Seq(1 .. Slots) /\ Len(rest) = Len(slots) - 1 /\ DOMAIN rest = 1 .. Len(slots) - 1
      /\ \A i \in 1 .. Len(slots) - 1 : rest[i] = slots[i + 1]
  BY DEF PoolFits
<1>2. /\ Len(list) \in Nat /\ DOMAIN list = 1 .. Len(list) /\ n \in 0 .. Len(list)
      /\ q \in Seq(DelayEntry) /\ Len(q) = Len(list) + 1 /\ DOMAIN q = 1 .. Len(list) + 1
      /\ \A i \in 1 .. Len(list) + 1 :
           q[i] = IF i <= n THEN list[i] ELSE IF i = n + 1 THEN e ELSE list[i - 1]
  <2>1. /\ n \in 0 .. Len(list) /\ q \in Seq(DelayEntry) /\ Len(q) = Len(list) + 1
        /\ \A i \in 1 .. Len(list) + 1 :
             q[i] = IF i <= n THEN list[i] ELSE IF i = n + 1 THEN e ELSE list[i - 1]
    BY InsertIs
  <2> HIDE DEF q, n
  <2> QED BY <2>1
<1> HIDE DEF q, n, rest
<1>3. ASSUME NEW i \in 1 .. Len(list) + 1
      PROVE  \/ i = n + 1 /\ q[i] = e
             \/ i # n + 1 /\ At(i) \in DOMAIN list /\ q[i] = list[At(i)]
  BY <1>2
<1>4. ASSUME NEW i \in DOMAIN q, NEW j \in DOMAIN q, q[i].slot = q[j].slot
      PROVE  i = j
  <2>1. \A k \in DOMAIN list : list[k].slot # slots[1]
    <3>1. 1 \in DOMAIN slots
      BY <1>1
    <3>2. \A k \in DOMAIN slots, l \in DOMAIN list : slots[k] # list[l].slot
      BY DEF PoolFits
    <3> QED BY <3>1, <3>2
  <2>2. CASE i = n + 1 \/ j = n + 1
    <3>1. e.slot = slots[1]
      BY <1>1
    <3>2. \A k \in 1 .. Len(list) + 1 : k # n + 1 => q[k].slot # slots[1]
      <4> HIDE DEF At
      <4> QED BY <1>3, <2>1
    <3>3. q[n + 1].slot = slots[1]
      BY <1>2, <3>1
    <3> QED BY <1>2, <1>4, <2>2, <3>2, <3>3
  <2>3. CASE i # n + 1 /\ j # n + 1
    <3>1. At(i) \in DOMAIN list /\ At(j) \in DOMAIN list
          /\ q[i] = list[At(i)] /\ q[j] = list[At(j)]
      BY <1>2, <1>3, <2>3
    <3>2. At(i) = At(j)
      <4> HIDE DEF At
      <4>1. \A k, l \in DOMAIN list : list[k].slot = list[l].slot => k = l
        BY DEF PoolFits
      <4> QED BY <1>4, <3>1, <4>1
    <3> QED BY <1>2, <2>3, <3>2
  <2> QED BY <2>2, <2>3
<1>5. ASSUME NEW i \in DOMAIN rest, NEW j \in DOMAIN q
      PROVE  rest[i] # q[j].slot
  <2>1. i + 1 \in DOMAIN slots /\ 1 \in DOMAIN slots /\ i + 1 # 1 /\ rest[i] = slots[i + 1]
    BY <1>1
  <2>2. CASE q[j] = e
    BY <1>1, <2>1, <2>2 DEF PoolFits, Distinct
  <2>3. CASE At(j) \in DOMAIN list /\ q[j] = list[At(j)]
    <3> HIDE DEF At
    <3> QED BY <2>1, <2>3 DEF PoolFits
  <2> QED BY <1>2, <1>3, <2>2, <2>3
<1>6. Distinct(rest)
  <2> SUFFICES ASSUME NEW i \in 1 .. Len(slots) - 1, NEW j \in 1 .. Len(slots) - 1, rest[i] = rest[j]
               PROVE  i = j
    BY <1>1 DEF Distinct
  <2>1. i + 1 \in DOMAIN slots /\ j + 1 \in DOMAIN slots /\ slots[i + 1] = slots[j + 1]
    BY <1>1
  <2>2. i + 1 = j + 1
    BY <2>1 DEF PoolFits, Distinct
  <2> QED BY <1>1, <2>2
<1>7. Len(rest) + Len(q) = Slots
  <2>1. Len(slots) + Len(list) = Slots
    BY DEF PoolFits
  <2>2. Len(slots) \in Int /\ Len(list) \in Int
    BY <1>1, <1>2
  <2>3. (-1 + Len(slots)) + (Len(list) - -1) = Len(slots) + Len(list)
    BY <2>2, Sums
  <2>4. Len(rest) = -1 + Len(slots) /\ Len(q) = Len(list) - -1
    BY <1>1, <1>2
  <2> QED BY <2>1, <2>3, <2>4
<1> QED BY <1>1, <1>4, <1>5, <1>6, <1>7 DEF PoolFits, q, rest

\* The answered tasks give their slots back.
LEMMA ReplyPool ==
  ASSUME NEW list, NEW cl, NEW slots, NEW now, now \in Int, ListFits(list, cl),
         ReplyDue(list, now, cl, slots), PoolFits(list, slots)
  PROVE  PoolFits(tasks', taskSlots')
<1>1. /\ list \in Seq(DelayEntry) /\ Len(list) \in Nat /\ DOMAIN list = 1 .. Len(list)
      /\ \A i \in 1 .. Len(list) : list[i].slot \in 1 .. Slots
      /\ slots \in Seq(1 .. Slots) /\ Len(slots) \in Nat /\ DOMAIN slots = 1 .. Len(slots)
      /\ \A i \in 1 .. Len(slots) : slots[i] \in 1 .. Slots
  <2>1. list \in Seq(DelayEntry) /\ slots \in Seq(1 .. Slots)
    BY DEF ListFits, PoolFits
  <2>2. /\ Len(list) \in Nat /\ DOMAIN list = 1 .. Len(list)
        /\ \A i \in 1 .. Len(list) : list[i].slot \in 1 .. Slots
    BY <2>1, Entries
  <2>3. Len(slots) \in Nat /\ DOMAIN slots = 1 .. Len(slots) /\ \A i \in 1 .. Len(slots) : slots[i] \in 1 .. Slots
    BY <2>1, ConcatIs
  <2> QED BY <2>1, <2>2, <2>3
<1>2. PICK n \in 0 .. Len(list) :
        /\ Len(DueNow(list, now)) = n /\ DOMAIN DueNow(list, now) = 1 .. n
        /\ \A i \in 1 .. n : DueNow(list, now)[i] = list[i]
        /\ Len(tasks') = Len(list) - n
        /\ DOMAIN tasks' = 1 .. Len(list) - n
        /\ \A i \in 1 .. Len(list) - n : tasks'[i] = list[i + n] /\ i + n \in 1 .. Len(list)
  BY ReplySplits
<1> DEFINE back == [i \in 1 .. n |-> list[n + 1 - i].slot]
           SlotAt(i) == IF i <= n THEN list[n + 1 - i].slot ELSE slots[i - n]
<1>3. ASSUME NEW i \in 1 .. n
      PROVE  n + 1 - i \in 1 .. n /\ n + 1 - i \in 1 .. Len(list)
  BY <1>1, <1>2
<1>4. taskSlots' = back \o slots
  <2>1. \A i \in 1 .. n : DueNow(list, now)[n + 1 - i].slot = list[n + 1 - i].slot
    BY <1>2, <1>3
  <2>2. [i \in DOMAIN DueNow(list, now) |-> DueNow(list, now)[Len(DueNow(list, now)) + 1 - i].slot] = back
    BY <1>2, <2>1
  <2> QED BY <2>2 DEF ReplyDue, Freed
<1>5. back \in Seq(1 .. Slots) /\ Len(back) = n
  <2>1. n \in Nat /\ \A i \in 1 .. n : list[n + 1 - i].slot \in 1 .. Slots
    BY <1>1, <1>2, <1>3
  <2> QED BY <2>1
<1>6. /\ taskSlots' \in Seq(1 .. Slots) /\ Len(taskSlots') = n + Len(slots)
      /\ DOMAIN taskSlots' = 1 .. n + Len(slots)
      /\ \A i \in 1 .. n + Len(slots) : taskSlots'[i] = IF i <= n THEN back[i] ELSE slots[i - n]
  <2> HIDE DEF back
  <2>1. back \in Seq(1 .. Slots) /\ slots \in Seq(1 .. Slots)
    BY <1>1, <1>5
  <2>2. /\ back \o slots \in Seq(1 .. Slots) /\ Len(back \o slots) = n + Len(slots)
        /\ DOMAIN (back \o slots) = 1 .. n + Len(slots)
        /\ \A i \in 1 .. n + Len(slots) : (back \o slots)[i] = IF i <= n THEN back[i] ELSE slots[i - n]
    <3> DEFINE S == 1 .. Slots
    <3>1. back \in Seq(S) /\ slots \in Seq(S)
      BY <2>1
    <3> HIDE DEF S
    <3>2. /\ back \o slots \in Seq(S) /\ Len(back \o slots) = Len(back) + Len(slots)
          /\ DOMAIN (back \o slots) = 1 .. Len(back) + Len(slots)
          /\ \A i \in 1 .. Len(back) + Len(slots) :
               (back \o slots)[i] = IF i <= Len(back) THEN back[i] ELSE slots[i - Len(back)]
      BY <3>1, ConcatIs
    <3> QED BY <1>5, <3>2 DEF S
  <2> DEFINE both == back \o slots
  <2> HIDE DEF both
  <2>3. taskSlots' = both
    BY <1>4 DEF both
  <2> QED BY <2>2, <2>3 DEF both
<1>7. \A i \in 1 .. n + Len(slots) : taskSlots'[i] = SlotAt(i)
  BY <1>1, <1>2, <1>6
<1>8. /\ \A i, j \in 1 .. Len(list) : list[i].slot = list[j].slot => i = j
      /\ \A i, j \in 1 .. Len(slots) : slots[i] = slots[j] => i = j
      /\ \A i \in 1 .. Len(slots), j \in 1 .. Len(list) : slots[i] # list[j].slot
  BY <1>1 DEF PoolFits, Distinct
<1>9. ASSUME NEW i \in 1 .. n + Len(slots)
      PROVE  \/ i <= n /\ n + 1 - i \in 1 .. n /\ n + 1 - i \in 1 .. Len(list) /\ taskSlots'[i] = list[n + 1 - i].slot
             \/ i > n /\ i - n \in 1 .. Len(slots) /\ taskSlots'[i] = slots[i - n]
  BY <1>1, <1>2, <1>3, <1>7
<1>10. Distinct(taskSlots')
  <2> SUFFICES ASSUME NEW i \in 1 .. n + Len(slots), NEW j \in 1 .. n + Len(slots),
                      taskSlots'[i] = taskSlots'[j]
               PROVE  i = j
    BY <1>6 DEF Distinct
  <2>1. CASE i <= n /\ j <= n
    <3>1. n + 1 - i = n + 1 - j
      BY <1>8, <1>9, <2>1
    <3> QED BY <1>2, <3>1
  <2>2. CASE i > n /\ j > n
    <3>1. i - n = j - n
      BY <1>8, <1>9, <2>2
    <3> QED BY <1>2, <3>1
  <2>3. CASE i <= n /\ j > n
    <3>1. n + 1 - i \in 1 .. Len(list) /\ j - n \in 1 .. Len(slots)
          /\ slots[j - n] = list[n + 1 - i].slot
      BY <1>9, <2>3
    <3> QED BY <1>8, <3>1
  <2>4. CASE i > n /\ j <= n
    <3>1. n + 1 - j \in 1 .. Len(list) /\ i - n \in 1 .. Len(slots)
          /\ slots[i - n] = list[n + 1 - j].slot
      BY <1>9, <2>4
    <3> QED BY <1>8, <3>1
  <2> QED BY <1>1, <1>2, <2>1, <2>2, <2>3, <2>4
<1>11. ASSUME NEW i \in 1 .. n + Len(slots), NEW j \in 1 .. Len(list) - n
       PROVE  taskSlots'[i] # tasks'[j].slot
  <2>1. tasks'[j] = list[j + n] /\ j + n \in 1 .. Len(list) /\ j + n > n
    BY <1>1, <1>2
  <2>2. CASE i <= n
    <3>1. n + 1 - i # j + n /\ n + 1 - i \in 1 .. Len(list) /\ taskSlots'[i] = list[n + 1 - i].slot
      BY <1>2, <1>9, <2>1, <2>2
    <3> QED BY <1>8, <2>1, <3>1
  <2>3. CASE i > n
    BY <1>8, <1>9, <2>1, <2>3
  <2> QED BY <1>1, <1>2, <2>2, <2>3
<1>12. ASSUME NEW i \in 1 .. Len(list) - n, NEW j \in 1 .. Len(list) - n, tasks'[i].slot = tasks'[j].slot
       PROVE  i = j
  <2>1. i + n = j + n
    BY <1>2, <1>8, <1>12
  <2> QED BY <1>2, <2>1
<1>13. Len(taskSlots') + Len(tasks') = Slots
  <2>1. Len(slots) + Len(list) = Slots
    BY DEF PoolFits
  <2>2. Len(slots) \in Int /\ Len(list) \in Int /\ n \in Int
    BY <1>1, <1>2
  <2>3. (n + Len(slots)) + (Len(list) - n) = Len(slots) + Len(list)
    BY <2>2, Sums
  <2>4. Len(taskSlots') = n + Len(slots) /\ Len(tasks') = Len(list) - n
    BY <1>2, <1>6
  <2> QED BY <2>1, <2>3, <2>4
<1> QED BY <1>2, <1>6, <1>10, <1>11, <1>12, <1>13 DEF PoolFits

-----------------------------------------------------------------------------
(* The inbox.                                                              *)

\* What the messages are.
LEMMA Messages ==
  /\ TickMessage \in Message /\ TickMessage.tid = notifierId /\ notifierId \notin Client
  /\ RequestMessage \subseteq Message
  /\ \A m \in Message : /\ m.tid # notifierId => m \in RequestMessage
                        /\ m.tid = notifierId => m = TickMessage
  /\ \A m \in Message : m.kind \in {"delay", "until", "time"} => m \in RequestMessage
  /\ \A m \in Message : m.kind \in {"delay", "until"} => m \in DelayMessage
  /\ \A m \in RequestMessage : m.tid \in Client /\ m.ticks \in Int
  /\ \A m \in DelayMessage : m \in RequestMessage /\ m.ticks \in Ticks
<1>1. notifierId \notin Client
  BY TimeServerAssumption DEF notifierId
<1>2. /\ \A m \in DelayMessage : m.tid \in Client /\ m.ticks \in Ticks
      /\ \A m \in [tid : Client, kind : {"time"}, ticks : {0}] :
           m.tid \in Client /\ m.ticks = 0 /\ m.kind = "time"
  BY DEF DelayMessage
<1>3. TickMessage.tid = notifierId /\ TickMessage.kind = "tick"
  BY DEF TickMessage
<1>4. \A m \in RequestMessage : m.tid \in Client /\ m.ticks \in Int
  <2>1. \A n \in Ticks : n \in Int
    BY TimeServerAssumption
  <2> QED BY <1>2, <2>1 DEF RequestMessage
<1>5. \A m \in Message : m.kind \in {"delay", "until"} => m \in DelayMessage
  BY <1>2, <1>3 DEF Message, RequestMessage
<1>6. \A m \in DelayMessage : m \in RequestMessage /\ m.ticks \in Ticks
  BY <1>2 DEF RequestMessage
<1>7. /\ RequestMessage \subseteq Message /\ TickMessage \in Message
      /\ \A m \in Message : m \in RequestMessage \/ m = TickMessage
  BY DEF Message
<1> QED BY <1>1, <1>3, <1>4, <1>5, <1>6, <1>7

\* A message joins the end of the inbox.
LEMMA BoxAppend ==
  ASSUME NEW box \in Seq(Message), NEW m \in Message, Once(box), ~Has(box, m.tid)
  PROVE  /\ Append(box, m) \in Seq(Message)
         /\ Once(Append(box, m))
         /\ \A c : Has(Append(box, m), c) <=> Has(box, c) \/ c = m.tid
<1>1. /\ Append(box, m) \in Seq(Message)
      /\ DOMAIN Append(box, m) = 1 .. Len(box) + 1 /\ DOMAIN box = 1 .. Len(box)
      /\ Len(box) \in Nat
      /\ \A i \in 1 .. Len(box) + 1 : Append(box, m)[i] = IF i = Len(box) + 1 THEN m ELSE box[i]
  OBVIOUS
<1>2. Once(Append(box, m))
  BY <1>1 DEF Once, Has
<1>3. \A c : Has(Append(box, m), c) <=> Has(box, c) \/ c = m.tid
  BY <1>1 DEF Has
<1> QED BY <1>1, <1>2, <1>3

\* The server takes the first message.
LEMMA BoxTail ==
  ASSUME NEW box \in Seq(Message), box # <<>>, Once(box)
  PROVE  /\ Tail(box) \in Seq(Message) /\ Head(box) \in Message
         /\ Once(Tail(box))
         /\ Has(box, Head(box).tid)
         /\ \A c : Has(Tail(box), c) <=> Has(box, c) /\ c # Head(box).tid
<1>1. /\ Tail(box) \in Seq(Message) /\ Head(box) \in Message /\ Head(box) = box[1]
      /\ Len(box) \in Nat /\ Len(box) >= 1 /\ DOMAIN box = 1 .. Len(box)
      /\ DOMAIN Tail(box) = 1 .. Len(box) - 1
      /\ \A i \in 1 .. Len(box) - 1 : Tail(box)[i] = box[i + 1]
  OBVIOUS
<1>2. Once(Tail(box))
  <2> SUFFICES ASSUME NEW i \in 1 .. Len(box) - 1, NEW j \in 1 .. Len(box) - 1,
                      Tail(box)[i].tid = Tail(box)[j].tid
               PROVE  i = j
    BY <1>1 DEF Once
  <2>1. i + 1 \in DOMAIN box /\ j + 1 \in DOMAIN box /\ box[i + 1].tid = box[j + 1].tid
    BY <1>1
  <2>2. i + 1 = j + 1
    BY <2>1 DEF Once
  <2> QED BY <1>1, <2>2
<1>3. Has(box, Head(box).tid)
  BY <1>1 DEF Has
<1>4. ASSUME NEW c
      PROVE  Has(Tail(box), c) <=> Has(box, c) /\ c # Head(box).tid
  <2>1. ASSUME NEW i \in 1 .. Len(box) - 1, Tail(box)[i].tid = c
        PROVE  Has(box, c) /\ c # Head(box).tid
    <3>1. i + 1 \in DOMAIN box /\ 1 \in DOMAIN box /\ i + 1 # 1 /\ box[i + 1].tid = c
      BY <1>1, <2>1
    <3> QED BY <1>1, <3>1 DEF Has, Once
  <2>2. ASSUME NEW i \in DOMAIN box, box[i].tid = c, c # Head(box).tid
        PROVE  Has(Tail(box), c)
    <3>1. i - 1 \in DOMAIN Tail(box) /\ Tail(box)[i - 1] = box[i]
      BY <1>1, <2>2
    <3> QED BY <2>2, <3>1 DEF Has
  <2> QED BY <1>1, <2>1, <2>2 DEF Has
<1> QED BY <1>1, <1>2, <1>3, <1>4

\* The number of elements of a sequence that belong to one task.
LEMMA CountOf ==
  ASSUME NEW S, NEW q \in Seq(S), Once(q), NEW c
  PROVE  Cardinality({i \in DOMAIN q : q[i].tid = c}) = IF Has(q, c) THEN 1 ELSE 0
<1>1. CASE Has(q, c)
  <2>1. PICK i \in DOMAIN q : q[i].tid = c
    BY <1>1 DEF Has
  <2>2. {j \in DOMAIN q : q[j].tid = c} = {i}
    BY <2>1 DEF Once
  <2> QED BY <1>1, <2>2, FS_Singleton
<1>2. CASE ~Has(q, c)
  <2>1. {j \in DOMAIN q : q[j].tid = c} = {}
    BY <1>2 DEF Has
  <2> QED BY <1>2, <2>1, FS_EmptySet
<1> QED BY <1>1, <1>2

-----------------------------------------------------------------------------
(* The invariant.                                                          *)

LEMMA InitEstablishes == Init => TimeInv
<1> SUFFICES ASSUME Init
             PROVE  TimeInv
  OBVIOUS
<1>1. /\ tasks = <<>> /\ inbox = <<>> /\ DOMAIN tasks = {} /\ DOMAIN inbox = {} /\ Len(tasks) = 0
      /\ tasks \in Seq(DelayEntry) /\ inbox \in Seq(Message)
  BY DEF Init
<1>2. client \in [Client -> {"free", "send", "delayed"}] /\ \A c \in Client : client[c] = "free"
  BY DEF Init
<1>3. \A c : ~Has(tasks, c) /\ ~Has(inbox, c)
  BY <1>1 DEF Has
<1>4. ListFits(tasks, client)
  BY <1>1, <1>2, <1>3 DEF ListFits, Sorted, Once
<1>5. InboxFits(inbox, notifier, client)
  BY <1>1, <1>2, <1>3 DEF Init, InboxFits, Once
<1>6. \A i \in DOMAIN tasks : tasks[i].time > numTick
  BY <1>1
<1>7. PoolFits(tasks, taskSlots)
  <2>1. /\ taskSlots = [i \in 1 .. Slots |-> i] /\ Slots \in Nat
        /\ taskSlots \in Seq(1 .. Slots) /\ Len(taskSlots) = Slots
    BY TimeServerAssumption DEF Init
  <2> QED BY <1>1, <2>1 DEF PoolFits, Distinct
<1> QED BY <1>4, <1>5, <1>6, <1>7 DEF Init, TimeInv

\* The notifier waits for the timer and passes the tick on.
LEMMA NotifierKeeps ==
  ASSUME TimeInv, AwaitTick \/ Tick
  PROVE  TimeInv'
<1>1. CASE AwaitTick
  <2>1. notifier = "ready" /\ notifier' = "await" /\ UNCHANGED <<numTick, inbox, tasks, taskSlots, client, full>>
    BY <1>1 DEF AwaitTick
  <2>2. InboxFits(inbox, notifier, client)'
    BY <2>1 DEF TimeInv, InboxFits
  <2> QED BY <2>1, <2>2 DEF TimeInv
<1>2. CASE Tick
  <2>1. /\ notifier = "await" /\ notifier' = "send" /\ inbox' = Append(inbox, TickMessage)
        /\ UNCHANGED <<numTick, tasks, taskSlots, client, full>>
    BY <1>2 DEF Tick, TickMessage
  <2>2. /\ inbox' \in Seq(Message) /\ Once(inbox')
        /\ \A c : Has(inbox', c) <=> Has(inbox, c) \/ c = notifierId
    BY <2>1, BoxAppend, Messages DEF TimeInv, InboxFits
  <2>3. InboxFits(inbox', notifier', client')
    BY <2>1, <2>2, Messages DEF TimeInv, InboxFits
  <2> QED BY <2>1, <2>3 DEF TimeInv
<1> QED BY <1>1, <1>2

\* A free client asks.
LEMMA RequestKeeps ==
  ASSUME TimeInv, NEW c \in Client, NEW kind, NEW n, Request(c, kind, n),
         \/ kind \in {"delay", "until"} /\ n \in Ticks
         \/ kind = "time" /\ n = 0
  PROVE  TimeInv'
<1> DEFINE m == [tid |-> c, kind |-> kind, ticks |-> n]
<1>1. m \in RequestMessage /\ m \in Message /\ m.tid = c /\ inbox' = Append(inbox, m)
  BY Messages DEF Request, RequestMessage, DelayMessage
<1>2. /\ client[c] = "free" /\ client' = [client EXCEPT ![c] = "send"]
      /\ UNCHANGED <<numTick, notifier, tasks, taskSlots, full>>
  BY DEF Request
<1> HIDE DEF m
<1>3. ~Has(inbox, c) /\ ~Has(tasks, c)
  BY <1>2 DEF TimeInv, InboxFits, ListFits
<1>4. /\ inbox' \in Seq(Message) /\ Once(inbox')
      /\ \A d : Has(inbox', d) <=> Has(inbox, d) \/ d = c
  BY <1>1, <1>3, BoxAppend DEF TimeInv, InboxFits
<1>5. InboxFits(inbox', notifier', client')
  BY <1>2, <1>4, Messages DEF TimeInv, InboxFits, ListFits
<1>6. ListFits(tasks', client')
  BY <1>2, <1>3 DEF TimeInv, ListFits
<1> QED BY <1>2, <1>5, <1>6 DEF TimeInv

\* What every turn of the server does to the inbox.
LEMMA Taken ==
  ASSUME TimeInv, inbox # <<>>, inbox' = Tail(inbox)
  PROVE  /\ Head(inbox) \in Message
         /\ inbox' \in Seq(Message) /\ Once(inbox')
         /\ \A c : Has(inbox', c) <=> Has(inbox, c) /\ c # Head(inbox).tid
         /\ Has(inbox, Head(inbox).tid)
         /\ Head(inbox).tid \in Client => client[Head(inbox).tid] = "send"
  BY BoxTail DEF TimeInv, InboxFits

LEMMA ServeTickKeeps ==
  ASSUME TimeInv, ServeTick
  PROVE  TimeInv'
<1>1. /\ inbox # <<>> /\ Head(inbox).tid = notifierId /\ inbox' = Tail(inbox)
      /\ numTick' = numTick + 1 /\ notifier' = "ready"
      /\ ReplyDue(tasks, numTick + 1, client, taskSlots) /\ full' = full /\ ~full
  BY DEF ServeTick
<1>2. numTick + 1 \in Int /\ numTick' \in Nat
  BY <1>1 DEF TimeInv
<1>3. /\ ListFits(tasks', client') /\ Len(tasks') <= Len(tasks)
      /\ \A i \in DOMAIN tasks' : tasks'[i].time > numTick + 1
      /\ \A c \in Client : client'[c] # client[c] => client[c] = "delayed" /\ client'[c] = "free"
  BY <1>1, <1>2, ReplyFits DEF TimeInv
<1>4. InboxFits(inbox', notifier', client')
  BY <1>1, <1>3, Taken, Messages DEF TimeInv, InboxFits
<1>5. PoolFits(tasks', taskSlots')
  BY <1>1, <1>2, ReplyPool DEF TimeInv
<1> QED BY <1>1, <1>2, <1>3, <1>4, <1>5 DEF TimeInv

LEMMA ServeTimeKeeps ==
  ASSUME TimeInv, ServeTime
  PROVE  TimeInv'
<1> DEFINE h == Head(inbox).tid
           cl == [client EXCEPT ![h] = "free"]
<1>1. /\ inbox # <<>> /\ Head(inbox).kind = "time" /\ inbox' = Tail(inbox)
      /\ ReplyDue(tasks, numTick, cl, taskSlots) /\ full' = full /\ ~full
      /\ numTick' = numTick /\ notifier' = notifier
  BY DEF ServeTime
<1>2. h \in Client /\ client[h] = "send"
  BY <1>1, Taken, Messages
<1>3. ListFits(tasks, cl)
  BY <1>2 DEF TimeInv, ListFits
<1> HIDE DEF cl
<1>4. /\ ListFits(tasks', client') /\ Len(tasks') <= Len(tasks)
      /\ \A i \in DOMAIN tasks' : tasks'[i].time > numTick
      /\ \A c \in Client : client'[c] # cl[c] => cl[c] = "delayed" /\ client'[c] = "free"
  BY <1>1, <1>3, ReplyFits DEF TimeInv
<1>5. \A c \in Client : client'[c] = "send" <=> client[c] = "send" /\ c # h
  BY <1>2, <1>4 DEF TimeInv, ListFits, cl
<1>6. InboxFits(inbox', notifier', client')
  BY <1>1, <1>2, <1>5, Taken, Messages DEF TimeInv, InboxFits
<1>7. PoolFits(tasks', taskSlots')
  BY <1>1, <1>3, ReplyPool DEF TimeInv
<1> QED BY <1>1, <1>4, <1>6, <1>7 DEF TimeInv

\* The entry that the server makes of a request.
LEMMA EntryIs ==
  ASSUME TimeInv, taskSlots # <<>>, NEW m \in RequestMessage
  PROVE  Entry(m) \in DelayEntry /\ Entry(m).tid = m.tid /\ Entry(m).slot = Head(taskSlots)
<1>1. Deadline(m) \in Int /\ (IF Relative(m) THEN m.ticks + numTick ELSE m.ticks) \in Int
  BY Messages DEF TimeInv, Deadline
<1>2. (IF Relative(m) THEN m.ticks + numTick ELSE m.ticks) % Wrap \in Nat
  BY <1>1, TimeServerAssumption
<1>3. Head(taskSlots) \in 1 .. Slots
  BY DEF TimeInv, PoolFits
<1> QED BY <1>1, <1>2, <1>3, Messages DEF Entry, DelayEntry

LEMMA ServeDelayKeeps ==
  ASSUME TimeInv, ServeDelay
  PROVE  TimeInv'
<1> DEFINE m == Head(inbox)
           list == Insert(tasks, Entry(m))
           cl == [client EXCEPT ![m.tid] = "delayed"]
<1>1. /\ inbox # <<>> /\ m.kind \in {"delay", "until"} /\ inbox' = Tail(inbox)
      /\ taskSlots # <<>>
      /\ ReplyDue(list, numTick, cl, Tail(taskSlots)) /\ full' = full /\ ~full
      /\ numTick' = numTick /\ notifier' = notifier
  BY DEF ServeDelay
<1>2. m \in RequestMessage /\ m.tid \in Client /\ client[m.tid] = "send"
  BY <1>1, Taken, Messages
<1>3. Entry(m) \in DelayEntry /\ Entry(m).tid = m.tid /\ Entry(m).slot = Head(taskSlots)
  BY <1>1, <1>2, EntryIs
<1>4. ListFits(list, cl)
  BY <1>2, <1>3, InsertFits DEF TimeInv
<1>4a. PoolFits(list, Tail(taskSlots))
  BY <1>1, <1>3, InsertPool DEF TimeInv, ListFits
<1> HIDE DEF cl, list
<1>5. /\ ListFits(tasks', client') /\ Len(tasks') <= Len(list)
      /\ \A i \in DOMAIN tasks' : tasks'[i].time > numTick
      /\ \A c \in Client : client'[c] # cl[c] => cl[c] = "delayed" /\ client'[c] = "free"
  BY <1>1, <1>4, ReplyFits DEF TimeInv
<1>6. \A c \in Client : client'[c] = "send" <=> client[c] = "send" /\ c # m.tid
  BY <1>2, <1>5 DEF TimeInv, ListFits, cl
<1>7. InboxFits(inbox', notifier', client')
  BY <1>1, <1>2, <1>6, Taken, Messages DEF TimeInv, InboxFits
<1>8. PoolFits(tasks', taskSlots')
  BY <1>1, <1>4, <1>4a, ReplyPool DEF TimeInv
<1> QED BY <1>1, <1>5, <1>7, <1>8 DEF TimeInv

LEMMA StepKeeps ==
  ASSUME TimeInv, [Next]_vars
  PROVE  TimeInv'
<1>1. CASE AwaitTick \/ Tick
  BY <1>1, NotifierKeeps
<1>2. ASSUME NEW c \in Client, NEW n \in Ticks,
             Request(c, "delay", n) \/ Request(c, "until", n)
      PROVE  TimeInv'
  BY <1>2, RequestKeeps
<1>3. ASSUME NEW c \in Client, Request(c, "time", 0)
      PROVE  TimeInv'
  BY <1>3, RequestKeeps
<1>4. CASE ServeTick
  BY <1>4, ServeTickKeeps
<1>5. CASE ServeTime
  BY <1>5, ServeTimeKeeps
<1>6. CASE ServeDelay
  BY <1>6, ServeDelayKeeps
<1>7. CASE ServeOverflow
  BY <1>7 DEF ServeOverflow, TimeInv
<1>8. CASE UNCHANGED vars
  BY <1>8 DEF vars, TimeInv
<1> QED BY <1>1, <1>2, <1>3, <1>4, <1>5, <1>6, <1>7, <1>8 DEF Next, Serve

\* TimeInv holds in every reachable state.
THEOREM TimeInvHolds == Spec => []TimeInv
<1>1. Init => TimeInv
  BY InitEstablishes
<1>2. TimeInv /\ [Next]_vars => TimeInv'
  BY StepKeeps
<1> QED BY <1>1, <1>2, PTL DEF Spec

-----------------------------------------------------------------------------
(* What follows from it.                                                   *)

\* The list is sorted and, between two turns of the server, nobody in it is overdue.
THEOREM ListIsSortedAndCurrent == Spec => []ListSortedAndCurrent
<1>1. TimeInv => ListSortedAndCurrent
  BY DEF TimeInv, ListFits, Sorted, ListSortedAndCurrent
<1> QED BY <1>1, TimeInvHolds, PTL

\* A client blocked in Delay, DelayUntil or Time is in exactly one place.
THEOREM BlockedClientsAreAccounted == Spec => []BlockedClientsAccounted
<1>1. ASSUME TimeInv, NEW c \in Client
      PROVE  /\ Cardinality({i \in DOMAIN inbox : inbox[i].tid = c}) = IF client[c] = "send" THEN 1 ELSE 0
             /\ Cardinality({i \in DOMAIN tasks : tasks[i].tid = c}) = IF client[c] = "delayed" THEN 1 ELSE 0
  <2>1. /\ inbox \in Seq(Message) /\ Once(inbox) /\ (client[c] = "send" <=> Has(inbox, c))
        /\ tasks \in Seq(DelayEntry) /\ Once(tasks) /\ (client[c] = "delayed" <=> Has(tasks, c))
    BY <1>1 DEF TimeInv, ListFits, InboxFits
  <2>2. Cardinality({i \in DOMAIN inbox : inbox[i].tid = c}) = IF Has(inbox, c) THEN 1 ELSE 0
    BY <2>1, CountOf
  <2>3. Cardinality({i \in DOMAIN tasks : tasks[i].tid = c}) = IF Has(tasks, c) THEN 1 ELSE 0
    BY <2>1, CountOf
  <2> QED BY <2>1, <2>2, <2>3
<1>2. TimeInv => BlockedClientsAccounted
  BY <1>1 DEF BlockedClientsAccounted
<1> QED BY <1>2, TimeInvHolds, PTL

\* Each slot is free or holds one waiting task, and none is lost.
THEOREM SlotsAreAccounted == Spec => []SlotsAccounted
<1>1. TimeInv => SlotsAccounted
  BY DEF TimeInv, PoolFits, Distinct, SlotsAccounted
<1> QED BY <1>1, TimeInvHolds, PTL

-----------------------------------------------------------------------------
(* Nobody is woken early where no wake-up time wraps around: the largest   *)
(* argument on top of the last tick stays below 2^24.  Without that bound  *)
(* it is false, as the second configuration shows.                         *)

\* What a request asks for is what the list keeps of it.
LEMMA EntryUnwrapped ==
  ASSUME Unwrapped, TimeInv, UnwrappedInv, NEW m \in DelayMessage
  PROVE  Entry(m).due <= Entry(m).time /\ Entry(m).due = Deadline(m)
<1> DEFINE t == IF Relative(m) THEN m.ticks + numTick ELSE m.ticks
<1>1. /\ m.ticks \in Int /\ numTick \in Nat /\ numTick <= LastTick
      /\ m.ticks + LastTick < Wrap /\ LastTick \in Nat /\ Wrap \in Nat \ {0}
  BY Messages, TimeServerAssumption DEF TimeInv, UnwrappedInv, Unwrapped
<1>2. t \in Int /\ t < Wrap /\ t % Wrap \in 0 .. Wrap - 1 /\ Deadline(m) <= t
  BY <1>1 DEF Relative, Deadline
<1> HIDE DEF t
<1>3. t <= t % Wrap
  <2>1. CASE t >= 0
    <3>1. t \in 0 .. Wrap - 1
      BY <1>1, <1>2, <2>1
    <3> QED BY <1>1, <1>2, <3>1
  <2>2. CASE t < 0
    BY <1>2, <2>2
  <2> QED BY <1>2, <2>1, <2>2
<1>4. Deadline(m) \in Int
  BY <1>1 DEF Deadline
<1>5. Deadline(m) <= t % Wrap
  <2> QED BY <1>1, <1>2, <1>3, <1>4
<1> QED BY <1>5 DEF Entry, t

LEMMA UnwrappedKept ==
  ASSUME Unwrapped, TimeInv, UnwrappedInv, [Next]_vars
  PROVE  UnwrappedInv'
<1>0. ListFits(tasks, client) /\ numTick \in Int
  BY DEF TimeInv
<1>1. CASE AwaitTick \/ Tick \/ ServeOverflow \/ UNCHANGED vars
  BY <1>1 DEF AwaitTick, Tick, ServeOverflow, vars, UnwrappedInv, TimeInv
<1>2. ASSUME NEW c \in Client, NEW kind, NEW n, Request(c, kind, n)
      PROVE  UnwrappedInv'
  BY <1>2 DEF Request, UnwrappedInv
<1>3. CASE ServeTick
  <2>1. Head(inbox).tid = notifierId /\ inbox # <<>> /\ numTick' = numTick + 1 /\ notifier' = "ready"
        /\ ReplyDue(tasks, numTick + 1, client, taskSlots) /\ inbox' = Tail(inbox)
    BY <1>3 DEF ServeTick
  <2>2. notifier = "send"
    BY <2>1, Taken DEF TimeInv, InboxFits
  <2>3. \A i \in DOMAIN tasks' : \E j \in DOMAIN tasks : tasks'[i] = tasks[j]
    BY <1>0, <2>1, ReplyFits
  <2> QED BY <1>0, <2>1, <2>2, <2>3, TimeServerAssumption DEF UnwrappedInv
<1>4. CASE ServeTime
  <2>1. Head(inbox).kind = "time" /\ inbox # <<>> /\ inbox' = Tail(inbox)
        /\ ReplyDue(tasks, numTick, [client EXCEPT ![Head(inbox).tid] = "free"], taskSlots)
        /\ numTick' = numTick /\ notifier' = notifier
    BY <1>4 DEF ServeTime
  <2>2. ListFits(tasks, [client EXCEPT ![Head(inbox).tid] = "free"])
    <3>1. Head(inbox).tid \in Client /\ client[Head(inbox).tid] = "send"
      BY <2>1, Taken, Messages
    <3> QED BY <3>1 DEF TimeInv, ListFits
  <2>3. \A i \in DOMAIN tasks' : \E j \in DOMAIN tasks : tasks'[i] = tasks[j]
    BY <1>0, <2>1, <2>2, ReplyFits
  <2> QED BY <2>1, <2>3 DEF UnwrappedInv
<1>5. CASE ServeDelay
  <2> DEFINE m == Head(inbox)
             list == Insert(tasks, Entry(m))
             cl == [client EXCEPT ![m.tid] = "delayed"]
  <2>1. m.kind \in {"delay", "until"} /\ inbox # <<>> /\ inbox' = Tail(inbox)
        /\ taskSlots # <<>>
        /\ ReplyDue(list, numTick, cl, Tail(taskSlots)) /\ numTick' = numTick /\ notifier' = notifier
    BY <1>5 DEF ServeDelay
  <2>2. m \in DelayMessage /\ m \in RequestMessage /\ client[m.tid] = "send"
    BY <2>1, Taken, Messages
  <2>3. Entry(m) \in DelayEntry /\ Entry(m).tid = m.tid /\ Entry(m).due <= Entry(m).time
    BY <2>1, <2>2, EntryIs, EntryUnwrapped
  <2>4. /\ ListFits(list, cl) /\ Len(list) = Len(tasks) + 1
        /\ \A i \in 1 .. Len(tasks) + 1 :
             list[i] = Entry(m) \/ \E j \in 1 .. Len(tasks) : list[i] = tasks[j]
    BY <1>0, <2>2, <2>3, InsertFits
  <2> HIDE DEF list, cl
  <2>5. \A i \in DOMAIN list : list[i].due <= list[i].time
    <3>1. list \in Seq(DelayEntry) /\ tasks \in Seq(DelayEntry)
      BY <1>0, <2>4 DEF ListFits
    <3>2. DOMAIN list = 1 .. Len(tasks) + 1 /\ DOMAIN tasks = 1 .. Len(tasks)
      BY <2>4, <3>1
    <3> QED BY <2>3, <2>4, <3>2 DEF UnwrappedInv
  <2>6. \A i \in DOMAIN tasks' : \E j \in DOMAIN list : tasks'[i] = list[j]
    BY <1>0, <2>1, <2>4, ReplyFits
  <2> QED BY <2>1, <2>5, <2>6 DEF UnwrappedInv
<1> QED BY <1>1, <1>2, <1>3, <1>4, <1>5 DEF Next, Serve

\* What a client that is answered in this step had asked for has come.
LEMMA AnsweredInTime ==
  ASSUME Unwrapped, TimeInv, UnwrappedInv, [Next]_vars,
         NEW c \in Client, client[c] # "free", client'[c] = "free",
         NEW d \in DeadlinesOf(c)
  PROVE  d <= numTick'
<1>0. /\ ListFits(tasks, client) /\ tasks \in Seq(DelayEntry) /\ Once(tasks) /\ Once(inbox)
      /\ inbox \in Seq(Message) /\ numTick \in Int
  BY DEF TimeInv, ListFits, InboxFits
\* Only a turn of the server answers.
<1>1. ServeTick \/ ServeTime \/ ServeDelay
  <2>1. CASE AwaitTick \/ Tick \/ ServeOverflow \/ UNCHANGED vars
    BY <2>1 DEF AwaitTick, Tick, ServeOverflow, vars
  <2>2. ASSUME NEW e \in Client, NEW kind, NEW n, Request(e, kind, n)
        PROVE  FALSE
    <3>1. client' = [client EXCEPT ![e] = "send"] /\ client \in [Client -> {"free", "send", "delayed"}]
      BY <1>0, <2>2 DEF Request, ListFits
    <3> QED BY <3>1
  <2> QED BY <2>1, <2>2 DEF Next, Serve
\* A task of the list that was due.
<1>2. ASSUME NEW i \in DOMAIN tasks, tasks[i].tid = c, tasks[i].time <= numTick',
             client[c] = "delayed"
      PROVE  d <= numTick'
  <2>1. ~Has(inbox, c)
    BY <1>2 DEF TimeInv, InboxFits
  <2>2. PICK j \in DOMAIN tasks : tasks[j].tid = c /\ d = tasks[j].due
    BY <2>1 DEF DeadlinesOf, Has
  <2>3. j = i
    BY <1>0, <1>2, <2>2 DEF Once
  <2>4. tasks[i].due \in Int /\ tasks[i].time \in Int /\ numTick' \in Int
    <3>1. \A k \in DOMAIN tasks : tasks[k].due \in Int /\ tasks[k].time \in Nat
      BY <1>0, Entries
    <3>2. numTick' \in Int
      BY <1>0, <1>1 DEF ServeTick, ServeTime, ServeDelay
    <3> QED BY <1>2, <3>1, <3>2
  <2>5. d = tasks[i].due /\ tasks[i].due <= tasks[i].time
    BY <1>2, <2>2, <2>3 DEF UnwrappedInv
  <2> QED BY <1>2, <2>4, <2>5
<1>3. CASE ServeTick
  <2>1. numTick' = numTick + 1 /\ ReplyDue(tasks, numTick + 1, client, taskSlots)
    BY <1>3 DEF ServeTick
  <2>2. client[c] = "delayed" /\ \E i \in DOMAIN tasks : tasks[i].tid = c /\ tasks[i].time <= numTick + 1
    BY <1>0, <2>1, ReplyFits
  <2> QED BY <1>2, <2>1, <2>2
<1>4. CASE ServeTime
  <2> DEFINE h == Head(inbox).tid
             cl == [client EXCEPT ![h] = "free"]
  <2>1. Head(inbox).kind = "time" /\ inbox # <<>> /\ inbox' = Tail(inbox)
        /\ ReplyDue(tasks, numTick, cl, taskSlots) /\ numTick' = numTick
    BY <1>4 DEF ServeTime
  <2>2. h \in Client /\ client[h] = "send"
    BY <2>1, Taken, Messages
  <2>3. ListFits(tasks, cl)
    BY <2>2 DEF TimeInv, ListFits
  <2>4. CASE c = h
    <3>1. ~Has(tasks, c)
      BY <2>2, <2>4 DEF TimeInv, ListFits
    <3>2. PICK i \in DOMAIN inbox : inbox[i].tid = c /\ inbox[i].kind # "time"
      BY <3>1 DEF DeadlinesOf, Has
    <3>3. 1 \in DOMAIN inbox /\ inbox[1].tid = c /\ inbox[1].kind = "time"
      BY <1>0, <2>1, <2>4
    <3> QED BY <1>0, <3>2, <3>3 DEF Once
  <2>5. CASE c # h
    <3>1. cl[c] = client[c]
      BY <1>0, <2>5 DEF ListFits
    <3> HIDE DEF cl
    <3>2. cl[c] = "delayed" /\ \E i \in DOMAIN tasks : tasks[i].tid = c /\ tasks[i].time <= numTick
      BY <1>0, <2>1, <2>3, <3>1, ReplyFits
    <3> QED BY <1>2, <2>1, <3>1, <3>2
  <2> QED BY <2>4, <2>5
<1>5. CASE ServeDelay
  <2> DEFINE m == Head(inbox)
             list == Insert(tasks, Entry(m))
             cl == [client EXCEPT ![m.tid] = "delayed"]
  <2>1. m.kind \in {"delay", "until"} /\ inbox # <<>> /\ inbox' = Tail(inbox)
        /\ taskSlots # <<>>
        /\ ReplyDue(list, numTick, cl, Tail(taskSlots)) /\ numTick' = numTick
    BY <1>5 DEF ServeDelay
  <2>2. m \in DelayMessage /\ m \in RequestMessage /\ m.tid \in Client /\ client[m.tid] = "send"
    BY <2>1, Taken, Messages
  <2>3. /\ Entry(m) \in DelayEntry /\ Entry(m).tid = m.tid
        /\ Entry(m).due <= Entry(m).time /\ Entry(m).due = Deadline(m)
    BY <2>1, <2>2, EntryIs, EntryUnwrapped
  <2>4. /\ ListFits(list, cl) /\ Len(list) = Len(tasks) + 1
        /\ \A i \in 1 .. Len(tasks) + 1 :
             list[i] = Entry(m) \/ \E j \in 1 .. Len(tasks) : list[i] = tasks[j]
    BY <1>0, <2>2, <2>3, InsertFits
  <2>5. cl[c] # "free" /\ (c # m.tid => cl[c] = client[c])
    BY <1>0, <2>2 DEF ListFits
  <2> HIDE DEF list, cl
  <2>6. PICK i \in DOMAIN list : list[i].tid = c /\ list[i].time <= numTick
    BY <1>0, <2>1, <2>4, <2>5, ReplyFits
  <2>7. cl[c] = "delayed"
    BY <1>0, <2>1, <2>4, <2>5, ReplyFits
  <2>8. i \in 1 .. Len(tasks) + 1 /\ DOMAIN tasks = 1 .. Len(tasks)
    BY <1>0, <2>4 DEF ListFits
  <2>9. CASE c = m.tid
    <3>1. ~Has(tasks, c)
      BY <2>2, <2>9 DEF TimeInv, ListFits
    <3>2. list[i] = Entry(m)
      BY <2>4, <2>6, <2>8, <3>1 DEF Has
    <3>3. PICK k \in DOMAIN inbox : inbox[k].tid = c /\ d = Deadline(inbox[k])
      BY <3>1 DEF DeadlinesOf, Has
    <3>4. 1 \in DOMAIN inbox /\ inbox[1] = m
      BY <1>0, <2>1
    <3>5. k = 1
      BY <1>0, <2>9, <3>3, <3>4 DEF Once
    <3>6. Entry(m).due \in Int /\ Entry(m).time \in Int
      BY <2>3 DEF DelayEntry
    <3>7. d = Entry(m).due /\ Entry(m).time <= numTick /\ numTick' = numTick
      BY <2>1, <2>3, <2>6, <3>2, <3>3, <3>4, <3>5
    <3> QED BY <1>0, <2>3, <3>6, <3>7
  <2>10. CASE c # m.tid
    <3>1. client[c] = "delayed"
      BY <2>5, <2>7, <2>10
    <3>2. \E j \in DOMAIN tasks : list[i] = tasks[j]
      BY <2>3, <2>4, <2>6, <2>8, <2>10
    <3> QED BY <1>2, <2>1, <2>6, <3>1, <3>2
  <2> QED BY <2>9, <2>10
<1> QED BY <1>1, <1>3, <1>4, <1>5

\* A Delay or DelayUntil is answered no earlier than the tick it asked for.
THEOREM NobodyIsWokenEarly ==
  ASSUME Unwrapped
  PROVE  Spec => NeverEarly
<1>1. Init => UnwrappedInv
  BY TimeServerAssumption DEF Init, UnwrappedInv
<1>2. TimeInv /\ UnwrappedInv /\ [Next]_vars => UnwrappedInv'
  BY UnwrappedKept
<1>3. TimeInv /\ UnwrappedInv /\ [Next]_vars =>
        [\A c \in Client : client[c] # "free" /\ client'[c] = "free" =>
           \A d \in DeadlinesOf(c) : d <= numTick']_vars
  BY AnsweredInTime
<1> QED BY <1>1, <1>2, <1>3, TimeInvHolds, PTL DEF Spec, NeverEarly

=============================================================================
