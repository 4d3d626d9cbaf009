--------------------------- MODULE TaskListsProofs ---------------------------
(***************************************************************************)
(* Theorems about the linked lists of the kernel, for any number of tasks  *)
(* and priorities: every list ends, and the lists implement the FIFOs of   *)
(* TaskQueues.                                                             *)
(***************************************************************************)
EXTENDS TaskLists, TLAPS, SequenceTheorems, FiniteSetTheorems, WellFoundedInduction

Link == Tid \cup {NULL}

\* s is the list that starts at h with the links nx, and no task is in it twice.
Linked(nx, h, s) ==
  /\ s \in Seq(Tid)
  /\ s = <<>> => h = NULL
  /\ s # <<>> => h = s[1]
  /\ \A i \in 1 .. Len(s) : nx[s[i]] = IF i = Len(s) THEN NULL ELSE s[i + 1]
  /\ \A i, j \in 1 .. Len(s) : s[i] = s[j] => i = j

ListsType ==
  /\ next \in [Tid -> Link]
  /\ begin \in [Priority -> Link]
  /\ end \in [Priority -> Link]
  /\ sendQ \in [Tid -> Link]
  /\ place \in [Tid -> {"unlinked", "ready", "running", "sending", "taken"}]

\* rq are the ready queues.
ReadyLists(rq) ==
  /\ rq \in [Priority -> Seq(Tid)]
  /\ \A p \in Priority : Linked(next, begin[p], rq[p])
  /\ \A p \in Priority : rq[p] # <<>> => end[p] = rq[p][Len(rq[p])]
  /\ \A p \in Priority : \A i \in 1 .. Len(rq[p]) :
       place[rq[p][i]] = "ready" /\ PriorityOf[rq[p][i]] = p
  /\ queueFullMask = {p \in Priority : rq[p] # <<>>}

\* sq are the sendQs.
SenderLists(sq) ==
  /\ sq \in [Tid -> Seq(Tid)]
  /\ \A r \in Tid : Linked(next, sendQ[r], sq[r])
  /\ \A r \in Tid : \A i \in 1 .. Len(sq[r]) : place[sq[r][i]] = "sending"
  /\ \A r1, r2 \in Tid : \A i \in 1 .. Len(sq[r1]), j \in 1 .. Len(sq[r2]) :
       sq[r1][i] = sq[r2][j] => r1 = r2

Lists(rq, sq) ==
  /\ ReadyLists(rq)
  /\ SenderLists(sq)
  /\ \A t \in Tid : place[t] = "running" => next[t] = NULL

\* The inductive invariant: the chains of links are such lists.
ListInv ==
  /\ ListsType
  /\ Lists([p \in Priority |-> Chain(begin[p])], [r \in Tid |-> Chain(sendQ[r])])

-----------------------------------------------------------------------------
(* Lists.                                                                  *)

\* Lists linked alike for their members are the same list.
LEMMA LinkedFrame ==
  ASSUME NEW nx, NEW nx2, NEW h, NEW s, Linked(nx, h, s),
         \A i \in 1 .. Len(s) : nx2[s[i]] = nx[s[i]]
  PROVE  Linked(nx2, h, s)
BY DEF Linked

LEMMA AppendIs ==
  ASSUME NEW s \in Seq(Tid), NEW t \in Tid
  PROVE  /\ Append(s, t) \in Seq(Tid) /\ Len(Append(s, t)) = Len(s) + 1 /\ Append(s, t) # <<>>
         /\ Append(s, t)[Len(s) + 1] = t
         /\ \A i \in 1 .. Len(s) : Append(s, t)[i] = s[i]
         /\ \A i \in 1 .. Len(s) + 1 : i = Len(s) + 1 \/ i \in 1 .. Len(s)
<1>1. Len(s) \in Nat
  OBVIOUS
<1> QED BY <1>1

LEMMA TailIs ==
  ASSUME NEW s \in Seq(Tid), s # <<>>
  PROVE  /\ Len(Tail(s)) = Len(s) - 1 /\ Tail(s) \in Seq(Tid) /\ (Tail(s) = <<>> <=> Len(s) = 1)
         /\ \A i \in 1 .. Len(s) - 1 : Tail(s)[i] = s[i + 1] /\ i + 1 \in 1 .. Len(s)
                                       /\ i \in 1 .. Len(s)
<1>1. Len(s) \in Nat /\ Len(s) # 0
  OBVIOUS
<1>2. Tail(s) \in Seq(Tid) /\ Len(Tail(s)) = Len(s) - 1
  BY <1>1
<1>3. \A i \in 1 .. Len(s) - 1 : Tail(s)[i] = s[i + 1]
  BY <1>1
<1>4. Tail(s) = <<>> <=> Len(s) = 1
  <2> DEFINE u == Tail(s)
  <2>1. u \in Seq(Tid) /\ Len(u) = Len(s) - 1
    BY <1>2
  <2> HIDE DEF u
  <2>2. u = <<>> <=> Len(u) = 0
    BY <2>1, EmptySeq
  <2>3. u = <<>> <=> Len(s) = 1
    BY <1>1, <2>1, <2>2
  <2> QED BY <2>3 DEF u
<1>5. \A i \in 1 .. Len(s) - 1 : i + 1 \in 1 .. Len(s) /\ i \in 1 .. Len(s)
  BY <1>1
<1> QED BY <1>2, <1>3, <1>4, <1>5

\* A task linked behind the last one is appended (append_task, kernel_send).
LEMMA LinkedAppend ==
  ASSUME NEW nx, NEW nx2, NEW h, NEW s, NEW t \in Tid,
         Linked(nx, h, s), s # <<>>, \A i \in 1 .. Len(s) : s[i] # t,
         nx2[t] = NULL, nx2[s[Len(s)]] = t,
         \A i \in 1 .. Len(s) - 1 : nx2[s[i]] = nx[s[i]]
  PROVE  Linked(nx2, h, Append(s, t))
<1> DEFINE a == Append(s, t)
           n == Len(s)
<1>1. s \in Seq(Tid) /\ n \in Nat /\ n # 0
  BY DEF Linked
<1>2. /\ a \in Seq(Tid) /\ Len(a) = n + 1 /\ a # <<>> /\ a[n + 1] = t
      /\ \A i \in 1 .. n : a[i] = s[i] /\ i \in 1 .. n + 1
      /\ \A i \in 1 .. n + 1 : i = n + 1 \/ i \in 1 .. n
  BY <1>1, AppendIs
<1> HIDE DEF a, n
<1>3. h = a[1]
  BY <1>1, <1>2 DEF Linked, n
<1>4. ASSUME NEW i \in 1 .. n + 1
      PROVE  nx2[a[i]] = IF i = n + 1 THEN NULL ELSE a[i + 1]
  <2>1. CASE i = n + 1
    BY <1>2, <2>1
  <2>2. CASE i = n
    <3>1. i \in 1 .. n /\ i + 1 = n + 1 /\ i # n + 1
      BY <1>1, <2>2
    <3>2. a[i] = s[i] /\ nx2[s[i]] = t
      BY <1>2, <2>2, <3>1 DEF n
    <3> QED BY <1>2, <3>1, <3>2
  <2>3. CASE i \in 1 .. n - 1
    <3>1. i \in 1 .. n /\ i + 1 \in 1 .. n /\ i # n + 1 /\ i # n
      BY <1>1, <2>3
    <3>2. nx2[s[i]] = s[i + 1]
      BY <2>3, <3>1 DEF Linked, n
    <3> QED BY <1>2, <3>1, <3>2
  <2> QED BY <1>1, <2>1, <2>2, <2>3
<1>5. ASSUME NEW i \in 1 .. n + 1, NEW j \in 1 .. n + 1, a[i] = a[j]
      PROVE  i = j
  <2>1. \A k, l \in 1 .. n : s[k] = s[l] => k = l
    BY DEF Linked, n
  <2>2. \A k \in 1 .. n : s[k] # t
    BY DEF n
  <2> QED BY <1>2, <1>5, <2>1, <2>2
<1>6. Linked(nx2, h, a)
  BY <1>2, <1>3, <1>4, <1>5 DEF Linked
<1> QED BY <1>6 DEF a

\* A task linked into an empty list is its only member.
LEMMA LinkedOne ==
  ASSUME NEW nx, NEW t \in Tid, nx[t] = NULL
  PROVE  Linked(nx, t, Append(<<>>, t))
<1> DEFINE a == Append(<<>>, t)
<1>1. a \in Seq(Tid) /\ Len(a) = 1 /\ a # <<>> /\ a[1] = t
  OBVIOUS
<1> HIDE DEF a
<1>2. \A i \in 1 .. 1 : i = 1
  OBVIOUS
<1>3. Linked(nx, t, a)
  BY <1>1, <1>2 DEF Linked
<1> QED BY <1>3 DEF a

\* The head goes, its link leads to the rest (next_ready_task, kernel_receive).
LEMMA LinkedTail ==
  ASSUME NEW nx, NEW h, NEW s, Linked(nx, h, s), s # <<>>
  PROVE  /\ Linked(nx, nx[h], Tail(s))
         /\ h \in Tid /\ h = s[1]
         /\ nx[h] = NULL <=> Tail(s) = <<>>
         /\ \A i \in 1 .. Len(Tail(s)) : Tail(s)[i] # h
<1> DEFINE u == Tail(s)
           n == Len(s)
<1>1. s \in Seq(Tid) /\ n \in Nat /\ n # 0 /\ h = s[1] /\ 1 \in 1 .. n /\ s[1] \in Tid
  BY DEF Linked
<1>2. /\ u \in Seq(Tid) /\ Len(u) = n - 1 /\ (u = <<>> <=> n = 1)
      /\ \A i \in 1 .. n - 1 : u[i] = s[i + 1] /\ i + 1 \in 1 .. n /\ i \in 1 .. n
  <2>1. u \in Seq(Tid) /\ Len(u) = n - 1
    BY <1>1
  <2>2. \A i \in 1 .. n - 1 : u[i] = s[i + 1]
    BY <1>1
  <2>3. u = <<>> <=> n = 1
    BY <1>1, <2>1
  <2> HIDE DEF u, n
  <2> QED BY <1>1, <2>1, <2>2, <2>3
<1> HIDE DEF u, n
<1>3. nx[h] = IF n = 1 THEN NULL ELSE s[2]
  BY <1>1 DEF Linked, n
<1>4. u # <<>> => nx[h] = u[1] /\ s[2] \in Tid
  <2>1. n # 1 => 1 \in 1 .. n - 1 /\ 2 \in 1 .. n
    BY <1>1
  <2> QED BY <1>1, <1>2, <1>3, <2>1
<1>5. ASSUME NEW i \in 1 .. n - 1
      PROVE  nx[u[i]] = IF i = n - 1 THEN NULL ELSE u[i + 1]
  <2>1. nx[s[i + 1]] = IF i + 1 = n THEN NULL ELSE s[i + 2]
    BY <1>1, <1>2 DEF Linked, n
  <2>2. i # n - 1 => i + 1 \in 1 .. n - 1 /\ i + 1 # n /\ i + 1 + 1 = i + 2
    BY <1>1
  <2>3. i = n - 1 => i + 1 = n
    BY <1>1
  <2> QED BY <1>2, <2>1, <2>2, <2>3
<1>6. \A k, l \in 1 .. n : s[k] = s[l] => k = l
  BY DEF Linked, n
<1>7. ASSUME NEW i \in 1 .. n - 1, NEW j \in 1 .. n - 1, u[i] = u[j]
      PROVE  i = j
  BY <1>2, <1>6, <1>7
<1>8. ASSUME NEW i \in 1 .. n - 1
      PROVE  u[i] # h
  BY <1>1, <1>2, <1>6
<1>9. \A t \in Tid : t # NULL
  BY DEF Tid, NULL
<1>10. Linked(nx, nx[h], u)
  BY <1>2, <1>3, <1>4, <1>5, <1>7 DEF Linked
<1>11. nx[h] = NULL <=> u = <<>>
  BY <1>2, <1>3, <1>4, <1>9
<1>12. /\ Linked(nx, nx[h], u) /\ h \in Tid /\ h = s[1] /\ (nx[h] = NULL <=> u = <<>>)
       /\ \A i \in 1 .. Len(u) : u[i] # h
  BY <1>1, <1>2, <1>8, <1>10, <1>11
<1> QED BY <1>12 DEF u

\* A list is never longer than the task table.
LEMMA LinkedFits ==
  ASSUME NEW nx, NEW h, NEW s, Linked(nx, h, s)
  PROVE  Len(s) \in 0 .. MaxTask
<1>1. s \in Seq(Tid) /\ Len(s) \in Nat /\ s \in [1 .. Len(s) -> Tid]
  BY DEF Linked
<1>2. s \in Injection(1 .. Len(s), Tid)
  BY <1>1 DEF Linked, Injection, IsInjective
<1>3. IsFiniteSet(Tid) /\ Cardinality(Tid) = MaxTask
  <2>1. Cardinality(0 .. MaxTask - 1) = MaxTask /\ IsFiniteSet(0 .. MaxTask - 1)
    BY FS_Interval, TaskListsAssumption
  <2> QED BY <2>1 DEF Tid
<1>4. Cardinality(1 .. Len(s)) = Len(s)
  BY <1>1, FS_Interval
<1>5. Cardinality(1 .. Len(s)) <= Cardinality(Tid)
  BY <1>2, <1>3, FS_Injection
<1> QED BY <1>1, <1>3, <1>4, <1>5, TaskListsAssumption

-----------------------------------------------------------------------------
(* Chain.                                                                  *)

LEMMA LeastNatural ==
  ASSUME NEW B \in SUBSET Nat, B # {}
  PROVE  \E k \in B : \A m \in B : k <= m
<1>1. PICK k \in B : \A m \in B : ~(<<m, k>> \in OpToRel(<, Nat))
  BY WFMin, NatLessThanWellFounded
<1>2. \A m \in B : ~(m < k)
  BY <1>1 DEF OpToRel
<1> QED BY <1>2

\* g holds the walks of at most m links.
Walks(nx, m, g) ==
  g = [n \in 0 .. m |->
        [t \in Link |-> IF n = 0 \/ t = NULL THEN <<>> ELSE <<t>> \o g[n - 1][nx[t]]]]

LEMMA WalksStep ==
  ASSUME NEW nx, NEW m \in Nat, NEW g, Walks(nx, m, g)
  PROVE  \E r : Walks(nx, m + 1, r)
<1> DEFINE body(n, w) == [t \in Link |-> IF n = 0 \/ t = NULL THEN <<>> ELSE <<t>> \o w[nx[t]]]
           r == [n \in 0 .. m + 1 |-> IF n = m + 1 THEN body(n, g[m]) ELSE g[n]]
<1>1. \A n \in 0 .. m : g[n] = body(n, g[n - 1])
  BY DEF Walks
<1>2. r[m + 1] = body(m + 1, g[m]) /\ \A n \in 0 .. m : r[n] = g[n]
  OBVIOUS
<1>3. r = [n \in 0 .. m + 1 |-> r[n]]
  OBVIOUS
<1>0. \A v, w : body(0, v) = body(0, w)
  OBVIOUS
<1> HIDE DEF r, body
<1>4. ASSUME NEW n \in 0 .. m + 1
      PROVE  r[n] = body(n, r[n - 1])
  <2>1. CASE n = m + 1
    <3>1. m \in 0 .. m /\ n - 1 = m
      BY <2>1
    <3> QED BY <1>2, <2>1, <3>1
  <2>2. CASE n # m + 1 /\ n # 0
    <3>1. n \in 0 .. m /\ n - 1 \in 0 .. m
      BY <2>2
    <3> QED BY <1>1, <1>2, <3>1
  <2>3. CASE n = 0
    <3>1. n \in 0 .. m
      BY <2>3
    <3> QED BY <1>0, <1>1, <1>2, <2>3, <3>1
  <2> QED BY <2>1, <2>2, <2>3
<1>5. r = [n \in 0 .. m + 1 |-> body(n, r[n - 1])]
  BY <1>3, <1>4
<1>6. Walks(nx, m + 1, r)
  BY <1>5 DEF Walks, body
<1> QED BY <1>6

LEMMA WalksExist ==
  ASSUME NEW nx, NEW m \in Nat
  PROVE  \E g : Walks(nx, m, g)
<1> DEFINE Bad == {k \in Nat : ~ \E g : Walks(nx, k, g)}
<1>1. Bad = {}
  <2> SUFFICES ASSUME Bad # {} PROVE FALSE
    OBVIOUS
  <2>1. Bad \in SUBSET Nat
    OBVIOUS
  <2>2. PICK k \in Bad : \A l \in Bad : k <= l
    <3> HIDE DEF Bad
    <3> QED BY <2>1, LeastNatural
  <2>3. CASE k = 0
    <3> DEFINE g0 == [n \in 0 .. 0 |-> [t \in Link |-> <<>>]]
    <3>1. g0 = [n \in 0 .. 0 |-> [t \in Link |->
                 IF n = 0 \/ t = NULL THEN <<>> ELSE <<t>> \o g0[n - 1][nx[t]]]]
      OBVIOUS
    <3> HIDE DEF g0
    <3>2. Walks(nx, 0, g0)
      BY <3>1 DEF Walks
    <3> QED BY <2>2, <2>3, <3>2
  <2>4. CASE k # 0
    <3>1. k - 1 \in Nat /\ k - 1 + 1 = k /\ ~(k <= k - 1)
      BY <2>1, <2>2, <2>4
    <3>2. k - 1 \notin Bad
      <4> HIDE DEF Bad
      <4> QED BY <2>2, <3>1
    <3>3. PICK g : Walks(nx, k - 1, g)
      BY <3>1, <3>2
    <3> QED BY <2>2, <3>1, <3>3, WalksStep
  <2> QED BY <2>3, <2>4
<1> QED BY <1>1

LEMMA SubSeqCons ==
  ASSUME NEW S, NEW s \in Seq(S), NEW i \in 1 .. Len(s)
  PROVE  SubSeq(s, i, Len(s)) = <<s[i]>> \o SubSeq(s, i + 1, Len(s))
<1> DEFINE n == Len(s)
           a == SubSeq(s, i, n)
           b == SubSeq(s, i + 1, n)
           c == <<s[i]>> \o b
<1>1. n \in Nat /\ s[i] \in S
  OBVIOUS
<1>2. a \in Seq(S) /\ Len(a) = n - i + 1 /\ \A k \in 1 .. n - i + 1 : a[k] = s[i + k - 1]
  BY <1>1, SubSeqProperties
<1>3. b \in Seq(S) /\ Len(b) = n - i /\ \A k \in 1 .. n - i : b[k] = s[i + k]
  <2>1. \A k \in 1 .. n : s[k] \in S
    OBVIOUS
  <2>2. b = [k \in 1 .. n - i |-> s[i + k]]
    BY <1>1
  <2>3. \A k \in 1 .. n - i : s[i + k] \in S
    BY <1>1, <2>1
  <2> HIDE DEF b
  <2>4. n - i \in Nat
    BY <1>1
  <2> QED BY <2>2, <2>3, <2>4
<1> HIDE DEF a, b
<1>4. c \in Seq(S) /\ Len(c) = Len(b) + 1 /\ c[1] = s[i]
      /\ \A k \in 2 .. Len(b) + 1 : c[k] = b[k - 1]
  <2> DEFINE d == <<s[i]>>
  <2>1. d \in Seq(S) /\ Len(d) = 1 /\ d[1] = s[i]
    BY <1>1
  <2>2. b \in Seq(S) /\ Len(b) \in Nat
    BY <1>3
  <2> HIDE DEF d
  <2>3. /\ d \o b \in Seq(S) /\ Len(d \o b) = Len(d) + Len(b)
        /\ \A k \in 1 .. Len(d) + Len(b) : (d \o b)[k] = IF k <= Len(d) THEN d[k] ELSE b[k - Len(d)]
    BY <2>1, <2>2, ConcatProperties
  <2> QED BY <2>1, <2>2, <2>3 DEF d
<1> HIDE DEF c, n
<1>5. ASSUME NEW k \in 1 .. Len(a)
      PROVE  a[k] = c[k]
  <2>1. CASE k = 1
    <3>1. i + k - 1 = i
      BY <2>1
    <3> QED BY <1>2, <1>4, <2>1, <3>1
  <2>2. CASE k # 1
    <3>1. k - 1 \in 1 .. n - i /\ k \in 2 .. Len(b) + 1 /\ i + (k - 1) = i + k - 1
      BY <1>1, <1>2, <1>3, <2>2
    <3> QED BY <1>2, <1>3, <1>4, <3>1
  <2> QED BY <2>1, <2>2
<1>6. Len(a) = Len(c)
  BY <1>1, <1>2, <1>3, <1>4
<1>7. a = c
  BY <1>2, <1>4, <1>5, <1>6, SeqEqual
<1> QED BY <1>7 DEF a, b, c, n

\* Following the links finds the list.
LEMMA ChainIs ==
  ASSUME NEW nx, NEW h, NEW s, Linked(nx, h, s)
  PROVE  ChainIn(nx, h) = s
<1> DEFINE g == CHOOSE f : Walks(nx, MaxTask, f)
           n == Len(s)
           At(j) == IF j = 0 THEN NULL ELSE s[n - j + 1]
           P(j) == \A m \in 0 .. MaxTask : j <= m => g[m][At(j)] = SubSeq(s, n - j + 1, n)
           Odd == {j \in Nat : j <= n /\ ~P(j)}
<1>0. MaxTask \in Nat
  BY TaskListsAssumption
<1>1. s \in Seq(Tid) /\ n \in Nat /\ n <= MaxTask
  <2>1. Len(s) \in 0 .. MaxTask
    BY LinkedFits
  <2> QED BY <1>0, <2>1 DEF Linked
<1>2. \A m \in 0 .. MaxTask : g[m] = [t \in Link |->
        IF m = 0 \/ t = NULL THEN <<>> ELSE <<t>> \o g[m - 1][nx[t]]]
  <2>1. \E f : Walks(nx, MaxTask, f)
    BY <1>0, WalksExist
  <2>2. Walks(nx, MaxTask, g)
    BY <2>1
  <2> HIDE DEF g
  <2> QED BY <2>2 DEF Walks
<1>3. ChainIn(nx, h) = g[MaxTask][h]
  BY DEF ChainIn, Walks, Link
<1> HIDE DEF g
<1>4. /\ \A t \in Tid : t # NULL /\ t \in Link
      /\ NULL \in Link
  BY DEF Tid, NULL, Link
<1>5. P(0)
  <2> SUFFICES ASSUME NEW m \in 0 .. MaxTask
               PROVE  g[m][NULL] = SubSeq(s, n + 1, n)
    BY <1>1
  <2>1. g[m][NULL] = <<>>
    BY <1>2, <1>4
  <2>2. SubSeq(s, n + 1, n) = <<>>
    BY <1>1
  <2> QED BY <2>1, <2>2
<1>6. ASSUME NEW j \in 1 .. n, P(j - 1)
      PROVE  P(j)
  <2> SUFFICES ASSUME NEW m \in 0 .. MaxTask, j <= m
               PROVE  g[m][At(j)] = SubSeq(s, n - j + 1, n)
    OBVIOUS
  <2> DEFINE i == n - j + 1
  <2>1. i \in 1 .. n /\ m # 0 /\ m - 1 \in 0 .. MaxTask /\ j - 1 <= m - 1 /\ j # 0
        /\ n - (j - 1) + 1 = i + 1 /\ (i = n <=> j - 1 = 0) /\ At(j) = s[i]
    BY <1>0, <1>1
  <2>2. s[i] \in Tid
    BY <1>1, <2>1
  <2>3. nx[s[i]] = At(j - 1)
    BY <2>1 DEF Linked
  <2>4. g[m - 1][At(j - 1)] = SubSeq(s, i + 1, n)
    BY <1>6, <2>1
  <2>5. SubSeq(s, i, n) = <<s[i]>> \o SubSeq(s, i + 1, n)
    BY <1>1, <2>1, SubSeqCons
  <2> HIDE DEF i, At
  <2>6. g[m][s[i]] = <<s[i]>> \o g[m - 1][nx[s[i]]]
    <3> DEFINE t == s[i]
    <3>1. t \in Link /\ t # NULL
      BY <1>4, <2>2
    <3> HIDE DEF t
    <3>2. g[m][t] = <<t>> \o g[m - 1][nx[t]]
      BY <1>2, <2>1, <3>1
    <3> QED BY <3>2 DEF t
  <2> QED BY <2>1, <2>3, <2>4, <2>5, <2>6 DEF i
<1>7. Odd = {}
  <2> SUFFICES ASSUME Odd # {} PROVE FALSE
    OBVIOUS
  <2>1. Odd \in SUBSET Nat
    OBVIOUS
  <2>2. PICK k \in Odd : \A m \in Odd : k <= m
    <3> HIDE DEF Odd
    <3> QED BY <2>1, LeastNatural
  <2>3. k \in Nat /\ k <= n /\ ~P(k)
    OBVIOUS
  <2> HIDE DEF P
  <2>4. k # 0
    BY <1>5, <2>3
  <2>5. k - 1 \in Nat /\ k - 1 <= n /\ k \in 1 .. n /\ ~(k <= k - 1)
    BY <1>1, <2>3, <2>4
  <2>6. k - 1 \notin Odd
    <3> HIDE DEF Odd
    <3> QED BY <2>2, <2>5
  <2>7. P(k - 1)
    BY <2>5, <2>6
  <2> QED BY <1>6, <2>3, <2>5, <2>7
<1>8. P(n)
  <2> HIDE DEF P
  <2> QED BY <1>1, <1>7
<1>9. At(n) = h
  BY <1>1 DEF Linked
<1>10. SubSeq(s, n - n + 1, n) = s
  BY <1>1
<1>11. g[MaxTask][h] = SubSeq(s, n - n + 1, n)
  BY <1>0, <1>1, <1>8, <1>9
<1> QED BY <1>3, <1>10, <1>11

-----------------------------------------------------------------------------
(* The De Bruijn lookup.                                                   *)

Lookup(k) == MultiplyDeBruijnBitPosition[1 + TopFiveBits(k)]

\* The table holds the number of every bit of a word.
LEMMA LookupIs ==
  ASSUME NEW k \in 0 .. 31
  PROVE  Lookup(k) = k
<1>1. CASE k = 0
  BY <1>1 DEF Lookup, TopFiveBits, DeBruijn, MultiplyDeBruijnBitPosition
<1>2. CASE k = 1
  BY <1>2 DEF Lookup, TopFiveBits, DeBruijn, MultiplyDeBruijnBitPosition
<1>3. CASE k = 2
  BY <1>3 DEF Lookup, TopFiveBits, DeBruijn, MultiplyDeBruijnBitPosition
<1>4. CASE k = 3
  BY <1>4 DEF Lookup, TopFiveBits, DeBruijn, MultiplyDeBruijnBitPosition
<1>5. CASE k = 4
  BY <1>5 DEF Lookup, TopFiveBits, DeBruijn, MultiplyDeBruijnBitPosition
<1>6. CASE k = 5
  BY <1>6 DEF Lookup, TopFiveBits, DeBruijn, MultiplyDeBruijnBitPosition
<1>7. CASE k = 6
  BY <1>7 DEF Lookup, TopFiveBits, DeBruijn, MultiplyDeBruijnBitPosition
<1>8. CASE k = 7
  BY <1>8 DEF Lookup, TopFiveBits, DeBruijn, MultiplyDeBruijnBitPosition
<1>9. CASE k = 8
  BY <1>9 DEF Lookup, TopFiveBits, DeBruijn, MultiplyDeBruijnBitPosition
<1>10. CASE k = 9
  BY <1>10 DEF Lookup, TopFiveBits, DeBruijn, MultiplyDeBruijnBitPosition
<1>11. CASE k = 10
  BY <1>11 DEF Lookup, TopFiveBits, DeBruijn, MultiplyDeBruijnBitPosition
<1>12. CASE k = 11
  BY <1>12 DEF Lookup, TopFiveBits, DeBruijn, MultiplyDeBruijnBitPosition
<1>13. CASE k = 12
  BY <1>13 DEF Lookup, TopFiveBits, DeBruijn, MultiplyDeBruijnBitPosition
<1>14. CASE k = 13
  BY <1>14 DEF Lookup, TopFiveBits, DeBruijn, MultiplyDeBruijnBitPosition
<1>15. CASE k = 14
  BY <1>15 DEF Lookup, TopFiveBits, DeBruijn, MultiplyDeBruijnBitPosition
<1>16. CASE k = 15
  BY <1>16 DEF Lookup, TopFiveBits, DeBruijn, MultiplyDeBruijnBitPosition
<1>17. CASE k = 16
  BY <1>17 DEF Lookup, TopFiveBits, DeBruijn, MultiplyDeBruijnBitPosition
<1>18. CASE k = 17
  BY <1>18 DEF Lookup, TopFiveBits, DeBruijn, MultiplyDeBruijnBitPosition
<1>19. CASE k = 18
  BY <1>19 DEF Lookup, TopFiveBits, DeBruijn, MultiplyDeBruijnBitPosition
<1>20. CASE k = 19
  BY <1>20 DEF Lookup, TopFiveBits, DeBruijn, MultiplyDeBruijnBitPosition
<1>21. CASE k = 20
  BY <1>21 DEF Lookup, TopFiveBits, DeBruijn, MultiplyDeBruijnBitPosition
<1>22. CASE k = 21
  BY <1>22 DEF Lookup, TopFiveBits, DeBruijn, MultiplyDeBruijnBitPosition
<1>23. CASE k = 22
  BY <1>23 DEF Lookup, TopFiveBits, DeBruijn, MultiplyDeBruijnBitPosition
<1>24. CASE k = 23
  BY <1>24 DEF Lookup, TopFiveBits, DeBruijn, MultiplyDeBruijnBitPosition
<1>25. CASE k = 24
  BY <1>25 DEF Lookup, TopFiveBits, DeBruijn, MultiplyDeBruijnBitPosition
<1>26. CASE k = 25
  BY <1>26 DEF Lookup, TopFiveBits, DeBruijn, MultiplyDeBruijnBitPosition
<1>27. CASE k = 26
  BY <1>27 DEF Lookup, TopFiveBits, DeBruijn, MultiplyDeBruijnBitPosition
<1>28. CASE k = 27
  BY <1>28 DEF Lookup, TopFiveBits, DeBruijn, MultiplyDeBruijnBitPosition
<1>29. CASE k = 28
  BY <1>29 DEF Lookup, TopFiveBits, DeBruijn, MultiplyDeBruijnBitPosition
<1>30. CASE k = 29
  BY <1>30 DEF Lookup, TopFiveBits, DeBruijn, MultiplyDeBruijnBitPosition
<1>31. CASE k = 30
  BY <1>31 DEF Lookup, TopFiveBits, DeBruijn, MultiplyDeBruijnBitPosition
<1>32. CASE k = 31
  BY <1>32 DEF Lookup, TopFiveBits, DeBruijn, MultiplyDeBruijnBitPosition
<1> QED BY <1>1, <1>2, <1>3, <1>4, <1>5, <1>6, <1>7, <1>8, <1>9, <1>10, <1>11, <1>12, <1>13, <1>14, <1>15, <1>16, <1>17, <1>18, <1>19, <1>20, <1>21, <1>22, <1>23, <1>24, <1>25, <1>26, <1>27, <1>28, <1>29, <1>30, <1>31, <1>32

\* The lookup finds the lowest bit of the mask.
LEMMA QueueIndexIs ==
  ASSUME NEW mask \in SUBSET Priority
  PROVE  /\ mask = {} => QueueIndex(mask) = 0
         /\ mask # {} => /\ QueueIndex(mask) \in mask
                         /\ \A q \in mask : QueueIndex(mask) <= q
<1>0. Priority \subseteq 0 .. 31 /\ Priority \subseteq Nat
  BY TaskListsAssumption DEF Priority
<1>1. CASE mask = {}
  BY <1>1 DEF QueueIndex, MultiplyDeBruijnBitPosition
<1>2. CASE mask # {}
  <2> DEFINE k == CHOOSE k \in mask : \A m \in mask : k <= m
  <2>1. \E j \in mask : \A m \in mask : j <= m
    BY <1>0, <1>2, LeastNatural
  <2>2. k \in mask /\ \A m \in mask : k <= m
    BY <2>1
  <2>3. QueueIndex(mask) = Lookup(k)
    BY <1>2 DEF QueueIndex, Lookup
  <2> HIDE DEF k
  <2>4. k \in 0 .. 31
    BY <1>0, <2>2
  <2> QED BY <1>2, <2>2, <2>3, <2>4, LookupIs
<1> QED BY <1>1, <1>2

-----------------------------------------------------------------------------
(* What each operation does to the lists.                                  *)

LEMMA Numbers ==
  /\ \A t \in Tid : t # NULL /\ PriorityOf[t] \in Priority /\ t \in Link
  /\ NULL \in Link
BY TaskListsAssumption DEF Tid, NULL, Link

LEMMA NoneLinked ==
  ASSUME NEW nx, NEW h, NEW s, Linked(nx, h, s)
  PROVE  /\ s \in Seq(Tid) /\ Len(s) \in Nat
         /\ h = NULL <=> s = <<>>
         /\ \A i \in 1 .. Len(s) : s[i] \in Tid /\ s[i] # NULL
BY Numbers DEF Linked

LEMMA InitLists ==
  ASSUME Init
  PROVE  /\ ListsType
         /\ Lists([p \in Priority |-> <<>>], [r \in Tid |-> <<>>])
<1>1. ListsType
  BY Numbers DEF Init, ListsType
<1>2. \A h \in {NULL} : Linked(next, h, <<>>)
  BY DEF Linked
<1> QED BY <1>1, <1>2 DEF Init, Lists, ReadyLists, SenderLists

\* append_task puts t last in the queue of its priority.
LEMMA AppendLists ==
  ASSUME NEW rq, NEW sq, ListsType, Lists(rq, sq), NEW t \in Tid, append_task(t)
  PROVE  /\ ListsType'
         /\ Lists([rq EXCEPT ![PriorityOf[t]] = Append(@, t)], sq)'
         /\ \A p \in Priority : \A i \in 1 .. Len(rq[p]) : rq[p][i] # t
         /\ \A r \in Tid : \A i \in 1 .. Len(sq[r]) : sq[r][i] # t
<1> DEFINE p == PriorityOf[t]
           c == rq[p]
           new == [rq EXCEPT ![p] = Append(@, t)]
<1>1. /\ p \in Priority /\ t # NULL /\ t \in Link /\ NULL \in Link
      /\ rq \in [Priority -> Seq(Tid)] /\ sq \in [Tid -> Seq(Tid)]
      /\ c \in Seq(Tid) /\ Len(c) \in Nat /\ Linked(next, begin[p], c)
      /\ begin[p] = NULL <=> c = <<>>
      /\ \A i \in 1 .. Len(c) : c[i] \in Tid
  BY Numbers, NoneLinked DEF Lists, ReadyLists, SenderLists
<1>2. /\ \A q \in Priority : \A i \in 1 .. Len(rq[q]) : rq[q][i] # t /\ PriorityOf[rq[q][i]] = q
      /\ \A r \in Tid : \A i \in 1 .. Len(sq[r]) : sq[r][i] # t
  BY DEF append_task, Lists, ReadyLists, SenderLists
<1>3. c # <<>> => /\ end[p] = c[Len(c)] /\ Len(c) \in 1 .. Len(c) /\ end[p] # t
                  /\ end[p] \in Tid /\ PriorityOf[end[p]] = p /\ place[end[p]] = "ready"
  <2>1. c # <<>> => Len(c) \in 1 .. Len(c)
    BY <1>1
  <2>2. c # <<>> => end[p] = c[Len(c)]
    BY <1>1 DEF Lists, ReadyLists, SenderLists
  <2>3. \A i \in 1 .. Len(c) : place[c[i]] = "ready" /\ c[i] # t /\ PriorityOf[c[i]] = p /\ c[i] \in Tid
    BY <1>1, <1>2 DEF Lists, ReadyLists, SenderLists
  <2> HIDE DEF c, p
  <2> QED BY <2>1, <2>2, <2>3
<1>4. /\ next' \in [Tid -> Link] /\ begin' \in [Priority -> Link]
      /\ next'[t] = NULL
      /\ \A x \in Tid : x # t /\ (c # <<>> => x # end[p]) => next'[x] = next[x]
      /\ c # <<>> => next'[end[p]] = t /\ begin' = begin
      /\ c = <<>> => begin' = [begin EXCEPT ![p] = t]
  <2> HIDE DEF c, p
  <2>1. CASE c = <<>>
    BY <1>1, <2>1 DEF append_task, LinkLast, ListsType, p
  <2>2. CASE c # <<>>
    BY <1>1, <1>3, <2>2 DEF append_task, LinkLast, ListsType, p
  <2> QED BY <2>1, <2>2
<1>5. /\ end' = [end EXCEPT ![p] = t] /\ sendQ' = sendQ
      /\ place' = [place EXCEPT ![t] = "ready"]
      /\ queueFullMask' = queueFullMask \cup {p}
  BY DEF append_task, SetBit
<1>6. ListsType'
  BY <1>1, <1>4, <1>5 DEF ListsType
<1> HIDE DEF c, p, new
<1>7. /\ new \in [Priority -> Seq(Tid)]
      /\ new[p] = Append(c, t)
      /\ \A q \in Priority : q # p => new[q] = rq[q]
  BY <1>1 DEF new, c
<1>8. /\ Append(c, t) \in Seq(Tid) /\ Len(Append(c, t)) = Len(c) + 1 /\ Append(c, t) # <<>>
      /\ Append(c, t)[Len(c) + 1] = t
      /\ \A i \in 1 .. Len(c) : Append(c, t)[i] = c[i]
      /\ \A i \in 1 .. Len(c) + 1 : i = Len(c) + 1 \/ i \in 1 .. Len(c)
  BY <1>1, AppendIs
<1>9. ASSUME NEW q \in Priority
      PROVE  Linked(next', begin'[q], new[q])
  <2>1. CASE q = p /\ c = <<>>
    <3>1. begin'[p] = t
      BY <1>1, <1>4, <2>1 DEF ListsType
    <3>2. Linked(next', t, Append(<<>>, t))
      BY <1>4, LinkedOne
    <3>3. new[q] = Append(<<>>, t)
      BY <1>7, <2>1
    <3> QED BY <2>1, <3>1, <3>2, <3>3
  <2>2. CASE q = p /\ c # <<>>
    <3>1. \A i \in 1 .. Len(c) : c[i] # t
      BY <1>1, <1>2 DEF c
    <3>2. ASSUME NEW i \in 1 .. Len(c) - 1
          PROVE  next'[c[i]] = next[c[i]]
      <4>1. i \in 1 .. Len(c) /\ i # Len(c)
        BY <1>1
      <4>2. c[i] # c[Len(c)]
        BY <1>1, <1>3, <2>2, <4>1 DEF Linked
      <4> QED BY <1>1, <1>3, <1>4, <2>2, <3>1, <4>1, <4>2
    <3>3. Linked(next', begin[p], Append(c, t))
      BY <1>1, <1>3, <1>4, <2>2, <3>1, <3>2, LinkedAppend
    <3> QED BY <1>4, <1>7, <2>2, <3>3
  <2>3. CASE q # p
    <3>1. Linked(next, begin[q], rq[q])
      BY DEF Lists, ReadyLists, SenderLists
    <3>2. \A i \in 1 .. Len(rq[q]) : rq[q][i] \in Tid
      BY <3>1, NoneLinked
    <3>3. \A i \in 1 .. Len(rq[q]) : next'[rq[q][i]] = next[rq[q][i]]
      BY <1>2, <1>3, <1>4, <2>3, <3>2
    <3>4. begin'[q] = begin[q]
      BY <1>1, <1>4, <2>3 DEF ListsType
    <3> QED BY <1>7, <2>3, <3>1, <3>3, <3>4, LinkedFrame
  <2> QED BY <2>1, <2>2, <2>3
<1>10. ASSUME NEW q \in Priority, new[q] # <<>>
       PROVE  end'[q] = new[q][Len(new[q])]
  <2>1. CASE q = p
    BY <1>1, <1>5, <1>7, <1>8, <2>1 DEF ListsType
  <2>2. CASE q # p
    BY <1>5, <1>7, <1>10, <2>2 DEF Lists, ReadyLists, SenderLists, ListsType
  <2> QED BY <2>1, <2>2
<1>11. ASSUME NEW q \in Priority, NEW i \in 1 .. Len(new[q])
       PROVE  place'[new[q][i]] = "ready" /\ PriorityOf[new[q][i]] = q
  <2>0. /\ place'[t] = "ready" /\ PriorityOf[t] = p
        /\ \A x \in Tid : x # t => place'[x] = place[x]
    BY <1>5 DEF ListsType, p
  <2>1. CASE q = p
    <3>1. i \in 1 .. Len(c) + 1
      BY <1>7, <1>8, <2>1
    <3>2. CASE i = Len(c) + 1
      BY <1>7, <1>8, <2>0, <2>1, <3>2
    <3>3. CASE i \in 1 .. Len(c)
      <4>1. new[q][i] = c[i] /\ c[i] \in Tid /\ c[i] # t
        BY <1>1, <1>2, <1>7, <1>8, <2>1, <3>3 DEF c
      <4>2. place[c[i]] = "ready" /\ PriorityOf[c[i]] = p
        BY <1>1, <3>3 DEF Lists, ReadyLists, SenderLists, c
      <4> QED BY <2>0, <2>1, <4>1, <4>2
    <3> QED BY <1>8, <3>1, <3>2, <3>3
  <2>2. CASE q # p
    <3>1. new[q] = rq[q] /\ Linked(next, begin[q], rq[q])
      BY <1>7, <2>2 DEF Lists, ReadyLists, SenderLists
    <3>2. rq[q][i] \in Tid
      BY <3>1, NoneLinked
    <3>3. rq[q][i] # t /\ place[rq[q][i]] = "ready" /\ PriorityOf[rq[q][i]] = q
      BY <1>2, <3>1 DEF Lists, ReadyLists, SenderLists
    <3> QED BY <2>0, <3>1, <3>2, <3>3
  <2> QED BY <2>1, <2>2
<1>12. queueFullMask' = {q \in Priority : new[q] # <<>>}
  <2>1. queueFullMask = {q \in Priority : rq[q] # <<>>}
    BY DEF Lists, ReadyLists, SenderLists
  <2> QED BY <1>1, <1>5, <1>7, <1>8, <2>1
<1>13. ASSUME NEW r \in Tid
       PROVE  /\ Linked(next', sendQ'[r], sq[r])
              /\ \A i \in 1 .. Len(sq[r]) : place'[sq[r][i]] = "sending"
  <2>1. Linked(next, sendQ[r], sq[r]) /\ \A i \in 1 .. Len(sq[r]) : place[sq[r][i]] = "sending"
    BY DEF Lists, ReadyLists, SenderLists
  <2>2. \A i \in 1 .. Len(sq[r]) : sq[r][i] \in Tid
    BY <2>1, NoneLinked
  <2>3. \A i \in 1 .. Len(sq[r]) : next'[sq[r][i]] = next[sq[r][i]]
    BY <1>2, <1>3, <1>4, <2>1, <2>2
  <2>4. \A i \in 1 .. Len(sq[r]) : place'[sq[r][i]] = "sending"
    BY <1>2, <1>5, <2>1, <2>2 DEF ListsType
  <2> QED BY <1>5, <2>1, <2>3, <2>4, LinkedFrame
<1>14. ASSUME NEW x \in Tid, place'[x] = "running"
       PROVE  next'[x] = NULL
  <2>1. x # t /\ place[x] = "running"
    BY <1>5, <1>14 DEF ListsType
  <2>2. next[x] = NULL
    BY <2>1 DEF Lists, ReadyLists, SenderLists
  <2>3. c # <<>> => x # end[p]
    BY <1>3, <2>1
  <2> QED BY <1>4, <2>1, <2>2, <2>3
<1>15. Lists(new, sq)'
  <2>1. \A r1, r2 \in Tid : \A i \in 1 .. Len(sq[r1]), j \in 1 .. Len(sq[r2]) :
          sq[r1][i] = sq[r2][j] => r1 = r2
    BY DEF Lists, ReadyLists, SenderLists
  <2>2. ReadyLists(new)'
    BY <1>7, <1>9, <1>10, <1>11, <1>12 DEF ReadyLists
  <2>3. SenderLists(sq)'
    BY <1>1, <1>13, <2>1 DEF SenderLists
  <2> QED BY <1>14, <2>2, <2>3 DEF Lists
<1> QED BY <1>2, <1>6, <1>15 DEF new, p

\* A sender goes behind the last one of its receiver.
LEMMA SendLists ==
  ASSUME NEW rq, NEW sq, ListsType, Lists(rq, sq), NEW t \in Tid, NEW r \in Tid, SendLink(t, r)
  PROVE  /\ ListsType'
         /\ Lists(rq, [sq EXCEPT ![r] = Append(@, t)])'
         /\ \A p \in Priority : \A i \in 1 .. Len(rq[p]) : rq[p][i] # t
         /\ \A x \in Tid : \A i \in 1 .. Len(sq[x]) : sq[x][i] # t
<1> DEFINE c == sq[r]
           last == c[Len(c)]
           new == [sq EXCEPT ![r] = Append(@, t)]
<1>1. /\ t # NULL /\ t \in Link /\ NULL \in Link
      /\ rq \in [Priority -> Seq(Tid)] /\ sq \in [Tid -> Seq(Tid)]
      /\ c \in Seq(Tid) /\ Len(c) \in Nat /\ Linked(next, sendQ[r], c)
      /\ sendQ[r] = NULL <=> c = <<>>
      /\ \A i \in 1 .. Len(c) : c[i] \in Tid
  BY Numbers, NoneLinked DEF Lists, ReadyLists, SenderLists
<1>2. /\ \A p \in Priority : \A i \in 1 .. Len(rq[p]) : rq[p][i] # t /\ place[rq[p][i]] = "ready"
      /\ \A x \in Tid : \A i \in 1 .. Len(sq[x]) : sq[x][i] # t /\ place[sq[x][i]] = "sending"
      /\ next[t] = NULL /\ place[t] = "running"
  BY DEF SendLink, Lists, ReadyLists, SenderLists
<1>3. c # <<>> => /\ Len(c) \in 1 .. Len(c) /\ last \in Tid /\ last # t /\ place[last] = "sending"
                  /\ Chain(sendQ[r]) = c
  <2>1. c # <<>> => Len(c) \in 1 .. Len(c)
    BY <1>1
  <2>2. Chain(sendQ[r]) = c
    BY <1>1, ChainIs DEF Chain
  <2> QED BY <1>1, <1>2, <2>1, <2>2
<1> HIDE DEF last, c, new
<1>4. /\ next' \in [Tid -> Link] /\ sendQ' \in [Tid -> Link]
      /\ next'[t] = NULL
      /\ \A x \in Tid : x # t /\ (c # <<>> => x # last) => next'[x] = next[x]
      /\ c # <<>> => next'[last] = t /\ sendQ' = sendQ
      /\ c = <<>> => sendQ' = [sendQ EXCEPT ![r] = t]
  <2>1. CASE c = <<>>
    <3>1. next' = next /\ sendQ' = [sendQ EXCEPT ![r] = t]
      BY <1>1, <2>1 DEF SendLink
    <3> QED BY <1>1, <1>2, <2>1, <3>1 DEF ListsType
  <2>2. CASE c # <<>>
    <3>1. next' = [next EXCEPT ![last] = t] /\ sendQ' = sendQ
      BY <1>1, <1>3, <2>2 DEF SendLink, last
    <3> QED BY <1>1, <1>2, <1>3, <2>2, <3>1 DEF ListsType
  <2> QED BY <2>1, <2>2
<1>5. /\ end' = end /\ begin' = begin /\ queueFullMask' = queueFullMask
      /\ place' = [place EXCEPT ![t] = "sending"]
  BY DEF SendLink
<1>6. ListsType'
  BY <1>1, <1>4, <1>5 DEF ListsType
<1>7. /\ new \in [Tid -> Seq(Tid)]
      /\ new[r] = Append(c, t)
      /\ \A x \in Tid : x # r => new[x] = sq[x]
  BY <1>1 DEF new, c
<1>8. /\ Append(c, t) \in Seq(Tid) /\ Len(Append(c, t)) = Len(c) + 1 /\ Append(c, t) # <<>>
      /\ Append(c, t)[Len(c) + 1] = t
      /\ \A i \in 1 .. Len(c) : Append(c, t)[i] = c[i]
      /\ \A i \in 1 .. Len(c) + 1 : i = Len(c) + 1 \/ i \in 1 .. Len(c)
  BY <1>1, AppendIs
<1>9. /\ place'[t] = "sending"
      /\ \A x \in Tid : x # t => place'[x] = place[x]
  BY <1>5 DEF ListsType
<1>10. \A x, y \in Tid : \A i \in 1 .. Len(sq[x]), j \in 1 .. Len(sq[y]) : sq[x][i] = sq[y][j] => x = y
  BY DEF Lists, ReadyLists, SenderLists
<1>11. ASSUME NEW x \in Tid
       PROVE  /\ Linked(next', sendQ'[x], new[x])
              /\ \A i \in 1 .. Len(new[x]) : place'[new[x][i]] = "sending"
  <2>1. CASE x = r /\ c = <<>>
    <3>1. sendQ'[r] = t
      BY <1>1, <1>4, <2>1 DEF ListsType
    <3>2. Linked(next', t, Append(<<>>, t))
      BY <1>4, LinkedOne
    <3>3. new[x] = Append(<<>>, t)
      BY <1>7, <2>1
    <3>4. Len(Append(<<>>, t)) = 1 /\ \A i \in 1 .. 1 : Append(<<>>, t)[i] = t
      OBVIOUS
    <3> QED BY <1>9, <2>1, <3>1, <3>2, <3>3, <3>4
  <2>2. CASE x = r /\ c # <<>>
    <3>1. \A i \in 1 .. Len(c) : c[i] # t
      BY <1>1, <1>2 DEF c
    <3>2. ASSUME NEW i \in 1 .. Len(c) - 1
          PROVE  next'[c[i]] = next[c[i]]
      <4>1. i \in 1 .. Len(c) /\ i # Len(c)
        BY <1>1
      <4>2. c[i] # last
        BY <1>1, <1>3, <2>2, <4>1 DEF Linked, last
      <4> QED BY <1>1, <1>4, <2>2, <3>1, <4>1, <4>2
    <3>3. next'[c[Len(c)]] = t
      BY <1>4, <2>2 DEF last
    <3>4. Linked(next', sendQ[r], Append(c, t))
      BY <1>1, <1>4, <2>2, <3>1, <3>2, <3>3, LinkedAppend
    <3>5. \A i \in 1 .. Len(c) : c[i] \in Tid /\ place[c[i]] = "sending"
      BY <1>1, <1>2 DEF c
    <3>6. \A i \in 1 .. Len(c) + 1 : place'[Append(c, t)[i]] = "sending"
      BY <1>8, <1>9, <3>1, <3>5
    <3> QED BY <1>4, <1>7, <1>8, <2>2, <3>4, <3>6
  <2>3. CASE x # r
    <3>1. Linked(next, sendQ[x], sq[x])
      BY DEF Lists, ReadyLists, SenderLists
    <3>2. \A i \in 1 .. Len(sq[x]) : sq[x][i] \in Tid
      BY <3>1, NoneLinked
    <3>3. ASSUME NEW i \in 1 .. Len(sq[x]), c # <<>>
          PROVE  sq[x][i] # last
      BY <1>3, <1>10, <2>3, <3>3 DEF last, c
    <3>4. \A i \in 1 .. Len(sq[x]) : next'[sq[x][i]] = next[sq[x][i]]
      BY <1>2, <1>4, <3>2, <3>3
    <3>5. sendQ'[x] = sendQ[x]
      BY <1>4, <2>3 DEF ListsType
    <3>6. \A i \in 1 .. Len(sq[x]) : place'[sq[x][i]] = "sending"
      BY <1>2, <1>9, <3>2
    <3> QED BY <1>7, <2>3, <3>1, <3>4, <3>5, <3>6, LinkedFrame
  <2> QED BY <2>1, <2>2, <2>3
<1>12. ASSUME NEW p \in Priority
       PROVE  /\ Linked(next', begin'[p], rq[p])
              /\ \A i \in 1 .. Len(rq[p]) : place'[rq[p][i]] = "ready"
  <2>1. Linked(next, begin[p], rq[p])
    BY DEF Lists, ReadyLists, SenderLists
  <2>2. \A i \in 1 .. Len(rq[p]) : rq[p][i] \in Tid
    BY <2>1, NoneLinked
  <2>3. \A i \in 1 .. Len(rq[p]) : next'[rq[p][i]] = next[rq[p][i]]
    BY <1>2, <1>3, <1>4, <2>2
  <2>4. \A i \in 1 .. Len(rq[p]) : place'[rq[p][i]] = "ready"
    BY <1>2, <1>9, <2>2
  <2> QED BY <1>5, <2>1, <2>3, <2>4, LinkedFrame
<1>13. ASSUME NEW x \in Tid, NEW y \in Tid, NEW i \in 1 .. Len(new[x]), NEW j \in 1 .. Len(new[y]),
              new[x][i] = new[y][j]
       PROVE  x = y
  <2>1. ASSUME NEW z \in Tid, NEW k \in 1 .. Len(new[z])
        PROVE  \/ z = r /\ new[z][k] = t
               \/ k \in 1 .. Len(sq[z]) /\ new[z][k] = sq[z][k] /\ new[z][k] # t
    <3>1. CASE z = r
      <4>1. new[z] = Append(c, t) /\ k \in 1 .. Len(c) + 1
        BY <1>7, <1>8, <3>1
      <4>2. \A l \in 1 .. Len(c) : c[l] # t /\ c[l] = sq[r][l] /\ l \in 1 .. Len(sq[r])
        BY <1>2 DEF c
      <4> QED BY <1>8, <3>1, <4>1, <4>2
    <3>2. CASE z # r
      <4>1. new[z] = sq[z] /\ k \in 1 .. Len(sq[z])
        BY <1>7, <3>2
      <4> QED BY <1>2, <4>1
    <3> QED BY <3>1, <3>2
  <2> QED BY <1>10, <1>13, <2>1
<1>14. ASSUME NEW x \in Tid, place'[x] = "running"
       PROVE  next'[x] = NULL
  <2>1. x # t /\ place[x] = "running"
    BY <1>9, <1>14
  <2>2. next[x] = NULL
    BY <2>1 DEF Lists, ReadyLists, SenderLists
  <2>3. c # <<>> => x # last
    BY <1>3, <2>1
  <2> QED BY <1>4, <2>1, <2>2, <2>3
<1>15. Lists(rq, new)'
  <2>1. /\ \A p \in Priority : rq[p] # <<>> => end[p] = rq[p][Len(rq[p])]
        /\ \A p \in Priority : \A i \in 1 .. Len(rq[p]) : PriorityOf[rq[p][i]] = p
        /\ queueFullMask = {p \in Priority : rq[p] # <<>>}
    BY DEF Lists, ReadyLists, SenderLists
  <2>2. ReadyLists(rq)'
    BY <1>1, <1>5, <1>12, <2>1 DEF ReadyLists
  <2>3. SenderLists(new)'
    BY <1>7, <1>11, <1>13 DEF SenderLists
  <2> QED BY <1>14, <2>2, <2>3 DEF Lists
<1> QED BY <1>2, <1>6, <1>15 DEF new

\* The head of the most urgent queue is taken, and its link cleared.
LEMMA TakeLists ==
  ASSUME NEW rq, NEW sq, ListsType, Lists(rq, sq), next_ready_task
  PROVE  \E p \in Priority :
           /\ ListsType'
           /\ rq[p] # <<>>
           /\ \A q \in Priority : q < p => rq[q] = <<>>
           /\ Lists([rq EXCEPT ![p] = Tail(@)], sq)'
<1>0. PICK p : p = QueueIndex(queueFullMask)
  OBVIOUS
<1> DEFINE c == rq[p]
           t == begin[p]
           new == [rq EXCEPT ![p] = Tail(@)]
<1>1. queueFullMask = {q \in Priority : rq[q] # <<>>}
  BY DEF Lists, ReadyLists, SenderLists
<1>2. queueFullMask # {}
  <2> SUFFICES ASSUME queueFullMask = {} PROVE FALSE
    OBVIOUS
  <2>1. p = 0 /\ 0 \in Priority
    BY <1>0, QueueIndexIs, TaskListsAssumption DEF Priority
  <2>2. rq[0] = <<>> /\ Linked(next, begin[0], rq[0])
    BY <1>1, <2>1 DEF Lists, ReadyLists, SenderLists
  <2> QED BY <1>0, <2>1, <2>2, NoneLinked DEF next_ready_task
<1>3. /\ p \in Priority /\ c # <<>>
      /\ \A q \in Priority : q < p => rq[q] = <<>>
  <2>1. queueFullMask \in SUBSET Priority
    BY <1>1
  <2>2. p \in queueFullMask /\ \A q \in queueFullMask : p <= q
    BY <1>0, <1>2, <2>1, QueueIndexIs
  <2>3. \A q \in Priority : q \in Int
    BY TaskListsAssumption DEF Priority
  <2> QED BY <1>1, <2>1, <2>2, <2>3 DEF c
<1>4. /\ rq \in [Priority -> Seq(Tid)] /\ sq \in [Tid -> Seq(Tid)]
      /\ c \in Seq(Tid) /\ Len(c) \in Nat /\ Len(c) # 0 /\ Linked(next, t, c)
      /\ end[p] = c[Len(c)]
      /\ \A i \in 1 .. Len(c) : place[c[i]] = "ready" /\ PriorityOf[c[i]] = p /\ c[i] \in Tid
      /\ NULL \in Link
  BY <1>3, Numbers, NoneLinked DEF Lists, ReadyLists, SenderLists
<1>5. /\ Linked(next, next[t], Tail(c)) /\ t \in Tid /\ t = c[1] /\ 1 \in 1 .. Len(c)
      /\ next[t] = NULL <=> Tail(c) = <<>>
      /\ \A i \in 1 .. Len(Tail(c)) : Tail(c)[i] # t
  BY <1>3, <1>4, LinkedTail
<1>6. /\ Len(Tail(c)) = Len(c) - 1 /\ Tail(c) \in Seq(Tid) /\ (Tail(c) = <<>> <=> Len(c) = 1)
      /\ \A i \in 1 .. Len(c) - 1 : Tail(c)[i] = c[i + 1] /\ i + 1 \in 1 .. Len(c)
  BY <1>3, <1>4, TailIs
<1>7. /\ begin' = [begin EXCEPT ![p] = next[t]]
      /\ next' = [next EXCEPT ![t] = NULL]
      /\ place' = [place EXCEPT ![t] = "running"]
      /\ sendQ' = sendQ
      /\ next[t] = NULL => end' = [end EXCEPT ![p] = NULL] /\ queueFullMask' = queueFullMask \ {p}
      /\ next[t] # NULL => end' = end /\ queueFullMask' = queueFullMask
  BY <1>0 DEF next_ready_task, ClearLink
<1> HIDE DEF c, t, new
<1>8. ListsType'
  BY <1>3, <1>4, <1>5, <1>7 DEF ListsType
<1>9. /\ new \in [Priority -> Seq(Tid)] /\ new[p] = Tail(c)
      /\ \A q \in Priority : q # p => new[q] = rq[q]
  BY <1>3, <1>4, <1>6 DEF new, c
<1>10. /\ place'[t] = "running" /\ next'[t] = NULL
       /\ \A x \in Tid : x # t => place'[x] = place[x] /\ next'[x] = next[x]
  BY <1>4, <1>5, <1>7 DEF ListsType
<1>11. ASSUME NEW q \in Priority
       PROVE  /\ Linked(next', begin'[q], new[q])
              /\ \A i \in 1 .. Len(new[q]) : place'[new[q][i]] = "ready" /\ PriorityOf[new[q][i]] = q
              /\ new[q] # <<>> => end'[q] = new[q][Len(new[q])]
  <2>1. CASE q = p
    <3>1. \A i \in 1 .. Len(Tail(c)) : Tail(c)[i] \in Tid /\ place[Tail(c)[i]] = "ready"
                                       /\ PriorityOf[Tail(c)[i]] = p
      BY <1>4, <1>6
    <3>2. \A i \in 1 .. Len(Tail(c)) : next'[Tail(c)[i]] = next[Tail(c)[i]]
                                       /\ place'[Tail(c)[i]] = "ready"
      BY <1>5, <1>10, <3>1
    <3>3. Linked(next', next[t], Tail(c))
      BY <1>5, <3>2, LinkedFrame
    <3>4. begin'[p] = next[t]
      BY <1>3, <1>7 DEF ListsType
    <3>5. Tail(c) # <<>> => end'[p] = Tail(c)[Len(Tail(c))]
      <4>1. Tail(c) # <<>> => Len(c) - 1 \in 1 .. Len(c) - 1 /\ Len(c) - 1 + 1 = Len(c)
        BY <1>4, <1>6
      <4> QED BY <1>4, <1>5, <1>6, <1>7, <4>1
    <3> QED BY <1>9, <2>1, <3>1, <3>2, <3>3, <3>4, <3>5
  <2>2. CASE q # p
    <3>1. /\ Linked(next, begin[q], rq[q])
          /\ \A i \in 1 .. Len(rq[q]) : place[rq[q][i]] = "ready" /\ PriorityOf[rq[q][i]] = q
          /\ rq[q] # <<>> => end[q] = rq[q][Len(rq[q])]
      BY DEF Lists, ReadyLists, SenderLists
    <3>2. \A i \in 1 .. Len(rq[q]) : rq[q][i] \in Tid
      BY <3>1, NoneLinked
    <3>3. PriorityOf[t] = p
      BY <1>4, <1>5
    <3>4. \A i \in 1 .. Len(rq[q]) : next'[rq[q][i]] = next[rq[q][i]] /\ place'[rq[q][i]] = "ready"
      BY <1>10, <2>2, <3>1, <3>2, <3>3
    <3>5. Linked(next', begin[q], rq[q])
      BY <3>1, <3>4, LinkedFrame
    <3>6. begin'[q] = begin[q] /\ end'[q] = end[q]
      BY <1>7, <2>2 DEF ListsType
    <3> QED BY <1>9, <2>2, <3>1, <3>4, <3>5, <3>6
  <2> QED BY <2>1, <2>2
<1>12. queueFullMask' = {q \in Priority : new[q] # <<>>}
  <2>1. \A q \in Priority : new[q] # <<>> <=> IF q = p THEN next[t] # NULL ELSE rq[q] # <<>>
    BY <1>5, <1>9
  <2>2. queueFullMask' = IF next[t] = NULL THEN queueFullMask \ {p} ELSE queueFullMask
    BY <1>7
  <2>3. rq[p] # <<>>
    BY <1>3 DEF c
  <2> QED BY <1>1, <1>3, <2>1, <2>2, <2>3
<1>13. ASSUME NEW x \in Tid
       PROVE  /\ Linked(next', sendQ'[x], sq[x])
              /\ \A i \in 1 .. Len(sq[x]) : place'[sq[x][i]] = "sending"
  <2>1. Linked(next, sendQ[x], sq[x]) /\ \A i \in 1 .. Len(sq[x]) : place[sq[x][i]] = "sending"
    BY DEF Lists, ReadyLists, SenderLists
  <2>2. \A i \in 1 .. Len(sq[x]) : sq[x][i] \in Tid
    BY <2>1, NoneLinked
  <2>3. place[t] = "ready"
    BY <1>4, <1>5
  <2>4. \A i \in 1 .. Len(sq[x]) : next'[sq[x][i]] = next[sq[x][i]] /\ place'[sq[x][i]] = "sending"
    BY <1>10, <2>1, <2>2, <2>3
  <2> QED BY <1>7, <2>1, <2>4, LinkedFrame
<1>14. ASSUME NEW x \in Tid, place'[x] = "running"
       PROVE  next'[x] = NULL
  BY <1>10, <1>14 DEF Lists, ReadyLists, SenderLists
<1>15. Lists(new, sq)'
  <2>1. \A x, y \in Tid : \A i \in 1 .. Len(sq[x]), j \in 1 .. Len(sq[y]) :
          sq[x][i] = sq[y][j] => x = y
    BY DEF Lists, ReadyLists, SenderLists
  <2>2. ReadyLists(new)'
    BY <1>9, <1>11, <1>12 DEF ReadyLists
  <2>3. SenderLists(sq)'
    BY <1>4, <1>13, <2>1 DEF SenderLists
  <2> QED BY <1>14, <2>2, <2>3 DEF Lists
<1> QED BY <1>3, <1>8, <1>15 DEF new, c

\* The first sender of r is taken; its link stays.
LEMMA ReceiveLists ==
  ASSUME NEW rq, NEW sq, ListsType, Lists(rq, sq), NEW r \in Tid, ReceiveUnlink(r)
  PROVE  /\ ListsType'
         /\ sq[r] # <<>>
         /\ Lists(rq, [sq EXCEPT ![r] = Tail(@)])'
<1> DEFINE c == sq[r]
           t == sendQ[r]
           new == [sq EXCEPT ![r] = Tail(@)]
<1>1. /\ rq \in [Priority -> Seq(Tid)] /\ sq \in [Tid -> Seq(Tid)]
      /\ c \in Seq(Tid) /\ Len(c) \in Nat /\ Linked(next, t, c)
      /\ \A i \in 1 .. Len(c) : place[c[i]] = "sending" /\ c[i] \in Tid
      /\ t # NULL
  BY NoneLinked DEF Lists, ReadyLists, SenderLists, ReceiveUnlink
<1>2. c # <<>> /\ Len(c) # 0
  BY <1>1, NoneLinked
<1>3. /\ Linked(next, next[t], Tail(c)) /\ t \in Tid /\ t = c[1] /\ 1 \in 1 .. Len(c)
      /\ \A i \in 1 .. Len(Tail(c)) : Tail(c)[i] # t
  BY <1>1, <1>2, LinkedTail
<1>4. /\ Len(Tail(c)) = Len(c) - 1 /\ Tail(c) \in Seq(Tid)
      /\ \A i \in 1 .. Len(c) - 1 : Tail(c)[i] = c[i + 1] /\ i + 1 \in 1 .. Len(c)
  BY <1>1, <1>2, TailIs
<1>5. /\ sendQ' = [sendQ EXCEPT ![r] = next[t]]
      /\ place' = [place EXCEPT ![t] = "taken"]
      /\ next' = next /\ begin' = begin /\ end' = end /\ queueFullMask' = queueFullMask
  BY DEF ReceiveUnlink
<1> HIDE DEF c, t, new
<1>6. ListsType'
  BY <1>3, <1>5 DEF ListsType
<1>7. /\ new \in [Tid -> Seq(Tid)] /\ new[r] = Tail(c)
      /\ \A x \in Tid : x # r => new[x] = sq[x]
  BY <1>1, <1>4 DEF new, c
<1>8. /\ place'[t] = "taken" /\ place[t] = "sending"
      /\ \A x \in Tid : x # t => place'[x] = place[x]
  BY <1>1, <1>3, <1>5 DEF ListsType
<1>9. \A x, y \in Tid : \A i \in 1 .. Len(sq[x]), j \in 1 .. Len(sq[y]) : sq[x][i] = sq[y][j] => x = y
  BY DEF Lists, ReadyLists, SenderLists
<1>10. ASSUME NEW x \in Tid, NEW i \in 1 .. Len(new[x])
       PROVE  /\ \E j \in 1 .. Len(sq[x]) : new[x][i] = sq[x][j]
              /\ new[x][i] # t
  <2>1. CASE x = r
    <3>1. new[x] = Tail(c) /\ i \in 1 .. Len(c) - 1 /\ i \in 1 .. Len(Tail(c))
      BY <1>4, <1>7, <2>1
    <3>2. new[x][i] = c[i + 1] /\ i + 1 \in 1 .. Len(c)
      BY <1>4, <3>1
    <3> QED BY <1>3, <2>1, <3>1, <3>2 DEF c
  <2>2. CASE x # r
    <3>1. c[1] = sq[r][1]
      BY DEF c
    <3>2. 1 \in 1 .. Len(sq[r])
      BY <1>3 DEF c
    <3>3. new[x] = sq[x] /\ i \in 1 .. Len(sq[x])
      BY <1>7, <2>2
    <3>4. sq[x][i] # sq[r][1]
      BY <1>9, <2>2, <3>2, <3>3
    <3> QED BY <1>3, <3>1, <3>3, <3>4
  <2> QED BY <2>1, <2>2
<1>11. ASSUME NEW x \in Tid
       PROVE  /\ Linked(next', sendQ'[x], new[x])
              /\ \A i \in 1 .. Len(new[x]) : place'[new[x][i]] = "sending"
  <2>1. Linked(next, sendQ[x], sq[x]) /\ \A i \in 1 .. Len(sq[x]) : place[sq[x][i]] = "sending"
    BY DEF Lists, ReadyLists, SenderLists
  <2>2. \A i \in 1 .. Len(sq[x]) : sq[x][i] \in Tid
    BY <2>1, NoneLinked
  <2>3. \A i \in 1 .. Len(new[x]) : place'[new[x][i]] = "sending"
    BY <1>8, <1>10, <2>1, <2>2
  <2>4. CASE x = r
    <3>1. sendQ'[r] = next[t]
      BY <1>5 DEF ListsType
    <3> QED BY <1>3, <1>5, <1>7, <2>3, <2>4, <3>1
  <2>5. CASE x # r
    <3>1. sendQ'[x] = sendQ[x]
      BY <1>5, <2>5 DEF ListsType
    <3> QED BY <1>5, <1>7, <2>1, <2>3, <2>5, <3>1
  <2> QED BY <2>4, <2>5
<1>12. ASSUME NEW p \in Priority
       PROVE  /\ Linked(next', begin'[p], rq[p])
              /\ \A i \in 1 .. Len(rq[p]) : place'[rq[p][i]] = "ready" /\ PriorityOf[rq[p][i]] = p
              /\ rq[p] # <<>> => end'[p] = rq[p][Len(rq[p])]
  <2>1. /\ Linked(next, begin[p], rq[p])
        /\ \A i \in 1 .. Len(rq[p]) : place[rq[p][i]] = "ready" /\ PriorityOf[rq[p][i]] = p
        /\ rq[p] # <<>> => end[p] = rq[p][Len(rq[p])]
    BY DEF Lists, ReadyLists, SenderLists
  <2>2. \A i \in 1 .. Len(rq[p]) : rq[p][i] \in Tid
    BY <2>1, NoneLinked
  <2> QED BY <1>5, <1>8, <2>1, <2>2
<1>13. ASSUME NEW x \in Tid, NEW y \in Tid, NEW i \in 1 .. Len(new[x]), NEW j \in 1 .. Len(new[y]),
              new[x][i] = new[y][j]
       PROVE  x = y
  <2>1. PICK k \in 1 .. Len(sq[x]) : new[x][i] = sq[x][k]
    BY <1>10
  <2>2. PICK l \in 1 .. Len(sq[y]) : new[y][j] = sq[y][l]
    BY <1>10
  <2> QED BY <1>9, <1>13, <2>1, <2>2
<1>14. ASSUME NEW x \in Tid, place'[x] = "running"
       PROVE  next'[x] = NULL
  BY <1>5, <1>8, <1>14 DEF Lists, ReadyLists, SenderLists
<1>15. Lists(rq, new)'
  <2>1. queueFullMask = {p \in Priority : rq[p] # <<>>}
    BY DEF Lists, ReadyLists, SenderLists
  <2>2. ReadyLists(rq)'
    BY <1>1, <1>5, <1>12, <2>1 DEF ReadyLists
  <2>3. SenderLists(new)'
    BY <1>7, <1>11, <1>13 DEF SenderLists
  <2> QED BY <1>14, <2>2, <2>3 DEF Lists
<1> QED BY <1>2, <1>6, <1>15 DEF new, c

-----------------------------------------------------------------------------
(* The theorems.                                                           *)

LEMMA InvGivesLists ==
  ASSUME ListInv
  PROVE  \E rq, sq : Lists(rq, sq) /\ ListsType
BY DEF ListInv

LEMMA ListsAre ==
  ASSUME NEW rq, NEW sq, Lists(rq, sq)
  PROVE  /\ rq = [p \in Priority |-> Chain(begin[p])]
         /\ sq = [r \in Tid |-> Chain(sendQ[r])]
<1>1. \A p \in Priority : Chain(begin[p]) = rq[p]
  BY ChainIs DEF Lists, ReadyLists, SenderLists, Chain
<1>2. \A r \in Tid : Chain(sendQ[r]) = sq[r]
  BY ChainIs DEF Lists, ReadyLists, SenderLists, Chain
<1>3. rq = [p \in Priority |-> rq[p]] /\ sq = [r \in Tid |-> sq[r]]
  BY DEF Lists, ReadyLists, SenderLists
<1> QED BY <1>1, <1>2, <1>3, Zenon

LEMMA ListsAreNext ==
  ASSUME NEW rq, NEW sq, Lists(rq, sq)'
  PROVE  /\ rq = [p \in Priority |-> Chain(begin[p])]'
         /\ sq = [r \in Tid |-> Chain(sendQ[r])]'
<1>1. \A p \in Priority : Chain(begin[p])' = rq[p]
  BY ChainIs DEF Lists, ReadyLists, SenderLists, Chain
<1>2. \A r \in Tid : Chain(sendQ[r])' = sq[r]
  BY ChainIs DEF Lists, ReadyLists, SenderLists, Chain
<1>3. rq = [p \in Priority |-> rq[p]] /\ sq = [r \in Tid |-> sq[r]]
  BY DEF Lists, ReadyLists, SenderLists
<1> QED BY <1>1, <1>2, <1>3

LEMMA ListsGiveInv ==
  ASSUME NEW rq, NEW sq, Lists(rq, sq)', ListsType'
  PROVE  ListInv'
<1>1. /\ rq = [p \in Priority |-> Chain(begin[p])]'
      /\ sq = [r \in Tid |-> Chain(sendQ[r])]'
  BY ListsAreNext
<1> QED BY <1>1 DEF ListInv

LEMMA InitInv ==
  ASSUME Init
  PROVE  ListInv /\ Q!Empty
<1>1. /\ [p \in Priority |-> <<>>] = [p \in Priority |-> Chain(begin[p])]
      /\ [r \in Tid |-> <<>>] = [r \in Tid |-> Chain(sendQ[r])]
  BY InitLists, ListsAre
<1>2. Lists([p \in Priority |-> Chain(begin[p])], [r \in Tid |-> Chain(sendQ[r])])
  BY <1>1, InitLists
<1>3. ListInv
  BY <1>2, InitLists DEF ListInv
<1>4. Q!Empty
  BY <1>1 DEF Q!Empty
<1> QED BY <1>3, <1>4

\* Every operation keeps the lists, and is one operation on the FIFOs.
LEMMA StepKeepsLists ==
  ASSUME ListInv, Next
  PROVE  ListInv' /\ Q!Step
<1> DEFINE readyBar == [p \in Priority |-> Chain(begin[p])]
           sendersBar == [r \in Tid |-> Chain(sendQ[r])]
<1>1. PICK rq, sq : Lists(rq, sq) /\ ListsType
  BY InvGivesLists
<1>2. rq = readyBar /\ sq = sendersBar /\ rq \in [Priority -> Seq(Tid)] /\ sq \in [Tid -> Seq(Tid)]
  <2>1. rq = readyBar /\ sq = sendersBar
    BY <1>1, ListsAre
  <2> QED BY <1>1, <2>1 DEF Lists, ReadyLists, SenderLists
<1> HIDE DEF readyBar, sendersBar
<1>3. ASSUME NEW t \in Tid,
             \A p \in Priority : \A i \in 1 .. Len(rq[p]) : rq[p][i] # t,
             \A r \in Tid : \A i \in 1 .. Len(sq[r]) : sq[r][i] # t
      PROVE  t \notin Q!Listed
  <2>1. /\ \A p \in Priority : t \notin Q!Members(rq[p])
        /\ \A r \in Tid : t \notin Q!Members(sq[r])
    <3>1. /\ \A p \in Priority : DOMAIN rq[p] = 1 .. Len(rq[p])
          /\ \A r \in Tid : DOMAIN sq[r] = 1 .. Len(sq[r])
      BY <1>2
    <3> QED BY <1>3, <3>1 DEF Q!Members
  <2>2. Q!Listed = UNION ({Q!Members(readyBar[p]) : p \in Priority}
                            \cup {Q!Members(sendersBar[r]) : r \in Tid})
    BY DEF Q!Listed, readyBar, sendersBar
  <2> QED BY <1>2, <2>1, <2>2
<1>4. ASSUME NEW t \in Tid, append_task(t)
      PROVE  ListInv' /\ Q!Step
  <2> DEFINE new == [rq EXCEPT ![PriorityOf[t]] = Append(@, t)]
  <2>1. ListsType' /\ Lists(new, sq)' /\ t \notin Q!Listed
    BY <1>1, <1>3, <1>4, AppendLists
  <2> HIDE DEF new
  <2>2. new = readyBar' /\ sq = sendersBar' /\ ListInv'
    BY <2>1, ListsAreNext, ListsGiveInv DEF readyBar, sendersBar
  <2>3. readyBar' = [readyBar EXCEPT ![PriorityOf[t]] = Append(@, t)] /\ sendersBar' = sendersBar
    BY <1>2, <2>2 DEF new
  <2>4. Q!PutReady(t)
    BY <2>1, <2>3 DEF Q!PutReady, readyBar, sendersBar
  <2> QED BY <2>2, <2>4 DEF Q!Step
<1>5. ASSUME next_ready_task
      PROVE  ListInv' /\ Q!Step
  <2>1. PICK p \in Priority : /\ ListsType'
                              /\ rq[p] # <<>>
                              /\ \A q \in Priority : q < p => rq[q] = <<>>
                              /\ Lists([rq EXCEPT ![p] = Tail(@)], sq)'
    BY <1>1, <1>5, TakeLists
  <2> DEFINE new == [rq EXCEPT ![p] = Tail(@)]
  <2>2. Lists(new, sq)'
    BY <2>1
  <2> HIDE DEF new
  <2>3. new = readyBar' /\ sq = sendersBar' /\ ListInv'
    BY <2>1, <2>2, ListsAreNext, ListsGiveInv DEF readyBar, sendersBar
  <2>4. /\ readyBar' = [readyBar EXCEPT ![p] = Tail(@)] /\ sendersBar' = sendersBar
        /\ readyBar[p] # <<>> /\ \A q \in Priority : q < p => readyBar[q] = <<>>
    BY <1>2, <2>1, <2>3 DEF new
  <2>5. Q!TakeReady(p)
    BY <2>4 DEF Q!TakeReady, readyBar, sendersBar
  <2> QED BY <2>3, <2>5 DEF Q!Step
<1>6. ASSUME NEW t \in Tid, NEW r \in Tid, SendLink(t, r)
      PROVE  ListInv' /\ Q!Step
  <2> DEFINE new == [sq EXCEPT ![r] = Append(@, t)]
  <2>1. ListsType' /\ Lists(rq, new)' /\ t \notin Q!Listed
    BY <1>1, <1>3, <1>6, SendLists
  <2> HIDE DEF new
  <2>2. rq = readyBar' /\ new = sendersBar' /\ ListInv'
    BY <2>1, ListsAreNext, ListsGiveInv DEF readyBar, sendersBar
  <2>3. sendersBar' = [sendersBar EXCEPT ![r] = Append(@, t)] /\ readyBar' = readyBar
    BY <1>2, <2>2 DEF new
  <2>4. Q!PutSender(t, r)
    BY <2>1, <2>3 DEF Q!PutSender, readyBar, sendersBar
  <2> QED BY <2>2, <2>4 DEF Q!Step
<1>7. ASSUME NEW r \in Tid, ReceiveUnlink(r)
      PROVE  ListInv' /\ Q!Step
  <2> DEFINE new == [sq EXCEPT ![r] = Tail(@)]
  <2>1. ListsType' /\ Lists(rq, new)' /\ sq[r] # <<>>
    BY <1>1, <1>7, ReceiveLists
  <2> HIDE DEF new
  <2>2. rq = readyBar' /\ new = sendersBar' /\ ListInv'
    BY <2>1, ListsAreNext, ListsGiveInv DEF readyBar, sendersBar
  <2>3. sendersBar' = [sendersBar EXCEPT ![r] = Tail(@)] /\ readyBar' = readyBar /\ sendersBar[r] # <<>>
    BY <1>2, <2>1, <2>2 DEF new
  <2>4. Q!TakeSender(r)
    BY <2>3 DEF Q!TakeSender, readyBar, sendersBar
  <2> QED BY <2>2, <2>4 DEF Q!Step
<1> QED BY <1>4, <1>5, <1>6, <1>7 DEF Next

LEMMA StutterKeepsLists ==
  ASSUME ListInv, UNCHANGED vars
  PROVE  ListInv' /\ UNCHANGED Q!qvars
<1>1. PICK rq, sq : Lists(rq, sq) /\ ListsType
  BY InvGivesLists
<1>2. Lists(rq, sq)' /\ ListsType'
  BY <1>1 DEF Lists, ReadyLists, SenderLists, ListsType, vars, lists
<1>3. ListInv'
  BY <1>2, ListsGiveInv
<1>4. UNCHANGED Q!qvars
  BY DEF Q!qvars, vars, lists, Chain
<1> QED BY <1>3, <1>4

\* The chains of links are always lists, each task in at most one of them.
THEOREM ListInvHolds == Spec => []ListInv
<1>1. Init => ListInv
  BY InitInv
<1>2. ListInv /\ [Next]_vars => ListInv'
  BY StepKeepsLists, StutterKeepsLists
<1> QED BY <1>1, <1>2, PTL DEF Spec

\* A list that starts at a task ends.
LEMMA LinkedEnds ==
  ASSUME NEW h, NEW s, Linked(next, h, s), h # NULL
  PROVE  s # <<>> /\ Ends(s) /\ DOMAIN s = 1 .. Len(s)
<1>1. s # <<>> /\ s \in Seq(Tid)
  BY NoneLinked DEF Linked
<1>2. Len(s) \in 1 .. Len(s) /\ DOMAIN s = 1 .. Len(s)
  BY <1>1
<1>3. next[s[Len(s)]] = NULL /\ \A i, j \in 1 .. Len(s) : s[i] = s[j] => i = j
  BY <1>2 DEF Linked
<1> QED BY <1>1, <1>2, <1>3 DEF Ends

\* Every list ends where it should, whatever stale links there are.
THEOREM EveryListEnds == Spec => []ListsEnd
<1>1. ASSUME ListInv
      PROVE  ListsEnd
  <2>1. PICK rq, sq : Lists(rq, sq) /\ ListsType
    BY <1>1, InvGivesLists
  <2>2. ASSUME NEW p \in Priority, begin[p] # NULL
        PROVE  /\ Ends(Chain(begin[p]))
               /\ Chain(begin[p])[Len(Chain(begin[p]))] = end[p]
               /\ \A i \in DOMAIN Chain(begin[p]) :
                    place[Chain(begin[p])[i]] = "ready" /\ PriorityOf[Chain(begin[p])[i]] = p
    <3>1. /\ Linked(next, begin[p], rq[p]) /\ (rq[p] # <<>> => end[p] = rq[p][Len(rq[p])])
          /\ \A i \in 1 .. Len(rq[p]) : place[rq[p][i]] = "ready" /\ PriorityOf[rq[p][i]] = p
      BY <2>1 DEF Lists, ReadyLists
    <3>2. Chain(begin[p]) = rq[p]
      BY <3>1, ChainIs DEF Chain
    <3>3. rq[p] # <<>> /\ Ends(rq[p]) /\ DOMAIN rq[p] = 1 .. Len(rq[p])
      BY <2>2, <3>1, LinkedEnds
    <3> QED BY <3>1, <3>2, <3>3
  <2>3. ASSUME NEW r \in Tid, sendQ[r] # NULL
        PROVE  /\ Ends(Chain(sendQ[r]))
               /\ \A i \in DOMAIN Chain(sendQ[r]) : place[Chain(sendQ[r])[i]] = "sending"
    <3>1. Linked(next, sendQ[r], sq[r]) /\ \A j \in 1 .. Len(sq[r]) : place[sq[r][j]] = "sending"
      BY <2>1 DEF Lists, SenderLists
    <3>2. Chain(sendQ[r]) = sq[r]
      BY <3>1, ChainIs DEF Chain
    <3>3. Ends(sq[r]) /\ DOMAIN sq[r] = 1 .. Len(sq[r])
      BY <2>3, <3>1, LinkedEnds
    <3> QED BY <3>1, <3>2, <3>3
  <2> QED BY <2>2, <2>3 DEF ListsEnd
<1>2. ListInv => ListsEnd
  BY <1>1
<1> QED BY <1>2, ListInvHolds, PTL

\* The linked lists of TaskQueue.c and of the sendQs are FIFOs.
THEOREM ListsAreQueues == Spec => ImplementsQueues
<1>1. Init => Q!Empty
  BY InitInv
<1>2. ListInv /\ [Next]_vars => [Q!Step]_(Q!qvars)
  BY StepKeepsLists, StutterKeepsLists
<1>3. Spec => Q!Spec
  BY <1>1, <1>2, ListInvHolds, PTL DEF Spec, Q!Spec
<1> QED BY <1>3 DEF ImplementsQueues
=============================================================================
