----------------------------- MODULE RtxProofs -----------------------------
(***************************************************************************)
(* The RTX kernel is right for any processes, priorities, blocks and       *)
(* delays: every process is in the one place its state says and nothing of *)
(* a higher priority waits for the running process, no block lies idle     *)
(* while processes wait for one, and delayed mail is sent when its time    *)
(* has come.                                                               *)
(***************************************************************************)
EXTENDS Rtx, TLAPS, SequenceTheorems, FiniteSetTheorems, WellFoundedInduction

Mail        == [b : Block, to : Process \cup {Uart}, delay : Nat]
DelayedMail == [b : Block, to : Process \cup {Uart}, fire : Nat]

KernelState ==
  [run     : Pid,
   st      : [Pid -> {"ready", "running", "memory", "message"}],
   q       : [0 .. BLOCKED_MESSAGE -> Seq(Pid)],
   call    : [Pid -> {"none", "request", "receive"}],
   mail    : [Pid \cup {Timer, Uart} -> Seq(Mail)],
   delayed : Seq(DelayedMail),
   free    : SUBSET Block]

\* Every process but those of L is once in the queue of its state.
Placed(s, L) ==
  \A i \in 0 .. BLOCKED_MESSAGE :
     /\ IsInjective(s.q[i])
     /\ \A p \in Pid : p \in Range(s.q[i]) <=> p \notin L /\ QueueOf(s, p) = i

\* A process waits in the loop of its call; null_process is in none.
Calm(s) ==
  /\ \A p \in Pid : /\ s.st[p] = "running" => p = s.run
                    /\ s.st[p] = "memory"  => s.call[p] = "request"
                    /\ s.st[p] = "message" => s.call[p] = "receive"
  /\ s.call[Null] = "none"

\* The processes about to take a block.
Askers(s) == {p \in Process : s.call[p] = "request" /\ s.st[p] \in {"ready", "running"}}

NoneIdle(s) ==
  (\E p \in Pid : s.st[p] = "memory") => Cardinality(s.free) <= Cardinality(Askers(s))

\* Between the steps of a handler, before it looks at the priorities.
Sound(s) ==
  /\ s \in KernelState
  /\ Placed(s, {s.run}) /\ Calm(s) /\ NoneIdle(s)
  /\ s.st[s.run] = "running"

Settled(s) == Sound(s) /\ next_priority(s) >= priority[s.run]

SameData(s, r) ==
  r.call = s.call /\ r.mail = s.mail /\ r.delayed = s.delayed /\ r.free = s.free

Sorted(box) == \A i, j \in DOMAIN box : i < j => box[i].fire <= box[j].fire

After(box, t) == \A i \in DOMAIN box : box[i].fire > t

\* The inductive invariant.
RtxInv ==
  /\ Settled(k)
  /\ Sorted(k.delayed) /\ After(k.delayed, now)
  /\ held \in [Pid -> SUBSET Block]
  /\ now \in Nat

-----------------------------------------------------------------------------
(* Numbers and queues.                                                     *)

\* Every non-empty set of naturals has a least element.
LEMMA LeastNatural ==
  ASSUME NEW B \in SUBSET Nat, B # {}
  PROVE  \E m \in B : \A n \in B : m <= n
<1>1. PICK m \in B : \A n \in B : ~(<<n, m>> \in OpToRel(<, Nat))
  BY WFMin, NatLessThanWellFounded
<1>2. \A n \in B : ~(n < m)
  BY <1>1 DEF OpToRel
<1> QED BY <1>2

\* Least is what it says.
LEMMA LeastIs ==
  ASSUME NEW B \in SUBSET Nat, B # {}
  PROVE  Least(B) \in B /\ \A n \in B : Least(B) <= n
<1>1. \E m \in B : \A n \in B : m <= n
  BY LeastNatural
<1> QED BY <1>1 DEF Least

\* What Append does to a queue.
LEMMA AppendOnce ==
  ASSUME NEW S, NEW q \in Seq(S), NEW x \in S
  PROVE  /\ Append(q, x) \in Seq(S)
         /\ Range(Append(q, x)) = Range(q) \cup {x}
         /\ IsInjective(q) /\ x \notin Range(q) => IsInjective(Append(q, x))
<1> DEFINE r == Append(q, x)
<1>1. /\ r \in Seq(S) /\ Len(r) = Len(q) + 1 /\ Len(q) \in Nat
      /\ \A i \in 1 .. Len(q) : r[i] = q[i]
      /\ r[Len(q) + 1] = x
      /\ DOMAIN r = 1 .. Len(q) + 1 /\ DOMAIN q = 1 .. Len(q)
  BY AppendProperties, LenProperties
<1> HIDE DEF r
<1>2. Range(r) = Range(q) \cup {x}
  <2>1. ASSUME NEW y \in Range(r) PROVE y \in Range(q) \cup {x}
    <3>1. PICK i \in 1 .. Len(q) + 1 : r[i] = y
      BY <1>1, <2>1 DEF Range
    <3> QED BY <1>1, <3>1 DEF Range
  <2>2. ASSUME NEW y \in Range(q) PROVE y \in Range(r)
    <3>1. PICK i \in 1 .. Len(q) : q[i] = y
      BY <1>1, <2>2 DEF Range
    <3> QED BY <1>1, <3>1 DEF Range
  <2>3. x \in Range(r)
    BY <1>1 DEF Range
  <2> QED BY <2>1, <2>2, <2>3
<1>3. ASSUME IsInjective(q), x \notin Range(q) PROVE IsInjective(r)
  <2>1. \A i, j \in 1 .. Len(q) : q[i] = q[j] => i = j
    BY <1>1, <1>3 DEF IsInjective
  <2>2. \A i \in 1 .. Len(q) : q[i] # x
    BY <1>1, <1>3 DEF Range
  <2>3. \A i, j \in 1 .. Len(q) + 1 : r[i] = r[j] => i = j
    BY <1>1, <2>1, <2>2
  <2> QED BY <1>1, <2>3 DEF IsInjective
<1> QED BY <1>1, <1>2, <1>3 DEF r

\* What taking out an element does to a queue.
LEMMA RemoveOnce ==
  ASSUME NEW S, NEW q \in Seq(S), NEW at \in DOMAIN q, IsInjective(q)
  PROVE  /\ RemoveAt(q, at) \in Seq(S)
         /\ Range(RemoveAt(q, at)) = Range(q) \ {q[at]}
         /\ IsInjective(RemoveAt(q, at))
<1> DEFINE l == SubSeq(q, 1, at - 1)
           m == SubSeq(q, at + 1, Len(q))
           r == l \o m
           n == Len(q) - 1
<1>1. Len(q) \in Nat /\ DOMAIN q = 1 .. Len(q) /\ at \in 1 .. Len(q)
      /\ \A i \in 1 .. Len(q) : q[i] \in S
  BY LenProperties, ElementOfSeq
<1>2. /\ l \in Seq(S) /\ Len(l) = at - 1
      /\ \A i \in 1 .. at - 1 : l[i] = q[i]
  <2>1. \A i \in 1 .. at - 1 : q[i] \in S /\ 1 + i - 1 = i
    BY <1>1
  <2> QED BY <1>1, <2>1, SubSeqProperties
<1>3. /\ m \in Seq(S) /\ Len(m) = Len(q) - at
      /\ \A i \in 1 .. Len(q) - at : m[i] = q[i + at]
  <2>1. \A i \in at + 1 .. Len(q) : q[i] \in S
    BY <1>1
  <2>2. \A i \in 1 .. Len(q) - at : at + 1 + i - 1 = i + at
    BY <1>1
  <2>3. /\ m \in Seq(S)
        /\ Len(m) = IF at + 1 <= Len(q) THEN Len(q) - (at + 1) + 1 ELSE 0
        /\ \A i \in 1 .. Len(q) - (at + 1) + 1 : m[i] = q[at + 1 + i - 1]
    <3>1. at + 1 \in Int /\ Len(q) \in Int
      BY <1>1
    <3> QED BY <2>1, <3>1, SubSeqProperties
  <2>4. Len(q) - (at + 1) + 1 = Len(q) - at /\ (~(at + 1 <= Len(q)) => Len(q) - at = 0)
    BY <1>1
  <2> QED BY <2>2, <2>3, <2>4
<1> HIDE DEF l, m
<1>4. /\ r \in Seq(S) /\ Len(r) = Len(l) + Len(m)
      /\ \A i \in 1 .. Len(l) + Len(m) : r[i] = IF i <= Len(l) THEN l[i] ELSE m[i - Len(l)]
  BY <1>2, <1>3, ConcatProperties
<1>5. RemoveAt(q, at) = r
  BY DEF RemoveAt, l, m
<1> HIDE DEF r
<1>6. /\ DOMAIN r = 1 .. n /\ n \in Nat
      /\ \A i \in 1 .. n : r[i] = IF i < at THEN q[i] ELSE q[i + 1]
  <2>1. Len(r) = n /\ n \in Nat
    BY <1>1, <1>2, <1>3, <1>4
  <2>2. ASSUME NEW i \in 1 .. n PROVE r[i] = IF i < at THEN q[i] ELSE q[i + 1]
    <3>1. r[i] = IF i <= at - 1 THEN l[i] ELSE m[i - (at - 1)]
      BY <1>1, <1>2, <1>3, <1>4
    <3>2. CASE i < at
      BY <1>1, <1>2, <3>1, <3>2
    <3>3. CASE ~(i < at)
      <4>1. i - (at - 1) \in 1 .. Len(q) - at /\ i - (at - 1) + at = i + 1
        BY <1>1, <3>3
      <4> QED BY <1>1, <1>3, <3>1, <3>3, <4>1
    <3> QED BY <3>2, <3>3
  <2> QED BY <1>4, <2>1, <2>2
<1>7. \A i, j \in 1 .. Len(q) : q[i] = q[j] => i = j
  BY <1>1 DEF IsInjective
<1>8. IsInjective(r)
  <2>1. \A i, j \in 1 .. n : r[i] = r[j] => i = j
    BY <1>1, <1>6, <1>7
  <2> QED BY <1>6, <2>1 DEF IsInjective
<1>9. Range(r) = Range(q) \ {q[at]}
  <2>1. ASSUME NEW y \in Range(r) PROVE y \in Range(q) \ {q[at]}
    <3>1. PICK i \in 1 .. n : r[i] = y
      BY <1>6, <2>1 DEF Range
    <3>2. \E j \in 1 .. Len(q) : q[j] = y /\ j # at
      BY <1>1, <1>6, <3>1
    <3> QED BY <1>1, <1>7, <3>2 DEF Range
  <2>2. ASSUME NEW y \in Range(q), y # q[at] PROVE y \in Range(r)
    <3>1. PICK j \in 1 .. Len(q) : q[j] = y
      BY <1>1, <2>2 DEF Range
    <3>2. \E i \in 1 .. n : r[i] = y
      <4>1. CASE j < at
        <5>1. j \in 1 .. n
          BY <1>1, <4>1
        <5> QED BY <1>6, <3>1, <4>1, <5>1
      <4>2. CASE j > at
        <5>1. j - 1 \in 1 .. n /\ ~(j - 1 < at) /\ j - 1 + 1 = j
          BY <1>1, <4>2
        <5> QED BY <1>6, <3>1, <5>1
      <4> QED BY <1>1, <2>2, <3>1, <4>1, <4>2
    <3> QED BY <1>6, <3>2 DEF Range
  <2> QED BY <2>1, <2>2
<1> QED BY <1>4, <1>5, <1>8, <1>9

\* What taking the first does to a queue.
LEMMA TailOnce ==
  ASSUME NEW S, NEW q \in Seq(S), q # <<>>, IsInjective(q)
  PROVE  /\ Head(q) \in S /\ Head(q) \in Range(q)
         /\ Tail(q) \in Seq(S)
         /\ Range(Tail(q)) = Range(q) \ {Head(q)}
         /\ IsInjective(Tail(q))
<1>1. /\ Len(q) \in Nat /\ Len(q) > 0 /\ DOMAIN q = 1 .. Len(q)
      /\ Head(q) = q[1] /\ 1 \in DOMAIN q
  BY EmptySeq, LenProperties
<1>2. /\ Tail(q) \in Seq(S) /\ Len(Tail(q)) = Len(q) - 1 /\ Head(q) \in S
      /\ \A i \in 1 .. Len(Tail(q)) : Tail(q)[i] = q[i + 1]
  BY HeadTailProperties
<1> DEFINE r == Tail(q)
           n == Len(q) - 1
<1>3. DOMAIN r = 1 .. n /\ n \in Nat /\ (\A i \in 1 .. n : r[i] = q[i + 1])
  BY <1>1, <1>2, LenProperties
<1> HIDE DEF r
<1>4. \A i, j \in 1 .. Len(q) : q[i] = q[j] => i = j
  BY <1>1 DEF IsInjective
<1>5. IsInjective(r)
  <2>1. \A i, j \in 1 .. n : r[i] = r[j] => i = j
    BY <1>1, <1>3, <1>4
  <2> QED BY <1>3, <2>1 DEF IsInjective
<1>6. Range(r) = Range(q) \ {q[1]}
  <2>1. ASSUME NEW y \in Range(r) PROVE y \in Range(q) \ {q[1]}
    <3>1. PICK i \in 1 .. n : r[i] = y
      BY <1>3, <2>1 DEF Range
    <3>2. i + 1 \in 1 .. Len(q) /\ q[i + 1] = y /\ i + 1 # 1 /\ 1 \in 1 .. Len(q)
      BY <1>1, <1>3, <3>1
    <3> QED BY <1>1, <1>4, <3>2 DEF Range
  <2>2. ASSUME NEW y \in Range(q), y # q[1] PROVE y \in Range(r)
    <3>1. PICK j \in 1 .. Len(q) : q[j] = y
      BY <1>1, <2>2 DEF Range
    <3>2. j - 1 \in 1 .. n /\ j - 1 + 1 = j
      BY <1>1, <2>2, <3>1
    <3> QED BY <1>3, <3>1, <3>2 DEF Range
  <2> QED BY <2>1, <2>2
<1> QED BY <1>1, <1>2, <1>5, <1>6 DEF r, Range
-----------------------------------------------------------------------------
(* The queues of the kernel.                                               *)

\* What the parts of the kernel's state are.
LEMMA Parts ==
  ASSUME NEW s \in KernelState
  PROVE  /\ s.run \in Pid
         /\ s.st \in [Pid -> {"ready", "running", "memory", "message"}]
         /\ s.q \in [0 .. BLOCKED_MESSAGE -> Seq(Pid)]
         /\ s.call \in [Pid -> {"none", "request", "receive"}]
         /\ s.mail \in [Pid \cup {Timer, Uart} -> Seq(Mail)]
         /\ s.delayed \in Seq(DelayedMail)
         /\ s.free \in SUBSET Block
<1> QED BY DEF KernelState

\* Which queues there are.
LEMMA Numbers ==
  /\ LOWEST \in Nat
  /\ 0 .. LOWEST \subseteq 0 .. BLOCKED_MESSAGE
  /\ BLOCKED_MEMORY \in 0 .. BLOCKED_MESSAGE /\ BLOCKED_MESSAGE \in 0 .. BLOCKED_MESSAGE
  /\ BLOCKED_MEMORY > LOWEST /\ BLOCKED_MESSAGE > LOWEST /\ BLOCKED_MEMORY # BLOCKED_MESSAGE
  /\ \A p \in Pid : priority[p] \in 0 .. LOWEST
<1> QED BY RtxAssumption DEF BLOCKED_MEMORY, BLOCKED_MESSAGE

\* The queue of a process tells its state.
LEMMA QueueTells ==
  ASSUME NEW s \in KernelState, NEW p \in Pid
  PROVE  /\ QueueOf(s, p) \in 0 .. BLOCKED_MESSAGE
         /\ QueueOf(s, p) = BLOCKED_MEMORY <=> s.st[p] = "memory"
         /\ QueueOf(s, p) = BLOCKED_MESSAGE <=> s.st[p] = "message"
         /\ QueueOf(s, p) \in 0 .. LOWEST <=> s.st[p] \in {"ready", "running"}
         /\ QueueOf(s, p) \in 0 .. LOWEST => QueueOf(s, p) = priority[p]
<1>1. s.st[p] \in {"ready", "running", "memory", "message"}
  BY Parts
<1>2. /\ priority[p] \in 0 .. BLOCKED_MESSAGE /\ priority[p] \in 0 .. LOWEST
      /\ priority[p] # BLOCKED_MEMORY /\ priority[p] # BLOCKED_MESSAGE
      /\ BLOCKED_MEMORY \notin 0 .. LOWEST /\ BLOCKED_MESSAGE \notin 0 .. LOWEST
      /\ BLOCKED_MEMORY \in 0 .. BLOCKED_MESSAGE /\ BLOCKED_MESSAGE \in 0 .. BLOCKED_MESSAGE
      /\ BLOCKED_MEMORY # BLOCKED_MESSAGE
  BY Numbers
<1>3. CASE s.st[p] = "memory"
  <2>1. QueueOf(s, p) = BLOCKED_MEMORY
    BY <1>3 DEF QueueOf
  <2> QED BY <1>2, <1>3, <2>1
<1>4. CASE s.st[p] = "message"
  <2>1. QueueOf(s, p) = BLOCKED_MESSAGE
    BY <1>4 DEF QueueOf
  <2> QED BY <1>2, <1>4, <2>1
<1>5. CASE s.st[p] \in {"ready", "running"}
  <2>1. QueueOf(s, p) = priority[p]
    BY <1>5 DEF QueueOf
  <2> QED BY <1>2, <1>5, <2>1
<1> QED BY <1>1, <1>3, <1>4, <1>5

\* A change of one queue changes nothing else.
LEMMA WithQueue ==
  ASSUME NEW s \in KernelState, NEW i \in 0 .. BLOCKED_MESSAGE, NEW v \in Seq(Pid)
  PROVE  /\ [s EXCEPT !.q[i] = v] \in KernelState
         /\ [s EXCEPT !.q[i] = v].run = s.run
         /\ [s EXCEPT !.q[i] = v].st = s.st
         /\ SameData(s, [s EXCEPT !.q[i] = v])
         /\ [s EXCEPT !.q[i] = v].q = [s.q EXCEPT ![i] = v]
<1> QED BY DEF KernelState, SameData

\* A change of the state of one process changes nothing else.
LEMMA WithState ==
  ASSUME NEW s \in KernelState, NEW p \in Pid,
         NEW x \in {"ready", "running", "memory", "message"}
  PROVE  /\ [s EXCEPT !.st[p] = x] \in KernelState
         /\ [s EXCEPT !.st[p] = x].run = s.run
         /\ [s EXCEPT !.st[p] = x].q = s.q
         /\ SameData(s, [s EXCEPT !.st[p] = x])
         /\ [s EXCEPT !.st[p] = x].st = [s.st EXCEPT ![p] = x]
<1> QED BY DEF KernelState, SameData

\* The state of a process that is in no queue can be changed.
LEMMA StateMoves ==
  ASSUME NEW s \in KernelState, NEW r \in KernelState, NEW L, NEW p \in Pid, p \in L,
         Placed(s, L), r.q = s.q, \A o \in Pid : o # p => r.st[o] = s.st[o]
  PROVE  Placed(r, L)
<1>1. \A o \in Pid : o # p => QueueOf(r, o) = QueueOf(s, o)
  BY DEF QueueOf
<1>2. ASSUME NEW i \in 0 .. BLOCKED_MESSAGE, NEW o \in Pid
      PROVE  o \in Range(r.q[i]) <=> o \notin L /\ QueueOf(r, o) = i
  <2>1. o \in Range(s.q[i]) <=> o \notin L /\ QueueOf(s, o) = i
    BY DEF Placed
  <2> QED BY <1>1, <2>1, Zenon
<1> QED BY <1>2 DEF Placed

\* append_process puts a process in its queue.
LEMMA AppendIs ==
  ASSUME NEW s \in KernelState, NEW L, NEW p \in Pid, p \in L, Placed(s, L)
  PROVE  /\ append_process(s, p) \in KernelState
         /\ append_process(s, p).run = s.run /\ append_process(s, p).st = s.st
         /\ SameData(s, append_process(s, p))
         /\ Placed(append_process(s, p), L \ {p})
<1> DEFINE i == QueueOf(s, p)
           v == Append(s.q[i], p)
           r == [s EXCEPT !.q[i] = v]
<1>1. i \in 0 .. BLOCKED_MESSAGE /\ s.q \in [0 .. BLOCKED_MESSAGE -> Seq(Pid)]
  BY QueueTells, Parts
<1>2. IsInjective(s.q[i]) /\ p \notin Range(s.q[i])
  BY <1>1 DEF Placed
<1>3. v \in Seq(Pid) /\ Range(v) = Range(s.q[i]) \cup {p} /\ IsInjective(v)
  <2>1. s.q[i] \in Seq(Pid)
    BY <1>1
  <2> HIDE DEF i
  <2> QED BY <1>2, <2>1, AppendOnce
<1>4. append_process(s, p) = r
  BY DEF append_process
<1> HIDE DEF v, i
<1>5. /\ r \in KernelState /\ r.run = s.run /\ r.st = s.st /\ SameData(s, r)
      /\ r.q = [s.q EXCEPT ![i] = v]
  BY <1>1, <1>3, WithQueue
<1> HIDE DEF r
<1>6. r.q[i] = v /\ \A j \in 0 .. BLOCKED_MESSAGE : j # i => r.q[j] = s.q[j]
  BY <1>1, <1>5
<1>7. \A o \in Pid : QueueOf(r, o) = QueueOf(s, o)
  BY <1>5 DEF QueueOf
<1>8. ASSUME NEW j \in 0 .. BLOCKED_MESSAGE
      PROVE  /\ IsInjective(r.q[j])
             /\ \A o \in Pid : o \in Range(r.q[j]) <=> o \notin L \ {p} /\ QueueOf(r, o) = j
  <2>1. /\ IsInjective(s.q[j])
        /\ \A o \in Pid : o \in Range(s.q[j]) <=> o \notin L /\ QueueOf(s, o) = j
    BY DEF Placed
  <2>2. CASE j = i
    <3>1. QueueOf(s, p) = j /\ r.q[j] = v
      BY <1>6, <2>2 DEF i
    <3> QED BY <1>3, <1>7, <2>1, <2>2, <3>1
  <2>3. CASE j # i
    <3>1. QueueOf(s, p) # j /\ r.q[j] = s.q[j]
      BY <1>6, <2>3 DEF i
    <3> QED BY <1>7, <2>1, <3>1
  <2> QED BY <2>2, <2>3
<1>9. Placed(r, L \ {p})
  BY <1>8 DEF Placed
<1> QED BY <1>4, <1>5, <1>9

\* What is left of a queue fits when exactly one process is taken from it.
LEMMA Thinned ==
  ASSUME NEW s \in KernelState, NEW r \in KernelState, NEW L, NEW p \in Pid,
         NEW i \in 0 .. BLOCKED_MESSAGE, NEW v \in Seq(Pid),
         Placed(s, L), p \in Range(s.q[i]),
         Range(v) = Range(s.q[i]) \ {p}, IsInjective(v),
         r.q = [s.q EXCEPT ![i] = v], \A o \in Pid : o # p => r.st[o] = s.st[o]
  PROVE  Placed(r, L \cup {p})
<1>1. s.q \in [0 .. BLOCKED_MESSAGE -> Seq(Pid)]
  BY Parts
<1>2. r.q[i] = v /\ \A j \in 0 .. BLOCKED_MESSAGE : j # i => r.q[j] = s.q[j]
  BY <1>1
<1>3. \A o \in Pid : o # p => QueueOf(r, o) = QueueOf(s, o)
  BY DEF QueueOf
<1>4. QueueOf(s, p) = i
  BY DEF Placed
<1>5. ASSUME NEW j \in 0 .. BLOCKED_MESSAGE
      PROVE  /\ IsInjective(r.q[j])
             /\ \A o \in Pid : o \in Range(r.q[j]) <=> o \notin L \cup {p} /\ QueueOf(r, o) = j
  <2>1. /\ IsInjective(s.q[j])
        /\ \A o \in Pid : o \in Range(s.q[j]) <=> o \notin L /\ QueueOf(s, o) = j
    BY DEF Placed
  <2>2. CASE j = i
    <3>1. r.q[j] = v /\ Range(v) = Range(s.q[j]) \ {p}
      BY <1>2, <2>2
    <3> QED BY <1>3, <2>1, <3>1
  <2>3. CASE j # i
    <3>1. r.q[j] = s.q[j] /\ p \notin Range(s.q[j])
      BY <1>2, <1>4, <2>1, <2>3
    <3> QED BY <1>3, <2>1, <3>1
  <2> QED BY <2>2, <2>3
<1> QED BY <1>5 DEF Placed

\* grab_pcb_from_single_queue takes a process out of its queue.
LEMMA TakenIs ==
  ASSUME NEW s \in KernelState, NEW L, NEW i \in 0 .. BLOCKED_MESSAGE,
         NEW p \in Pid, p \in Range(s.q[i]), Placed(s, L)
  PROVE  /\ Taken(s, i, p) \in KernelState
         /\ Taken(s, i, p).run = s.run /\ Taken(s, i, p).st = s.st
         /\ SameData(s, Taken(s, i, p))
         /\ Placed(Taken(s, i, p), L \cup {p})
<1> DEFINE at == CHOOSE j \in DOMAIN s.q[i] : s.q[i][j] = p
           v == RemoveAt(s.q[i], at)
           r == [s EXCEPT !.q[i] = v]
<1>1. s.q[i] \in Seq(Pid) /\ IsInjective(s.q[i])
  BY Parts DEF Placed
<1>2. at \in DOMAIN s.q[i] /\ s.q[i][at] = p
  BY DEF Range
<1>3. Taken(s, i, p) = r
  BY DEF Taken
<1> HIDE DEF at
<1>4. v \in Seq(Pid) /\ Range(v) = Range(s.q[i]) \ {p} /\ IsInjective(v)
  BY <1>1, <1>2, RemoveOnce
<1> HIDE DEF v
<1>5. /\ r \in KernelState /\ r.run = s.run /\ r.st = s.st /\ SameData(s, r)
      /\ r.q = [s.q EXCEPT ![i] = v]
  BY <1>4, WithQueue
<1> HIDE DEF r
<1>6. Placed(r, L \cup {p})
  BY <1>4, <1>5, Thinned
<1> QED BY <1>3, <1>5, <1>6
-----------------------------------------------------------------------------
(* The switch to another process.                                          *)

\* The numbers of memory that waits and is asked for.
LEMMA Countable ==
  ASSUME NEW s \in KernelState
  PROVE  /\ IsFiniteSet(s.free) /\ Cardinality(s.free) \in Nat
         /\ IsFiniteSet(Askers(s)) /\ Cardinality(Askers(s)) \in Nat
<1>1. s.free \subseteq Block /\ IsFiniteSet(Block)
  BY Parts, RtxAssumption
<1>2. Askers(s) \subseteq Process /\ IsFiniteSet(Process)
  BY RtxAssumption DEF Askers
<1>3. IsFiniteSet(s.free) /\ IsFiniteSet(Askers(s))
  BY <1>1, <1>2, FS_Subset
<1> QED BY <1>3, FS_CardinalityType

\* A step that frees nothing and makes nobody wait or leave keeps NoneIdle.
LEMMA IdleKept ==
  ASSUME NEW s \in KernelState, NEW r \in KernelState, NoneIdle(s),
         \A p \in Pid : r.st[p] = "memory" => s.st[p] = "memory",
         r.free \subseteq s.free, Askers(s) \subseteq Askers(r)
  PROVE  NoneIdle(r)
<1>1. Cardinality(r.free) <= Cardinality(s.free)
  BY Countable, FS_Subset
<1>2. Cardinality(Askers(s)) <= Cardinality(Askers(r))
  BY Countable, FS_Subset
<1>3. /\ Cardinality(r.free) \in Nat /\ Cardinality(s.free) \in Nat
      /\ Cardinality(Askers(s)) \in Nat /\ Cardinality(Askers(r)) \in Nat
  BY Countable
<1> QED BY <1>1, <1>2, <1>3 DEF NoneIdle

\* The processes that are ready are those in the queues up to LOWEST.
LEMMA NonemptyIs ==
  ASSUME NEW s \in KernelState
  PROVE  /\ Nonempty(s) \in SUBSET Nat
         /\ Nonempty(s) \subseteq 0 .. LOWEST
         /\ \A i \in 0 .. LOWEST : i \in Nonempty(s) <=> s.q[i] # <<>>
<1> QED BY Numbers DEF Nonempty

\* next_priority is a priority, and the queues before it are empty.
LEMMA NextPriorityIs ==
  ASSUME NEW s \in KernelState
  PROVE  /\ next_priority(s) \in 0 .. LOWEST
         /\ \A i \in Nonempty(s) : next_priority(s) <= i
         /\ Nonempty(s) # {} => next_priority(s) \in Nonempty(s)
<1>1. CASE Nonempty(s) = {}
  BY <1>1, Numbers DEF next_priority
<1>2. CASE Nonempty(s) # {}
  <2>1. next_priority(s) = Least(Nonempty(s))
    BY <1>2 DEF next_priority
  <2> QED BY <1>2, <2>1, NonemptyIs, LeastIs
<1> QED BY <1>1, <1>2

\* What the dispatcher changes.
Runs(s, i, v, p) == [s EXCEPT !.q[i] = v, !.run = p, !.st[p] = "running"]

LEMMA WithRun ==
  ASSUME NEW s \in KernelState, NEW i \in 0 .. BLOCKED_MESSAGE, NEW p \in Pid,
         NEW v \in Seq(Pid)
  PROVE  /\ Runs(s, i, v, p) \in KernelState /\ Runs(s, i, v, p).run = p
         /\ SameData(s, Runs(s, i, v, p))
         /\ Runs(s, i, v, p).q = [s.q EXCEPT ![i] = v]
         /\ Runs(s, i, v, p).st = [s.st EXCEPT ![p] = "running"]
<1> QED BY DEF KernelState, SameData, Runs

\* Dispatched runs the first of the highest priority, when nobody runs.
LEMMA DispatchedIs ==
  ASSUME NEW s \in KernelState, Placed(s, {}), Calm(s), NoneIdle(s),
         Nonempty(s) # {}, \A o \in Pid : s.st[o] # "running"
  PROVE  Settled(Dispatched(s)) /\ SameData(s, Dispatched(s))
<1> DEFINE i == Least(Nonempty(s))
           p == Head(s.q[i])
           v == Tail(s.q[i])
           r == Runs(s, i, v, p)
<1>1. i \in Nonempty(s) /\ (\A j \in Nonempty(s) : i <= j) /\ i \in 0 .. LOWEST
  BY NonemptyIs, LeastIs
<1>2. i \in 0 .. BLOCKED_MESSAGE /\ s.q[i] # <<>>
  BY <1>1, Numbers, NonemptyIs
<1>3. Dispatched(s) = r
  BY DEF Dispatched, Runs
<1> HIDE DEF i
<1>4. s.q[i] \in Seq(Pid) /\ IsInjective(s.q[i])
  BY <1>2, Parts DEF Placed
<1>5. /\ p \in Pid /\ p \in Range(s.q[i])
      /\ v \in Seq(Pid) /\ Range(v) = Range(s.q[i]) \ {p} /\ IsInjective(v)
  BY <1>2, <1>4, TailOnce
<1> HIDE DEF p, v
<1>6. /\ r \in KernelState /\ r.run = p /\ SameData(s, r)
      /\ r.q = [s.q EXCEPT ![i] = v]
      /\ r.st = [s.st EXCEPT ![p] = "running"]
  <2>1. i \in 0 .. BLOCKED_MESSAGE /\ p \in Pid /\ v \in Seq(Pid)
    BY <1>2, <1>5
  <2> QED BY <2>1 DEF KernelState, SameData, Runs
<1> HIDE DEF r
<1>7. r.st[p] = "running" /\ \A o \in Pid : o # p => r.st[o] = s.st[o]
  BY <1>5, <1>6, Parts
<1>8. Placed(r, {p})
  <2>1. \A o \in Pid : o # p => r.st[o] = s.st[o]
    BY <1>7
  <2>2. \A L : Placed(s, L) => Placed(r, L \cup {p})
    BY <1>2, <1>5, <1>6, <2>1, Thinned
  <2>3. {} \cup {p} = {p}
    OBVIOUS
  <2> QED BY <2>2, <2>3, Zenon
<1>9. QueueOf(s, p) = i /\ s.st[p] \in {"ready", "running"} /\ priority[p] = i
  <2>1. QueueOf(s, p) = i
    BY <1>2, <1>5 DEF Placed
  <2> QED BY <1>1, <1>5, <2>1, QueueTells
<1>10. Calm(r)
  BY <1>6, <1>7 DEF Calm, SameData
<1>11. NoneIdle(r)
  <2>1. r.free = s.free /\ r.call = s.call
    BY <1>6 DEF SameData
  <2>2. Askers(s) \subseteq Askers(r)
    <3> SUFFICES ASSUME NEW o \in Askers(s) PROVE o \in Askers(r)
      OBVIOUS
    <3>1. o \in Process /\ o \in Pid /\ s.call[o] = "request" /\ s.st[o] \in {"ready", "running"}
      BY DEF Askers, Pid
    <3> QED BY <1>7, <2>1, <3>1 DEF Askers
  <2>3. \A o \in Pid : r.st[o] = "memory" => s.st[o] = "memory"
    BY <1>7
  <2> QED BY <1>6, <2>1, <2>2, <2>3, IdleKept
<1>12. next_priority(r) >= priority[r.run]
  <2>1. Nonempty(r) \subseteq Nonempty(s)
    <3> SUFFICES ASSUME NEW j \in Nonempty(r) PROVE j \in Nonempty(s)
      OBVIOUS
    <3>1. j \in 0 .. LOWEST /\ j \in 0 .. BLOCKED_MESSAGE /\ r.q[j] # <<>>
      BY <1>6, NonemptyIs, Numbers
    <3>2. CASE j = i
      BY <1>1, <3>2
    <3>3. CASE j # i
      <4>1. r.q[j] = s.q[j]
        BY <1>6, <3>1, <3>3, Parts
      <4> QED BY <3>1, <4>1, NonemptyIs
    <3> QED BY <3>2, <3>3
  <2>2. next_priority(r) \in 0 .. LOWEST /\ (Nonempty(r) # {} => next_priority(r) \in Nonempty(r))
    BY <1>6, NextPriorityIs
  <2>3. CASE Nonempty(r) = {}
    <3>1. next_priority(r) = LOWEST
      BY <2>3 DEF next_priority
    <3> QED BY <1>1, <1>6, <1>9, <3>1, Numbers
  <2>4. CASE Nonempty(r) # {}
    <3>1. i <= next_priority(r)
      BY <1>1, <2>1, <2>2, <2>4
    <3> QED BY <1>1, <1>6, <1>9, <2>2, <3>1
  <2> QED BY <2>3, <2>4
<1>13. Sound(r)
  BY <1>6, <1>7, <1>8, <1>10, <1>11 DEF Sound
<1> QED BY <1>3, <1>6, <1>12, <1>13 DEF Settled

\* What a state looks like when its running process is about to give way.
Yielding(s) ==
  /\ s \in KernelState
  /\ Placed(s, {s.run}) /\ Calm(s) /\ NoneIdle(s)
  /\ s.st[s.run] # "running"

\* process_switch ends in a settled state: null_process is always there.
LEMMA SwitchIs ==
  ASSUME NEW s, Yielding(s)
  PROVE  Settled(process_switch(s)) /\ SameData(s, process_switch(s))
<1> DEFINE a == append_process(s, s.run)
<1>1. s \in KernelState /\ s.run \in Pid /\ Placed(s, {s.run})
  BY Parts DEF Yielding
<1>2. /\ a \in KernelState /\ a.run = s.run /\ a.st = s.st /\ SameData(s, a)
      /\ Placed(a, {})
  <2>1. {s.run} \ {s.run} = {}
    OBVIOUS
  <2>2. /\ a \in KernelState /\ a.run = s.run /\ a.st = s.st /\ SameData(s, a)
        /\ Placed(a, {s.run} \ {s.run})
    BY <1>1, AppendIs
  <2> HIDE DEF a
  <2> QED BY <2>1, <2>2, Zenon
<1> HIDE DEF a
<1>3. Calm(a) /\ \A o \in Pid : a.st[o] # "running"
  BY <1>2 DEF Yielding, Calm, SameData
<1>4. NoneIdle(a)
  BY <1>2 DEF Yielding, NoneIdle, SameData, Askers
<1>5. Nonempty(a) # {}
  <2>1. Null \in Pid /\ a.st[Null] \in {"ready", "running", "memory", "message"}
    BY <1>2, Parts DEF Pid
  <2>2. a.st[Null] \in {"ready", "running"}
    BY <1>3, <2>1 DEF Calm
  <2>3. QueueOf(a, Null) \in 0 .. LOWEST
    BY <1>2, <2>1, <2>2, QueueTells
  <2>4. Null \in Range(a.q[QueueOf(a, Null)])
    BY <1>2, <2>1, <2>3, Numbers DEF Placed
  <2>5. a.q[QueueOf(a, Null)] # <<>>
    BY <2>4 DEF Range
  <2> QED BY <1>2, <2>3, <2>5, NonemptyIs
<1>6. Settled(Dispatched(a)) /\ SameData(a, Dispatched(a))
  BY <1>2, <1>3, <1>4, <1>5, DispatchedIs
<1>7. process_switch(s) = Dispatched(a)
  BY DEF process_switch, a
<1> QED BY <1>2, <1>6, <1>7 DEF SameData

\* A running process may give way at any time.
LEMMA ReadyYields ==
  ASSUME NEW s, Sound(s)
  PROVE  /\ Yielding([s EXCEPT !.st[s.run] = "ready"])
         /\ SameData(s, [s EXCEPT !.st[s.run] = "ready"])
<1> DEFINE r == [s EXCEPT !.st[s.run] = "ready"]
<1>1. s \in KernelState /\ s.run \in Pid
  BY Parts DEF Sound
<1>2. /\ r \in KernelState /\ r.run = s.run /\ r.q = s.q /\ SameData(s, r)
      /\ r.st = [s.st EXCEPT ![s.run] = "ready"]
  BY <1>1, WithState
<1> HIDE DEF r
<1>3. r.st[s.run] = "ready" /\ \A o \in Pid : o # s.run => r.st[o] = s.st[o]
  BY <1>1, <1>2, Parts
<1>4. Placed(r, {r.run})
  <2>1. Placed(s, {s.run}) /\ s.run \in {s.run} /\ r.run = s.run /\ r.q = s.q
    BY <1>2 DEF Sound
  <2>2. \A L : s.run \in L /\ Placed(s, L) => Placed(r, L)
    <3>1. r \in KernelState /\ s.run \in Pid /\ (\A o \in Pid : o # s.run => r.st[o] = s.st[o])
      BY <1>1, <1>2, <1>3
    <3> QED BY <1>1, <2>1, <3>1, StateMoves
  <2> QED BY <2>1, <2>2, Zenon
<1>5. Calm(r)
  BY <1>2, <1>3 DEF Sound, Calm, SameData
<1>6. NoneIdle(r)
  <2>1. r.free = s.free /\ r.call = s.call
    BY <1>2 DEF SameData
  <2>2. Askers(s) \subseteq Askers(r)
    <3> SUFFICES ASSUME NEW o \in Askers(s) PROVE o \in Askers(r)
      OBVIOUS
    <3>1. o \in Process /\ o \in Pid /\ s.call[o] = "request" /\ s.st[o] \in {"ready", "running"}
      BY DEF Askers, Pid
    <3> QED BY <1>3, <2>1, <3>1 DEF Askers
  <2>3. \A o \in Pid : r.st[o] = "memory" => s.st[o] = "memory"
    BY <1>3
  <2> QED BY <1>1, <1>2, <2>1, <2>2, <2>3, IdleKept DEF Sound
<1>7. Yielding(r)
  BY <1>2, <1>3, <1>4, <1>5, <1>6 DEF Yielding
<1> QED BY <1>2, <1>7 DEF r

\* The switch at the end of a handler settles what the handler did.
LEMMA SwitchIfHigherIs ==
  ASSUME NEW s, Sound(s)
  PROVE  /\ Settled(process_switch_if_there_is_a_higher_priority_process(s))
         /\ SameData(s, process_switch_if_there_is_a_higher_priority_process(s))
<1> DEFINE r == [s EXCEPT !.st[s.run] = "ready"]
<1>1. CASE next_priority(s) < priority[s.run]
  <2>1. process_switch_if_there_is_a_higher_priority_process(s) = process_switch(r)
    BY <1>1 DEF process_switch_if_there_is_a_higher_priority_process
  <2>2. Yielding(r) /\ SameData(s, r)
    BY ReadyYields
  <2> HIDE DEF r
  <2>3. Settled(process_switch(r)) /\ SameData(r, process_switch(r))
    BY <2>2, SwitchIs
  <2> QED BY <2>1, <2>2, <2>3 DEF SameData
<1>2. CASE ~(next_priority(s) < priority[s.run])
  <2>1. process_switch_if_there_is_a_higher_priority_process(s) = s
    BY <1>2 DEF process_switch_if_there_is_a_higher_priority_process
  <2>2. s \in KernelState /\ s.run \in Pid
    BY Parts DEF Sound
  <2>3. next_priority(s) \in Nat /\ priority[s.run] \in Nat
    BY <2>2, NextPriorityIs, Numbers
  <2> QED BY <1>2, <2>1, <2>3 DEF Settled, SameData
<1> QED BY <1>1, <1>2
-----------------------------------------------------------------------------
(* A waiting process is made ready.                                        *)

\* Nobody waits in an empty queue.
LEMMA NobodyWaits ==
  ASSUME NEW s, Sound(s), s.q[BLOCKED_MEMORY] = <<>>
  PROVE  \A p \in Pid : s.st[p] # "memory"
<1> SUFFICES ASSUME NEW p \in Pid, s.st[p] = "memory" PROVE FALSE
  OBVIOUS
<1>1. s \in KernelState /\ p # s.run
  BY DEF Sound
<1>2. QueueOf(s, p) = BLOCKED_MEMORY /\ BLOCKED_MEMORY \in 0 .. BLOCKED_MESSAGE
  BY <1>1, QueueTells, Numbers
<1>3. p \in Range(s.q[BLOCKED_MEMORY])
  BY <1>1, <1>2 DEF Sound, Placed
<1> QED BY <1>3 DEF Range

\* The process that is told of the freed block waits for one.
LEMMA FirstWaiting ==
  ASSUME NEW s \in KernelState, s.q[BLOCKED_MEMORY] # <<>>
  PROVE  /\ next_blocked_memory_process(s) \in Pid
         /\ next_blocked_memory_process(s) \in Range(s.q[BLOCKED_MEMORY])
<1> DEFINE w == s.q[BLOCKED_MEMORY]
           prios == {priority[w[i]] : i \in DOMAIN w}
           top == Least(prios)
           firsts == {i \in DOMAIN w : priority[w[i]] = top}
<1>1. w \in Seq(Pid) /\ w # <<>>
  BY Parts, Numbers
<1> HIDE DEF w
<1>2. DOMAIN w = 1 .. Len(w) /\ Len(w) \in Nat /\ 1 \in DOMAIN w /\ \A i \in DOMAIN w : w[i] \in Pid
  BY <1>1, EmptySeq, LenProperties, ElementOfSeq
<1>3. prios \in SUBSET Nat /\ prios # {}
  BY <1>2, Numbers
<1>4. top \in prios
  <2> HIDE DEF prios
  <2> QED BY <1>3, LeastIs
<1> HIDE DEF top
<1>5. firsts \in SUBSET Nat /\ firsts # {}
  BY <1>2, <1>4
<1>6. Least(firsts) \in firsts
  <2> HIDE DEF firsts
  <2> QED BY <1>5, LeastIs
<1>7. next_blocked_memory_process(s) = w[Least(firsts)]
  BY DEF next_blocked_memory_process, w, top
<1>8. Least(firsts) \in DOMAIN w
  BY <1>6
<1> HIDE DEF firsts
<1> QED BY <1>2, <1>7, <1>8 DEF Range, w

\* Process p leaves queue i and is ready: the rest stays.
LEMMA WakeIs ==
  ASSUME NEW s \in KernelState, Placed(s, {s.run}), Calm(s), s.st[s.run] = "running",
         NEW i \in {BLOCKED_MEMORY, BLOCKED_MESSAGE},
         NEW p \in Pid, p \in Range(s.q[i])
  PROVE  /\ Readied(Taken(s, i, p), p) \in KernelState
         /\ Readied(Taken(s, i, p), p).run = s.run
         /\ SameData(s, Readied(Taken(s, i, p), p))
         /\ Placed(Readied(Taken(s, i, p), p), {s.run})
         /\ Calm(Readied(Taken(s, i, p), p))
         /\ Readied(Taken(s, i, p), p).st[s.run] = "running"
         /\ Readied(Taken(s, i, p), p).st = [s.st EXCEPT ![p] = "ready"]
         /\ p # s.run
<1> DEFINE t == Taken(s, i, p)
           u == [t EXCEPT !.st[p] = "ready"]
           r == append_process(u, p)
<1>1. i \in 0 .. BLOCKED_MESSAGE
  BY Numbers
<1>2. p # s.run
  BY <1>1 DEF Placed
<1>3. /\ t \in KernelState /\ t.run = s.run /\ t.st = s.st /\ SameData(s, t)
      /\ Placed(t, {s.run} \cup {p})
  BY <1>1, TakenIs
<1> HIDE DEF t
<1>4. /\ u \in KernelState /\ u.run = t.run /\ u.q = t.q /\ SameData(t, u)
      /\ u.st = [t.st EXCEPT ![p] = "ready"]
  BY <1>3, WithState
<1> HIDE DEF u
<1>5. u.st[p] = "ready" /\ \A o \in Pid : o # p => u.st[o] = t.st[o]
  BY <1>3, <1>4, Parts
<1>6. Placed(u, {s.run} \cup {p})
  <2> DEFINE L == {s.run} \cup {p}
  <2>1. p \in L /\ Placed(t, L)
    BY <1>3
  <2> HIDE DEF L
  <2>2. Placed(u, L)
    <3>1. /\ t \in KernelState /\ u \in KernelState /\ u.q = t.q
          /\ \A o \in Pid : o # p => u.st[o] = t.st[o]
      BY <1>3, <1>4, <1>5
    <3> QED BY <2>1, <3>1, StateMoves
  <2> QED BY <2>2 DEF L
<1>7. /\ r \in KernelState /\ r.run = u.run /\ r.st = u.st /\ SameData(u, r)
      /\ Placed(r, ({s.run} \cup {p}) \ {p})
  <2>1. p \in {s.run} \cup {p}
    OBVIOUS
  <2> QED BY <1>4, <1>6, <2>1, AppendIs
<1>8. Readied(Taken(s, i, p), p) = r
  BY DEF Readied, t, u
<1> HIDE DEF r
<1>9. Placed(r, {s.run})
  <2>1. ({s.run} \cup {p}) \ {p} = {s.run}
    BY <1>2
  <2> QED BY <1>7, <2>1, Zenon
<1>10. r.run = s.run /\ SameData(s, r) /\ r.st = [s.st EXCEPT ![p] = "ready"]
  BY <1>3, <1>4, <1>7 DEF SameData
<1>11. r.st[p] = "ready" /\ \A o \in Pid : o # p => r.st[o] = s.st[o]
  BY <1>3, <1>5, <1>7
<1>12. Calm(r)
  BY <1>10, <1>11 DEF Calm, SameData
<1>13. r.st[s.run] = "running"
  BY <1>2, <1>11, Parts
<1> QED BY <1>2, <1>7, <1>8, <1>9, <1>10, <1>12, <1>13

\* What a change of the mail changes.
LEMMA WithMail ==
  ASSUME NEW s \in KernelState, NEW p \in Pid \cup {Timer, Uart}, NEW v \in Seq(Mail)
  PROVE  /\ [s EXCEPT !.mail[p] = v] \in KernelState
         /\ [s EXCEPT !.mail[p] = v].run = s.run
         /\ [s EXCEPT !.mail[p] = v].st = s.st
         /\ [s EXCEPT !.mail[p] = v].q = s.q
         /\ [s EXCEPT !.mail[p] = v].call = s.call
         /\ [s EXCEPT !.mail[p] = v].delayed = s.delayed
         /\ [s EXCEPT !.mail[p] = v].free = s.free
<1> QED BY DEF KernelState

\* States alike in everything but mail and delayed mail are alike sound.
LEMMA SoundAlike ==
  ASSUME NEW s, NEW r, r \in KernelState, r.run = s.run, r.st = s.st, r.q = s.q,
         r.call = s.call, r.free = s.free, Sound(s)
  PROVE  Sound(r) /\ next_priority(r) = next_priority(s)
<1>1. \A o \in Pid : QueueOf(r, o) = QueueOf(s, o)
  BY DEF QueueOf
<1>2. Placed(r, {r.run})
  BY <1>1 DEF Sound, Placed
<1>3. Calm(r) /\ NoneIdle(r) /\ r.st[r.run] = "running"
  BY DEF Sound, Calm, NoneIdle, Askers
<1>4. next_priority(r) = next_priority(s)
  BY DEF next_priority, Nonempty
<1> QED BY <1>2, <1>3, <1>4 DEF Sound

\* Mail reaches its mailbox; a receiver that waits is ready then.
LEMMA DeliveredIs ==
  ASSUME NEW s, Sound(s), NEW p \in Pid \cup {Timer, Uart}, NEW m \in Mail
  PROVE  /\ Sound(Delivered(s, p, m))
         /\ Delivered(s, p, m).run = s.run /\ Delivered(s, p, m).call = s.call
         /\ Delivered(s, p, m).delayed = s.delayed
         /\ ~(p \in Pid /\ s.st[p] = "message") =>
              next_priority(Delivered(s, p, m)) = next_priority(s)
<1> DEFINE put == [s EXCEPT !.mail[p] = Append(@, m)]
<1>1. s \in KernelState /\ s.mail[p] \in Seq(Mail)
  BY Parts DEF Sound
<1>2. Append(s.mail[p], m) \in Seq(Mail)
  BY <1>1, AppendProperties
<1>3. /\ put \in KernelState /\ put.run = s.run /\ put.st = s.st /\ put.q = s.q
      /\ put.call = s.call /\ put.delayed = s.delayed /\ put.free = s.free
  BY <1>1, <1>2, WithMail
<1>4. CASE p \in Pid /\ s.st[p] = "message"
  <2>1. Delivered(s, p, m) = Readied(Taken(put, BLOCKED_MESSAGE, p), p)
    BY <1>4 DEF Delivered
  <2> HIDE DEF put
  <2>2. Sound(put)
    BY <1>3, SoundAlike
  <2>3. p \in Range(put.q[BLOCKED_MESSAGE])
    <3>1. p # put.run /\ put.st[p] = "message"
      BY <1>3, <1>4 DEF Sound
    <3>2. QueueOf(put, p) = BLOCKED_MESSAGE /\ BLOCKED_MESSAGE \in 0 .. BLOCKED_MESSAGE
      BY <1>3, <1>4, <3>1, QueueTells, Numbers
    <3> QED BY <1>4, <2>2, <3>1, <3>2 DEF Sound, Placed
  <2> DEFINE r == Readied(Taken(put, BLOCKED_MESSAGE, p), p)
  <2>4. /\ r \in KernelState /\ r.run = put.run /\ SameData(put, r)
        /\ Placed(r, {put.run}) /\ Calm(r) /\ r.st[put.run] = "running"
        /\ r.st = [put.st EXCEPT ![p] = "ready"]
    <3>1. BLOCKED_MESSAGE \in {BLOCKED_MEMORY, BLOCKED_MESSAGE}
      OBVIOUS
    <3>2. /\ put \in KernelState /\ Placed(put, {put.run}) /\ Calm(put)
          /\ put.st[put.run] = "running"
      BY <2>2 DEF Sound
    <3> QED BY <1>4, <2>3, <3>1, <3>2, WakeIs
  <2> HIDE DEF r
  <2>5. r.st[p] = "ready" /\ \A o \in Pid : o # p => r.st[o] = put.st[o]
    BY <1>3, <1>4, <2>4, Parts
  <2>6. NoneIdle(r)
    <3>1. r.free = put.free /\ r.call = put.call
      BY <2>4 DEF SameData
    <3>2. Askers(put) \subseteq Askers(r)
      <4> SUFFICES ASSUME NEW o \in Askers(put) PROVE o \in Askers(r)
        OBVIOUS
      <4>1. o \in Process /\ o \in Pid /\ put.call[o] = "request" /\ put.st[o] \in {"ready", "running"}
        BY DEF Askers, Pid
      <4> QED BY <2>5, <3>1, <4>1 DEF Askers
    <3>3. \A o \in Pid : r.st[o] = "memory" => put.st[o] = "memory"
      BY <2>5
    <3> QED BY <1>3, <2>2, <2>4, <3>1, <3>2, <3>3, IdleKept DEF Sound
  <2>7. Sound(r)
    BY <2>4, <2>6 DEF Sound
  <2> QED BY <1>3, <1>4, <2>1, <2>4, <2>7 DEF r, SameData
<1>5. CASE ~(p \in Pid /\ s.st[p] = "message")
  <2>1. Delivered(s, p, m) = put
    BY <1>5 DEF Delivered
  <2> HIDE DEF put
  <2>2. Sound(put) /\ next_priority(put) = next_priority(s)
    BY <1>3, SoundAlike
  <2> QED BY <1>3, <2>1, <2>2
<1> QED BY <1>4, <1>5

\* What a change of the free blocks changes.
LEMMA WithFree ==
  ASSUME NEW s \in KernelState, NEW F \in SUBSET Block
  PROVE  /\ [s EXCEPT !.free = F] \in KernelState
         /\ [s EXCEPT !.free = F].run = s.run
         /\ [s EXCEPT !.free = F].st = s.st
         /\ [s EXCEPT !.free = F].q = s.q
         /\ [s EXCEPT !.free = F].call = s.call
         /\ [s EXCEPT !.free = F].mail = s.mail
         /\ [s EXCEPT !.free = F].delayed = s.delayed
         /\ [s EXCEPT !.free = F].free = F
<1> QED BY DEF KernelState

\* A freed block has a process about to take it, when some process waits.
LEMMA FreedIs ==
  ASSUME NEW s, Sound(s), NEW b \in Block
  PROVE  /\ Sound(Freed(s, b))
         /\ Freed(s, b).run = s.run /\ Freed(s, b).call = s.call
         /\ Freed(s, b).delayed = s.delayed
<1> DEFINE F == s.free \cup {b}
           f == [s EXCEPT !.free = F]
<1>1. s \in KernelState /\ F \in SUBSET Block
  BY Parts DEF Sound
<1>2. /\ f \in KernelState /\ f.run = s.run /\ f.st = s.st /\ f.q = s.q
      /\ f.call = s.call /\ f.mail = s.mail /\ f.delayed = s.delayed /\ f.free = F
  BY <1>1, WithFree
<1>3. Placed(f, {f.run}) /\ Calm(f) /\ f.st[f.run] = "running"
  <2>1. \A o \in Pid : QueueOf(f, o) = QueueOf(s, o)
    BY <1>2 DEF QueueOf
  <2>2. Placed(f, {f.run})
    BY <1>2, <2>1 DEF Sound, Placed
  <2> QED BY <1>2, <2>2 DEF Sound, Calm
<1>4. Freed(s, b) = IF f.q[BLOCKED_MEMORY] = <<>> THEN f
                    ELSE Readied(Taken(f, BLOCKED_MEMORY, next_blocked_memory_process(f)),
                                 next_blocked_memory_process(f))
  BY DEF Freed
<1> HIDE DEF f
<1>5. CASE s.q[BLOCKED_MEMORY] = <<>>
  <2>1. \A p \in Pid : f.st[p] # "memory"
    BY <1>2, <1>5, NobodyWaits
  <2>2. Sound(f)
    BY <1>2, <1>3, <2>1 DEF Sound, NoneIdle
  <2> QED BY <1>2, <1>4, <1>5, <2>2
<1>6. CASE s.q[BLOCKED_MEMORY] # <<>>
  <2> DEFINE p == next_blocked_memory_process(f)
  <2>1. p \in Pid /\ p \in Range(f.q[BLOCKED_MEMORY])
    BY <1>2, <1>6, FirstWaiting
  <2> HIDE DEF p
  <2>2. BLOCKED_MEMORY \in 0 .. BLOCKED_MESSAGE
    BY Numbers
  <2>3. s.st[p] = "memory" /\ p # s.run /\ s.call[p] = "request" /\ p \in Process
    <3>1. QueueOf(s, p) = BLOCKED_MEMORY /\ p # s.run
      BY <1>2, <2>1, <2>2 DEF Sound, Placed
    <3>2. s.st[p] = "memory"
      BY <1>1, <2>1, <3>1, QueueTells
    <3> QED BY <2>1, <3>1, <3>2 DEF Sound, Calm, Pid
  <2> DEFINE r == Readied(Taken(f, BLOCKED_MEMORY, p), p)
  <2>4. /\ r \in KernelState /\ r.run = f.run /\ SameData(f, r)
        /\ Placed(r, {f.run}) /\ Calm(r) /\ r.st[f.run] = "running"
        /\ r.st = [f.st EXCEPT ![p] = "ready"]
    <3>1. BLOCKED_MEMORY \in {BLOCKED_MEMORY, BLOCKED_MESSAGE}
      OBVIOUS
    <3> QED BY <1>2, <1>3, <2>1, <3>1, WakeIs
  <2>5. Freed(s, b) = r
    BY <1>2, <1>4, <1>6 DEF p
  <2> HIDE DEF r
  <2>6. r.st[p] = "ready" /\ \A o \in Pid : o # p => r.st[o] = s.st[o]
    BY <1>2, <2>1, <2>4, Parts
  <2>7. r.free = s.free \cup {b} /\ r.call = s.call
    BY <1>2, <2>4 DEF SameData
  <2>8. Cardinality(r.free) <= Cardinality(s.free) + 1
    <3>1. IsFiniteSet(s.free) /\ Cardinality(s.free) \in Nat
      BY <1>1, Countable
    <3>2. Cardinality(s.free \cup {b}) = IF b \in s.free THEN Cardinality(s.free)
                                                        ELSE Cardinality(s.free) + 1
      BY <3>1, FS_AddElement
    <3> QED BY <2>7, <3>1, <3>2
  <2>9. Askers(s) \cup {p} \subseteq Askers(r) /\ p \notin Askers(s)
    <3>1. ASSUME NEW o \in Askers(s) PROVE o \in Askers(r)
      <4>1. o \in Process /\ o \in Pid /\ s.call[o] = "request" /\ s.st[o] \in {"ready", "running"}
        BY DEF Askers, Pid
      <4> QED BY <2>6, <2>7, <4>1 DEF Askers
    <3>2. p \in Askers(r)
      BY <2>3, <2>6, <2>7 DEF Askers
    <3>3. p \notin Askers(s)
      BY <2>3 DEF Askers
    <3> QED BY <3>1, <3>2, <3>3
  <2>10. Cardinality(Askers(s)) + 1 <= Cardinality(Askers(r))
    <3>1. /\ IsFiniteSet(Askers(s)) /\ Cardinality(Askers(s)) \in Nat
          /\ IsFiniteSet(Askers(r)) /\ Cardinality(Askers(r)) \in Nat
      BY <1>1, <2>4, Countable
    <3>2. Cardinality(Askers(s) \cup {p}) = Cardinality(Askers(s)) + 1
      BY <2>9, <3>1, FS_AddElement
    <3>3. Cardinality(Askers(s) \cup {p}) <= Cardinality(Askers(r))
      BY <2>9, <3>1, FS_Subset
    <3> QED BY <3>2, <3>3
  <2>11. Cardinality(s.free) <= Cardinality(Askers(s))
    BY <2>1, <2>3 DEF Sound, NoneIdle
  <2>12. NoneIdle(r)
    <3>1. /\ Cardinality(Askers(s)) \in Nat /\ Cardinality(s.free) \in Nat
          /\ Cardinality(Askers(r)) \in Nat /\ Cardinality(r.free) \in Nat
      BY <1>1, <2>4, Countable
    <3> QED BY <2>8, <2>10, <2>11, <3>1 DEF NoneIdle
  <2>13. Sound(r)
    BY <2>4, <2>12 DEF Sound
  <2> QED BY <1>2, <2>4, <2>5, <2>13 DEF SameData
<1> QED BY <1>5, <1>6
-----------------------------------------------------------------------------
(* The calls of the running process.                                       *)

\* What the calls change of the kernel's state.
Waiting(s, state, call)  == [s EXCEPT !.st[s.run] = state, !.call[s.run] = call]
Requested(s, p, b)       == [s EXCEPT !.free = @ \ {b}, !.call[p] = "none"]
Received(s, p)           == [s EXCEPT !.mail[p] = Tail(@), !.call[p] = "none"]

LEMMA WithWaiting ==
  ASSUME NEW s \in KernelState, NEW state \in {"memory", "message"},
         NEW call \in {"request", "receive"}
  PROVE  /\ Waiting(s, state, call) \in KernelState
         /\ Waiting(s, state, call).run = s.run
         /\ Waiting(s, state, call).q = s.q
         /\ Waiting(s, state, call).mail = s.mail
         /\ Waiting(s, state, call).delayed = s.delayed
         /\ Waiting(s, state, call).free = s.free
         /\ Waiting(s, state, call).st[s.run] = state
         /\ Waiting(s, state, call).call[s.run] = call
         /\ \A o \in Pid : o # s.run => /\ Waiting(s, state, call).st[o] = s.st[o]
                                        /\ Waiting(s, state, call).call[o] = s.call[o]
<1> QED BY DEF KernelState, Waiting

LEMMA WithRequested ==
  ASSUME NEW s \in KernelState, NEW p \in Pid, NEW b
  PROVE  /\ Requested(s, p, b) \in KernelState
         /\ Requested(s, p, b).run = s.run
         /\ Requested(s, p, b).st = s.st
         /\ Requested(s, p, b).q = s.q
         /\ Requested(s, p, b).delayed = s.delayed
         /\ Requested(s, p, b).free = s.free \ {b}
         /\ \A o \in Pid : Requested(s, p, b).call[o] = IF o = p THEN "none" ELSE s.call[o]
<1> QED BY DEF KernelState, Requested

LEMMA WithReceived ==
  ASSUME NEW s \in KernelState, NEW p \in Pid, s.mail[p] # <<>>
  PROVE  /\ Received(s, p) \in KernelState
         /\ Received(s, p).run = s.run
         /\ Received(s, p).st = s.st
         /\ Received(s, p).q = s.q
         /\ Received(s, p).delayed = s.delayed
         /\ Received(s, p).free = s.free
         /\ \A o \in Pid : Received(s, p).call[o] = IF o = p THEN "none" ELSE s.call[o]
<1>1. s.mail[p] \in Seq(Mail)
  BY Parts
<1>2. Tail(s.mail[p]) \in Seq(Mail)
  BY <1>1, HeadTailProperties
<1> QED BY <1>2 DEF KernelState, Received

\* A process that blocks gives way, and waits in the loop of its call.
LEMMA BlocksIs ==
  ASSUME NEW s, Sound(s), s.run # Null,
         NEW state \in {"memory", "message"}, NEW call \in {"request", "receive"},
         state = "memory" => call = "request" /\ s.free = {},
         state = "message" => call = "receive" /\ s.call[s.run] # "request"
  PROVE  Settled(Blocks(s, state, call)) /\ Blocks(s, state, call).delayed = s.delayed
<1> DEFINE r == Waiting(s, state, call)
<1>1. s \in KernelState /\ s.run \in Pid
  BY Parts DEF Sound
<1>2. /\ r \in KernelState /\ r.run = s.run /\ r.q = s.q /\ r.delayed = s.delayed
      /\ r.free = s.free /\ r.st[s.run] = state /\ r.call[s.run] = call
      /\ \A o \in Pid : o # s.run => r.st[o] = s.st[o] /\ r.call[o] = s.call[o]
  BY <1>1, WithWaiting
<1>3. Blocks(s, state, call) = process_switch(r)
  BY DEF Blocks, Waiting
<1> HIDE DEF r
<1>4. Placed(r, {r.run})
  <2>1. Placed(s, {s.run}) /\ s.run \in {s.run}
    BY DEF Sound
  <2>2. \A o \in Pid : o # s.run => r.st[o] = s.st[o]
    BY <1>2
  <2>3. Placed(r, {s.run})
    BY <1>1, <1>2, <2>1, <2>2, StateMoves
  <2> QED BY <1>2, <2>3
<1>5. Calm(r)
  <2>1. Null \in Pid
    BY DEF Pid
  <2> QED BY <1>2, <2>1 DEF Sound, Calm
<1>6. NoneIdle(r)
  <2>1. CASE state = "memory"
    <3>1. Cardinality(r.free) = 0
      BY <1>2, <2>1, FS_EmptySet
    <3>2. Cardinality(Askers(r)) \in Nat
      BY <1>2, Countable
    <3> QED BY <3>1, <3>2 DEF NoneIdle
  <2>2. CASE state = "message"
    <3>1. Askers(s) \subseteq Askers(r)
      <4> SUFFICES ASSUME NEW o \in Askers(s) PROVE o \in Askers(r)
        OBVIOUS
      <4>1. o \in Process /\ o \in Pid /\ s.call[o] = "request" /\ s.st[o] \in {"ready", "running"}
        BY DEF Askers, Pid
      <4>2. o # s.run
        BY <2>2, <4>1
      <4> QED BY <1>2, <4>1, <4>2 DEF Askers
    <3>2. \A o \in Pid : r.st[o] = "memory" => s.st[o] = "memory"
      BY <1>2, <2>2
    <3> QED BY <1>1, <1>2, <3>1, <3>2, IdleKept DEF Sound
  <2> QED BY <2>1, <2>2
<1>7. Yielding(r)
  BY <1>2, <1>4, <1>5, <1>6 DEF Yielding
<1>8. Settled(process_switch(r)) /\ SameData(r, process_switch(r))
  BY <1>7, SwitchIs
<1> QED BY <1>2, <1>3, <1>8 DEF SameData

\* States alike in where the processes are, with none freed or waiting anew.
LEMMA SettledAlike ==
  ASSUME NEW s, NEW r, Settled(s), r \in KernelState,
         r.run = s.run, r.st = s.st, r.q = s.q, Calm(r), NoneIdle(r)
  PROVE  Settled(r)
<1>1. \A o \in Pid : QueueOf(r, o) = QueueOf(s, o)
  BY DEF QueueOf
<1>2. Placed(r, {r.run})
  BY <1>1 DEF Settled, Sound, Placed
<1>3. next_priority(r) = next_priority(s)
  BY DEF next_priority, Nonempty
<1> QED BY <1>2, <1>3 DEF Settled, Sound

\* A process that takes a block was about to, or did not ask before.
LEMMA RequestedIs ==
  ASSUME NEW s, Settled(s), NEW p \in Pid, NEW b \in s.free, s.st[p] = "running"
  PROVE  Settled(Requested(s, p, b)) /\ Requested(s, p, b).delayed = s.delayed
<1> DEFINE r == Requested(s, p, b)
<1>1. s \in KernelState
  BY DEF Settled, Sound
<1>2. /\ r \in KernelState /\ r.run = s.run /\ r.st = s.st /\ r.q = s.q
      /\ r.delayed = s.delayed /\ r.free = s.free \ {b}
      /\ \A o \in Pid : r.call[o] = IF o = p THEN "none" ELSE s.call[o]
  BY <1>1, WithRequested
<1> HIDE DEF r
<1>3. Calm(r)
  <2>1. Null \in Pid
    BY DEF Pid
  <2> QED BY <1>2, <2>1 DEF Settled, Sound, Calm
<1>4. Cardinality(r.free) = Cardinality(s.free) - 1
  <2>1. IsFiniteSet(s.free)
    BY <1>1, Countable
  <2> QED BY <1>2, <2>1, FS_RemoveElement
<1>5. Cardinality(Askers(r)) >= Cardinality(Askers(s)) - 1
  <2>1. Askers(s) \ {p} \subseteq Askers(r)
    <3> SUFFICES ASSUME NEW o \in Askers(s), o # p PROVE o \in Askers(r)
      OBVIOUS
    <3>1. o \in Process /\ o \in Pid /\ s.call[o] = "request" /\ s.st[o] \in {"ready", "running"}
      BY DEF Askers, Pid
    <3> QED BY <1>2, <3>1 DEF Askers
  <2>2. /\ IsFiniteSet(Askers(s)) /\ Cardinality(Askers(s)) \in Nat
        /\ IsFiniteSet(Askers(r)) /\ Cardinality(Askers(r)) \in Nat
    BY <1>1, <1>2, Countable
  <2>3. Cardinality(Askers(s) \ {p}) >= Cardinality(Askers(s)) - 1
    <3>1. Cardinality(Askers(s) \ {p}) = IF p \in Askers(s) THEN Cardinality(Askers(s)) - 1
                                                           ELSE Cardinality(Askers(s))
      BY <2>2, FS_RemoveElement
    <3> QED BY <2>2, <3>1
  <2>4. Cardinality(Askers(s) \ {p}) <= Cardinality(Askers(r))
    BY <2>1, <2>2, FS_Subset
  <2>5. Cardinality(Askers(s) \ {p}) \in Nat
    BY <2>2, FS_RemoveElement, FS_CardinalityType
  <2> QED BY <2>2, <2>3, <2>4, <2>5
<1>6. NoneIdle(r)
  <2>1. /\ Cardinality(s.free) \in Nat /\ Cardinality(r.free) \in Nat
        /\ Cardinality(Askers(s)) \in Nat /\ Cardinality(Askers(r)) \in Nat
    BY <1>1, <1>2, Countable
  <2>2. (\E o \in Pid : r.st[o] = "memory") => Cardinality(s.free) <= Cardinality(Askers(s))
    BY <1>2 DEF Settled, Sound, NoneIdle
  <2> QED BY <1>4, <1>5, <2>1, <2>2 DEF NoneIdle
<1>7. Settled(r)
  BY <1>2, <1>3, <1>6, SettledAlike
<1> QED BY <1>2, <1>7 DEF r

\* A process that takes its mail was not about to take a block.
LEMMA ReceivedIs ==
  ASSUME NEW s, Settled(s), NEW p \in Pid, s.mail[p] # <<>>,
         s.st[p] = "running", s.call[p] # "request"
  PROVE  Settled(Received(s, p)) /\ Received(s, p).delayed = s.delayed
<1> DEFINE r == Received(s, p)
<1>1. s \in KernelState
  BY DEF Settled, Sound
<1>2. /\ r \in KernelState /\ r.run = s.run /\ r.st = s.st /\ r.q = s.q
      /\ r.delayed = s.delayed /\ r.free = s.free
      /\ \A o \in Pid : r.call[o] = IF o = p THEN "none" ELSE s.call[o]
  BY <1>1, WithReceived
<1> HIDE DEF r
<1>3. Calm(r)
  <2>1. Null \in Pid
    BY DEF Pid
  <2> QED BY <1>2, <2>1 DEF Settled, Sound, Calm
<1>4. NoneIdle(r)
  <2>1. Askers(s) \subseteq Askers(r)
    <3> SUFFICES ASSUME NEW o \in Askers(s) PROVE o \in Askers(r)
      OBVIOUS
    <3>1. o \in Process /\ o \in Pid /\ s.call[o] = "request" /\ s.st[o] \in {"ready", "running"}
      BY DEF Askers, Pid
    <3> QED BY <1>2, <3>1 DEF Askers
  <2> QED BY <1>1, <1>2, <2>1, IdleKept DEF Settled, Sound
<1>7. Settled(r)
  BY <1>2, <1>3, <1>4, SettledAlike
<1> QED BY <1>2, <1>7 DEF r
-----------------------------------------------------------------------------
(* The loops of the timer.                                                 *)

\* What holds first and is kept by every turn of a loop holds to its end.
LEMMA StaysIn ==
  ASSUME NEW S, NEW n \in Nat, NEW f, f[0] \in S,
         \A i \in 1 .. n : f[i - 1] \in S => f[i] \in S
  PROVE  \A i \in 0 .. n : f[i] \in S
<1> DEFINE Odd == {i \in Nat : i <= n /\ f[i] \notin S}
<1>1. Odd = {}
  <2> SUFFICES ASSUME Odd # {} PROVE FALSE
    OBVIOUS
  <2>1. Odd \in SUBSET Nat
    OBVIOUS
  <2>2. PICK i \in Odd : \A j \in Odd : i <= j
    <3> HIDE DEF Odd
    <3> QED BY <2>1, LeastNatural
  <2>3. i \in Nat /\ i <= n /\ f[i] \notin S /\ i # 0
    OBVIOUS
  <2>4. i - 1 \in Nat /\ i - 1 <= n /\ i \in 1 .. n /\ ~(i <= i - 1)
    BY <2>3
  <2>5. i - 1 \notin Odd
    <3> HIDE DEF Odd
    <3> QED BY <2>2, <2>4
  <2> QED BY <2>3, <2>4, <2>5
<1> QED BY <1>1

\* g holds what a loop with the step F has after each of its first m turns.
Turns(b, F, m, g) == g = [i \in 0 .. m |-> IF i = 0 THEN b ELSE F[i][g[i - 1]]]

\* One more turn.
LEMMA TurnsStep ==
  ASSUME NEW b, NEW F, NEW m \in Nat, NEW g, Turns(b, F, m, g)
  PROVE  \E r : Turns(b, F, m + 1, r)
<1> DEFINE z == F[m + 1][g[m]]
           r == [i \in 0 .. m + 1 |-> IF i = m + 1 THEN z ELSE g[i]]
<1>1. \A i \in 0 .. m : g[i] = IF i = 0 THEN b ELSE F[i][g[i - 1]]
  BY DEF Turns
<1>2. r[m + 1] = z /\ \A i \in 0 .. m : r[i] = g[i]
  <2> HIDE DEF z
  <2> QED OBVIOUS
<1>3. r = [i \in 0 .. m + 1 |-> r[i]]
  <2> HIDE DEF z
  <2> QED OBVIOUS
<1> HIDE DEF r
<1>4. ASSUME NEW i \in 0 .. m + 1
      PROVE  r[i] = IF i = 0 THEN b ELSE F[i][r[i - 1]]
  <2>1. CASE i = m + 1
    <3>1. m \in 0 .. m /\ i # 0 /\ i - 1 = m
      BY <2>1
    <3> QED BY <1>2, <2>1, <3>1
  <2>2. CASE i # m + 1
    <3>1. i \in 0 .. m /\ (i # 0 => i - 1 \in 0 .. m)
      BY <2>2
    <3> QED BY <1>1, <1>2, <3>1
  <2> QED BY <2>1, <2>2
<1>5. Turns(b, F, m + 1, r)
  BY <1>3, <1>4 DEF Turns
<1> QED BY <1>5

\* A loop of n turns ends.
LEMMA LoopEnds ==
  ASSUME NEW b, NEW F, NEW n \in Nat
  PROVE  \E g : Turns(b, F, n, g)
<1> DEFINE Bad == {m \in Nat : ~ \E g : Turns(b, F, m, g)}
<1>1. Bad = {}
  <2> SUFFICES ASSUME Bad # {} PROVE FALSE
    OBVIOUS
  <2>1. Bad \in SUBSET Nat
    OBVIOUS
  <2>2. PICK m \in Bad : \A j \in Bad : m <= j
    <3> HIDE DEF Bad
    <3> QED BY <2>1, LeastNatural
  <2>3. CASE m = 0
    <3> DEFINE g0 == [i \in 0 .. 0 |-> b]
    <3>1. g0 = [i \in 0 .. 0 |-> IF i = 0 THEN b ELSE F[i][g0[i - 1]]]
      OBVIOUS
    <3> HIDE DEF g0
    <3>2. Turns(b, F, 0, g0)
      BY <3>1 DEF Turns
    <3> QED BY <2>2, <2>3, <3>2
  <2>4. CASE m # 0
    <3>1. m - 1 \in Nat /\ m - 1 + 1 = m /\ ~(m <= m - 1)
      BY <2>1, <2>2, <2>4
    <3>2. m - 1 \notin Bad
      <4> HIDE DEF Bad
      <4> QED BY <2>2, <3>1
    <3>3. PICK g : Turns(b, F, m - 1, g)
      BY <3>1, <3>2
    <3> QED BY <2>2, <3>1, <3>3, TurnsStep
  <2> QED BY <2>3, <2>4
<1> QED BY <1>1

\* What the delayed mail in a box is.
LEMMA Entries ==
  ASSUME NEW box \in Seq(DelayedMail)
  PROVE  /\ Len(box) \in Nat /\ DOMAIN box = 1 .. Len(box)
         /\ \A i \in 1 .. Len(box) : /\ box[i] \in DelayedMail
                                     /\ box[i].b \in Block
                                     /\ box[i].to \in Process \cup {Uart}
                                     /\ box[i].fire \in Nat
<1>1. /\ Len(box) \in Nat /\ DOMAIN box = 1 .. Len(box)
      /\ \A i \in 1 .. Len(box) : box[i] \in DelayedMail
  OBVIOUS
<1>2. \A e \in DelayedMail : e.b \in Block /\ e.to \in Process \cup {Uart} /\ e.fire \in Nat
  BY DEF DelayedMail
<1> QED BY <1>1, <1>2

\* Leading stops where it should, whatever the box.
LEMMA LeadingIs ==
  ASSUME NEW box \in Seq(DelayedMail), NEW t \in Nat
  PROVE  /\ Leading(box, t) \in 0 .. Len(box)
         /\ \A i \in 1 .. Leading(box, t) : box[i].fire <= t
         /\ Leading(box, t) < Len(box) => box[Leading(box, t) + 1].fire > t
<1> DEFINE P(n) == /\ \A i \in 1 .. n : box[i].fire <= t
                   /\ n < Len(box) => box[n + 1].fire > t
           B == {j \in Nat : j \in 1 .. Len(box) /\ box[j].fire > t}
<1>0. /\ Len(box) \in Nat
      /\ \A i \in 1 .. Len(box) : box[i].fire \in Nat
  BY Entries
<1>1. \E n \in 0 .. Len(box) : P(n)
  <2>1. CASE B = {}
    <3>1. \A i \in 1 .. Len(box) : box[i].fire <= t
      BY <1>0, <2>1
    <3>2. P(Len(box)) /\ Len(box) \in 0 .. Len(box)
      BY <1>0, <3>1
    <3> QED BY <3>2
  <2>2. CASE B # {}
    <3>1. B \in SUBSET Nat
      OBVIOUS
    <3>2. PICK j \in B : \A m \in B : j <= m
      <4> HIDE DEF B
      <4> QED BY <2>2, <3>1, LeastNatural
    <3>3. j - 1 \in 0 .. Len(box) /\ j - 1 + 1 = j /\ box[j].fire > t
      BY <3>2
    <3>4. \A i \in 1 .. j - 1 : box[i].fire <= t
      BY <1>0, <3>2
    <3>5. P(j - 1)
      BY <3>3, <3>4
    <3> QED BY <3>3, <3>5
  <2> QED BY <2>1, <2>2
<1>2. Leading(box, t) = CHOOSE n \in 0 .. Len(box) : P(n)
  BY DEF Leading
<1> HIDE DEF P
<1>3. Leading(box, t) \in 0 .. Len(box) /\ P(Leading(box, t))
  BY <1>1, <1>2
<1> QED BY <1>3 DEF P

\* In a sorted box nothing behind that place fires until t.
LEMMA LeadingSplits ==
  ASSUME NEW box \in Seq(DelayedMail), NEW t \in Nat, Sorted(box)
  PROVE  \A i \in 1 .. Len(box) : i > Leading(box, t) => box[i].fire > t
<1> DEFINE n == Leading(box, t)
<1>1. n \in 0 .. Len(box) /\ (n < Len(box) => box[n + 1].fire > t)
  BY LeadingIs
<1>2. Len(box) \in Nat /\ DOMAIN box = 1 .. Len(box) /\ \A i \in 1 .. Len(box) : box[i].fire \in Nat
  BY Entries
<1> HIDE DEF n
<1>3. ASSUME NEW i \in 1 .. Len(box), i > n
      PROVE  box[i].fire > t
  <2>1. n + 1 \in 1 .. Len(box) /\ n < Len(box)
    BY <1>1, <1>3
  <2>2. box[n + 1].fire <= box[i].fire
    <3>1. CASE i = n + 1
      BY <1>2, <3>1
    <3>2. CASE i # n + 1
      <4>1. n + 1 < i /\ i \in DOMAIN box /\ n + 1 \in DOMAIN box
        BY <1>1, <1>2, <1>3, <2>1, <3>2
      <4> QED BY <4>1 DEF Sorted
    <3> QED BY <3>1, <3>2
  <2> QED BY <1>1, <1>2, <2>1, <2>2
<1> QED BY <1>3 DEF n

\* What mailbox_insertMailByTime returns.
LEMMA InsertIs ==
  ASSUME NEW box \in Seq(DelayedMail), NEW m \in DelayedMail
  PROVE  LET n == Leading(box, m.fire) IN
           /\ Mailbox_insertMailByTime(box, m) \in Seq(DelayedMail)
           /\ Len(Mailbox_insertMailByTime(box, m)) = Len(box) + 1
           /\ \A i \in 1 .. Len(box) + 1 :
                Mailbox_insertMailByTime(box, m)[i] = IF i <= n THEN box[i] ELSE
                                                      IF i = n + 1 THEN m ELSE box[i - 1]
<1> DEFINE n == Leading(box, m.fire)
<1>0. m.fire \in Nat
  BY DEF DelayedMail
<1>1. n \in 0 .. Len(box)
  BY <1>0, LeadingIs
<1>2. Mailbox_insertMailByTime(box, m) = SubSeq(box, 1, n) \o <<m>> \o SubSeq(box, n + 1, Len(box))
  BY DEF Mailbox_insertMailByTime
<1> HIDE DEF n
<1> DEFINE a == SubSeq(box, 1, n)
           b == SubSeq(box, n + 1, Len(box))
<1>3. /\ a \in Seq(DelayedMail) /\ Len(a) = n /\ \A i \in 1 .. n : a[i] = box[i]
      /\ b \in Seq(DelayedMail) /\ Len(b) = Len(box) - n
      /\ \A i \in 1 .. Len(box) - n : b[i] = box[n + i]
  BY <1>1
<1> HIDE DEF a, b
<1>4. /\ a \o <<m>> \in Seq(DelayedMail) /\ Len(a \o <<m>>) = n + 1
      /\ \A i \in 1 .. n + 1 : (a \o <<m>>)[i] = IF i <= n THEN box[i] ELSE m
  BY <1>1, <1>3
<1> DEFINE d == a \o <<m>>
<1> HIDE DEF d
<1>5. /\ d \o b \in Seq(DelayedMail) /\ Len(d \o b) = Len(box) + 1
      /\ \A i \in 1 .. Len(box) + 1 :
           (d \o b)[i] = IF i <= n + 1 THEN d[i] ELSE b[i - (n + 1)]
  BY <1>1, <1>3, <1>4 DEF d
<1>6. ASSUME NEW i \in 1 .. Len(box) + 1, i > n + 1
      PROVE  b[i - (n + 1)] = box[i - 1]
  <2>1. i - (n + 1) \in 1 .. Len(box) - n /\ n + (i - (n + 1)) = i - 1
    BY <1>1, <1>6
  <2> QED BY <1>3, <2>1
<1>7. Mailbox_insertMailByTime(box, m) = d \o b
  BY <1>2 DEF a, b, d
<1>8. \A i \in 1 .. Len(box) + 1 :
        Mailbox_insertMailByTime(box, m)[i] = IF i <= n THEN box[i] ELSE
                                              IF i = n + 1 THEN m ELSE box[i - 1]
  BY <1>1, <1>4, <1>5, <1>6, <1>7 DEF d
<1> QED BY <1>5, <1>7, <1>8 DEF n

\* New mail keeps the box sorted.
LEMMA InsertSorted ==
  ASSUME NEW box \in Seq(DelayedMail), NEW m \in DelayedMail, Sorted(box)
  PROVE  Sorted(Mailbox_insertMailByTime(box, m))
<1> DEFINE n == Leading(box, m.fire)
           q == Mailbox_insertMailByTime(box, m)
<1>1. /\ Len(box) \in Nat /\ DOMAIN box = 1 .. Len(box) /\ m.fire \in Nat
      /\ \A i \in 1 .. Len(box) : box[i].fire \in Nat
  BY Entries DEF DelayedMail
<1>2. /\ n \in 0 .. Len(box)
      /\ \A i \in 1 .. n : box[i].fire <= m.fire
      /\ \A i \in 1 .. Len(box) : i > n => box[i].fire > m.fire
  BY <1>1, LeadingIs, LeadingSplits
<1>3. /\ q \in Seq(DelayedMail) /\ Len(q) = Len(box) + 1
      /\ \A i \in 1 .. Len(box) + 1 :
           q[i] = IF i <= n THEN box[i] ELSE IF i = n + 1 THEN m ELSE box[i - 1]
  BY InsertIs
<1> HIDE DEF n, q
<1> DEFINE At(i) == IF i <= n THEN i ELSE i - 1
<1>4. ASSUME NEW i \in 1 .. Len(box) + 1
      PROVE  \/ i = n + 1 /\ q[i] = m
             \/ i # n + 1 /\ At(i) \in 1 .. Len(box) /\ q[i] = box[At(i)]
  BY <1>1, <1>2, <1>3
<1>5. Sorted(q)
  <2>0. DOMAIN q = 1 .. Len(box) + 1
    BY <1>3, LenProperties
  <2> SUFFICES ASSUME NEW i \in 1 .. Len(box) + 1, NEW j \in 1 .. Len(box) + 1, i < j
               PROVE  q[i].fire <= q[j].fire
    BY <2>0 DEF Sorted
  <2>1. CASE i = n + 1
    <3>1. At(j) \in 1 .. Len(box) /\ At(j) > n /\ q[j] = box[At(j)] /\ q[i] = m
      BY <1>2, <1>4, <2>1
    <3> QED BY <1>1, <1>2, <3>1
  <2>2. CASE j = n + 1
    <3>1. At(i) \in 1 .. n /\ At(i) \in 1 .. Len(box) /\ q[i] = box[At(i)] /\ q[j] = m
      BY <1>2, <1>4, <2>2
    <3> QED BY <1>1, <1>2, <3>1
  <2>3. CASE i # n + 1 /\ j # n + 1
    <3>1. At(i) \in DOMAIN box /\ At(j) \in DOMAIN box /\ At(i) < At(j)
          /\ q[i] = box[At(i)] /\ q[j] = box[At(j)]
      BY <1>1, <1>2, <1>4, <2>3
    <3> HIDE DEF At
    <3> QED BY <3>1 DEF Sorted
  <2> QED BY <2>1, <2>2, <2>3
<1> QED BY <1>5 DEF q

\* What is left of a sorted box fires later.
LEMMA RestFires ==
  ASSUME NEW box \in Seq(DelayedMail), NEW t \in Nat, Sorted(box)
  PROVE  LET rest == SubSeq(box, Leading(box, t) + 1, Len(box)) IN
           rest \in Seq(DelayedMail) /\ Sorted(rest) /\ After(rest, t)
<1> DEFINE n == Leading(box, t)
           q == SubSeq(box, n + 1, Len(box))
<1>1. /\ n \in 0 .. Len(box)
      /\ \A i \in 1 .. Len(box) : i > n => box[i].fire > t
  BY LeadingIs, LeadingSplits
<1>2. Len(box) \in Nat /\ DOMAIN box = 1 .. Len(box)
  BY Entries
<1> HIDE DEF n
<1>3. /\ q \in Seq(DelayedMail) /\ Len(q) = Len(box) - n
      /\ \A i \in 1 .. Len(box) - n : q[i] = box[n + i]
  BY <1>1
<1> HIDE DEF q
<1>4. DOMAIN q = 1 .. Len(box) - n
  BY <1>3, LenProperties
<1>5. \A i \in 1 .. Len(box) - n : n + i \in DOMAIN box /\ n + i > n /\ n + i \in 1 .. Len(box)
  BY <1>1, <1>2
<1>6. Sorted(q)
  <2> SUFFICES ASSUME NEW i \in DOMAIN q, NEW j \in DOMAIN q, i < j
               PROVE  q[i].fire <= q[j].fire
    BY DEF Sorted
  <2>1. n + i \in DOMAIN box /\ n + j \in DOMAIN box /\ n + i < n + j
    BY <1>1, <1>4, <1>5
  <2>2. q[i] = box[n + i] /\ q[j] = box[n + j]
    BY <1>3, <1>4
  <2> QED BY <2>1, <2>2 DEF Sorted
<1>7. After(q, t)
  BY <1>1, <1>3, <1>4, <1>5 DEF After
<1> QED BY <1>3, <1>6, <1>7 DEF q, n
\* The letters the timer takes in keep its box sorted.
LEMMA TakenInIs ==
  ASSUME NEW box \in Seq(DelayedMail), Sorted(box), NEW letters \in Seq(Mail), NEW t \in Nat
  PROVE  TakenIn(box, letters, t) \in Seq(DelayedMail) /\ Sorted(TakenIn(box, letters, t))
<1> DEFINE n == Len(letters)
           m(i) == [b |-> letters[i].b, to |-> letters[i].to, fire |-> t + letters[i].delay]
           B == {x \in Seq(DelayedMail) : Sorted(x)}
           Step(f) == [i \in 0 .. n |-> IF i = 0 THEN box
                                        ELSE Mailbox_insertMailByTime(f[i - 1], m(i))]
<1>1. n \in Nat /\ \A i \in 1 .. n : m(i) \in DelayedMail
  <2>1. n \in Nat /\ \A i \in 1 .. n : letters[i] \in Mail
    BY LenProperties, ElementOfSeq
  <2>2. ASSUME NEW l \in Mail
        PROVE  [b |-> l.b, to |-> l.to, fire |-> t + l.delay] \in DelayedMail
    BY DEF Mail, DelayedMail
  <2> QED BY <2>1, <2>2
<1>2. ASSUME NEW x \in B, NEW i \in 1 .. n
      PROVE  Mailbox_insertMailByTime(x, m(i)) \in B
  <2>1. m(i) \in DelayedMail /\ x \in Seq(DelayedMail) /\ Sorted(x)
    BY <1>1
  <2> HIDE DEF m
  <2>2. Mailbox_insertMailByTime(x, m(i)) \in Seq(DelayedMail)
    BY <2>1, InsertIs
  <2>3. Sorted(Mailbox_insertMailByTime(x, m(i)))
    BY <2>1, InsertSorted
  <2> QED BY <2>2, <2>3
<1>3. box \in B
  OBVIOUS
<1> DEFINE F == [i \in 1 .. n |-> [x \in B |-> Mailbox_insertMailByTime(x, m(i))]]
<1>4. PICK g : Turns(box, F, n, g)
  <2> HIDE DEF F, n
  <2> QED BY <1>1, LoopEnds
<1>5. \A i \in 1 .. n, x \in B : F[i][x] = Mailbox_insertMailByTime(x, m(i))
  <2> HIDE DEF n, B, m
  <2> QED OBVIOUS
<1>6. g = Step(g)
  <2> HIDE DEF F, B, m
  <2>1. /\ g = [i \in 0 .. n |-> IF i = 0 THEN box ELSE F[i][g[i - 1]]]
        /\ g[0] = box /\ \A i \in 1 .. n : g[i] = F[i][g[i - 1]]
    <3>1. g = [i \in 0 .. n |-> IF i = 0 THEN box ELSE F[i][g[i - 1]]]
      BY <1>4 DEF Turns
    <3> HIDE DEF n
    <3>2. \A i \in 0 .. n : g[i] = IF i = 0 THEN box ELSE F[i][g[i - 1]]
      BY <3>1
    <3> QED BY <1>1, <3>1, <3>2
  <2> HIDE DEF n
  <2>2. ASSUME NEW i \in 1 .. n, g[i - 1] \in B PROVE g[i] \in B
    <3>1. F[i][g[i - 1]] = Mailbox_insertMailByTime(g[i - 1], m(i))
      BY <1>5, <2>2, Zenon
    <3>2. Mailbox_insertMailByTime(g[i - 1], m(i)) \in B
      BY <1>2, <2>2, Zenon
    <3> QED BY <2>1, <3>1, <3>2
  <2>3. \A i \in 0 .. n : g[i] \in B
    BY <1>1, <1>3, <2>1, <2>2, StaysIn
  <2>4. \A i \in 1 .. n : F[i][g[i - 1]] = Mailbox_insertMailByTime(g[i - 1], m(i))
    <3>1. \A i \in 1 .. n : i - 1 \in 0 .. n
      BY <1>1
    <3> QED BY <1>5, <2>3, <3>1
  <2>5. \A i \in 0 .. n : i = 0 \/ i \in 1 .. n
    BY <1>1
  <2> QED BY <2>1, <2>4, <2>5
<1> DEFINE f == CHOOSE h : h = Step(h)
<1>7. f = Step(f)
  <2> HIDE DEF Step
  <2> QED BY <1>6
<1>8. TakenIn(box, letters, t) = f[n]
  BY DEF TakenIn
<1> HIDE DEF f, m
<1>9. f[0] = box /\ \A i \in 1 .. n : f[i] = Mailbox_insertMailByTime(f[i - 1], m(i))
  <2> HIDE DEF n
  <2>1. \A i \in 0 .. n : f[i] = IF i = 0 THEN box ELSE Mailbox_insertMailByTime(f[i - 1], m(i))
    BY <1>7
  <2> QED BY <1>1, <2>1
<1> HIDE DEF n
<1>10. \A i \in 0 .. n : f[i] \in B
  <2> HIDE DEF B
  <2>1. \A i \in 1 .. n : f[i - 1] \in B => f[i] \in B
    BY <1>2, <1>9
  <2> QED BY <1>1, <1>3, <1>9, <2>1, StaysIn
<1>11. f[n] \in B
  BY <1>1, <1>10
<1> QED BY <1>8, <1>11

\* Sending mail that is due leaves the kernel sound.
LEMMA FiredIs ==
  ASSUME NEW s, Sound(s), NEW box \in Seq(DelayedMail), NEW n \in 0 .. Len(box)
  PROVE  /\ Sound(Fired(s, box, n))
         /\ Fired(s, box, n).run = s.run /\ Fired(s, box, n).call = s.call
         /\ Fired(s, box, n).delayed = s.delayed
<1> DEFINE m(i) == Letter(box[i].b, box[i].to, 0)
           B == {x \in KernelState : /\ Sound(x) /\ x.run = s.run /\ x.call = s.call
                                     /\ x.delayed = s.delayed}
           Step(f) == [i \in 0 .. n |-> IF i = 0 THEN s ELSE Delivered(f[i - 1], box[i].to, m(i))]
<1>1. n \in Nat /\ \A i \in 1 .. n : m(i) \in Mail /\ box[i].to \in Pid \cup {Timer, Uart}
  <2>1. n \in Nat /\ \A i \in 1 .. n : i \in 1 .. Len(box)
    BY LenProperties
  <2>2. \A i \in 1 .. Len(box) : box[i].b \in Block /\ box[i].to \in Process \cup {Uart}
    BY Entries
  <2> QED BY <2>1, <2>2 DEF Mail, Letter, Pid
<1> HIDE DEF m
<1>2. ASSUME NEW x \in B, NEW i \in 1 .. n
      PROVE  Delivered(x, box[i].to, m(i)) \in B
  <2>1. /\ m(i) \in Mail /\ box[i].to \in Pid \cup {Timer, Uart}
        /\ Sound(x) /\ x.run = s.run /\ x.call = s.call /\ x.delayed = s.delayed
    BY <1>1
  <2> DEFINE r == Delivered(x, box[i].to, m(i))
  <2>2. Sound(r) /\ r.run = x.run /\ r.call = x.call /\ r.delayed = x.delayed
    BY <2>1, DeliveredIs
  <2> HIDE DEF r
  <2>3. r \in KernelState
    BY <2>2 DEF Sound
  <2>4. r \in B
    BY <2>1, <2>2, <2>3
  <2> QED BY <2>4 DEF r
<1>3. s \in B
  BY DEF Sound
<1> DEFINE F == [i \in 1 .. n |-> [x \in B |-> Delivered(x, box[i].to, m(i))]]
<1>4. PICK g : Turns(s, F, n, g)
  <2> HIDE DEF F
  <2> QED BY <1>1, LoopEnds
<1>5. \A i \in 1 .. n, x \in B : F[i][x] = Delivered(x, box[i].to, m(i))
  <2> HIDE DEF B
  <2> QED OBVIOUS
<1>6. g = Step(g)
  <2> HIDE DEF F, B
  <2>1. /\ g = [i \in 0 .. n |-> IF i = 0 THEN s ELSE F[i][g[i - 1]]]
        /\ g[0] = s /\ \A i \in 1 .. n : g[i] = F[i][g[i - 1]]
    <3>1. g = [i \in 0 .. n |-> IF i = 0 THEN s ELSE F[i][g[i - 1]]]
      BY <1>4 DEF Turns
    <3>2. \A i \in 0 .. n : g[i] = IF i = 0 THEN s ELSE F[i][g[i - 1]]
      BY <3>1
    <3> QED BY <1>1, <3>1, <3>2
  <2>2. ASSUME NEW i \in 1 .. n, g[i - 1] \in B PROVE g[i] \in B
    <3>1. F[i][g[i - 1]] = Delivered(g[i - 1], box[i].to, m(i))
      BY <1>5, <2>2, Zenon
    <3>2. Delivered(g[i - 1], box[i].to, m(i)) \in B
      BY <1>2, <2>2, Zenon
    <3> QED BY <2>1, <3>1, <3>2
  <2>3. \A i \in 0 .. n : g[i] \in B
    BY <1>1, <1>3, <2>1, <2>2, StaysIn
  <2>4. \A i \in 1 .. n : F[i][g[i - 1]] = Delivered(g[i - 1], box[i].to, m(i))
    <3>1. \A i \in 1 .. n : i - 1 \in 0 .. n
      BY <1>1
    <3> QED BY <1>5, <2>3, <3>1
  <2>5. \A i \in 0 .. n : i = 0 \/ i \in 1 .. n
    BY <1>1
  <2> QED BY <2>1, <2>4, <2>5
<1> DEFINE f == CHOOSE h : h = Step(h)
<1>7. f = Step(f)
  <2> HIDE DEF Step
  <2> QED BY <1>6
<1>8. Fired(s, box, n) = f[n]
  BY DEF Fired, m
<1> HIDE DEF f
<1>9. f[0] = s /\ \A i \in 1 .. n : f[i] = Delivered(f[i - 1], box[i].to, m(i))
  <2>1. \A i \in 0 .. n : f[i] = IF i = 0 THEN s ELSE Delivered(f[i - 1], box[i].to, m(i))
    BY <1>7
  <2> QED BY <1>1, <2>1
<1>10. \A i \in 0 .. n : f[i] \in B
  <2> HIDE DEF B
  <2>1. \A i \in 1 .. n : f[i - 1] \in B => f[i] \in B
    BY <1>2, <1>9
  <2> QED BY <1>1, <1>3, <1>9, <2>1, StaysIn
<1>11. f[n] \in B
  BY <1>1, <1>10
<1> QED BY <1>8, <1>11

\* The timer i-process leaves nothing behind that is due.
Emptied(s, rest) == [s EXCEPT !.mail[Timer] = <<>>, !.delayed = rest]

LEMMA WithEmptied ==
  ASSUME NEW s \in KernelState, NEW rest \in Seq(DelayedMail)
  PROVE  /\ Emptied(s, rest) \in KernelState
         /\ Emptied(s, rest).run = s.run
         /\ Emptied(s, rest).st = s.st
         /\ Emptied(s, rest).q = s.q
         /\ Emptied(s, rest).call = s.call
         /\ Emptied(s, rest).delayed = rest
         /\ Emptied(s, rest).free = s.free
<1>1. <<>> \in Seq(Mail)
  BY EmptySeq
<1> QED BY <1>1 DEF KernelState, Emptied

LEMMA TimerIs ==
  ASSUME NEW s, Sound(s), Sorted(s.delayed), NEW t \in Nat
  PROVE  /\ Sound(timer_i_process(s, t))
         /\ Sorted(timer_i_process(s, t).delayed)
         /\ After(timer_i_process(s, t).delayed, t)
<1> DEFINE all == TakenIn(s.delayed, s.mail[Timer], t)
           due == Leading(all, t)
           rest == SubSeq(all, due + 1, Len(all))
           e == Emptied(s, rest)
<1>1. s \in KernelState /\ s.delayed \in Seq(DelayedMail) /\ s.mail[Timer] \in Seq(Mail)
  BY Parts DEF Sound
<1>2. all \in Seq(DelayedMail) /\ Sorted(all)
  BY <1>1, TakenInIs
<1>3. timer_i_process(s, t) = Fired(e, all, due)
  BY DEF timer_i_process, Emptied
<1> HIDE DEF all
<1>4. rest \in Seq(DelayedMail) /\ Sorted(rest) /\ After(rest, t)
  BY <1>2, RestFires
<1>5. due \in 0 .. Len(all)
  BY <1>2, LeadingIs
<1> HIDE DEF rest, due
<1>6. /\ e \in KernelState /\ e.run = s.run /\ e.st = s.st /\ e.q = s.q
      /\ e.call = s.call /\ e.delayed = rest /\ e.free = s.free
  BY <1>1, <1>4, WithEmptied
<1> HIDE DEF e
<1>7. Sound(e)
  BY <1>6, SoundAlike
<1>8. Sound(Fired(e, all, due)) /\ Fired(e, all, due).delayed = e.delayed
  BY <1>2, <1>5, <1>7, FiredIs
<1> QED BY <1>3, <1>4, <1>6, <1>8

\* What the UART i-process leaves.
LEMMA UartIs ==
  ASSUME NEW s, Sound(s), NEW r \in uart_i_process(s)
  PROVE  Sound(r) /\ r.delayed = s.delayed
<1>0. s \in KernelState /\ s.free \in SUBSET Block /\ s.mail[Uart] \in Seq(Mail)
  BY Parts DEF Sound
<1>1. CASE r = s
  BY <1>1
<1>2. ASSUME s.free # {},
             LET b == Least(s.free)
             IN  r = Delivered([s EXCEPT !.free = @ \ {b}], Decoder, Letter(b, Decoder, 0))
      PROVE  Sound(r) /\ r.delayed = s.delayed
  <2> DEFINE b == Least(s.free)
             f == [s EXCEPT !.free = s.free \ {b}]
  <2>1. b \in Block
    <3>1. s.free \in SUBSET Nat
      BY <1>0, RtxAssumption
    <3> QED BY <1>0, <1>2, <3>1, LeastIs
  <2>2. r = Delivered(f, Decoder, Letter(b, Decoder, 0))
    BY <1>2
  <2> HIDE DEF b
  <2>3. /\ f \in KernelState /\ f.run = s.run /\ f.st = s.st /\ f.q = s.q
        /\ f.call = s.call /\ f.delayed = s.delayed /\ f.free = s.free \ {b}
    <3>1. s.free \ {b} \in SUBSET Block
      BY <1>0
    <3> QED BY <1>0, <3>1, WithFree
  <2> HIDE DEF f
  <2>4. Sound(f)
    <3>1. \A o \in Pid : QueueOf(f, o) = QueueOf(s, o)
      BY <2>3 DEF QueueOf
    <3>2. Placed(f, {f.run}) /\ Calm(f) /\ f.st[f.run] = "running"
      BY <2>3, <3>1 DEF Sound, Placed, Calm
    <3>3. Askers(s) \subseteq Askers(f)
      BY <2>3 DEF Askers
    <3>4. NoneIdle(f)
      BY <1>0, <2>3, <3>3, IdleKept DEF Sound
    <3> QED BY <2>3, <3>2, <3>4 DEF Sound
  <2>5. Letter(b, Decoder, 0) \in Mail /\ Decoder \in Pid \cup {Timer, Uart}
    BY <2>1, RtxAssumption DEF Letter, Mail, Pid
  <2> QED BY <2>2, <2>3, <2>4, <2>5, DeliveredIs
<1>3. ASSUME s.mail[Uart] # <<>>,
             r = Freed([s EXCEPT !.mail[Uart] = Tail(@)], Head(s.mail[Uart]).b)
      PROVE  Sound(r) /\ r.delayed = s.delayed
  <2> DEFINE v == Tail(s.mail[Uart])
             e == [s EXCEPT !.mail[Uart] = v]
             b == Head(s.mail[Uart]).b
  <2>1. v \in Seq(Mail) /\ Head(s.mail[Uart]) \in Mail
    BY <1>0, <1>3, HeadTailProperties
  <2>2. b \in Block
    BY <2>1 DEF Mail
  <2>3. r = Freed(e, b)
    BY <1>3
  <2> HIDE DEF v, b
  <2>4. /\ e \in KernelState /\ e.run = s.run /\ e.st = s.st /\ e.q = s.q
        /\ e.call = s.call /\ e.delayed = s.delayed /\ e.free = s.free
    BY <1>0, <2>1, WithMail
  <2> HIDE DEF e
  <2>5. Sound(e)
    BY <2>4, SoundAlike
  <2> QED BY <2>2, <2>3, <2>4, <2>5, FreedIs
<1> QED BY <1>1, <1>2, <1>3 DEF uart_i_process
-----------------------------------------------------------------------------
(* Init and the steps.                                                     *)

\* SetToSeq lists every element once.
LEMMA SetToSeqIs ==
  ASSUME NEW S, IsFiniteSet(S)
  PROVE  /\ SetToSeq(S) \in Seq(S)
         /\ Range(SetToSeq(S)) = S
         /\ IsInjective(SetToSeq(S))
<1> DEFINE n == Cardinality(S)
           l == SetToSeq(S)
<1>1. n \in Nat /\ \E f \in [1 .. n -> S] : IsInjective(f)
  <2>1. n \in Nat /\ ExistsBijection(1 .. n, S)
    BY FS_CardinalityType
  <2> HIDE DEF n
  <2> QED BY <2>1 DEF ExistsBijection, Bijection, Injection
<1>2. l = CHOOSE f \in [1 .. n -> S] : IsInjective(f)
  BY DEF SetToSeq
<1> HIDE DEF l
<1>3. l \in [1 .. n -> S] /\ IsInjective(l)
  <2> HIDE DEF n
  <2> QED BY <1>1, <1>2
<1>4. l \in Surjection(1 .. n, S)
  <2>1. l \in Injection(1 .. n, S)
    BY <1>3 DEF Injection
  <2>2. Cardinality(1 .. n) = n
    <3> HIDE DEF n
    <3> QED BY <1>1, FS_Interval
  <2>3. Cardinality(1 .. n) = Cardinality(S) <=> l \in Surjection(1 .. n, S)
    <3>1. \A T, f : f \in Injection(T, S) =>
            (Cardinality(T) = Cardinality(S) <=> f \in Surjection(T, S))
      BY FS_Injection
    <3> QED BY <2>1, <3>1, Zenon
  <2> QED BY <2>2, <2>3
<1> HIDE DEF n
<1>5. l \in Seq(S)
  BY <1>1, <1>3
<1>6. Range(l) = S
  BY <1>3, <1>4 DEF Surjection, Range
<1> QED BY <1>3, <1>5, <1>6 DEF l

\* The state from which Start dispatches the first process.
Booted ==
  [run     |-> Null,
   st      |-> [p \in Pid |-> "ready"],
   q       |-> [i \in 0 .. BLOCKED_MESSAGE |-> SetToSeq({p \in Pid : i = priority[p]})],
   call    |-> [p \in Pid |-> "none"],
   mail    |-> [p \in Pid \cup {Timer, Uart} |-> <<>>],
   delayed |-> <<>>,
   free    |-> Block]

\* Init is a good state.
LEMMA InitEstablishes == Init => RtxInv
<1> SUFFICES ASSUME Init PROVE RtxInv
  OBVIOUS
<1> DEFINE s == Booted
<1>1. IsFiniteSet(Pid)
  BY RtxAssumption, FS_AddElement DEF Pid
<1>2. ASSUME NEW i \in 0 .. BLOCKED_MESSAGE
      PROVE  LET w == {p \in Pid : i = priority[p]} IN
               SetToSeq(w) \in Seq(Pid) /\ Range(SetToSeq(w)) = w /\ IsInjective(SetToSeq(w))
  <2> DEFINE w == {p \in Pid : i = priority[p]}
  <2>1. w \in SUBSET Pid
    OBVIOUS
  <2> HIDE DEF w
  <2>2. IsFiniteSet(w)
    BY <1>1, <2>1, FS_Subset
  <2>3. SetToSeq(w) \in Seq(w) /\ Range(SetToSeq(w)) = w /\ IsInjective(SetToSeq(w))
    BY <2>2, SetToSeqIs
  <2>4. SetToSeq(w) \in Seq(Pid)
    BY <2>1, <2>3, SeqMonotonic
  <2> QED BY <2>3, <2>4 DEF w
<1>3. /\ s.run = Null /\ s.delayed = <<>>
      /\ \A i \in 0 .. BLOCKED_MESSAGE : s.q[i] = SetToSeq({p \in Pid : i = priority[p]})
      /\ \A p \in Pid : s.st[p] = "ready" /\ s.call[p] = "none"
  BY DEF Booted
<1>4. s \in KernelState
  <2>1. <<>> \in Seq(Mail) /\ <<>> \in Seq(DelayedMail)
    BY EmptySeq
  <2>2. [p \in Pid \cup {Timer, Uart} |-> <<>>] \in [Pid \cup {Timer, Uart} -> Seq(Mail)]
    BY <2>1
  <2>3. [i \in 0 .. BLOCKED_MESSAGE |-> SetToSeq({p \in Pid : i = priority[p]})]
          \in [0 .. BLOCKED_MESSAGE -> Seq(Pid)]
    BY <1>2
  <2>4. Null \in Pid
    BY DEF Pid
  <2> QED BY <2>1, <2>2, <2>3, <2>4 DEF KernelState, Booted
<1> HIDE DEF s
<1>5. Placed(s, {})
  <2> SUFFICES ASSUME NEW i \in 0 .. BLOCKED_MESSAGE
               PROVE  /\ IsInjective(s.q[i])
                      /\ \A p \in Pid : p \in Range(s.q[i]) <=> p \notin {} /\ QueueOf(s, p) = i
    BY DEF Placed
  <2>1. \A p \in Pid : QueueOf(s, p) = priority[p]
    BY <1>3 DEF QueueOf
  <2>2. IsInjective(s.q[i]) /\ Range(s.q[i]) = {p \in Pid : i = priority[p]}
    BY <1>2, <1>3
  <2> QED BY <2>1, <2>2
<1>6. Calm(s) /\ NoneIdle(s) /\ \A o \in Pid : s.st[o] # "running"
  <2>1. Null \in Pid
    BY DEF Pid
  <2> QED BY <1>3, <2>1 DEF Calm, NoneIdle
<1>7. Nonempty(s) # {}
  <2>1. Null \in Pid /\ priority[Null] = LOWEST /\ LOWEST \in 0 .. LOWEST /\ LOWEST \in 0 .. BLOCKED_MESSAGE
    BY RtxAssumption, Numbers DEF Pid
  <2>2. Null \in Range(s.q[LOWEST])
    BY <1>2, <1>3, <2>1
  <2>3. s.q[LOWEST] # <<>>
    BY <2>2 DEF Range
  <2> QED BY <1>4, <2>1, <2>3, NonemptyIs
<1>8. Settled(Dispatched(s)) /\ SameData(s, Dispatched(s))
  BY <1>4, <1>5, <1>6, <1>7, DispatchedIs
<1>9. k = Dispatched(s)
  BY DEF Init, Start, s, Booted
<1>10. k.delayed = <<>> /\ Settled(k)
  BY <1>3, <1>8, <1>9 DEF SameData
<1>11. Sorted(k.delayed) /\ After(k.delayed, now)
  BY <1>10 DEF Sorted, After
<1>12. held \in [Pid -> SUBSET Block] /\ now \in Nat
  BY DEF Init
<1> QED BY <1>10, <1>11, <1>12 DEF RtxInv

\* What every handler may use of the state before it.
LEMMA Before ==
  ASSUME RtxInv
  PROVE  /\ Settled(k) /\ Sound(k) /\ k \in KernelState
         /\ k.run \in Pid /\ k.st[k.run] = "running"
         /\ k.mail \in [Pid \cup {Timer, Uart} -> Seq(Mail)] /\ k.free \in SUBSET Block
         /\ k.delayed \in Seq(DelayedMail) /\ Sorted(k.delayed) /\ After(k.delayed, now)
         /\ held \in [Pid -> SUBSET Block] /\ now \in Nat
<1>1. Settled(k) /\ Sound(k) /\ k \in KernelState /\ k.st[k.run] = "running"
  BY DEF RtxInv, Settled, Sound
<1> QED BY <1>1, Parts DEF RtxInv

\* A handler that leaves the delayed mail as it is.
LEMMA LeavesDelayed ==
  ASSUME RtxInv, Settled(k'), k'.delayed = k.delayed,
         held' \in [Pid -> SUBSET Block], UNCHANGED now
  PROVE  RtxInv'
<1>1. Sorted(k'.delayed) /\ After(k'.delayed, now')
  BY DEF RtxInv
<1> QED BY <1>1 DEF RtxInv

LEMMA RequestKeeps ==
  ASSUME RtxInv, NEW p \in Process, kernel_request_memory_block(p)
  PROVE  RtxInv'
<1>1. p = k.run /\ p \in Pid /\ p # Null /\ k.call[p] \in {"none", "request"} /\ UNCHANGED now
  BY DEF kernel_request_memory_block, Calls, Pid
<1>2. CASE k.free = {}
  <2>1. k' = Blocks(k, "memory", "request") /\ UNCHANGED held
    BY <1>2 DEF kernel_request_memory_block
  <2>2. /\ Settled(Blocks(k, "memory", "request"))
        /\ Blocks(k, "memory", "request").delayed = k.delayed
    <3>1. /\ "memory" \in {"memory", "message"} /\ "request" \in {"request", "receive"}
          /\ "memory" # "message" /\ k.run # Null /\ Sound(k)
      BY <1>1, Before
    <3> QED BY <1>2, <3>1, BlocksIs
  <2> QED BY <1>1, <2>1, <2>2, Before, LeavesDelayed
<1>3. CASE k.free # {}
  <2> DEFINE b == Least(k.free)
  <2>1. k' = Requested(k, p, b) /\ held' = [held EXCEPT ![p] = @ \cup {b}]
    BY <1>3 DEF kernel_request_memory_block, Requested
  <2>2. b \in k.free /\ b \in Block
    <3>1. k.free \in SUBSET Block /\ k.free \in SUBSET Nat
      BY Before, RtxAssumption
    <3> QED BY <1>3, <3>1, LeastIs
  <2> HIDE DEF b
  <2>3. Settled(k') /\ k'.delayed = k.delayed
    BY <1>1, <2>1, <2>2, Before, RequestedIs
  <2>4. held' \in [Pid -> SUBSET Block]
    BY <1>1, <2>1, <2>2, Before
  <2> QED BY <1>1, <2>3, <2>4, LeavesDelayed
<1> QED BY <1>2, <1>3

LEMMA ReleaseKeeps ==
  ASSUME RtxInv, NEW p \in Process, NEW b \in Block, kernel_release_memory_block(p, b)
  PROVE  RtxInv'
<1>1. Sound(Freed(k, b)) /\ Freed(k, b).delayed = k.delayed
  BY Before, FreedIs
<1>2. k' = process_switch_if_there_is_a_higher_priority_process(Freed(k, b))
  BY DEF kernel_release_memory_block
<1>3. Settled(k') /\ k'.delayed = k.delayed
  BY <1>1, <1>2, SwitchIfHigherIs DEF SameData
<1>4. held' \in [Pid -> SUBSET Block] /\ UNCHANGED now
  <2>1. held' = [held EXCEPT ![p] = @ \ {b}] /\ UNCHANGED now /\ p \in Pid
    BY DEF kernel_release_memory_block, Pid
  <2> QED BY <2>1, Before
<1> QED BY <1>3, <1>4, LeavesDelayed

LEMMA SendKeeps ==
  ASSUME RtxInv, NEW p \in Process, NEW b \in Block, NEW to \in Process \cup {Uart},
         kernel_send_message(p, to, b)
  PROVE  RtxInv'
<1> DEFINE sent == Delivered(k, to, Letter(b, to, 0))
           woke == to \in Pid /\ k.st[to] = "message"
<1>1. Letter(b, to, 0) \in Mail /\ to \in Pid \cup {Timer, Uart}
  BY DEF Letter, Mail, Pid
<1>2. /\ Sound(sent) /\ sent.run = k.run /\ sent.delayed = k.delayed
      /\ ~woke => next_priority(sent) = next_priority(k)
  BY <1>1, Before, DeliveredIs
<1>3. k' = IF woke THEN process_switch_if_there_is_a_higher_priority_process(sent) ELSE sent
  BY DEF kernel_send_message
<1> HIDE DEF sent, woke
<1>4. Settled(k') /\ k'.delayed = k.delayed
  <2>1. CASE woke
    BY <1>2, <1>3, <2>1, SwitchIfHigherIs DEF SameData
  <2>2. CASE ~woke
    <3>1. Settled(sent)
      BY <1>2, <2>2, Before DEF Settled
    <3> QED BY <1>2, <1>3, <2>2, <3>1
  <2> QED BY <2>1, <2>2
<1>5. held' \in [Pid -> SUBSET Block] /\ UNCHANGED now
  <2>1. held' = [held EXCEPT ![p] = @ \ {b}] /\ UNCHANGED now /\ p \in Pid
    BY DEF kernel_send_message, Pid
  <2> QED BY <2>1, Before
<1> QED BY <1>4, <1>5, LeavesDelayed

LEMMA DelayedSendKeeps ==
  ASSUME RtxInv, NEW p \in Process, NEW b \in Block, NEW to \in Process, NEW delay \in Delay,
         kernel_delayed_send(p, to, b, delay)
  PROVE  RtxInv'
<1> DEFINE sent == Delivered(k, Timer, Letter(b, to, delay))
<1>1. Letter(b, to, delay) \in Mail /\ Timer \in Pid \cup {Timer, Uart} /\ Timer \notin Pid
  BY RtxAssumption DEF Letter, Mail, Pid
<1>2. /\ Sound(sent) /\ sent.run = k.run /\ sent.delayed = k.delayed
      /\ next_priority(sent) = next_priority(k)
  BY <1>1, Before, DeliveredIs
<1>3. k' = sent
  BY DEF kernel_delayed_send
<1> HIDE DEF sent
<1>4. Settled(k') /\ k'.delayed = k.delayed
  BY <1>2, <1>3, Before DEF Settled
<1>5. held' \in [Pid -> SUBSET Block] /\ UNCHANGED now
  <2>1. held' = [held EXCEPT ![p] = @ \ {b}] /\ UNCHANGED now /\ p \in Pid
    BY DEF kernel_delayed_send, Pid
  <2> QED BY <2>1, Before
<1> QED BY <1>4, <1>5, LeavesDelayed

LEMMA ReceiveKeeps ==
  ASSUME RtxInv, NEW p \in Process, kernel_receive_message(p)
  PROVE  RtxInv'
<1>1. p = k.run /\ p \in Pid /\ p # Null /\ k.call[p] \in {"none", "receive"} /\ UNCHANGED now
  BY DEF kernel_receive_message, Calls, Pid
<1>2. CASE k.mail[p] = <<>>
  <2>1. k' = Blocks(k, "message", "receive") /\ UNCHANGED held
    BY <1>2 DEF kernel_receive_message
  <2>2. /\ Settled(Blocks(k, "message", "receive"))
        /\ Blocks(k, "message", "receive").delayed = k.delayed
    <3>1. /\ "message" \in {"memory", "message"} /\ "receive" \in {"request", "receive"}
          /\ "memory" # "message" /\ k.run # Null /\ Sound(k) /\ k.call[k.run] # "request"
      BY <1>1, Before
    <3> QED BY <3>1, BlocksIs
  <2> QED BY <1>1, <2>1, <2>2, Before, LeavesDelayed
<1>3. CASE k.mail[p] # <<>>
  <2> DEFINE b == Head(k.mail[p]).b
  <2>1. k' = Received(k, p) /\ held' = [held EXCEPT ![p] = @ \cup {b}]
    BY <1>3 DEF kernel_receive_message, Received
  <2>2. b \in Block
    <3>1. k.mail[p] \in Seq(Mail)
      BY <1>1, Before
    <3>2. Head(k.mail[p]) \in Mail
      BY <1>3, <3>1, HeadTailProperties
    <3> QED BY <3>2 DEF Mail
  <2> HIDE DEF b
  <2>3. Settled(k') /\ k'.delayed = k.delayed
    <3>1. k.call[p] # "request" /\ k.st[p] = "running" /\ Settled(k)
      BY <1>1, Before
    <3> QED BY <1>1, <1>3, <2>1, <3>1, ReceivedIs
  <2>4. held' \in [Pid -> SUBSET Block]
    BY <1>1, <2>1, <2>2, Before
  <2> QED BY <1>1, <2>3, <2>4, LeavesDelayed
<1> QED BY <1>2, <1>3

LEMMA ProcessorKeeps ==
  ASSUME RtxInv, NEW p \in Pid, kernel_release_processor(p)
  PROVE  RtxInv'
<1> DEFINE r == [k EXCEPT !.st[k.run] = "ready"]
<1>1. Yielding(r) /\ SameData(k, r)
  BY Before, ReadyYields
<1>2. k' = process_switch(r) /\ UNCHANGED <<held, now>>
  BY DEF kernel_release_processor
<1> HIDE DEF r
<1>3. Settled(k') /\ k'.delayed = k.delayed
  BY <1>1, <1>2, SwitchIs DEF SameData
<1> QED BY <1>2, <1>3, Before, LeavesDelayed

LEMMA TickKeeps ==
  ASSUME RtxInv, c_timer_handler
  PROVE  RtxInv'
<1> DEFINE t == now + 1
           r == timer_i_process(k, t)
<1>1. t \in Nat /\ Sound(k) /\ Sorted(k.delayed)
  BY Before
<1>2. /\ now' = t /\ UNCHANGED held
      /\ k' = process_switch_if_there_is_a_higher_priority_process(r)
  BY DEF c_timer_handler
<1> HIDE DEF t
<1>3. Sound(r) /\ Sorted(r.delayed) /\ After(r.delayed, t)
  BY <1>1, TimerIs
<1> HIDE DEF r
<1>4. Settled(k') /\ k'.delayed = r.delayed
  BY <1>2, <1>3, SwitchIfHigherIs DEF SameData
<1>5. Sorted(k'.delayed) /\ After(k'.delayed, now')
  BY <1>2, <1>3, <1>4
<1> QED BY <1>1, <1>2, <1>4, <1>5, Before DEF RtxInv

LEMMA SerialKeeps ==
  ASSUME RtxInv, c_serial_handler
  PROVE  RtxInv'
<1>1. PICK s \in uart_i_process(k) : k' = process_switch_if_there_is_a_higher_priority_process(s)
  BY DEF c_serial_handler
<1>2. Sound(s) /\ s.delayed = k.delayed
  BY Before, UartIs
<1>3. Settled(k') /\ k'.delayed = k.delayed
  BY <1>1, <1>2, SwitchIfHigherIs DEF SameData
<1> QED BY <1>3, Before, LeavesDelayed DEF c_serial_handler

\* Every step keeps the invariant.
LEMMA NextKeeps == RtxInv /\ [Next]_vars => RtxInv'
<1> SUFFICES ASSUME RtxInv, [Next]_vars PROVE RtxInv'
  OBVIOUS
<1>1. CASE UNCHANGED vars
  BY <1>1, Before, LeavesDelayed DEF vars
<1>2. CASE Next
  <2>1. ASSUME NEW p \in Process, kernel_request_memory_block(p) PROVE RtxInv'
    BY <2>1, RequestKeeps
  <2>2. ASSUME NEW p \in Process, kernel_receive_message(p) PROVE RtxInv'
    BY <2>2, ReceiveKeeps
  <2>3. ASSUME NEW p \in Process, NEW b \in Block, kernel_release_memory_block(p, b) PROVE RtxInv'
    BY <2>3, ReleaseKeeps
  <2>4. ASSUME NEW p \in Process, NEW b \in Block, NEW to \in Process \cup {Uart},
               kernel_send_message(p, to, b)
        PROVE  RtxInv'
    BY <2>4, SendKeeps
  <2>5. ASSUME NEW p \in Process, NEW b \in Block, NEW to \in Process, NEW delay \in Delay,
               kernel_delayed_send(p, to, b, delay)
        PROVE  RtxInv'
    BY <2>5, DelayedSendKeeps
  <2>6. ASSUME NEW p \in Pid, kernel_release_processor(p) PROVE RtxInv'
    BY <2>6, ProcessorKeeps
  <2>7. CASE c_timer_handler
    BY <2>7, TickKeeps
  <2>8. CASE c_serial_handler
    BY <2>8, SerialKeeps
  <2> QED BY <1>2, <2>1, <2>2, <2>3, <2>4, <2>5, <2>6, <2>7, <2>8 DEF Next
<1> QED BY <1>1, <1>2

\* The invariant holds in every reachable state of the RTX kernel.
THEOREM RtxInvHolds == Spec => []RtxInv
<1> QED BY InitEstablishes, NextKeeps, PTL DEF Spec

\* Every process is running or once in the queue of its state and priority,
\* and nothing of a higher priority than the running process is ready,
\* whoever sent, freed or fired last (ProcessQueue.c, scheduler.c).
THEOREM ProcessesInTheirQueues == Spec => []ReadyQueuesRight
<1>1. RtxInv => ReadyQueuesRight
  <2> SUFFICES ASSUME RtxInv PROVE ReadyQueuesRight
    OBVIOUS
  <2>1. /\ k \in KernelState /\ Placed(k, {k.run})
        /\ next_priority(k) >= priority[k.run]
        /\ DOMAIN k.q = 0 .. BLOCKED_MESSAGE
    BY Before, Parts DEF Sound, Settled
  <2>2. ASSUME NEW p \in Pid
        PROVE  {i \in DOMAIN k.q : p \in Range(k.q[i])} = IF p = k.run THEN {} ELSE {QueueOf(k, p)}
    <3>1. QueueOf(k, p) \in 0 .. BLOCKED_MESSAGE
      BY <2>1, QueueTells
    <3>2. \A i \in DOMAIN k.q : p \in Range(k.q[i]) <=> p # k.run /\ QueueOf(k, p) = i
      BY <2>1 DEF Placed
    <3> QED BY <2>1, <3>1, <3>2
  <2>3. \A i \in DOMAIN k.q : IsInjective(k.q[i])
    BY <2>1 DEF Placed
  <2> QED BY <2>1, <2>2, <2>3 DEF ReadyQueuesRight
<1> QED BY <1>1, RtxInvHolds, PTL

\* While processes wait for memory, there is one about to take each free
\* block (kernel_release_memory_block, kernel_request_memory_block).
THEOREM BlocksAreUsed == Spec => []NoIdleBlock
<1>1. RtxInv => NoIdleBlock
  <2> SUFFICES ASSUME RtxInv, k.q[BLOCKED_MEMORY] # <<>>
               PROVE  Cardinality(k.free) <= Cardinality(Askers(k))
    BY DEF NoIdleBlock, Askers
  <2>1. k \in KernelState /\ Placed(k, {k.run}) /\ NoneIdle(k)
    BY Before DEF Sound
  <2> DEFINE p == next_blocked_memory_process(k)
  <2>2. p \in Pid /\ p \in Range(k.q[BLOCKED_MEMORY])
    BY <2>1, FirstWaiting
  <2> HIDE DEF p
  <2>3. k.st[p] = "memory"
    <3>1. QueueOf(k, p) = BLOCKED_MEMORY
      BY <2>1, <2>2, Numbers DEF Placed
    <3> QED BY <2>1, <2>2, <3>1, QueueTells
  <2> QED BY <2>1, <2>2, <2>3 DEF NoneIdle
<1> QED BY <1>1, RtxInvHolds, PTL

\* No delayed mail is left behind when its time has come (timer_i_process).
THEOREM DelayedMailIsFired == Spec => []DelayedMailOnTime
<1>1. RtxInv => DelayedMailOnTime
  BY DEF RtxInv, After, DelayedMailOnTime
<1> QED BY <1>1, RtxInvHolds, PTL

=============================================================================
