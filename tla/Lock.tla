-------------------------------- MODULE Lock --------------------------------
(***************************************************************************)
(* The lock service of Lock.c and the trains that use it around            *)
(* FIND_POSITION (MultiTrainDriver.c).  A request and its answer are one   *)
(* step of lock_task; between them the requester is blocked in Send.       *)
(***************************************************************************)
EXTENDS Integers

CONSTANT Driver    \* the MultiTrainDriver tasks

NO  == 1
YES == 0

DelayReturnsTicks == 80    \* mutant: the ticks delayed

\* What Delay returns: the length of the time server's reply, which is empty.
DelayReturns == 0

VARIABLES
  locked,   \* the flag lock_task keeps
  pc,       \* where each train is
  reply     \* the answer each train last got to a LOCK request

lockVars == <<locked, pc, reply>>

LockInit ==
  /\ locked = 0
  /\ pc = [t \in Driver |-> "outside"]
  /\ reply = [t \in Driver |-> NO]

GoTo(t, from, to) == pc[t] = from /\ pc' = [pc EXCEPT ![t] = to]

\* lock(): the train sends LOCK ...
RequestLock(t) ==
  /\ GoTo(t, "outside", "locking")
  /\ reply' = [reply EXCEPT ![t] = NO]
  /\ UNCHANGED locked

\* ... and lock_task answers: YES and locked, or NO.
AnswerLock(t) ==
  /\ GoTo(t, "locking", "answered")
  /\ reply' = [reply EXCEPT ![t] = IF locked = 1 THEN NO ELSE YES]
  /\ locked' = 1

\* The loop condition of lock(): a YES ends it, a NO backs off with Delay.
Granted(t) ==
  /\ reply[t] = YES
  /\ GoTo(t, "answered", "inside")
  /\ UNCHANGED <<locked, reply>>

Backoff(t) ==
  /\ reply[t] = NO
  /\ GoTo(t, "answered", "delaying")
  /\ UNCHANGED <<locked, reply>>

\* Delay is back: the loop goes on only if it returned something but zero.
AfterBackoff(t) ==
  /\ GoTo(t, "delaying", IF DelayReturns # 0 THEN "locking" ELSE "inside")
  /\ UNCHANGED <<locked, reply>>

\* The train has found its position: unlock() sends anything but LOCK ...
RequestUnlock(t) ==
  /\ GoTo(t, "inside", "unlocking")
  /\ UNCHANGED <<locked, reply>>

\* Mutant: the flag stays set.
AnswerUnlockOnly(t) == GoTo(t, "unlocking", "outside") /\ UNCHANGED <<locked, reply>>

\* ... and lock_task frees the lock, whoever holds it.
AnswerUnlock(t) ==
  /\ GoTo(t, "unlocking", "outside")
  /\ locked' = 0
  /\ UNCHANGED reply

LockTask == \E t \in Driver : AnswerLock(t) \/ AnswerUnlock(t)

TrainStep(t) == Granted(t) \/ Backoff(t) \/ AfterBackoff(t)

LockNext ==
  \/ LockTask
  \/ \E t \in Driver : RequestLock(t) \/ TrainStep(t) \/ RequestUnlock(t)

LockSpec == LockInit /\ [][LockNext]_lockVars

\* lock_task serves its sendQ in order and delays end.  Nothing is assumed of a
\* train inside: it may search its position for ever.
FairLockSpec ==
  /\ LockSpec
  /\ \A t \in Driver : WF_lockVars(AnswerLock(t) \/ AnswerUnlock(t)) /\ WF_lockVars(TrainStep(t))

-----------------------------------------------------------------------------
LockTypeOK ==
  /\ locked \in {0, 1}
  /\ pc \in [Driver -> {"outside", "locking", "answered", "delaying",
                       "inside", "unlocking"}]
  /\ reply \in [Driver -> {NO, YES}]

\* The lock is not leaked: with no train between lock and unlock it is free,
\* however many trains went in without it and freed it for others.
FreeWhenUnused ==
  (\A t \in Driver : pc[t] \in {"outside", "locking"}) => locked = 0

\* lock() returns, under any contention and even if the holder never unlocks:
\* the loop ends after one backoff.
LockReturns == \A t \in Driver : pc[t] = "locking" ~> pc[t] = "inside"

\* "Only 1 train can lock at the same time." (MultiTrainDriver.c, line 516)
\* The code does not keep this: a refused train goes in after its backoff.
OneTrainInside ==
  \A t, u \in Driver : pc[t] = "inside" /\ pc[u] = "inside" => t = u
=============================================================================
