\* Three trains: one inside, one in its backoff, one asking.
SPECIFICATION FairLockSpec
CONSTANT Driver = {t1, t2, t3}
INVARIANTS
  FreeWhenUnused
PROPERTY LockReturns
