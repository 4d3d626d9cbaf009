\* The comment at the lock() call: violated.
SPECIFICATION LockSpec
CONSTANT Driver = {t1, t2}
INVARIANT OneTrainInside
