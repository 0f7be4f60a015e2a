\* Three threads and three transactions that lock, commit and roll back.
SPECIFICATION Spec
CONSTANTS
  Thread = {t1, t2, t3}
  NoThread = NoThread
  MaxTx = 3
CHECK_DEADLOCK FALSE
INVARIANT TypeOK
INVARIANT HeldMeansHolder
PROPERTY ImplementsUpdateLock
PROPERTY NoLostWakeup
