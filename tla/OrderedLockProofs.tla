------------------------- MODULE OrderedLockProofs -------------------------
(***************************************************************************)
(* For every set of threads and every number of transactions: lock()       *)
(* returns to one transaction at a time as long as only holders unlock,    *)
(* although its first test reads two fields outside the mutex, and the     *)
(* lock implements UpdateLock whoever unlocks.                             *)
(*                                                                         *)
(* The unguarded test is sound because txLock can only be a thread's own   *)
(* number if that thread has been given the lock and has not unlocked      *)
(* since (OwnNumber); the rest is who may own the mutex at which step.     *)
(***************************************************************************)
EXTENDS OrderedLock, TLAPS

Guarded == {"test", "setLocked", "setTx", "setFree", "setFlag"}

(* The mutex is owned exactly by the thread inside the critical sections.  *)
MutexOwner == \A t \in Thread : pc[t] \in Guarded <=> mtx = t

(* A thread at work has a transaction number that is its own.              *)
OwnId ==
  /\ \A t \in Thread : /\ pc[t] # "out" <=> id[t] # 0
                       /\ id[t] < nextId
  /\ \A t, u \in Thread : id[t] = id[u] /\ id[t] # 0 => t = u
  /\ txLock < nextId

(* txLock is a thread's number only after lock() returned to it.           *)
OwnNumber ==
  \A t \in Thread :
    /\ txLock = id[t] /\ id[t] # 0 /\ pc[t] \notin {"setFlag", "notify"} => has[t]
    /\ has[t] => pc[t] \notin {"out", "setFlag", "notify"}

(* isLocked while a thread takes the lock; nobody has it by then.          *)
TakingFree ==
  \A t \in Thread :
    /\ pc[t] = "setLocked" => ~isLocked
    /\ pc[t] = "setTx" => isLocked /\ (~stray => \A u \in Thread : ~has[u])

IInv == TypeOK /\ MutexOwner /\ OwnId /\ OwnNumber /\ TakingFree /\ HeldMeansHolder

LEMMA InitIInv == Init => IInv
<1> SUFFICES ASSUME Init PROVE IInv
  OBVIOUS
<1>1. TypeOK
  <2>1. 0 \in 0..MaxTx /\ 1 \in 1..(MaxTx + 1)
    BY OrderedLockAssumption
  <2> QED
    BY <2>1 DEF Init, TypeOK, Pc
<1>2. MutexOwner /\ OwnId /\ OwnNumber /\ TakingFree /\ HeldMeansHolder
  BY OrderedLockAssumption
     DEF Init, MutexOwner, Guarded, OwnId, OwnNumber, TakingFree, HeldMeansHolder
<1> QED
  BY <1>1, <1>2 DEF IInv

-----------------------------------------------------------------------------
(* One lemma for each action, one step for each part of the invariant.     *)

LEMMA BeginTxStep == ASSUME IInv, NEW t \in Thread, BeginTx(t) PROVE IInv'
<1> USE OrderedLockAssumption DEF IInv, BeginTx, Go, fields, caller
<1>1. TypeOK'
  BY DEF TypeOK, Pc
<1>2. MutexOwner'
  BY DEF TypeOK, MutexOwner, Guarded
<1>3. OwnId'
  BY DEF TypeOK, OwnId
<1>4. OwnNumber'
  BY DEF TypeOK, OwnId, OwnNumber
<1>5. TakingFree'
  BY DEF TypeOK, MutexOwner, Guarded, TakingFree, HeldMeansHolder, OwnNumber
<1>6. HeldMeansHolder'
  BY DEF TypeOK, OwnId, OwnNumber, TakingFree, HeldMeansHolder
<1> QED
  BY <1>1, <1>2, <1>3, <1>4, <1>5, <1>6

LEMMA CallLockStep == ASSUME IInv, NEW t \in Thread, CallLock(t) PROVE IInv'
<1> USE OrderedLockAssumption DEF IInv, CallLock, Go, fields, caller
<1>1. TypeOK'
  BY DEF TypeOK, Pc
<1>2. MutexOwner'
  BY DEF TypeOK, MutexOwner, Guarded
<1>3. OwnId'
  BY DEF TypeOK, OwnId
<1>4. OwnNumber'
  BY DEF TypeOK, OwnId, OwnNumber
<1>5. TakingFree'
  BY DEF TypeOK, MutexOwner, Guarded, TakingFree, HeldMeansHolder, OwnNumber
<1>6. HeldMeansHolder'
  BY DEF TypeOK, OwnId, OwnNumber, TakingFree, HeldMeansHolder
<1> QED
  BY <1>1, <1>2, <1>3, <1>4, <1>5, <1>6

LEMMA ReadFlagStep == ASSUME IInv, NEW t \in Thread, ReadFlag(t) PROVE IInv'
<1> USE OrderedLockAssumption DEF IInv, ReadFlag, Go, fields, caller
<1>1. TypeOK'
  BY DEF TypeOK, Pc
<1>2. MutexOwner'
  BY DEF TypeOK, MutexOwner, Guarded
<1>3. OwnId'
  BY DEF TypeOK, OwnId
<1>4. OwnNumber'
  BY DEF TypeOK, OwnId, OwnNumber
<1>5. TakingFree'
  BY DEF TypeOK, MutexOwner, Guarded, TakingFree, HeldMeansHolder, OwnNumber
<1>6. HeldMeansHolder'
  BY DEF TypeOK, OwnId, OwnNumber, TakingFree, HeldMeansHolder
<1> QED
  BY <1>1, <1>2, <1>3, <1>4, <1>5, <1>6

LEMMA ClearFlagStep == ASSUME IInv, NEW t \in Thread, ClearFlag(t) PROVE IInv'
<1> USE OrderedLockAssumption DEF IInv, ClearFlag, Go, fields, caller
<1>1. TypeOK'
  BY DEF TypeOK, Pc
<1>2. MutexOwner'
  BY DEF TypeOK, MutexOwner, Guarded
<1>3. OwnId'
  BY DEF TypeOK, OwnId
<1>4. OwnNumber'
  BY DEF TypeOK, OwnId, OwnNumber
<1>5. TakingFree'
  BY DEF TypeOK, MutexOwner, Guarded, TakingFree, HeldMeansHolder, OwnNumber
<1>6. HeldMeansHolder'
  BY DEF TypeOK, OwnId, OwnNumber, TakingFree, HeldMeansHolder
<1> QED
  BY <1>1, <1>2, <1>3, <1>4, <1>5, <1>6

LEMMA CallUnlockStep == ASSUME IInv, NEW t \in Thread, CallUnlock(t) PROVE IInv'
<1> USE OrderedLockAssumption DEF IInv, CallUnlock, Go, fields, caller
<1>1. TypeOK'
  BY DEF TypeOK, Pc
<1>2. MutexOwner'
  BY DEF TypeOK, MutexOwner, Guarded
<1>3. OwnId'
  BY DEF TypeOK, OwnId
<1>4. OwnNumber'
  BY DEF TypeOK, OwnId, OwnNumber
<1>5. TakingFree'
  BY DEF TypeOK, MutexOwner, Guarded, TakingFree, HeldMeansHolder, OwnNumber
<1>6. HeldMeansHolder'
  BY DEF TypeOK, OwnId, OwnNumber, TakingFree, HeldMeansHolder
<1> QED
  BY <1>1, <1>2, <1>3, <1>4, <1>5, <1>6

LEMMA RollbackTxStep == ASSUME IInv, NEW t \in Thread, RollbackTx(t) PROVE IInv'
<1> USE OrderedLockAssumption DEF IInv, RollbackTx, Go, fields, caller
<1>1. TypeOK'
  BY DEF TypeOK, Pc
<1>2. MutexOwner'
  BY DEF TypeOK, MutexOwner, Guarded
<1>3. OwnId'
  BY DEF TypeOK, OwnId
<1>4. OwnNumber'
  BY DEF TypeOK, OwnId, OwnNumber
<1>5. TakingFree'
  BY DEF TypeOK, MutexOwner, Guarded, TakingFree, HeldMeansHolder, OwnNumber
<1>6. HeldMeansHolder'
  BY DEF TypeOK, OwnId, OwnNumber, TakingFree, HeldMeansHolder
<1> QED
  BY <1>1, <1>2, <1>3, <1>4, <1>5, <1>6

LEMMA ReadLockedStep == ASSUME IInv, NEW t \in Thread, ReadLocked(t) PROVE IInv'
<1> USE OrderedLockAssumption DEF IInv, ReadLocked, Go, fields, caller
<1>1. TypeOK'
  BY DEF TypeOK, Pc
<1>2. MutexOwner'
  BY DEF TypeOK, MutexOwner, Guarded
<1>3. OwnId'
  BY DEF TypeOK, OwnId
<1>4. OwnNumber'
  BY DEF TypeOK, OwnId, OwnNumber
<1>5. TakingFree'
  BY DEF TypeOK, MutexOwner, Guarded, TakingFree, HeldMeansHolder, OwnNumber
<1>6. HeldMeansHolder'
  BY DEF TypeOK, OwnId, OwnNumber, TakingFree, HeldMeansHolder
<1> QED
  BY <1>1, <1>2, <1>3, <1>4, <1>5, <1>6

LEMMA ReadTxStep == ASSUME IInv, NEW t \in Thread, ReadTx(t) PROVE IInv'
<1> USE OrderedLockAssumption DEF IInv, ReadTx, Return, Go, fields, caller
<1>1. TypeOK'
  BY DEF TypeOK, Pc
<1>2. MutexOwner'
  BY DEF TypeOK, MutexOwner, Guarded
<1>3. OwnId'
  BY DEF TypeOK, OwnId
<1>4. OwnNumber'
  BY DEF TypeOK, OwnId, OwnNumber
<1>5. TakingFree'
  BY DEF TypeOK, OwnId, OwnNumber, TakingFree
<1>6. HeldMeansHolder'
  BY DEF TypeOK, OwnId, OwnNumber, TakingFree, HeldMeansHolder
<1> QED
  BY <1>1, <1>2, <1>3, <1>4, <1>5, <1>6

LEMMA TakeMutexStep == ASSUME IInv, NEW t \in Thread, TakeMutex(t) PROVE IInv'
<1> USE OrderedLockAssumption DEF IInv, TakeMutex, Go, fields, caller
<1>1. TypeOK'
  BY DEF TypeOK, Pc
<1>2. MutexOwner'
  BY DEF TypeOK, MutexOwner, Guarded
<1>3. OwnId'
  BY DEF TypeOK, OwnId
<1>4. OwnNumber'
  BY DEF TypeOK, OwnId, OwnNumber
<1>5. TakingFree'
  BY DEF TypeOK, MutexOwner, Guarded, TakingFree, HeldMeansHolder, OwnNumber
<1>6. HeldMeansHolder'
  BY DEF TypeOK, OwnId, OwnNumber, TakingFree, HeldMeansHolder
<1> QED
  BY <1>1, <1>2, <1>3, <1>4, <1>5, <1>6

LEMMA TestStep == ASSUME IInv, NEW t \in Thread, Test(t) PROVE IInv'
<1> USE OrderedLockAssumption DEF IInv, Test, Go, fields, caller
<1>1. TypeOK'
  BY DEF TypeOK, Pc
<1>2. MutexOwner'
  BY DEF TypeOK, MutexOwner, Guarded
<1>3. OwnId'
  BY DEF TypeOK, OwnId
<1>4. OwnNumber'
  BY DEF TypeOK, OwnId, OwnNumber
<1>5. TakingFree'
  BY DEF TypeOK, MutexOwner, Guarded, TakingFree, HeldMeansHolder, OwnNumber
<1>6. HeldMeansHolder'
  BY DEF TypeOK, OwnId, OwnNumber, TakingFree, HeldMeansHolder
<1> QED
  BY <1>1, <1>2, <1>3, <1>4, <1>5, <1>6

LEMMA SpuriousWakeStep == ASSUME IInv, NEW t \in Thread, SpuriousWake(t) PROVE IInv'
<1> USE OrderedLockAssumption DEF IInv, SpuriousWake, Go, fields, caller
<1>1. TypeOK'
  BY DEF TypeOK, Pc
<1>2. MutexOwner'
  BY DEF TypeOK, MutexOwner, Guarded
<1>3. OwnId'
  BY DEF TypeOK, OwnId
<1>4. OwnNumber'
  BY DEF TypeOK, OwnId, OwnNumber
<1>5. TakingFree'
  BY DEF TypeOK, MutexOwner, Guarded, TakingFree, HeldMeansHolder, OwnNumber
<1>6. HeldMeansHolder'
  BY DEF TypeOK, OwnId, OwnNumber, TakingFree, HeldMeansHolder
<1> QED
  BY <1>1, <1>2, <1>3, <1>4, <1>5, <1>6

LEMMA SetLockedStep == ASSUME IInv, NEW t \in Thread, SetLocked(t) PROVE IInv'
<1> USE OrderedLockAssumption DEF IInv, SetLocked, Go, fields, caller
<1>1. TypeOK'
  BY DEF TypeOK, Pc
<1>2. MutexOwner'
  BY DEF TypeOK, MutexOwner, Guarded
<1>3. OwnId'
  BY DEF TypeOK, OwnId
<1>4. OwnNumber'
  BY DEF TypeOK, OwnId, OwnNumber
<1>5. TakingFree'
  BY DEF TypeOK, MutexOwner, Guarded, TakingFree, HeldMeansHolder, OwnNumber
<1>6. HeldMeansHolder'
  BY DEF TypeOK, OwnId, OwnNumber, TakingFree, HeldMeansHolder
<1> QED
  BY <1>1, <1>2, <1>3, <1>4, <1>5, <1>6

LEMMA SetTxStep == ASSUME IInv, NEW t \in Thread, SetTx(t) PROVE IInv'
<1> USE OrderedLockAssumption DEF IInv, SetTx, Return, Go, fields, caller
<1>1. TypeOK'
  BY DEF TypeOK, Pc
<1>2. MutexOwner'
  BY DEF TypeOK, MutexOwner, Guarded
<1>3. OwnId'
  BY DEF TypeOK, OwnId
<1>4. OwnNumber'
  BY DEF TypeOK, OwnId, OwnNumber
<1>5. TakingFree'
  BY DEF TypeOK, MutexOwner, Guarded, TakingFree, HeldMeansHolder, OwnNumber
<1>6. HeldMeansHolder'
  BY DEF TypeOK, OwnId, OwnNumber, TakingFree, HeldMeansHolder
<1> QED
  BY <1>1, <1>2, <1>3, <1>4, <1>5, <1>6

LEMMA TakeMutexToUnlockStep == ASSUME IInv, NEW t \in Thread, TakeMutexToUnlock(t) PROVE IInv'
<1> USE OrderedLockAssumption DEF IInv, TakeMutexToUnlock, Go, fields, caller
<1>1. TypeOK'
  BY DEF TypeOK, Pc
<1>2. MutexOwner'
  BY DEF TypeOK, MutexOwner, Guarded
<1>3. OwnId'
  BY DEF TypeOK, OwnId
<1>4. OwnNumber'
  BY DEF TypeOK, OwnId, OwnNumber
<1>5. TakingFree'
  BY DEF TypeOK, MutexOwner, Guarded, TakingFree, HeldMeansHolder, OwnNumber
<1>6. HeldMeansHolder'
  BY DEF TypeOK, OwnId, OwnNumber, TakingFree, HeldMeansHolder
<1> QED
  BY <1>1, <1>2, <1>3, <1>4, <1>5, <1>6

LEMMA SetFreeStep == ASSUME IInv, NEW t \in Thread, SetFree(t) PROVE IInv'
<1> USE OrderedLockAssumption DEF IInv, SetFree, Go, fields, caller
<1>1. TypeOK'
  BY DEF TypeOK, Pc
<1>2. MutexOwner'
  BY DEF TypeOK, MutexOwner, Guarded
<1>3. OwnId'
  BY DEF TypeOK, OwnId
<1>4. OwnNumber'
  BY DEF TypeOK, OwnId, OwnNumber
<1>5. TakingFree'
  BY DEF TypeOK, MutexOwner, Guarded, TakingFree, HeldMeansHolder, OwnNumber
<1>6. HeldMeansHolder'
  BY DEF TypeOK, OwnId, OwnNumber, TakingFree, HeldMeansHolder
<1> QED
  BY <1>1, <1>2, <1>3, <1>4, <1>5, <1>6

LEMMA SetFlagStep == ASSUME IInv, NEW t \in Thread, SetFlag(t) PROVE IInv'
<1> USE OrderedLockAssumption DEF IInv, SetFlag, Go, fields, caller
<1>1. TypeOK'
  BY DEF TypeOK, Pc
<1>2. MutexOwner'
  BY DEF TypeOK, MutexOwner, Guarded
<1>3. OwnId'
  BY DEF TypeOK, OwnId
<1>4. OwnNumber'
  BY DEF TypeOK, OwnId, OwnNumber
<1>5. TakingFree'
  BY DEF TypeOK, MutexOwner, Guarded, TakingFree, HeldMeansHolder, OwnNumber
<1>6. HeldMeansHolder'
  BY DEF TypeOK, OwnId, OwnNumber, TakingFree, HeldMeansHolder
<1> QED
  BY <1>1, <1>2, <1>3, <1>4, <1>5, <1>6

LEMMA NotifyStep == ASSUME IInv, NEW t \in Thread, Notify(t) PROVE IInv'
<1> USE OrderedLockAssumption DEF IInv, Notify, Go, fields, caller
<1>1. TypeOK'
  BY DEF TypeOK, Pc
<1>2. MutexOwner'
  BY DEF TypeOK, MutexOwner, Guarded
<1>3. OwnId'
  BY DEF TypeOK, OwnId
<1>4. OwnNumber'
  BY DEF TypeOK, OwnId, OwnNumber
<1>5. TakingFree'
  BY DEF TypeOK, MutexOwner, Guarded, TakingFree, HeldMeansHolder, OwnNumber
<1>6. HeldMeansHolder'
  BY DEF TypeOK, OwnId, OwnNumber, TakingFree, HeldMeansHolder
<1> QED
  BY <1>1, <1>2, <1>3, <1>4, <1>5, <1>6

-----------------------------------------------------------------------------
LEMMA NextIInv == IInv /\ [Next]_vars => IInv'
<1> SUFFICES ASSUME IInv, [Next]_vars PROVE IInv'
  OBVIOUS
<1>1. ASSUME NEW t \in Thread, Inside(t) PROVE IInv'
  BY <1>1, ReadLockedStep, ReadTxStep, TakeMutexStep, TestStep, SetLockedStep, SetTxStep,
     TakeMutexToUnlockStep, SetFreeStep, SetFlagStep, NotifyStep DEF Inside
<1>2. ASSUME NEW t \in Thread, Outside(t) PROVE IInv'
  BY <1>2, BeginTxStep, CallLockStep, ReadFlagStep, ClearFlagStep, CallUnlockStep,
     RollbackTxStep DEF Outside
<1>3. CASE UNCHANGED vars
  BY <1>3 DEF vars, fields, caller, IInv, TypeOK, MutexOwner, OwnId, OwnNumber, TakingFree,
              HeldMeansHolder
<1> QED
  BY <1>1, <1>2, <1>3, SpuriousWakeStep DEF Next

THEOREM Invariance == Spec => []IInv
  BY InitIInv, NextIInv, PTL DEF Spec

(* The fields keep their types, the threads their program counters.        *)
THEOREM LockTypeCorrect == Spec => []TypeOK
<1>1. IInv => TypeOK
  BY DEF IInv
<1> QED
  BY <1>1, Invariance, PTL

(* While only holders unlock, the fields that the unguarded test of lock() *)
(* reads are those of the one transaction that lock() returned to.         *)
THEOREM LockHeldExclusively == Spec => []HeldMeansHolder
<1>1. IInv => HeldMeansHolder
  BY DEF IInv
<1> QED
  BY <1>1, Invariance, PTL

-----------------------------------------------------------------------------
(* The lock implements UpdateLock. *)

AbsHolder == IF isLocked /\ ~Taking THEN txLock ELSE 0
AbsStale == IF Marking = {} THEN wasPrevTransactionId
                            ELSE isCommit[CHOOSE t \in Marking : TRUE]

LEMMA AbstractInit == Init => Abstract!LockInit
  BY DEF Init, Abstract!LockInit, Marking, Taking

(* One thread at most is between clearing isLocked and writing the mark,   *)
(* and then none is taking the lock.                                       *)
LEMMA OneInside ==
  ASSUME IInv, NEW t \in Thread, NEW u \in Thread,
         pc[t] \in Guarded, pc[u] \in Guarded
  PROVE  t = u
  BY DEF IInv, MutexOwner

LEMMA MarkingOne ==
  ASSUME IInv, NEW t \in Thread, pc[t] = "setFlag"
  PROVE  Marking = {t} /\ ~Taking /\ AbsStale = isCommit[t]
<1>1. Marking = {t}
  BY OneInside DEF Marking, Guarded
<1>2. ~Taking
  BY OneInside DEF Taking, Guarded
<1>3. AbsStale = isCommit[t]
  BY <1>1 DEF AbsStale
<1> QED
  BY <1>1, <1>2, <1>3

LEMMA MarkingNone ==
  ASSUME IInv, NEW t \in Thread, pc[t] \in Guarded, pc[t] # "setFlag"
  PROVE  Marking = {} /\ AbsStale = wasPrevTransactionId
<1>1. Marking = {}
  BY OneInside DEF Marking, Guarded
<1> QED
  BY <1>1 DEF AbsStale

(* A step that writes no field, enters neither setTx nor setFlag and       *)
(* leaves neither is a stutter.                                            *)
LEMMA Stutter ==
  ASSUME UNCHANGED fields,
         \A u \in Thread : /\ pc'[u] = "setTx" <=> pc[u] = "setTx"
                           /\ pc'[u] = "setFlag" <=> pc[u] = "setFlag"
                           /\ pc[u] = "setFlag" => isCommit'[u] = isCommit[u]
  PROVE  AbsHolder' = AbsHolder /\ AbsStale' = AbsStale
<1>1. (Taking' <=> Taking) /\ Marking' = Marking
  <2>1. Marking' = Marking
    BY DEF Marking
  <2> QED
    BY <2>1 DEF Taking
<1>2. AbsHolder' = AbsHolder
  BY <1>1 DEF AbsHolder, fields
<1>3. AbsStale' = AbsStale
  <2>1. CASE Marking = {}
    BY <1>1, <2>1 DEF AbsStale, fields
  <2>2. CASE Marking # {}
    <3> DEFINE m == CHOOSE u \in Marking : TRUE
    <3>1. m \in Marking
      BY <2>2
    <3>2. \A u \in Marking : isCommit'[u] = isCommit[u]
      BY DEF Marking
    <3>3. AbsStale = isCommit[m]
      BY <2>2 DEF AbsStale
    <3>4. AbsStale' = isCommit'[m]
      BY <1>1, <2>2 DEF AbsStale
    <3> QED
      BY <3>1, <3>2, <3>3, <3>4
  <2> QED
    BY <2>1, <2>2
<1> QED
  BY <1>2, <1>3

LEMMA AbstractStep == IInv /\ IInv' /\ [Next]_vars => [Abstract!LockNext]_(Abstract!lockVars)
<1> SUFFICES ASSUME IInv, IInv', [Next]_vars
             PROVE  Abstract!LockNext \/ (AbsHolder' = AbsHolder /\ AbsStale' = AbsStale)
  BY DEF Abstract!lockVars, AbsHolder, AbsStale
<1>t. TypeOK /\ TypeOK'
  BY DEF IInv
<1>1. ASSUME NEW t \in Thread,
             BeginTx(t) \/ CallLock(t) \/ ReadFlag(t) \/ CallUnlock(t) \/ RollbackTx(t)
             \/ ReadLocked(t) \/ ReadTx(t) \/ TakeMutex(t) \/ Test(t) \/ SpuriousWake(t)
             \/ TakeMutexToUnlock(t) \/ Notify(t)
      PROVE  AbsHolder' = AbsHolder /\ AbsStale' = AbsStale
  <2>1. \A u \in Thread : /\ pc'[u] = "setTx" <=> pc[u] = "setTx"
                          /\ pc'[u] = "setFlag" <=> pc[u] = "setFlag"
                          /\ pc[u] = "setFlag" => isCommit'[u] = isCommit[u]
    BY <1>1, <1>t DEF TypeOK, BeginTx, CallLock, ReadFlag, CallUnlock, RollbackTx, ReadLocked,
       ReadTx, TakeMutex, Test, SpuriousWake, TakeMutexToUnlock, Notify, Return, Go, caller
  <2>2. UNCHANGED fields
    BY <1>1 DEF BeginTx, CallLock, ReadFlag, CallUnlock, RollbackTx, ReadLocked,
       ReadTx, TakeMutex, Test, SpuriousWake, TakeMutexToUnlock, Notify, fields
  <2> QED
    BY <2>1, <2>2, Stutter
<1>2. ASSUME NEW t \in Thread, ClearFlag(t)
      PROVE  Abstract!Consume \/ (AbsHolder' = AbsHolder /\ AbsStale' = AbsStale)
  <2>1. Taking' = Taking /\ Marking' = Marking
    BY <1>2, <1>t DEF TypeOK, ClearFlag, Go, Taking, Marking
  <2>2. AbsHolder' = AbsHolder
    BY <1>2, <2>1 DEF AbsHolder, ClearFlag
  <2>3. CASE Marking = {}
    BY <1>2, <2>1, <2>2, <2>3 DEF ClearFlag, AbsStale, AbsHolder, Abstract!Consume
  <2>4. CASE Marking # {}
    <3>1. isCommit' = isCommit
      BY <1>2 DEF ClearFlag, caller
    <3> QED
      BY <2>1, <2>2, <2>4, <3>1 DEF AbsStale
  <2> QED
    BY <2>3, <2>4
(* Between the two writes of lock() the lock counts as free: the first is  *)
(* a stutter, the second takes it.                                         *)
<1>3. ASSUME NEW t \in Thread, SetLocked(t)
      PROVE  AbsHolder' = AbsHolder /\ AbsStale' = AbsStale
  <2>1. pc[t] = "setLocked" /\ pc'[t] = "setTx" /\ ~isLocked
    BY <1>3, <1>t DEF IInv, TypeOK, TakingFree, SetLocked, Go
  <2>2. AbsHolder = 0 /\ AbsHolder' = 0
    BY <2>1 DEF AbsHolder, Taking
  <2>3. AbsStale = wasPrevTransactionId /\ AbsStale' = wasPrevTransactionId'
    <3>1. AbsStale = wasPrevTransactionId
      BY <2>1, MarkingNone DEF Guarded
    <3>2. Marking' = {}
      BY <1>3, <1>t, <2>1, MarkingNone DEF Guarded, Marking, TypeOK, SetLocked, Go
    <3> QED
      BY <3>1, <3>2 DEF AbsStale
  <2> QED
    BY <1>3, <2>2, <2>3 DEF SetLocked
<1>4. ASSUME NEW t \in Thread, SetTx(t)
      PROVE  Abstract!Acquire(id[t]) /\ id[t] \in 1..MaxTx
  <2>1. pc[t] = "setTx" /\ isLocked /\ isLocked' /\ txLock' = id[t]
    BY <1>4, <1>t DEF IInv, TypeOK, TakingFree, SetTx, Return, Go
  <2>2. AbsHolder = 0
    BY <2>1 DEF AbsHolder, Taking
  <2>3. ~Taking'
    BY <1>4, <1>t, <2>1, OneInside DEF Taking, Guarded, TypeOK, SetTx, Return, Go
  <2>4. AbsHolder' = id[t]
    BY <2>1, <2>3 DEF AbsHolder
  <2>5. Marking = {} /\ Marking' = {}
    BY <1>4, <1>t, <2>1, MarkingNone DEF Guarded, Marking, TypeOK, SetTx, Return, Go
  <2>6. AbsStale' = AbsStale
    BY <1>4, <2>5 DEF AbsStale, SetTx
  <2>7. id[t] \in 1..MaxTx
    BY <1>t, <2>1, OrderedLockAssumption DEF IInv, TypeOK, OwnId
  <2> QED
    BY <2>2, <2>4, <2>6, <2>7 DEF Abstract!Acquire, AbsHolder, AbsStale
(* Clearing isLocked frees the lock and settles the mark; writing the mark *)
(* is then a stutter.                                                      *)
<1>5. ASSUME NEW t \in Thread, SetFree(t)
      PROVE  Abstract!Release(isCommit[t]) /\ isCommit[t] \in BOOLEAN
  <2>1. pc[t] = "setFree" /\ pc'[t] = "setFlag" /\ ~isLocked' /\ isCommit' = isCommit
    BY <1>5, <1>t DEF TypeOK, SetFree, Go
  <2>2. AbsHolder' = 0
    BY <2>1 DEF AbsHolder
  <2>3. Marking' = {t}
    BY <1>5, <1>t, <2>1, MarkingNone DEF Guarded, Marking, TypeOK, SetFree, Go
  <2>4. AbsStale' = isCommit[t]
    BY <2>1, <2>3 DEF AbsStale
  <2> QED
    BY <1>t, <2>2, <2>4 DEF Abstract!Release, AbsHolder, AbsStale, TypeOK
<1>6. ASSUME NEW t \in Thread, SetFlag(t)
      PROVE  AbsHolder' = AbsHolder /\ AbsStale' = AbsStale
  <2>1. pc[t] = "setFlag" /\ pc'[t] = "notify" /\ wasPrevTransactionId' = isCommit[t]
    BY <1>6, <1>t DEF TypeOK, SetFlag, Go
  <2>2. Marking = {t} /\ ~Taking /\ AbsStale = isCommit[t]
    BY <2>1, MarkingOne
  <2>3. Marking' = {} /\ ~Taking'
    BY <1>6, <1>t, <2>1, <2>2 DEF Marking, Taking, TypeOK, SetFlag, Go
  <2> QED
    BY <1>6, <2>1, <2>2, <2>3 DEF SetFlag, AbsHolder, AbsStale
<1>7. CASE UNCHANGED vars
  BY <1>7, Stutter DEF vars, caller
<1> QED
  BY <1>1, <1>2, <1>3, <1>4, <1>5, <1>6, <1>7
     DEF Next, Inside, Outside, Abstract!LockNext

(* Whoever unlocks: taking and freeing the update lock, field by field, is *)
(* what UpdateLock says, one transaction after another.                    *)
THEOREM LockRefines == Spec => ImplementsUpdateLock
<1>1. Init => Abstract!LockInit
  BY AbstractInit
<1>2. IInv /\ IInv' /\ [Next]_vars => [Abstract!LockNext]_(Abstract!lockVars)
  BY AbstractStep
<1> QED
  BY <1>1, <1>2, Invariance, PTL DEF Spec, ImplementsUpdateLock, Abstract!LockSpec
=============================================================================
