---------------------------- MODULE OrderedLock ----------------------------
(***************************************************************************)
(* The update lock as daemon/utils/orderedLock.cpp builds it: a mutex, a   *)
(* condition variable and three plain fields, two of which are also read   *)
(* and one also written without the mutex.  A step of a thread is one      *)
(* access to a field, or one operation on the mutex or the condition       *)
(* variable.  The caller is the thread of a connection: it begins a        *)
(* transaction, locks as often as it updates, and commits, which unlocks,  *)
(* or rolls back, which does not.                                          *)
(*                                                                         *)
(* waitQueue is passed by value and always empty, so that the predicate of *)
(* the wait is just that the lock is free: nothing here is ordered.        *)
(***************************************************************************)
EXTENDS Naturals

CONSTANTS
  Thread,         \* the threads of the connections
  NoThread,       \* nobody: the mutex is free
  MaxTx           \* bound: transactions are numbered 1..MaxTx

ASSUME OrderedLockAssumption == NoThread \notin Thread /\ MaxTx \in Nat

VARIABLES
  isLocked, txLock, wasPrevTransactionId,   \* the fields
  mtx,            \* the thread that owns the mutex
  pc,             \* where each thread is
  id,             \* its transaction, 0 for none
  isCommit,       \* the argument of its unlock()
  has,            \* history: has lock() returned to this transaction?
  nextId,         \* the next transaction number
  stray           \* history: has a transaction unlocked that had no lock?

fields == <<isLocked, txLock, wasPrevTransactionId>>
caller == <<id, isCommit, has, nextId, stray>>
vars == <<fields, mtx, pc, caller>>

Pc == {"out", "in", "readLocked", "readTx", "mutex", "test", "wait",
       "setLocked", "setTx", "flag", "clear",
       "unlockMutex", "setFree", "setFlag", "notify"}

Go(t, p, q) == pc[t] = p /\ pc' = [pc EXCEPT ![t] = q]

-----------------------------------------------------------------------------
(* The caller. *)

BeginTx(t) ==
  /\ Go(t, "out", "in")
  /\ nextId <= MaxTx
  /\ id' = [id EXCEPT ![t] = nextId]
  /\ nextId' = nextId + 1
  /\ UNCHANGED <<fields, mtx, isCommit, has, stray>>

(* Transaction::Update calls lock().                                       *)
CallLock(t) == Go(t, "in", "readLocked") /\ UNCHANGED <<fields, mtx, caller>>

(* It reads the mark; the handler in UpdateStatement::execute lowers it.   *)
ReadFlag(t) == /\ Go(t, "flag", IF wasPrevTransactionId THEN "clear" ELSE "in")
               /\ UNCHANGED <<fields, mtx, caller>>

ClearFlag(t) == /\ Go(t, "clear", "in")
                /\ wasPrevTransactionId' = FALSE
                /\ UNCHANGED <<isLocked, txLock, mtx, caller>>

(* Transaction::Commit calls unlock(), whatever the transaction did.       *)
CallUnlock(t) == /\ Go(t, "in", "unlockMutex")
                 /\ \E b \in BOOLEAN : isCommit' = [isCommit EXCEPT ![t] = b]
                 /\ UNCHANGED <<fields, mtx, id, has, nextId, stray>>

(* Transaction::Rollback does not.                                         *)
RollbackTx(t) == /\ Go(t, "in", "out")
                 /\ id' = [id EXCEPT ![t] = 0]
                 /\ has' = [has EXCEPT ![t] = FALSE]
                 /\ UNCHANGED <<fields, mtx, isCommit, nextId, stray>>

-----------------------------------------------------------------------------
(* lock() *)

Return(t, p) == Go(t, p, "flag") /\ has' = [has EXCEPT ![t] = TRUE]

(* The first test, outside the mutex: two reads.                           *)
ReadLocked(t) == /\ Go(t, "readLocked", IF isLocked THEN "readTx" ELSE "mutex")
                 /\ UNCHANGED <<fields, mtx, caller>>

(* Mutant: any locked lock is taken for one's own.                         *)
ReadTxAny(t) == Return(t, "readTx") /\ UNCHANGED <<fields, mtx, id, isCommit, nextId, stray>>

ReadTx(t) == /\ IF txLock = id[t]
                THEN Return(t, "readTx")
                ELSE Go(t, "readTx", "mutex") /\ UNCHANGED has
             /\ UNCHANGED <<fields, mtx, id, isCommit, nextId, stray>>

(* Take the mutex, on entry and after each wake-up of cv.wait ...          *)
TakeMutex(t) == /\ Go(t, "mutex", "test")
                /\ mtx = NoThread /\ mtx' = t
                /\ UNCHANGED <<fields, caller>>

(* Mutant: the mutex is let go after the test.                             *)
TestUnguarded(t) == /\ Go(t, "test", IF isLocked THEN "wait" ELSE "setLocked")
                    /\ mtx' = NoThread
                    /\ UNCHANGED <<fields, caller>>

(* ... and test the predicate; waiting lets the mutex go in the same step. *)
Test(t) == /\ IF isLocked
              THEN Go(t, "test", "wait") /\ mtx' = NoThread
              ELSE Go(t, "test", "setLocked") /\ UNCHANGED mtx
           /\ UNCHANGED <<fields, caller>>

(* A condition variable may wake without a notification.                   *)
SpuriousWake(t) == Go(t, "wait", "mutex") /\ UNCHANGED <<fields, mtx, caller>>

SetLocked(t) == /\ Go(t, "setLocked", "setTx")
                /\ isLocked' = TRUE
                /\ UNCHANGED <<txLock, wasPrevTransactionId, mtx, caller>>

(* Mutant: the global TRANSACTION_ID is stored, not the caller's number.   *)
SetTxNext(t) == /\ Return(t, "setTx")
                /\ txLock' = nextId
                /\ mtx' = NoThread
                /\ UNCHANGED <<isLocked, wasPrevTransactionId, id, isCommit, nextId, stray>>

SetTx(t) == /\ Return(t, "setTx")
            /\ txLock' = id[t]
            /\ mtx' = NoThread
            /\ UNCHANGED <<isLocked, wasPrevTransactionId, id, isCommit, nextId, stray>>

-----------------------------------------------------------------------------
(* unlock() *)

TakeMutexToUnlock(t) == /\ Go(t, "unlockMutex", "setFree")
                        /\ mtx = NoThread /\ mtx' = t
                        /\ UNCHANGED <<fields, caller>>

SetFree(t) == /\ Go(t, "setFree", "setFlag")
              /\ isLocked' = FALSE
              /\ stray' = (stray \/ ~has[t])
              /\ has' = [has EXCEPT ![t] = FALSE]
              /\ UNCHANGED <<txLock, wasPrevTransactionId, mtx, id, isCommit, nextId>>

SetFlag(t) == /\ Go(t, "setFlag", "notify")
              /\ wasPrevTransactionId' = isCommit[t]
              /\ mtx' = NoThread
              /\ isCommit' = [isCommit EXCEPT ![t] = FALSE]
              /\ UNCHANGED <<isLocked, txLock, id, has, nextId, stray>>

(* Mutant: nobody is notified.                                             *)
NotifyNobody(t) == /\ Go(t, "notify", "out")
                   /\ id' = [id EXCEPT ![t] = 0]
                   /\ UNCHANGED <<fields, mtx, isCommit, has, nextId, stray>>

(* notify_all comes after the mutex is free again.                         *)
Notify(t) == /\ pc[t] = "notify"
             /\ pc' = [u \in Thread |-> IF u = t THEN "out"
                                        ELSE IF pc[u] = "wait" THEN "mutex" ELSE pc[u]]
             /\ id' = [id EXCEPT ![t] = 0]
             /\ UNCHANGED <<fields, mtx, isCommit, has, nextId, stray>>

-----------------------------------------------------------------------------
Init ==
  /\ isLocked = FALSE /\ txLock = 0 /\ wasPrevTransactionId = FALSE
  /\ mtx = NoThread
  /\ pc = [t \in Thread |-> "out"]
  /\ id = [t \in Thread |-> 0]
  /\ isCommit = [t \in Thread |-> FALSE]
  /\ has = [t \in Thread |-> FALSE]
  /\ nextId = 1
  /\ stray = FALSE

(* What a thread does by itself once it has called lock() or unlock().     *)
Inside(t) == \/ ReadLocked(t) \/ ReadTx(t) \/ TakeMutex(t) \/ Test(t)
             \/ SetLocked(t) \/ SetTx(t)
             \/ TakeMutexToUnlock(t) \/ SetFree(t) \/ SetFlag(t) \/ Notify(t)

(* What depends on the client at the other end of the connection.          *)
Outside(t) == BeginTx(t) \/ CallLock(t) \/ ReadFlag(t) \/ ClearFlag(t)
              \/ CallUnlock(t) \/ RollbackTx(t)

Next == \E t \in Thread : Inside(t) \/ Outside(t) \/ SpuriousWake(t)

(* A thread that can go on inside lock() or unlock() is scheduled; no      *)
(* client need ever send another statement, and no wake-up is spurious     *)
(* because it must be.                                                     *)
Fairness == \A t \in Thread : WF_vars(Inside(t))

Spec == Init /\ [][Next]_vars /\ Fairness

-----------------------------------------------------------------------------
TypeOK ==
  /\ isLocked \in BOOLEAN /\ txLock \in 0..MaxTx
  /\ wasPrevTransactionId \in BOOLEAN
  /\ mtx \in Thread \cup {NoThread}
  /\ pc \in [Thread -> Pc]
  /\ id \in [Thread -> 0..MaxTx]
  /\ isCommit \in [Thread -> BOOLEAN]
  /\ has \in [Thread -> BOOLEAN]
  /\ nextId \in 1..(MaxTx + 1)
  /\ stray \in BOOLEAN

(* As long as nobody has unlocked without having the lock, lock() returns  *)
(* to one transaction at a time, and the two fields that its unguarded     *)
(* first test reads are that transaction's until it unlocks.               *)
HeldMeansHolder ==
  ~stray => \A t \in Thread : has[t] => isLocked /\ txLock = id[t]

(* The lock behaves as UpdateLock promises.  It is taken when txLock is    *)
(* written and free when isLocked is cleared; the mark is the one the      *)
(* unlock under way is about to write.                                     *)
Taking == \E t \in Thread : pc[t] = "setTx"

Marking == {t \in Thread : pc[t] = "setFlag"}

Abstract == INSTANCE UpdateLock WITH
  holder <- IF isLocked /\ ~Taking THEN txLock ELSE 0,
  stale <- IF Marking = {} THEN wasPrevTransactionId
                           ELSE isCommit[CHOOSE t \in Marking : TRUE]

ImplementsUpdateLock == Abstract!LockSpec

(* No wake-up is lost: a thread that sleeps while the lock is free is      *)
(* woken, or somebody takes the lock first, although the lock is freed     *)
(* under the mutex and notify_all called outside it.                       *)
NoLostWakeup ==
  \A t \in Thread :
    (pc[t] = "wait" /\ ~isLocked) ~> (pc[t] # "wait" \/ isLocked)
=============================================================================
