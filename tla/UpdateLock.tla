----------------------------- MODULE UpdateLock -----------------------------
(***************************************************************************)
(* What the one update lock of the daemon (orderedLock of globals.hpp)     *)
(* promises to the engine, without its mutex, its condition variable or    *)
(* its two fields.  holder is the transaction the lock is taken for, 0     *)
(* when it is free; stale is wasPrevTransactionId, the mark a committing   *)
(* updater leaves so that the next one evaluates its WHERE clause again.   *)
(*                                                                         *)
(* Nothing ties Release to the holder: unlock() is called by every commit. *)
(***************************************************************************)
EXTENDS Naturals

CONSTANT MaxTx                 \* bound: the largest transaction number

VARIABLES holder, stale

lockVars == <<holder, stale>>

LockInit == holder = 0 /\ stale = FALSE

(* lock(t): at once for the transaction that has it, else when it is free. *)
Acquire(t) == /\ holder \in {0, t}
              /\ holder' = t
              /\ UNCHANGED stale

(* unlock(isCommit).                                                       *)
Release(isCommit) == /\ holder' = 0
                     /\ stale' = isCommit

(* UpdateStatement::execute lowers the mark before it evaluates again.     *)
Consume == /\ stale' = FALSE
           /\ UNCHANGED holder

LockNext == \/ \E t \in 1..MaxTx : Acquire(t)
            \/ \E b \in BOOLEAN : Release(b)
            \/ Consume

LockSpec == LockInit /\ [][LockNext]_lockVars
=============================================================================
