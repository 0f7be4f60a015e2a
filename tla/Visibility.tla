----------------------------- MODULE Visibility -----------------------------
(***************************************************************************)
(* Which row versions a transaction sees: Database::IsVisible of           *)
(* daemon/storage/database.cpp over the transaction log and the shared     *)
(* vector active_transactions.  A row version carries the transaction that *)
(* inserted it (tIns) and the one that deleted it (tDel, 0 for none); the  *)
(* log is a function from transaction numbers to statuses.  The operators  *)
(* are pure: the state they read is passed to them.                        *)
(***************************************************************************)
EXTENDS Naturals

(* The statuses UpdateTransactionLog writes.  "NONE" stands for a number   *)
(* no transaction has taken yet, whose slot of the log was never written.  *)
Outcome == {"IN_PROGRESS", "COMMITED", "ABORTED"}
Status == Outcome \cup {"NONE"}

(* ReadTransactionLog: number 0 (not deleted) reads as aborted.            *)
ReadTransactionLog(log, id) == IF id = 0 THEN "ABORTED" ELSE log[id]

(* Mutant: the last two tests swapped, so that an insertion outranks a     *)
(* deletion.                                                               *)
VerdictSwapped(tIns, tDel, t, insActive, delActive, del, ins) ==
  /\ tDel # t
  /\ ins = "COMMITED" \/ (tIns = t /\ del # "COMMITED")

(* Mutant: the inserter's status is not compared with IN_PROGRESS.         *)
VerdictHasty(tIns, tDel, t, insActive, delActive, del, ins) ==
  /\ tDel # t
  /\ tIns = t \/ ~insActive
  /\ ins # "ABORTED" /\ del # "COMMITED"

(***************************************************************************)
(* IsVisible as a function of what it reads: whether the two transactions  *)
(* are among the active ones, and their statuses.  The function assigns    *)
(* isVisible several times and the last assignment wins.  Each line below  *)
(* is one of its tests, in the order of the code; the early return on      *)
(* tDel = t is the first conjunct of the result.                           *)
(***************************************************************************)
Verdict(tIns, tDel, t, insActive, delActive, del, ins) ==
  LET own       == tIns = t \/ (~insActive /\ ins # "IN_PROGRESS")
      unmarked  == own /\ (delActive \/ tDel = 0)
      restored  == unmarked \/ (del = "ABORTED" /\ tDel # 0)
      withdrawn == restored /\ ins # "ABORTED"
      inserted  == withdrawn \/ ins = "COMMITED"
  IN  /\ tDel # t
      /\ inserted /\ del # "COMMITED"

(* Mutant: the wrong verdict, on an instant's log.                         *)
IsVisibleSwapped(tIns, tDel, t, log, act) ==
  VerdictSwapped(tIns, tDel, t, tIns \in act, tDel \in act,
                 ReadTransactionLog(log, tDel), ReadTransactionLog(log, tIns))

(* The function when nothing changes between its reads.                    *)
IsVisible(tIns, tDel, t, log, act) ==
  Verdict(tIns, tDel, t, tIns \in act, tDel \in act,
          ReadTransactionLog(log, tDel), ReadTransactionLog(log, tIns))

(***************************************************************************)
(* What those tests amount to, if the engine keeps its row versions in     *)
(* order: a version is visible when its insertion is the reader's own or   *)
(* committed, and its deletion neither.  Read committed, not a snapshot.   *)
(***************************************************************************)
ReadCommitted(tIns, tDel, t, log) ==
  /\ tIns = t \/ log[tIns] = "COMMITED"
  /\ tDel # 0 => tDel # t /\ log[tDel] # "COMMITED"
=============================================================================
