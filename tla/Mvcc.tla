-------------------------------- MODULE Mvcc --------------------------------
(***************************************************************************)
(* The multi-version store of ANDB and the sessions that work on it: the   *)
(* interpreter loop (daemon/parser/interpreter.cpp), the DML statements    *)
(* (daemon/parser/statement.cpp), Transaction (daemon/storage/             *)
(* transaction.cpp) and the row operations of Table (daemon/storage/       *)
(* table.cpp), over the update lock of module UpdateLock.                  *)
(*                                                                         *)
(* Every connection has a thread of its own and nothing but the update     *)
(* lock orders the threads.  A step of a session here is the code between  *)
(* two accesses to what the sessions share: one evaluation of a WHERE      *)
(* clause, one taking of the lock, one read of the mark a commit left, one *)
(* row version marked or appended, one log record.                         *)
(*                                                                         *)
(* Abstractions.  A row is its primary key and the two transactions that   *)
(* delimit it.  A WHERE clause is the set of keys it selects.  One         *)
(* evaluation of it is one step.  The rows a statement works on are taken  *)
(* in any order.  The index finds every stored version of a key.           *)
(***************************************************************************)
EXTENDS Naturals, Sequences, FiniteSets, Visibility

CONSTANTS
  Client,         \* the connections
  Key,            \* primary keys
  MaxTx,          \* bound: transaction numbers are 1..MaxTx
  MaxRow,         \* bound: row versions the table may hold
  Workload,       \* the statements and faults that may occur
  Autocommit,     \* may statements run outside BEGIN ... COMMIT?
  Disciplined,    \* do clients commit only transactions that hold the lock?
  Seed            \* keys of the rows that transaction 1 inserted

Feature == {"SELECT", "INSERT", "DELETE", "UPDATE", "MOVE", "BADLITERAL",
            "FAIL", "ROLLBACK", "CRASH"}

ASSUME MvccAssumption ==
  /\ MaxTx \in Nat \ {0}
  /\ MaxRow \in Nat
  /\ Workload \subseteq Feature
  /\ Autocommit \in BOOLEAN /\ Disciplined \in BOOLEAN
  /\ Seed \in Seq(Key)
  /\ \A i, j \in DOMAIN Seed : Seed[i] = Seed[j] => i = j

VARIABLES
  (* on disk *)
  txlog,          \* the transaction log: number -> status
  rows,           \* the stored row versions, in the order they were written
  nextId,         \* TRANSACTION_ID, kept in the metadata file
  (* in the memory all threads share *)
  active,         \* active_transactions
  holder, stale,  \* the update lock
  (* per session, in the interpreter loop and the statement it executes *)
  tx,             \* tx, 0 for none
  running,        \* isTransactionRunning
  isUpdate,       \* isUpdate
  pc,             \* where in the statement the session is
  stmt,           \* the statement under execution
  todo,           \* rows of data (statement.cpp) not yet worked on
  target          \* rows of rowsToDelete; the row an UPDATE replaces

disk == <<txlog, rows, nextId>>
lock == <<holder, stale>>
session == <<tx, running, isUpdate, pc, stmt, todo, target>>
vars == <<disk, active, lock, session>>

L == INSTANCE UpdateLock

TxId == 1..MaxTx
Row == [key : Key, ins : TxId, del : 0..MaxTx]

(***************************************************************************)
(* A statement: its kind, the keys its WHERE clause selects, the key its   *)
(* new row has (empty: that of the row it replaces) and whether the        *)
(* literals of the new row parse as the types of the columns.              *)
(***************************************************************************)
Statement == [kind : {"SELECT", "INSERT", "DELETE", "UPDATE", "NONE"},
              where : SUBSET Key, to : SUBSET Key, valid : BOOLEAN]

NoStmt == [kind |-> "NONE", where |-> {}, to |-> {}, valid |-> FALSE]

Issued == {s \in Statement :
             /\ s.kind \in Workload
             /\ s.valid \/ (s.kind \in {"INSERT", "UPDATE"} /\ "BADLITERAL" \in Workload)
             /\ s.kind = "INSERT" <=> s.where = {}
             /\ IF s.kind = "INSERT" \/ (s.kind = "UPDATE" /\ "MOVE" \in Workload /\ s.to # {})
                THEN \E k \in Key : s.to = {k}
                ELSE s.to = {}}

Pc == {"idle", "query", "lookup", "mark", "lock", "flag", "retry", "replace",
       "check", "put", "commit", "log", "unlock"}

-----------------------------------------------------------------------------
(* Reading and writing row versions. *)

(* Mutant: rows are not filtered by IsVisible on their inserter.           *)
VisibleUncommitted(t, keys) ==
  {i \in DOMAIN rows : /\ rows[i].key \in keys
                       /\ rows[i].del \notin {t} \cup {u \in TxId : txlog[u] = "COMMITED"}}

(* Table::RangeQuery: the stored versions of the keys that t may see.      *)
Visible(t, keys) ==
  {i \in DOMAIN rows : /\ rows[i].key \in keys
                       /\ IsVisible(rows[i].ins, rows[i].del, t, txlog, active)}

(* deleteData: overwrite the deleter of a version, whoever it was.         *)
Mark(i, t) == rows' = [rows EXCEPT ![i].del = t]

(* Mutant: the two transaction fields of the block header swapped.         *)
Append1Swapped(k, t) == rows' = Append(rows, [key |-> k, ins |-> 0, del |-> t])

(* writeData and the index insertion: a new version of k.                  *)
Append1(k, t) == rows' = Append(rows, [key |-> k, ins |-> t, del |-> 0])

-----------------------------------------------------------------------------
(* The interpreter loop. *)

Go(c, p) == pc' = [pc EXCEPT ![c] = p]

(* Transaction::Transaction: take a number, register it, log it.           *)
NewTransaction(c) ==
  /\ nextId <= MaxTx
  /\ nextId' = nextId + 1
  /\ active' = active \cup {nextId}
  /\ txlog' = [txlog EXCEPT ![nextId] = "IN_PROGRESS"]

(* BEGIN; refused while a transaction is running.                          *)
Begin(c) ==
  /\ pc[c] = "idle" /\ ~running[c]
  /\ NewTransaction(c)
  /\ tx' = [tx EXCEPT ![c] = nextId]
  /\ running' = [running EXCEPT ![c] = TRUE]
  /\ UNCHANGED <<rows, lock, isUpdate, pc, stmt, todo, target>>

(* The transaction a statement runs in: the running one, or its own.       *)
Enlist(c) ==
  IF running[c]
  THEN UNCHANGED <<txlog, nextId, active, tx>>
  ELSE /\ Autocommit
       /\ NewTransaction(c)
       /\ tx' = [tx EXCEPT ![c] = nextId]

(* A SELECT, INSERT, DELETE or UPDATE starts to execute.                   *)
Execute(c) ==
  /\ pc[c] = "idle"
  /\ \E s \in Issued :
       /\ Enlist(c)
       /\ stmt' = [stmt EXCEPT ![c] = s]
       /\ isUpdate' = [isUpdate EXCEPT ![c] = @ \/ s.kind = "UPDATE"]
       /\ Go(c, IF s.kind = "INSERT" THEN "check" ELSE "query")
  /\ UNCHANGED <<rows, lock, running, todo, target>>

(* A statement on a table that does not exist throws out of execute(): the *)
(* transaction made for it is dropped as it is, and isUpdate is kept.      *)
Fail(c) ==
  /\ "FAIL" \in Workload /\ pc[c] = "idle"
  /\ IF running[c]
     THEN UNCHANGED <<txlog, nextId, active>>
     ELSE Autocommit /\ NewTransaction(c)
  /\ \E update \in BOOLEAN : isUpdate' = [isUpdate EXCEPT ![c] = @ \/ update]
  /\ UNCHANGED <<rows, lock, tx, running, pc, stmt, todo, target>>

(* The end of execute(): an autocommit statement goes on to Commit.        *)
Finish(c) ==
  /\ Go(c, IF running[c] THEN "idle" ELSE "commit")
  /\ stmt' = [stmt EXCEPT ![c] = NoStmt]

(* The loop of a statement over its rows: rest is left, p its first step.  *)
Continue(c, rest, p) ==
  /\ todo' = [todo EXCEPT ![c] = rest]
  /\ IF rest = {} THEN Finish(c) ELSE Go(c, p) /\ UNCHANGED stmt

-----------------------------------------------------------------------------
(* The statements, after their first step. *)

(* Evaluate the WHERE clause.                                              *)
Query(c) ==
  /\ pc[c] = "query"
  /\ LET data == Visible(tx[c], stmt[c].where)
     IN  Continue(c, IF stmt[c].kind = "SELECT" THEN {} ELSE data,
                  IF stmt[c].kind = "DELETE" THEN "lookup" ELSE "lock")
  /\ UNCHANGED <<disk, active, lock, tx, running, isUpdate, target>>

(* Transaction::Delete queries again for the key of the next row ...       *)
Lookup(c) ==
  /\ pc[c] = "lookup"
  /\ \E i \in todo[c] :
       LET found == Visible(tx[c], {rows[i].key})
       IN  /\ target' = [target EXCEPT ![c] = found]
           /\ IF found = {}
              THEN Continue(c, todo[c] \ {i}, "lookup")
              ELSE /\ todo' = [todo EXCEPT ![c] = @ \ {i}]
                   /\ Go(c, "mark") /\ UNCHANGED stmt
  /\ UNCHANGED <<disk, active, lock, tx, running, isUpdate>>

(* ... and marks every version it finds, without a lock.                   *)
MarkDeleted(c) ==
  /\ pc[c] = "mark"
  /\ \E i \in target[c] :
       /\ Mark(i, tx[c])
       /\ target' = [target EXCEPT ![c] = @ \ {i}]
       /\ IF target[c] = {i}
          THEN Continue(c, todo[c], "lookup")
          ELSE UNCHANGED <<todo, pc, stmt>>
  /\ UNCHANGED <<txlog, nextId, active, lock, tx, running, isUpdate>>

(* Mutant: lock() returns without waiting.                                 *)
LockFree(c) ==
  /\ pc[c] = "lock"
  /\ holder' = tx[c]
  /\ Go(c, "flag")
  /\ UNCHANGED <<disk, active, stale, tx, running, isUpdate, stmt, todo, target>>

(* Transaction::Update: take the lock ...                                  *)
Lock(c) ==
  /\ pc[c] = "lock"
  /\ L!Acquire(tx[c])
  /\ Go(c, "flag")
  /\ UNCHANGED <<disk, active, tx, running, isUpdate, stmt, todo, target>>

(* Mutant: the mark is not looked at.                                      *)
FlagIgnored(c) ==
  /\ pc[c] = "flag"
  /\ Go(c, "replace")
  /\ UNCHANGED <<disk, active, lock, tx, running, isUpdate, stmt, todo, target>>

(* ... then read the mark of the last commit, and throw if it is up.       *)
Flag(c) ==
  /\ pc[c] = "flag"
  /\ Go(c, IF stale THEN "retry" ELSE "replace")
  /\ UNCHANGED <<disk, active, lock, tx, running, isUpdate, stmt, todo, target>>

(* Mutant: the handler goes on with the rows of the old evaluation.        *)
RetryOldRows(c) ==
  /\ pc[c] = "retry"
  /\ L!Consume
  /\ Go(c, "replace")
  /\ UNCHANGED <<disk, active, tx, running, isUpdate, stmt, todo, target>>

(* The handler of that exception: lower the mark and evaluate again.       *)
Retry(c) ==
  /\ pc[c] = "retry"
  /\ L!Consume
  /\ Go(c, "query")
  /\ todo' = [todo EXCEPT ![c] = {}]
  /\ UNCHANGED <<disk, active, tx, running, isUpdate, stmt, target>>

(* Table::Update, first half: delete the version the query returned.       *)
Replace(c) ==
  /\ pc[c] = "replace"
  /\ \E i \in todo[c] :
       /\ Mark(i, tx[c])
       /\ todo' = [todo EXCEPT ![c] = @ \ {i}]
       /\ target' = [target EXCEPT ![c] = {i}]
  /\ Go(c, "check")
  /\ UNCHANGED <<txlog, nextId, active, lock, tx, running, isUpdate, stmt>>

(* The key of the row Table::Insert is to add, as a singleton.             *)
NewKey(c) == IF stmt[c].to # {} THEN stmt[c].to
                                ELSE {rows[i].key : i \in target[c]}

(* Mutant: an INSERT does not look for a row of the same key.              *)
CheckLiteralsOnly(c) ==
  /\ pc[c] = "check"
  /\ IF stmt[c].valid
     THEN Go(c, "put") /\ UNCHANGED <<todo, stmt, target>>
     ELSE /\ Continue(c, todo[c], "lock")
          /\ target' = [target EXCEPT ![c] = {}]
  /\ UNCHANGED <<disk, active, lock, tx, running, isUpdate>>

(* Table::Insert: refused, silently, when the transaction sees a row of    *)
(* the same key or when a literal does not parse.                          *)
Check(c) ==
  /\ pc[c] = "check"
  /\ IF Visible(tx[c], NewKey(c)) = {} /\ stmt[c].valid
     THEN Go(c, "put") /\ UNCHANGED <<todo, stmt, target>>
     ELSE /\ Continue(c, todo[c], "lock")
          /\ target' = [target EXCEPT ![c] = {}]
  /\ UNCHANGED <<disk, active, lock, tx, running, isUpdate>>

Put(c) ==
  /\ pc[c] = "put"
  /\ Len(rows) < MaxRow
  /\ \E k \in NewKey(c) : Append1(k, tx[c])
  /\ Continue(c, todo[c], "lock")
  /\ target' = [target EXCEPT ![c] = {}]
  /\ UNCHANGED <<txlog, nextId, active, lock, tx, running, isUpdate>>

-----------------------------------------------------------------------------
(* The end of a transaction. *)

(* Transaction::Commit, for COMMIT or for an autocommit statement: leave   *)
(* the active transactions, ...                                            *)
Commit(c) ==
  /\ \/ pc[c] = "commit"
     \/ pc[c] = "idle" /\ running[c] /\ (Disciplined => holder = tx[c])
  /\ active' = active \ {tx[c]}
  /\ Go(c, "log")
  /\ UNCHANGED <<disk, lock, tx, running, isUpdate, stmt, todo, target>>

(* ... log the outcome, ...                                                *)
LogCommit(c) ==
  /\ pc[c] = "log"
  /\ txlog' = [txlog EXCEPT ![tx[c]] = "COMMITED"]
  /\ Go(c, "unlock")
  /\ UNCHANGED <<rows, nextId, active, lock, tx, running, isUpdate, stmt, todo, target>>

(* The interpreter forgets the transaction.                                *)
Forget(c) ==
  /\ tx' = [tx EXCEPT ![c] = 0]
  /\ running' = [running EXCEPT ![c] = FALSE]
  /\ isUpdate' = [isUpdate EXCEPT ![c] = FALSE]

(* Mutant: COMMIT does not say that rows were updated either.              *)
UnlockSilent(c) ==
  /\ pc[c] = "unlock"
  /\ L!Release(FALSE)
  /\ Go(c, "idle") /\ Forget(c)
  /\ UNCHANGED <<disk, active, stmt, todo, target>>

(* ... and unlock, held or not.  Only COMMIT says that rows were updated:  *)
(* an autocommit statement calls Commit(false).                            *)
Unlock(c) ==
  /\ pc[c] = "unlock"
  /\ L!Release(running[c] /\ isUpdate[c])
  /\ Go(c, "idle") /\ Forget(c)
  /\ UNCHANGED <<disk, active, stmt, todo, target>>

(* ROLLBACK: Transaction::Rollback writes the log and nothing else.        *)
Rollback(c) ==
  /\ "ROLLBACK" \in Workload
  /\ pc[c] = "idle" /\ running[c]
  /\ txlog' = [txlog EXCEPT ![tx[c]] = "ABORTED"]
  /\ Forget(c)
  /\ UNCHANGED <<rows, nextId, active, lock, pc, stmt, todo, target>>

(* Mutant: the next number was not written to the metadata file.           *)
CrashForgetsId ==
  /\ "CRASH" \in Workload
  /\ active' = {} /\ holder' = 0 /\ stale' = FALSE
  /\ tx' = [c \in Client |-> 0]
  /\ running' = [c \in Client |-> FALSE]
  /\ isUpdate' = [c \in Client |-> FALSE]
  /\ pc' = [c \in Client |-> "idle"]
  /\ stmt' = [c \in Client |-> NoStmt]
  /\ todo' = [c \in Client |-> {}]
  /\ target' = [c \in Client |-> {}]
  /\ nextId' = 2 /\ UNCHANGED <<txlog, rows>>

(* The daemon dies and starts again; the clients connect anew.             *)
Crash ==
  /\ "CRASH" \in Workload
  /\ active' = {} /\ holder' = 0 /\ stale' = FALSE
  /\ tx' = [c \in Client |-> 0]
  /\ running' = [c \in Client |-> FALSE]
  /\ isUpdate' = [c \in Client |-> FALSE]
  /\ pc' = [c \in Client |-> "idle"]
  /\ stmt' = [c \in Client |-> NoStmt]
  /\ todo' = [c \in Client |-> {}]
  /\ target' = [c \in Client |-> {}]
  /\ UNCHANGED disk

-----------------------------------------------------------------------------
(* Transaction 1 has created the rows of Seed and committed.               *)
Init ==
  /\ txlog = [t \in TxId |-> IF t = 1 THEN "COMMITED" ELSE "NONE"]
  /\ rows = [i \in 1..Len(Seed) |-> [key |-> Seed[i], ins |-> 1, del |-> 0]]
  /\ nextId = 2
  /\ active = {}
  /\ L!LockInit
  /\ tx = [c \in Client |-> 0]
  /\ running = [c \in Client |-> FALSE]
  /\ isUpdate = [c \in Client |-> FALSE]
  /\ pc = [c \in Client |-> "idle"]
  /\ stmt = [c \in Client |-> NoStmt]
  /\ todo = [c \in Client |-> {}]
  /\ target = [c \in Client |-> {}]

Step(c) ==
  \/ Begin(c) \/ Execute(c) \/ Fail(c) \/ Query(c)
  \/ Lookup(c) \/ MarkDeleted(c)
  \/ Lock(c) \/ Flag(c) \/ Retry(c) \/ Replace(c)
  \/ Check(c) \/ Put(c)
  \/ Commit(c) \/ LogCommit(c) \/ Unlock(c) \/ Rollback(c)

Next == (\E c \in Client : Step(c)) \/ Crash

Spec == Init /\ [][Next]_vars

-----------------------------------------------------------------------------
(* Properties of every workload. *)

TypeOK ==
  /\ txlog \in [TxId -> Status]
  /\ rows \in Seq(Row)
  /\ nextId \in 1..(MaxTx + 1)
  /\ active \subseteq TxId
  /\ holder \in 0..MaxTx
  /\ stale \in BOOLEAN
  /\ tx \in [Client -> 0..MaxTx]
  /\ running \in [Client -> BOOLEAN]
  /\ isUpdate \in [Client -> BOOLEAN]
  /\ pc \in [Client -> Pc]
  /\ stmt \in [Client -> Statement]
  /\ todo \in [Client -> SUBSET (DOMAIN rows)]
  /\ target \in [Client -> SUBSET (DOMAIN rows)]

(* The chain of assignments in IsVisible agrees with read committed for    *)
(* every transaction that is running and every row version that is stored, *)
(* whatever the interleaving, also after rollbacks, abandoned transactions *)
(* and restarts, when a number in progress is no longer active.  The two   *)
(* differ on states the engine must therefore never reach.                 *)
VisibilityIsReadCommitted ==
  \A c \in Client : tx[c] # 0 =>
    \A i \in DOMAIN rows :
      IsVisible(rows[i].ins, rows[i].del, tx[c], txlog, active)
        <=> ReadCommitted(rows[i].ins, rows[i].del, tx[c], txlog)

(* A version whose inserting transaction has not committed is deleted by   *)
(* that transaction or by none.  deleteData overwrites the deleter without *)
(* looking, and DELETE takes no lock: only what a query may return keeps   *)
(* other transactions away.                                                *)
UncommittedPrivate ==
  \A i \in DOMAIN rows :
    txlog[rows[i].ins] # "COMMITED" => rows[i].del \in {0, rows[i].ins}

(* What is left of the primary key without any locking: a transaction      *)
(* never owns two versions of one key that nobody has marked.  Uniqueness  *)
(* is one query before the insertion, so two transactions may well commit  *)
(* the same key; one transaction may not, even if it moves keys or has its *)
(* WHERE clause evaluated again halfway through an UPDATE.                 *)
OneOwnVersion ==
  \A i, j \in DOMAIN rows :
    /\ rows[i].key = rows[j].key /\ rows[i].ins = rows[j].ins
    /\ rows[i].del = 0 /\ rows[j].del = 0
    => i = j

(* The outcome of a transaction is final: no commit, rollback or restart   *)
(* changes it, and its number is not given to another transaction.         *)
OutcomeFinal ==
  [][\A t \in TxId : txlog[t] \in {"COMMITED", "ABORTED"}
                        => txlog'[t] = txlog[t]]_vars

-----------------------------------------------------------------------------
(* Properties of clients that update inside BEGIN ... COMMIT only and      *)
(* commit only what took the lock (Disciplined, no Autocommit, no DELETE,  *)
(* INSERT, ROLLBACK, failing statement or literal that does not parse).    *)

(* Everything uncommitted in the table belongs to the holder of the lock.  *)
UpdateExclusive ==
  \A i \in DOMAIN rows : \A t \in {rows[i].ins, rows[i].del} :
    t # 0 /\ txlog[t] = "IN_PROGRESS" => t = holder

(* A running transaction sees exactly one version of every row, except     *)
(* that between the two halves of its own Table::Update it sees none of    *)
(* the row it replaces.                                                    *)
OneVersion ==
  \A c \in Client : tx[c] # 0 =>
    \A k \in Key :
      Cardinality(Visible(tx[c], {k})) =
        IF pc[c] \in {"check", "put"} /\ k \in NewKey(c) THEN 0 ELSE 1

(* The deletion mark of a transaction that is running or has committed is  *)
(* never overwritten by another one.                                       *)
MarksKept ==
  [][\A i \in DOMAIN rows :
       rows[i].del # 0 /\ txlog[rows[i].del] \in {"IN_PROGRESS", "COMMITED"}
         => rows'[i].del = rows[i].del]_vars

(* No update is lost: an UPDATE that has marked the old version of a row   *)
(* and whose literals parse also writes the new one.                       *)
NoLostUpdate ==
  [][\A c \in Client :
       pc[c] = "check" /\ stmt[c].kind = "UPDATE" /\ stmt[c].valid /\ stmt[c].to = {}
         => pc'[c] \in {"check", "put"}]_vars

(* The lock is never taken for a transaction that no session runs.         *)
HolderIsRunning == holder # 0 => \E c \in Client : tx[c] = holder

=============================================================================
