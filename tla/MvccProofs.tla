----------------------------- MODULE MvccProofs -----------------------------
(***************************************************************************)
(* What holds of Mvcc for every set of connections and keys, every bound   *)
(* and every workload: the types, the agreement of IsVisible with read     *)
(* committed, the privacy of uncommitted versions, the uniqueness of a     *)
(* transaction's own versions and the finality of outcomes; and, in the    *)
(* second half, what the update lock is good for.                          *)
(*                                                                         *)
(* None of the invariants is inductive by itself.  Privacy needs to know   *)
(* which rows a session holds on to between its query and its write; what  *)
(* a query returns needs the meaning of IsVisible, which needs privacy;    *)
(* and all of it needs that a transaction number belongs to one session,   *)
(* whose slot in the log is in progress until its commit.                  *)
(***************************************************************************)
EXTENDS Mvcc, TLAPS, FiniteSetTheorems

(* The log has a record of exactly the numbers that were handed out.       *)
Numbers == \A t \in TxId : txlog[t] = "NONE" <=> t >= nextId

(* A session at work has a transaction, in progress until it is logged.    *)
Enlisted(c) ==
  /\ pc[c] # "idle" \/ running[c] => tx[c] # 0
  /\ tx[c] # 0 => txlog[tx[c]] = IF pc[c] = "unlock" THEN "COMMITED" ELSE "IN_PROGRESS"

(* Two sessions never have the same transaction.                           *)
Distinct == \A c, d \in Client : tx[c] = tx[d] /\ tx[c] # 0 => c = d

(* The rows a session holds on to, and when: every one of them was         *)
(* inserted by the session itself or by a committed transaction.           *)
Holding(c) ==
  /\ pc[c] \in {"idle", "query", "commit", "log", "unlock"} => todo[c] = {}
  /\ pc[c] \notin {"mark", "check", "put"} => target[c] = {}
  /\ \A i \in todo[c] \cup target[c] :
       rows[i].ins = tx[c] \/ txlog[rows[i].ins] = "COMMITED"

(* Versions name transactions that have been given out.                    *)
RowsLogged ==
  \A i \in DOMAIN rows :
    /\ txlog[rows[i].ins] # "NONE"
    /\ rows[i].del # 0 => txlog[rows[i].del] # "NONE"

(* A session that is about to append has no unmarked version of the key.   *)
RoomToPut(c) ==
  pc[c] = "put" =>
    \A i \in DOMAIN rows :
      rows[i].key \in NewKey(c) /\ rows[i].ins = tx[c] => rows[i].del # 0

Sessions == \A c \in Client : Enlisted(c) /\ Holding(c) /\ RoomToPut(c)

IInv == /\ TypeOK /\ Numbers /\ Distinct /\ RowsLogged /\ Sessions
        /\ UncommittedPrivate /\ OneOwnVersion
-----------------------------------------------------------------------------
(* Lemmas on the operators that write rows and on the visibility test. *)

(* Marking a version changes its deleter and nothing else.                 *)
LEMMA MarkLemma ==
  ASSUME rows \in Seq(Row), NEW i \in DOMAIN rows, NEW t \in TxId, Mark(i, t)
  PROVE  /\ rows' \in Seq(Row)
         /\ DOMAIN rows' = DOMAIN rows
         /\ \A j \in DOMAIN rows :
              /\ rows'[j].key = rows[j].key /\ rows'[j].ins = rows[j].ins
              /\ rows'[j].del = IF j = i THEN t ELSE rows[j].del
<1>1. rows[i] \in Row
  OBVIOUS
<1>2. [rows[i] EXCEPT !.del = t] \in Row
  BY <1>1 DEF Row, TxId
<1>3. rows' = [rows EXCEPT ![i] = [rows[i] EXCEPT !.del = t]]
  BY DEF Mark
<1>4. rows' \in Seq(Row) /\ DOMAIN rows' = DOMAIN rows
  BY <1>2, <1>3
<1>5. ASSUME NEW j \in DOMAIN rows
      PROVE  /\ rows'[j].key = rows[j].key /\ rows'[j].ins = rows[j].ins
             /\ rows'[j].del = IF j = i THEN t ELSE rows[j].del
  <2>1. rows[j] \in Row
    OBVIOUS
  <2>2. CASE j = i
    BY <1>3, <2>1, <2>2 DEF Row
  <2>3. CASE j # i
    BY <1>3, <2>3
  <2> QED
    BY <2>2, <2>3
<1> QED
  BY <1>4, <1>5

(* Appending adds one unmarked version and keeps the others.               *)
LEMMA AppendLemma ==
  ASSUME rows \in Seq(Row), NEW k \in Key, NEW t \in TxId, Append1(k, t)
  PROVE  /\ rows' \in Seq(Row)
         /\ DOMAIN rows \subseteq DOMAIN rows'
         /\ \A j \in DOMAIN rows : rows'[j] = rows[j]
         /\ \A j \in DOMAIN rows' \ DOMAIN rows :
              j = Len(rows) + 1 /\ rows'[j] = [key |-> k, ins |-> t, del |-> 0]
<1> DEFINE r == [key |-> k, ins |-> t, del |-> 0]
<1>1. r \in Row
  BY MvccAssumption DEF Row, TxId
<1>2. rows' = Append(rows, r)
  BY DEF Append1
<1> HIDE DEF r
<1> QED
  BY <1>1, <1>2 DEF r

(* The meaning of IsVisible, where the engine keeps uncommitted versions   *)
(* private.                                                                *)
LEMMA VisibleLemma ==
  ASSUME TypeOK, RowsLogged, UncommittedPrivate,
         NEW t \in TxId, txlog[t] \in {"IN_PROGRESS", "COMMITED"},
         NEW i \in DOMAIN rows
  PROVE  IsVisible(rows[i].ins, rows[i].del, t, txlog, active)
           <=> ReadCommitted(rows[i].ins, rows[i].del, t, txlog)
<1> DEFINE ins == rows[i].ins
           del == rows[i].del
<1>0. rows[i] \in Row
  BY DEF TypeOK
<1>1. t # 0 /\ ins \in TxId /\ ins # 0 /\ del \in 0..MaxTx /\ (del # 0 => del \in TxId)
  BY <1>0, MvccAssumption DEF Row, TxId
<1>2. /\ txlog[ins] \in {"IN_PROGRESS", "COMMITED", "ABORTED"}
      /\ txlog[ins] # "COMMITED" => del \in {0, ins}
  BY <1>1 DEF TypeOK, RowsLogged, UncommittedPrivate, Status, Outcome
<1> HIDE DEF ins, del
<1>3. IsVisible(ins, del, t, txlog, active) <=> ReadCommitted(ins, del, t, txlog)
  BY <1>1, <1>2 DEF IsVisible, Verdict, ReadCommitted, ReadTransactionLog
<1> QED
  BY <1>3 DEF ins, del

-----------------------------------------------------------------------------
LEMMA InitIInv == Init => IInv
<1> SUFFICES ASSUME Init PROVE IInv
  OBVIOUS
<1>1. /\ rows \in Seq(Row)
      /\ \A i \in DOMAIN rows : rows[i].key = Seed[i] /\ rows[i].ins = 1 /\ rows[i].del = 0
  <2>1. Seed \in Seq(Key) /\ Len(Seed) \in Nat
    BY MvccAssumption
  <2>2. \A i \in 1..Len(Seed) : [key |-> Seed[i], ins |-> 1, del |-> 0] \in Row
    BY <2>1, MvccAssumption DEF Row, TxId
  <2> QED
    BY <2>1, <2>2 DEF Init
<1>2. TypeOK
  <2>1. NoStmt \in Statement
    BY DEF NoStmt, Statement
  <2>2. txlog \in [TxId -> Status] /\ nextId \in 1..(MaxTx + 1) /\ holder \in 0..MaxTx
    BY MvccAssumption DEF Init, TxId, Status, Outcome, L!LockInit
  <2> QED
    BY <1>1, <2>1, <2>2, MvccAssumption DEF Init, TypeOK, Pc, L!LockInit
<1>3. Numbers
  BY MvccAssumption DEF Init, Numbers, TxId
<1>4. Distinct
  BY DEF Init, Distinct
<1>5. RowsLogged /\ UncommittedPrivate
  BY <1>1, MvccAssumption DEF Init, RowsLogged, UncommittedPrivate, TxId
<1>6. Sessions
  BY DEF Init, Sessions, Enlisted, Holding, RoomToPut
<1>7. OneOwnVersion
  BY <1>1, MvccAssumption DEF Init, OneOwnVersion
<1> QED
  BY <1>2, <1>3, <1>4, <1>5, <1>6, <1>7 DEF IInv

-----------------------------------------------------------------------------
(* What a step of one session leaves alone. *)

(* Session d takes no part in the step ...                                 *)
SameSession(d) ==
  /\ tx'[d] = tx[d] /\ running'[d] = running[d] /\ pc'[d] = pc[d]
  /\ stmt'[d] = stmt[d] /\ todo'[d] = todo[d] /\ target'[d] = target[d]

(* ... which keeps every version of a row, takes no mark away, inserts     *)
(* nothing for d's transaction and changes neither its status nor that of  *)
(* a committed one.                                                        *)
DiskGrows(t) ==
  /\ DOMAIN rows \subseteq DOMAIN rows'
  /\ \A i \in DOMAIN rows :
       /\ rows'[i].key = rows[i].key /\ rows'[i].ins = rows[i].ins
       /\ rows[i].del # 0 => rows'[i].del # 0
  /\ \A i \in DOMAIN rows' \ DOMAIN rows : rows'[i].ins # t
  /\ \A u \in TxId : u = t \/ txlog[u] = "COMMITED" => txlog'[u] = txlog[u]

LEMMA FrameLemma ==
  ASSUME IInv, NEW d \in Client, SameSession(d), DiskGrows(tx[d])
  PROVE  Enlisted(d)' /\ Holding(d)' /\ RoomToPut(d)'
<1>1. /\ tx[d] # 0 => tx[d] \in TxId
      /\ todo[d] \subseteq DOMAIN rows /\ target[d] \subseteq DOMAIN rows
      /\ \A i \in DOMAIN rows : rows[i].ins \in TxId
  <2>1. \A i \in DOMAIN rows : rows[i] \in Row
    BY DEF IInv, TypeOK
  <2> QED
    BY <2>1, MvccAssumption DEF IInv, TypeOK, Row, TxId
<1>2. Enlisted(d) /\ Holding(d) /\ RoomToPut(d)
  BY DEF IInv, Sessions
<1>3. Enlisted(d)'
  BY <1>1, <1>2 DEF Enlisted, SameSession, DiskGrows
<1>4. Holding(d)'
  BY <1>1, <1>2 DEF Holding, SameSession, DiskGrows
<1>5. RoomToPut(d)'
  <2>1. \A i \in target[d] : rows'[i].key = rows[i].key
    BY <1>1 DEF DiskGrows
  <2>2. {rows'[i].key : i \in target'[d]} = {rows[i].key : i \in target[d]}
    BY <2>1 DEF SameSession
  <2>3. NewKey(d)' = NewKey(d)
    BY <2>2 DEF NewKey, SameSession
  <2> QED
    BY <1>1, <1>2, <2>3 DEF RoomToPut, SameSession, DiskGrows
<1> QED
  BY <1>3, <1>4, <1>5

(* A step that writes nothing to the disk keeps what is said of the disk.  *)
LEMMA SameDiskLemma ==
  ASSUME IInv, UNCHANGED disk
  PROVE  /\ Numbers' /\ RowsLogged' /\ UncommittedPrivate' /\ OneOwnVersion'
         /\ \A t \in 0..MaxTx : DiskGrows(t)
  BY DEF IInv, disk, Numbers, RowsLogged, UncommittedPrivate, OneOwnVersion, DiskGrows

-----------------------------------------------------------------------------
(* One lemma for each action. *)

(* The transaction of a session that executes a statement.                 *)
LEMMA OwnTxLemma ==
  ASSUME IInv, NEW c \in Client, pc[c] # "idle" \/ running[c]
  PROVE  /\ tx[c] \in TxId /\ tx[c] # 0
         /\ txlog[tx[c]] = IF pc[c] = "unlock" THEN "COMMITED" ELSE "IN_PROGRESS"
  BY MvccAssumption DEF IInv, TypeOK, Sessions, Enlisted, TxId

(* What a query returns: versions of the session's own or of committed     *)
(* transactions, and among them its own unmarked ones.                     *)
LEMMA QueryLemma ==
  ASSUME IInv, NEW c \in Client, pc[c] # "idle", NEW keys
  PROVE  /\ Visible(tx[c], keys) \subseteq DOMAIN rows
         /\ \A i \in Visible(tx[c], keys) :
              rows[i].ins = tx[c] \/ txlog[rows[i].ins] = "COMMITED"
         /\ \A i \in DOMAIN rows :
              rows[i].key \in keys /\ rows[i].ins = tx[c] /\ rows[i].del = 0
                => i \in Visible(tx[c], keys)
<1>1. tx[c] \in TxId /\ txlog[tx[c]] \in {"IN_PROGRESS", "COMMITED"}
  BY OwnTxLemma
<1>2. \A i \in DOMAIN rows :
        IsVisible(rows[i].ins, rows[i].del, tx[c], txlog, active)
          <=> ReadCommitted(rows[i].ins, rows[i].del, tx[c], txlog)
  BY <1>1, VisibleLemma DEF IInv
<1> QED
  BY <1>2 DEF Visible, ReadCommitted

(* The end of a step of c that leaves the disk and its transaction alone.  *)
LEMMA SameDiskStep ==
  ASSUME IInv, NEW c \in Client, UNCHANGED <<disk, tx>>, TypeOK',
         \A d \in Client \ {c} : SameSession(d),
         Enlisted(c)', Holding(c)', RoomToPut(c)'
  PROVE  IInv'
<1>1. Numbers' /\ RowsLogged' /\ UncommittedPrivate' /\ OneOwnVersion'
  BY SameDiskLemma DEF disk
<1>2. Distinct'
  BY DEF IInv, Distinct
<1>3. Sessions'
  <2> SUFFICES ASSUME NEW d \in Client
               PROVE  Enlisted(d)' /\ Holding(d)' /\ RoomToPut(d)'
    BY DEF Sessions
  <2>1. DiskGrows(tx[d])
    BY SameDiskLemma DEF disk, IInv, TypeOK
  <2> QED
    BY <2>1, FrameLemma
<1> QED
  BY <1>1, <1>2, <1>3 DEF IInv

(* The loop over the rows of a statement: c alone moves, and it keeps the  *)
(* types.                                                                  *)
LEMMA ContinueLemma ==
  ASSUME TypeOK, NEW c \in Client, NEW rest \in SUBSET (DOMAIN rows),
         NEW p \in {"lock", "lookup"}, Continue(c, rest, p)
  PROVE  /\ pc' \in [Client -> Pc] /\ stmt' \in [Client -> Statement]
         /\ todo' \in [Client -> SUBSET (DOMAIN rows)]
         /\ todo'[c] = rest
         /\ pc'[c] = (IF rest = {} THEN IF running[c] THEN "idle" ELSE "commit" ELSE p)
         /\ \A d \in Client \ {c} :
              pc'[d] = pc[d] /\ stmt'[d] = stmt[d] /\ todo'[d] = todo[d]
<1>1. NoStmt \in Statement
  BY DEF NoStmt, Statement
<1> QED
  BY <1>1 DEF TypeOK, Continue, Finish, Go, Pc

-----------------------------------------------------------------------------
(* One lemma for each action.  First those that only read the disk. *)

LEMMA LockStep ==
  ASSUME IInv, NEW c \in Client, Lock(c)
  PROVE  IInv'
<1> USE DEF Lock
<1>1. TypeOK'
  BY DEF IInv, TypeOK, L!Acquire, Go, Pc, disk
<1>2. \A d \in Client \ {c} : SameSession(d)
  BY DEF IInv, TypeOK, SameSession, Go
<1>3. Enlisted(c)' /\ Holding(c)' /\ RoomToPut(c)'
  BY DEF IInv, TypeOK, Sessions, Enlisted, Holding, RoomToPut, Go, disk
<1> QED
  BY <1>1, <1>2, <1>3, SameDiskStep

LEMMA FlagStep ==
  ASSUME IInv, NEW c \in Client, Flag(c)
  PROVE  IInv'
<1> USE DEF Flag
<1>1. TypeOK'
  BY DEF IInv, TypeOK, Go, Pc, disk, lock
<1>2. \A d \in Client \ {c} : SameSession(d)
  BY DEF IInv, TypeOK, SameSession, Go
<1>3. Enlisted(c)' /\ Holding(c)' /\ RoomToPut(c)'
  BY DEF IInv, TypeOK, Sessions, Enlisted, Holding, RoomToPut, Go, disk
<1> QED
  BY <1>1, <1>2, <1>3, SameDiskStep

LEMMA RetryStep ==
  ASSUME IInv, NEW c \in Client, Retry(c)
  PROVE  IInv'
<1> USE DEF Retry
<1>1. TypeOK'
  BY DEF IInv, TypeOK, L!Consume, Go, Pc, disk
<1>2. \A d \in Client \ {c} : SameSession(d)
  BY DEF IInv, TypeOK, SameSession, Go
<1>3. Enlisted(c)' /\ Holding(c)' /\ RoomToPut(c)'
  BY DEF IInv, TypeOK, Sessions, Enlisted, Holding, RoomToPut, Go, disk
<1> QED
  BY <1>1, <1>2, <1>3, SameDiskStep

LEMMA QueryStep ==
  ASSUME IInv, NEW c \in Client, Query(c)
  PROVE  IInv'
<1> DEFINE data == IF stmt[c].kind = "SELECT" THEN {} ELSE Visible(tx[c], stmt[c].where)
           p == IF stmt[c].kind = "DELETE" THEN "lookup" ELSE "lock"
<1>1. /\ pc[c] = "query" /\ target[c] = {}
      /\ Continue(c, data, p)
      /\ UNCHANGED <<disk, active, lock, tx, running, isUpdate, target>>
  BY DEF Query, IInv, Sessions, Holding
<1>2. /\ data \subseteq DOMAIN rows
      /\ \A i \in data : rows[i].ins = tx[c] \/ txlog[rows[i].ins] = "COMMITED"
  BY <1>1, QueryLemma
<1> HIDE DEF data
<1>3. /\ pc' \in [Client -> Pc] /\ stmt' \in [Client -> Statement]
      /\ todo' \in [Client -> SUBSET (DOMAIN rows)]
      /\ todo'[c] = data
      /\ pc'[c] = (IF data = {} THEN IF running[c] THEN "idle" ELSE "commit" ELSE p)
      /\ \A d \in Client \ {c} :
           pc'[d] = pc[d] /\ stmt'[d] = stmt[d] /\ todo'[d] = todo[d]
  BY <1>1, <1>2, ContinueLemma DEF IInv
<1>4. TypeOK'
  BY <1>1, <1>3 DEF IInv, TypeOK, disk, lock
<1>5. \A d \in Client \ {c} : SameSession(d)
  BY <1>1, <1>3 DEF SameSession
<1>6. Enlisted(c)' /\ Holding(c)' /\ RoomToPut(c)'
  BY <1>1, <1>2, <1>3, OwnTxLemma DEF Enlisted, Holding, RoomToPut, disk
<1> QED
  BY <1>1, <1>4, <1>5, <1>6, SameDiskStep

LEMMA CommitStep ==
  ASSUME IInv, NEW c \in Client, Commit(c)
  PROVE  IInv'
<1> USE DEF Commit
<1>1. TypeOK'
  BY DEF IInv, TypeOK, Go, Pc, disk, lock
<1>2. \A d \in Client \ {c} : SameSession(d)
  BY DEF IInv, TypeOK, SameSession, Go
<1>3. Enlisted(c)' /\ Holding(c)' /\ RoomToPut(c)'
  BY DEF IInv, TypeOK, Sessions, Enlisted, Holding, RoomToPut, Go, disk
<1> QED
  BY <1>1, <1>2, <1>3, SameDiskStep

LEMMA LookupStep ==
  ASSUME IInv, NEW c \in Client, Lookup(c)
  PROVE  IInv'
<1>1. PICK i \in todo[c] :
        LET found == Visible(tx[c], {rows[i].key})
        IN  /\ target' = [target EXCEPT ![c] = found]
            /\ IF found = {}
               THEN Continue(c, todo[c] \ {i}, "lookup")
               ELSE /\ todo' = [todo EXCEPT ![c] = @ \ {i}]
                    /\ Go(c, "mark") /\ UNCHANGED stmt
  BY DEF Lookup
<1> DEFINE found == Visible(tx[c], {rows[i].key})
           rest == todo[c] \ {i}
<1>2. /\ pc[c] = "lookup"
      /\ UNCHANGED <<disk, active, lock, tx, running, isUpdate>>
  BY DEF Lookup
<1>3. /\ found \subseteq DOMAIN rows
      /\ \A j \in found : rows[j].ins = tx[c] \/ txlog[rows[j].ins] = "COMMITED"
  BY <1>2, QueryLemma
<1>4. /\ target' = [target EXCEPT ![c] = found]
      /\ found = {} => Continue(c, rest, "lookup")
      /\ found # {} => /\ todo' = [todo EXCEPT ![c] = rest]
                       /\ Go(c, "mark") /\ UNCHANGED stmt
  BY <1>1
<1>5. /\ rest \in SUBSET (DOMAIN rows)
      /\ \A j \in rest : rows[j].ins = tx[c] \/ txlog[rows[j].ins] = "COMMITED"
  BY DEF IInv, TypeOK, Sessions, Holding
<1> HIDE DEF found, rest
<1>6. CASE found = {}
  <2>1. /\ pc' \in [Client -> Pc] /\ stmt' \in [Client -> Statement]
        /\ todo' \in [Client -> SUBSET (DOMAIN rows)]
        /\ todo'[c] = rest
        /\ pc'[c] = (IF rest = {} THEN IF running[c] THEN "idle" ELSE "commit" ELSE "lookup")
        /\ \A d \in Client \ {c} :
             pc'[d] = pc[d] /\ stmt'[d] = stmt[d] /\ todo'[d] = todo[d]
    BY <1>4, <1>5, <1>6, ContinueLemma DEF IInv
  <2>2. TypeOK'
    BY <1>2, <1>3, <1>4, <2>1 DEF IInv, TypeOK, disk, lock
  <2>3. \A d \in Client \ {c} : SameSession(d)
    BY <1>2, <1>4, <2>1 DEF IInv, TypeOK, SameSession
  <2>4. Enlisted(c)' /\ Holding(c)' /\ RoomToPut(c)'
    BY <1>2, <1>4, <1>5, <1>6, <2>1, OwnTxLemma
       DEF IInv, TypeOK, Enlisted, Holding, RoomToPut, disk
  <2> QED
    BY <1>2, <2>2, <2>3, <2>4, SameDiskStep
<1>7. CASE found # {}
  <2>1. TypeOK'
    BY <1>2, <1>3, <1>4, <1>5, <1>7 DEF IInv, TypeOK, Go, Pc, disk, lock
  <2>2. \A d \in Client \ {c} : SameSession(d)
    BY <1>2, <1>4, <1>7 DEF IInv, TypeOK, Go, SameSession
  <2>3. Enlisted(c)' /\ Holding(c)' /\ RoomToPut(c)'
    BY <1>2, <1>3, <1>4, <1>5, <1>7, OwnTxLemma
       DEF IInv, TypeOK, Go, Enlisted, Holding, RoomToPut, disk
  <2> QED
    BY <1>2, <2>1, <2>2, <2>3, SameDiskStep
<1> QED
  BY <1>6, <1>7

LEMMA CheckStep ==
  ASSUME IInv, NEW c \in Client, Check(c)
  PROVE  IInv'
<1>1. /\ pc[c] = "check"
      /\ UNCHANGED <<disk, active, lock, tx, running, isUpdate>>
  BY DEF Check
<1>2. /\ todo[c] \in SUBSET (DOMAIN rows)
      /\ \A j \in todo[c] \cup target[c] :
           rows[j].ins = tx[c] \/ txlog[rows[j].ins] = "COMMITED"
  BY DEF IInv, TypeOK, Sessions, Holding
<1>3. CASE Visible(tx[c], NewKey(c)) = {} /\ stmt[c].valid
  <2>1. Go(c, "put") /\ UNCHANGED <<todo, stmt, target>>
    BY <1>3 DEF Check
  <2>2. TypeOK'
    BY <1>1, <2>1 DEF IInv, TypeOK, Go, Pc, disk, lock
  <2>3. \A d \in Client \ {c} : SameSession(d)
    BY <1>1, <2>1 DEF IInv, TypeOK, Go, SameSession
  <2>4. Enlisted(c)' /\ Holding(c)'
    BY <1>1, <1>2, <2>1, OwnTxLemma DEF IInv, TypeOK, Go, Enlisted, Holding, disk
  <2>5. \A i \in DOMAIN rows :
          rows[i].key \in NewKey(c) /\ rows[i].ins = tx[c] => rows[i].del # 0
    BY <1>1, <1>3, QueryLemma
  <2>6. NewKey(c)' = NewKey(c)
    BY <1>1, <2>1 DEF NewKey, disk
  <2>7. RoomToPut(c)'
    BY <1>1, <2>5, <2>6 DEF RoomToPut, disk
  <2> QED
    BY <1>1, <2>2, <2>3, <2>4, <2>7, SameDiskStep
<1>4. CASE ~(Visible(tx[c], NewKey(c)) = {} /\ stmt[c].valid)
  <2>1. Continue(c, todo[c], "lock") /\ target' = [target EXCEPT ![c] = {}]
    BY <1>4 DEF Check
  <2>2. /\ pc' \in [Client -> Pc] /\ stmt' \in [Client -> Statement]
        /\ todo' \in [Client -> SUBSET (DOMAIN rows)]
        /\ todo'[c] = todo[c]
        /\ pc'[c] = (IF todo[c] = {} THEN IF running[c] THEN "idle" ELSE "commit" ELSE "lock")
        /\ \A d \in Client \ {c} :
             pc'[d] = pc[d] /\ stmt'[d] = stmt[d] /\ todo'[d] = todo[d]
    BY <1>2, <2>1, ContinueLemma DEF IInv
  <2>3. TypeOK'
    BY <1>1, <2>1, <2>2 DEF IInv, TypeOK, disk, lock
  <2>4. \A d \in Client \ {c} : SameSession(d)
    BY <1>1, <2>1, <2>2 DEF IInv, TypeOK, SameSession
  <2>5. Enlisted(c)' /\ Holding(c)' /\ RoomToPut(c)'
    BY <1>1, <1>2, <2>1, <2>2, OwnTxLemma
       DEF IInv, TypeOK, Enlisted, Holding, RoomToPut, disk
  <2> QED
    BY <1>1, <2>3, <2>4, <2>5, SameDiskStep
<1> QED
  BY <1>3, <1>4

-----------------------------------------------------------------------------
(* The actions that write a version. *)

(* A session marks a version it holds on to.                               *)
LEMMA MarkDiskLemma ==
  ASSUME IInv, NEW c \in Client, pc[c] \notin {"idle", "unlock"},
         NEW i \in todo[c] \cup target[c], Mark(i, tx[c]),
         UNCHANGED <<txlog, nextId>>
  PROVE  /\ rows' \in Seq(Row) /\ DOMAIN rows' = DOMAIN rows
         /\ \A j \in DOMAIN rows : rows'[j].key = rows[j].key /\ rows'[j].ins = rows[j].ins
         /\ Numbers' /\ RowsLogged' /\ UncommittedPrivate' /\ OneOwnVersion'
         /\ \A t \in 0..MaxTx : DiskGrows(t)
<1>1. /\ tx[c] \in TxId /\ tx[c] # 0 /\ txlog[tx[c]] = "IN_PROGRESS"
      /\ i \in DOMAIN rows
      /\ rows[i].ins = tx[c] \/ txlog[rows[i].ins] = "COMMITED"
  BY OwnTxLemma DEF IInv, TypeOK, Sessions, Holding
<1>2. /\ rows' \in Seq(Row) /\ DOMAIN rows' = DOMAIN rows
      /\ \A j \in DOMAIN rows :
           /\ rows'[j].key = rows[j].key /\ rows'[j].ins = rows[j].ins
           /\ rows'[j].del = IF j = i THEN tx[c] ELSE rows[j].del
  BY <1>1, MarkLemma DEF IInv, TypeOK
<1>3. Numbers'
  BY DEF IInv, Numbers
<1>4. RowsLogged'
  BY <1>1, <1>2 DEF IInv, RowsLogged
<1>5. UncommittedPrivate'
  BY <1>1, <1>2 DEF IInv, UncommittedPrivate
<1>6. OneOwnVersion'
  BY <1>1, <1>2 DEF IInv, OneOwnVersion
<1>7. \A t \in 0..MaxTx : DiskGrows(t)
  BY <1>1, <1>2 DEF DiskGrows
<1> QED
  BY <1>2, <1>3, <1>4, <1>5, <1>6, <1>7

(* The end of a step of c that writes to the disk.                         *)
LEMMA DiskStep ==
  ASSUME IInv, NEW c \in Client, TypeOK', Distinct',
         Numbers', RowsLogged', UncommittedPrivate', OneOwnVersion',
         \A d \in Client \ {c} : SameSession(d) /\ DiskGrows(tx[d]),
         Enlisted(c)', Holding(c)', RoomToPut(c)'
  PROVE  IInv'
<1>1. Sessions'
  BY FrameLemma DEF Sessions
<1> QED
  BY <1>1 DEF IInv

LEMMA ReplaceStep ==
  ASSUME IInv, NEW c \in Client, Replace(c)
  PROVE  IInv'
<1>1. /\ pc[c] = "replace" /\ Go(c, "check")
      /\ UNCHANGED <<txlog, nextId, active, lock, tx, running, isUpdate, stmt>>
  BY DEF Replace
<1>2. PICK i \in todo[c] : /\ Mark(i, tx[c])
                           /\ todo' = [todo EXCEPT ![c] = @ \ {i}]
                           /\ target' = [target EXCEPT ![c] = {i}]
  BY DEF Replace
<1>3. /\ rows' \in Seq(Row) /\ DOMAIN rows' = DOMAIN rows
      /\ \A j \in DOMAIN rows : rows'[j].key = rows[j].key /\ rows'[j].ins = rows[j].ins
      /\ Numbers' /\ RowsLogged' /\ UncommittedPrivate' /\ OneOwnVersion'
      /\ \A t \in 0..MaxTx : DiskGrows(t)
  BY <1>1, <1>2, MarkDiskLemma
<1>4. TypeOK'
  BY <1>1, <1>2, <1>3 DEF IInv, TypeOK, Go, Pc, lock
<1>5. Distinct'
  BY <1>1 DEF IInv, Distinct
<1>6. \A d \in Client \ {c} : SameSession(d) /\ DiskGrows(tx[d])
  BY <1>1, <1>2, <1>3 DEF IInv, TypeOK, Go, SameSession
<1>7. Enlisted(c)' /\ Holding(c)' /\ RoomToPut(c)'
  <2>1. /\ todo[c] \subseteq DOMAIN rows /\ target[c] \subseteq DOMAIN rows
        /\ \A j \in todo[c] \cup target[c] :
             rows[j].ins = tx[c] \/ txlog[rows[j].ins] = "COMMITED"
    BY DEF IInv, TypeOK, Sessions, Holding
  <2>2. pc'[c] = "check" /\ todo'[c] = todo[c] \ {i} /\ target'[c] = {i}
    BY <1>1, <1>2 DEF IInv, TypeOK, Go
  <2>3. Holding(c)'
    BY <1>1, <1>2, <1>3, <2>1, <2>2 DEF Holding
  <2> QED
    BY <1>1, <2>2, <2>3, OwnTxLemma DEF Enlisted, RoomToPut
<1> QED
  BY <1>3, <1>4, <1>5, <1>6, <1>7, DiskStep

LEMMA MarkDeletedStep ==
  ASSUME IInv, NEW c \in Client, MarkDeleted(c)
  PROVE  IInv'
<1>1. /\ pc[c] = "mark"
      /\ UNCHANGED <<txlog, nextId, active, lock, tx, running, isUpdate>>
  BY DEF MarkDeleted
<1>2. PICK i \in target[c] :
        /\ Mark(i, tx[c])
        /\ target' = [target EXCEPT ![c] = @ \ {i}]
        /\ IF target[c] = {i}
           THEN Continue(c, todo[c], "lookup")
           ELSE UNCHANGED <<todo, pc, stmt>>
  BY DEF MarkDeleted
<1>3. /\ rows' \in Seq(Row) /\ DOMAIN rows' = DOMAIN rows
      /\ \A j \in DOMAIN rows : rows'[j].key = rows[j].key /\ rows'[j].ins = rows[j].ins
      /\ Numbers' /\ RowsLogged' /\ UncommittedPrivate' /\ OneOwnVersion'
      /\ \A t \in 0..MaxTx : DiskGrows(t)
  BY <1>1, <1>2, MarkDiskLemma
<1>4. Distinct'
  BY <1>1 DEF IInv, Distinct
<1> DEFINE held == \A j \in todo[c] \cup target[c] :
                     rows[j].ins = tx[c] \/ txlog[rows[j].ins] = "COMMITED"
<1>h. /\ todo[c] \subseteq DOMAIN rows /\ target[c] \subseteq DOMAIN rows
      /\ held
  BY DEF IInv, TypeOK, Sessions, Holding
<1>5. CASE target[c] = {i}
  <2>1. /\ pc' \in [Client -> Pc] /\ stmt' \in [Client -> Statement]
        /\ todo' \in [Client -> SUBSET (DOMAIN rows)]
        /\ todo'[c] = todo[c]
        /\ pc'[c] = (IF todo[c] = {} THEN IF running[c] THEN "idle" ELSE "commit" ELSE "lookup")
        /\ \A d \in Client \ {c} :
             pc'[d] = pc[d] /\ stmt'[d] = stmt[d] /\ todo'[d] = todo[d]
    BY <1>2, <1>5, ContinueLemma DEF IInv, TypeOK
  <2>2. TypeOK'
    BY <1>1, <1>2, <1>3, <2>1 DEF IInv, TypeOK, lock
  <2>3. \A d \in Client \ {c} : SameSession(d) /\ DiskGrows(tx[d])
    BY <1>1, <1>2, <1>3, <2>1 DEF IInv, TypeOK, SameSession
  <2>4. Enlisted(c)' /\ Holding(c)' /\ RoomToPut(c)'
    <3>1. target'[c] = {}
      BY <1>2, <1>5 DEF IInv, TypeOK
    <3>2. Holding(c)'
      BY <1>1, <1>3, <1>h, <2>1, <3>1 DEF Holding
    <3> QED
      BY <1>1, <2>1, <3>2, OwnTxLemma DEF Enlisted, RoomToPut
  <2> QED
    BY <1>3, <1>4, <2>2, <2>3, <2>4, DiskStep
<1>6. CASE target[c] # {i}
  <2>1. TypeOK'
    BY <1>1, <1>2, <1>3, <1>6 DEF IInv, TypeOK, lock
  <2>2. \A d \in Client \ {c} : SameSession(d) /\ DiskGrows(tx[d])
    BY <1>1, <1>2, <1>3, <1>6 DEF IInv, TypeOK, SameSession
  <2>3. Enlisted(c)' /\ Holding(c)' /\ RoomToPut(c)'
    <3>1. target'[c] = target[c] \ {i} /\ todo'[c] = todo[c] /\ pc'[c] = "mark"
      BY <1>1, <1>2, <1>6 DEF IInv, TypeOK
    <3>2. Holding(c)'
      BY <1>1, <1>3, <1>h, <3>1 DEF Holding
    <3> QED
      BY <1>1, <3>1, <3>2, OwnTxLemma DEF Enlisted, RoomToPut
  <2> QED
    BY <1>3, <1>4, <2>1, <2>2, <2>3, DiskStep
<1> QED
  BY <1>5, <1>6

LEMMA PutStep ==
  ASSUME IInv, NEW c \in Client, Put(c)
  PROVE  IInv'
<1>1. /\ pc[c] = "put"
      /\ Continue(c, todo[c], "lock")
      /\ target' = [target EXCEPT ![c] = {}]
      /\ UNCHANGED <<txlog, nextId, active, lock, tx, running, isUpdate>>
  BY DEF Put
<1>2. PICK k \in NewKey(c) : Append1(k, tx[c])
  BY DEF Put
<1>3. /\ tx[c] \in TxId /\ tx[c] # 0 /\ txlog[tx[c]] = "IN_PROGRESS"
      /\ todo[c] \in SUBSET (DOMAIN rows)
      /\ \A j \in todo[c] \cup target[c] :
           rows[j].ins = tx[c] \/ txlog[rows[j].ins] = "COMMITED"
      /\ \A j \in DOMAIN rows :
           rows[j].key = k /\ rows[j].ins = tx[c] => rows[j].del # 0
  BY <1>1, OwnTxLemma DEF IInv, TypeOK, Sessions, Holding, RoomToPut
<1>4. k \in Key
  <2>1. \A i \in target[c] : rows[i] \in Row
    BY DEF IInv, TypeOK
  <2>2. stmt[c].to \subseteq Key
    BY DEF IInv, TypeOK, Statement
  <2> QED
    BY <2>1, <2>2 DEF NewKey, Row
<1>5. /\ rows' \in Seq(Row)
      /\ DOMAIN rows \subseteq DOMAIN rows'
      /\ \A j \in DOMAIN rows : rows'[j] = rows[j]
      /\ \A j \in DOMAIN rows' \ DOMAIN rows :
           j = Len(rows) + 1 /\ rows'[j] = [key |-> k, ins |-> tx[c], del |-> 0]
  BY <1>2, <1>3, <1>4, AppendLemma DEF IInv, TypeOK
<1>6. /\ pc' \in [Client -> Pc] /\ stmt' \in [Client -> Statement]
      /\ todo' \in [Client -> SUBSET (DOMAIN rows)]
      /\ todo'[c] = todo[c]
      /\ pc'[c] = (IF todo[c] = {} THEN IF running[c] THEN "idle" ELSE "commit" ELSE "lock")
      /\ \A d \in Client \ {c} :
           pc'[d] = pc[d] /\ stmt'[d] = stmt[d] /\ todo'[d] = todo[d]
  BY <1>1, <1>3, ContinueLemma DEF IInv
<1>7. TypeOK'
  <2>1. target' \in [Client -> SUBSET (DOMAIN rows')]
    BY <1>1, <1>5 DEF IInv, TypeOK
  <2>2. todo' \in [Client -> SUBSET (DOMAIN rows')]
    BY <1>5, <1>6
  <2> QED
    BY <1>1, <1>5, <1>6, <2>1, <2>2 DEF IInv, TypeOK, lock
<1>8. Numbers' /\ Distinct'
  BY <1>1 DEF IInv, Numbers, Distinct
<1>9. RowsLogged' /\ UncommittedPrivate'
  BY <1>1, <1>3, <1>5 DEF IInv, RowsLogged, UncommittedPrivate
<1>10. OneOwnVersion'
  <2> SUFFICES ASSUME NEW i \in DOMAIN rows', NEW j \in DOMAIN rows',
                      rows'[i].key = rows'[j].key, rows'[i].ins = rows'[j].ins,
                      rows'[i].del = 0, rows'[j].del = 0
               PROVE  i = j
    BY DEF OneOwnVersion
  <2>1. CASE i \in DOMAIN rows /\ j \in DOMAIN rows
    BY <1>5, <2>1 DEF IInv, OneOwnVersion
  <2>2. CASE i \notin DOMAIN rows /\ j \notin DOMAIN rows
    BY <1>5, <2>2
  <2>3. CASE i \in DOMAIN rows /\ j \notin DOMAIN rows
    BY <1>3, <1>5, <2>3
  <2>4. CASE i \notin DOMAIN rows /\ j \in DOMAIN rows
    BY <1>3, <1>5, <2>4
  <2> QED
    BY <2>1, <2>2, <2>3, <2>4
<1>11. \A d \in Client \ {c} : SameSession(d) /\ DiskGrows(tx[d])
  BY <1>1, <1>3, <1>5, <1>6 DEF IInv, TypeOK, Distinct, SameSession, DiskGrows
<1>12. Enlisted(c)' /\ Holding(c)' /\ RoomToPut(c)'
  BY <1>1, <1>3, <1>5, <1>6 DEF IInv, TypeOK, Enlisted, Holding, RoomToPut
<1> QED
  BY <1>7, <1>8, <1>9, <1>10, <1>11, <1>12, DiskStep

-----------------------------------------------------------------------------
(* The actions that write the log, end a transaction or restart. *)

(* A number is handed out.                                                 *)
LEMMA NewTransactionLemma ==
  ASSUME IInv, NEW c \in Client, NewTransaction(c), UNCHANGED rows
  PROVE  /\ nextId \in TxId /\ nextId # 0 /\ txlog'[nextId] = "IN_PROGRESS"
         /\ txlog' \in [TxId -> Status] /\ nextId' \in 1..(MaxTx + 1)
         /\ active' \subseteq TxId
         /\ \A d \in Client : tx[d] # nextId
         /\ Numbers' /\ RowsLogged' /\ UncommittedPrivate' /\ OneOwnVersion'
         /\ \A d \in Client : DiskGrows(tx[d])
         /\ \A u \in TxId : txlog[u] = "COMMITED" => txlog'[u] = "COMMITED"
<1>1. /\ nextId \in TxId /\ nextId # 0 /\ txlog[nextId] = "NONE"
      /\ MaxTx \in Nat
  BY MvccAssumption DEF IInv, TypeOK, Numbers, NewTransaction, TxId
<1>2. /\ txlog' \in [TxId -> Status] /\ nextId' \in 1..(MaxTx + 1) /\ active' \subseteq TxId
      /\ txlog'[nextId] = "IN_PROGRESS"
      /\ \A u \in TxId : u # nextId => txlog'[u] = txlog[u]
  BY <1>1 DEF IInv, TypeOK, NewTransaction, TxId, Status, Outcome
<1>3. \A d \in Client : tx[d] # nextId
  <2>1. \A d \in Client : tx[d] # 0 => txlog[tx[d]] # "NONE"
    BY DEF IInv, Sessions, Enlisted
  <2> QED
    BY <1>1, <2>1
<1>4. Numbers'
  BY <1>1, <1>2 DEF IInv, TypeOK, Numbers, NewTransaction, TxId
<1>5. \A i \in DOMAIN rows : rows[i].ins \in TxId /\ (rows[i].del # 0 => rows[i].del \in TxId)
  <2>1. \A i \in DOMAIN rows : rows[i] \in Row
    BY DEF IInv, TypeOK
  <2> QED
    BY <1>1, <2>1 DEF Row, TxId
<1>6. RowsLogged' /\ UncommittedPrivate' /\ OneOwnVersion'
  BY <1>1, <1>2, <1>5 DEF IInv, RowsLogged, UncommittedPrivate, OneOwnVersion
<1>7. \A d \in Client : DiskGrows(tx[d])
  BY <1>1, <1>2, <1>3 DEF DiskGrows
<1> QED
  BY <1>1, <1>2, <1>3, <1>4, <1>6, <1>7

(* The outcome of a transaction in progress is logged.                     *)
LEMMA OutcomeLemma ==
  ASSUME IInv, NEW c \in Client, pc[c] # "unlock", tx[c] # 0,
         NEW s \in {"COMMITED", "ABORTED"},
         txlog' = [txlog EXCEPT ![tx[c]] = s], UNCHANGED <<rows, nextId>>
  PROVE  /\ txlog' \in [TxId -> Status] /\ txlog'[tx[c]] = s
         /\ Numbers' /\ RowsLogged' /\ UncommittedPrivate' /\ OneOwnVersion'
         /\ \A d \in Client \ {c} : DiskGrows(tx[d])
         /\ \A u \in TxId : txlog[u] # "IN_PROGRESS" => txlog'[u] = txlog[u]
<1>1. tx[c] \in TxId /\ txlog[tx[c]] = "IN_PROGRESS"
  BY MvccAssumption DEF IInv, TypeOK, Sessions, Enlisted, TxId
<1>2. /\ txlog' \in [TxId -> Status] /\ txlog'[tx[c]] = s
      /\ \A u \in TxId : u # tx[c] => txlog'[u] = txlog[u]
  BY <1>1 DEF IInv, TypeOK, Status, Outcome
<1>3. Numbers'
  BY <1>1, <1>2 DEF IInv, Numbers
<1>4. \A i \in DOMAIN rows : rows[i].ins \in TxId /\ (rows[i].del # 0 => rows[i].del \in TxId)
  <2>1. \A i \in DOMAIN rows : rows[i] \in Row
    BY DEF IInv, TypeOK
  <2> QED
    BY <2>1, MvccAssumption DEF Row, TxId
<1>5. RowsLogged' /\ UncommittedPrivate' /\ OneOwnVersion'
  BY <1>1, <1>2, <1>4 DEF IInv, RowsLogged, UncommittedPrivate, OneOwnVersion
<1>6. \A d \in Client \ {c} : DiskGrows(tx[d])
  BY <1>1, <1>2 DEF IInv, Distinct, DiskGrows
<1> QED
  BY <1>1, <1>2, <1>3, <1>5, <1>6

LEMMA BeginStep ==
  ASSUME IInv, NEW c \in Client, Begin(c)
  PROVE  IInv'
<1>1. /\ pc[c] = "idle" /\ ~running[c] /\ NewTransaction(c)
      /\ tx' = [tx EXCEPT ![c] = nextId] /\ running' = [running EXCEPT ![c] = TRUE]
      /\ UNCHANGED <<rows, lock, isUpdate, pc, stmt, todo, target>>
  BY DEF Begin
<1>2. TypeOK'
  BY <1>1, NewTransactionLemma DEF IInv, TypeOK, TxId, lock
<1>3. Distinct'
  BY <1>1, NewTransactionLemma DEF IInv, TypeOK, Distinct
<1>4. \A d \in Client \ {c} : SameSession(d) /\ DiskGrows(tx[d])
  BY <1>1, NewTransactionLemma DEF IInv, TypeOK, SameSession
<1>5. Enlisted(c)' /\ Holding(c)' /\ RoomToPut(c)'
  <2>1. tx'[c] = nextId /\ pc'[c] = "idle" /\ todo'[c] = {} /\ target'[c] = {}
    BY <1>1 DEF IInv, TypeOK, Sessions, Holding
  <2> QED
    BY <1>1, <2>1, NewTransactionLemma DEF Enlisted, Holding, RoomToPut
<1> QED
  BY <1>1, <1>2, <1>3, <1>4, <1>5, NewTransactionLemma, DiskStep

LEMMA ExecuteStep ==
  ASSUME IInv, NEW c \in Client, Execute(c)
  PROVE  IInv'
<1>1. PICK s \in Issued :
        /\ Enlist(c)
        /\ stmt' = [stmt EXCEPT ![c] = s]
        /\ isUpdate' = [isUpdate EXCEPT ![c] = @ \/ s.kind = "UPDATE"]
        /\ Go(c, IF s.kind = "INSERT" THEN "check" ELSE "query")
  BY DEF Execute
<1>2. pc[c] = "idle" /\ UNCHANGED <<rows, lock, running, todo, target>>
  BY DEF Execute
<1>3. /\ stmt' \in [Client -> Statement] /\ isUpdate' \in [Client -> BOOLEAN]
      /\ pc' \in [Client -> Pc] /\ pc'[c] \in {"check", "query"}
      /\ \A d \in Client \ {c} : pc'[d] = pc[d] /\ stmt'[d] = stmt[d]
  BY <1>1 DEF IInv, TypeOK, Issued, Go, Pc
<1>4. todo'[c] = {} /\ target'[c] = {}
  BY <1>2 DEF IInv, Sessions, Holding
<1>5. CASE running[c]
  <2>1. UNCHANGED <<disk, active, tx>>
    BY <1>1, <1>2, <1>5 DEF Enlist, disk
  <2>2. TypeOK'
    BY <1>2, <1>3, <2>1 DEF IInv, TypeOK, disk, lock
  <2>3. \A d \in Client \ {c} : SameSession(d)
    BY <1>2, <1>3, <2>1 DEF SameSession
  <2>4. Enlisted(c)' /\ Holding(c)' /\ RoomToPut(c)'
    BY <1>2, <1>3, <1>4, <1>5, <2>1, OwnTxLemma DEF Enlisted, Holding, RoomToPut, disk
  <2> QED
    BY <2>1, <2>2, <2>3, <2>4, SameDiskStep
<1>6. CASE ~running[c]
  <2>1. NewTransaction(c) /\ tx' = [tx EXCEPT ![c] = nextId]
    BY <1>1, <1>6 DEF Enlist
  <2>2. TypeOK'
    BY <1>2, <1>3, <2>1, NewTransactionLemma DEF IInv, TypeOK, TxId, lock
  <2>3. Distinct'
    BY <1>2, <2>1, NewTransactionLemma DEF IInv, TypeOK, Distinct
  <2>4. \A d \in Client \ {c} : SameSession(d) /\ DiskGrows(tx[d])
    BY <1>2, <1>3, <2>1, NewTransactionLemma DEF IInv, TypeOK, SameSession
  <2>5. Enlisted(c)' /\ Holding(c)' /\ RoomToPut(c)'
    <3>1. tx'[c] = nextId
      BY <2>1 DEF IInv, TypeOK
    <3> QED
      BY <1>2, <1>3, <1>4, <2>1, <3>1, NewTransactionLemma DEF Enlisted, Holding, RoomToPut
  <2> QED
    BY <1>2, <2>1, <2>2, <2>3, <2>4, <2>5, NewTransactionLemma, DiskStep
<1> QED
  BY <1>5, <1>6

LEMMA FailStep ==
  ASSUME IInv, NEW c \in Client, Fail(c)
  PROVE  IInv'
<1>1. /\ IF running[c] THEN UNCHANGED <<txlog, nextId, active>>
                      ELSE Autocommit /\ NewTransaction(c)
      /\ UNCHANGED <<rows, lock, tx, running, pc, stmt, todo, target>>
      /\ isUpdate' \in [Client -> BOOLEAN]
  BY DEF Fail, IInv, TypeOK
<1>2. \A d \in Client : SameSession(d)
  BY <1>1 DEF SameSession
<1>3. Distinct'
  BY <1>1 DEF IInv, Distinct
<1>4. CASE running[c]
  <2>1. UNCHANGED disk /\ UNCHANGED active
    BY <1>1, <1>4 DEF disk
  <2>2. TypeOK'
    BY <1>1, <2>1 DEF IInv, TypeOK, disk, lock
  <2>3. \A d \in Client : DiskGrows(tx[d])
    BY <2>1, SameDiskLemma DEF IInv, TypeOK
  <2> QED
    BY <1>2, <1>3, <2>1, <2>2, <2>3, SameDiskLemma, FrameLemma, DiskStep
<1>5. CASE ~running[c]
  <2>1. NewTransaction(c)
    BY <1>1, <1>5
  <2>2. TypeOK'
    BY <1>1, <2>1, NewTransactionLemma DEF IInv, TypeOK, lock
  <2> QED
    BY <1>1, <1>2, <1>3, <2>1, <2>2, NewTransactionLemma, FrameLemma, DiskStep
<1> QED
  BY <1>4, <1>5

LEMMA LogCommitStep ==
  ASSUME IInv, NEW c \in Client, LogCommit(c)
  PROVE  IInv'
<1>1. /\ pc[c] = "log" /\ Go(c, "unlock")
      /\ txlog' = [txlog EXCEPT ![tx[c]] = "COMMITED"]
      /\ UNCHANGED <<rows, nextId, active, lock, tx, running, isUpdate, stmt, todo, target>>
  BY DEF LogCommit
<1>2. tx[c] # 0
  BY <1>1, OwnTxLemma
<1>3. TypeOK'
  BY <1>1, <1>2, OutcomeLemma DEF IInv, TypeOK, Go, Pc, lock
<1>4. Distinct'
  BY <1>1 DEF IInv, Distinct
<1>5. \A d \in Client \ {c} : SameSession(d) /\ DiskGrows(tx[d])
  BY <1>1, <1>2, OutcomeLemma DEF IInv, TypeOK, Go, SameSession
<1>6. Enlisted(c)' /\ Holding(c)' /\ RoomToPut(c)'
  <2>1. pc'[c] = "unlock" /\ todo'[c] = {} /\ target'[c] = {} /\ tx'[c] = tx[c]
    BY <1>1 DEF IInv, TypeOK, Go, Sessions, Holding
  <2> QED
    BY <1>1, <1>2, <2>1, OutcomeLemma DEF Enlisted, Holding, RoomToPut
<1> QED
  BY <1>1, <1>2, <1>3, <1>4, <1>5, <1>6, OutcomeLemma, DiskStep

LEMMA RollbackStep ==
  ASSUME IInv, NEW c \in Client, Rollback(c)
  PROVE  IInv'
<1>1. /\ pc[c] = "idle" /\ running[c] /\ Forget(c)
      /\ txlog' = [txlog EXCEPT ![tx[c]] = "ABORTED"]
      /\ UNCHANGED <<rows, nextId, active, lock, pc, stmt, todo, target>>
  BY DEF Rollback
<1>2. tx[c] # 0
  BY <1>1, OwnTxLemma
<1>3. TypeOK'
  <2>1. txlog' \in [TxId -> Status]
    BY <1>1, <1>2, OutcomeLemma
  <2>2. /\ tx' \in [Client -> 0..MaxTx]
        /\ running' \in [Client -> BOOLEAN] /\ isUpdate' \in [Client -> BOOLEAN]
    BY <1>1, MvccAssumption DEF IInv, TypeOK, Forget
  <2> QED
    BY <1>1, <2>1, <2>2 DEF IInv, TypeOK, lock
<1>4. Distinct'
  BY <1>1 DEF IInv, TypeOK, Distinct, Forget
<1>5. \A d \in Client \ {c} : SameSession(d) /\ DiskGrows(tx[d])
  BY <1>1, <1>2, OutcomeLemma DEF IInv, TypeOK, Forget, SameSession
<1>6. Enlisted(c)' /\ Holding(c)' /\ RoomToPut(c)'
  <2>1. /\ pc'[c] = "idle" /\ todo'[c] = {} /\ target'[c] = {}
        /\ tx'[c] = 0 /\ ~running'[c]
    BY <1>1 DEF IInv, TypeOK, Forget, Sessions, Holding
  <2> QED
    BY <2>1 DEF Enlisted, Holding, RoomToPut
<1> QED
  BY <1>1, <1>2, <1>3, <1>4, <1>5, <1>6, OutcomeLemma, DiskStep

LEMMA UnlockStep ==
  ASSUME IInv, NEW c \in Client, Unlock(c)
  PROVE  IInv'
<1>1. /\ pc[c] = "unlock" /\ Go(c, "idle") /\ Forget(c)
      /\ L!Release(running[c] /\ isUpdate[c])
      /\ UNCHANGED <<disk, active, stmt, todo, target>>
  BY DEF Unlock
<1>2. TypeOK'
  <2>1. holder' \in 0..MaxTx
    BY <1>1, MvccAssumption DEF L!Release
  <2>2. stale' \in BOOLEAN
    BY <1>1 DEF IInv, TypeOK, L!Release
  <2>3. tx' \in [Client -> 0..MaxTx]
    BY <1>1, MvccAssumption DEF IInv, TypeOK, Forget
  <2> QED
    BY <1>1, <2>1, <2>2, <2>3 DEF IInv, TypeOK, Go, Pc, Forget, disk
<1>3. Distinct'
  BY <1>1 DEF IInv, TypeOK, Distinct, Forget
<1>4. \A d \in Client \ {c} : SameSession(d) /\ DiskGrows(tx[d])
  BY <1>1, SameDiskLemma DEF IInv, TypeOK, Go, Forget, SameSession
<1>5. Enlisted(c)' /\ Holding(c)' /\ RoomToPut(c)'
  <2>1. /\ pc'[c] = "idle" /\ todo'[c] = {} /\ target'[c] = {}
        /\ tx'[c] = 0 /\ ~running'[c]
    BY <1>1 DEF IInv, TypeOK, Go, Forget, Sessions, Holding
  <2> QED
    BY <2>1 DEF Enlisted, Holding, RoomToPut
<1> QED
  BY <1>1, <1>2, <1>3, <1>4, <1>5, SameDiskLemma, DiskStep

LEMMA CrashStep ==
  ASSUME IInv, Crash
  PROVE  IInv'
<1>1. TypeOK'
  <2>1. NoStmt \in Statement
    BY DEF NoStmt, Statement
  <2>1a. 0 \in 0..MaxTx
    BY MvccAssumption
  <2>2. /\ holder' \in 0..MaxTx /\ stale' \in BOOLEAN /\ active' \subseteq TxId
        /\ tx' \in [Client -> 0..MaxTx]
    BY <2>1a DEF Crash
  <2>3. /\ running' \in [Client -> BOOLEAN] /\ isUpdate' \in [Client -> BOOLEAN]
        /\ pc' \in [Client -> Pc] /\ stmt' \in [Client -> Statement]
    BY <2>1 DEF Crash, Pc
  <2>4. /\ todo' \in [Client -> SUBSET (DOMAIN rows')]
        /\ target' \in [Client -> SUBSET (DOMAIN rows')]
    BY DEF Crash
  <2> QED
    BY <2>2, <2>3, <2>4 DEF Crash, IInv, TypeOK, disk
<1>2. Distinct' /\ Sessions'
  BY DEF Crash, Distinct, Sessions, Enlisted, Holding, RoomToPut
<1>3. UNCHANGED disk
  BY DEF Crash
<1> QED
  BY <1>1, <1>2, <1>3, SameDiskLemma DEF IInv

-----------------------------------------------------------------------------
(* The theorems. *)

LEMMA NextIInv == IInv /\ [Next]_vars => IInv'
<1> SUFFICES ASSUME IInv, [Next]_vars PROVE IInv'
  OBVIOUS
<1>1. ASSUME NEW c \in Client, Step(c) PROVE IInv'
  BY <1>1, BeginStep, ExecuteStep, FailStep, QueryStep, LookupStep, MarkDeletedStep,
     LockStep, FlagStep, RetryStep, ReplaceStep, CheckStep, PutStep,
     CommitStep, LogCommitStep, UnlockStep, RollbackStep DEF Step
<1>2. CASE Crash
  BY <1>2, CrashStep
<1>3. CASE UNCHANGED vars
  <2>1. UNCHANGED disk /\ \A d \in Client : SameSession(d)
    BY <1>3 DEF vars, session, SameSession
  <2>2. TypeOK' /\ Distinct'
    BY <1>3 DEF vars, session, disk, lock, IInv, TypeOK, Distinct
  <2>3. Sessions'
    BY <1>3, <2>1, SameDiskLemma, FrameLemma DEF IInv, TypeOK, Sessions
  <2> QED
    BY <2>1, <2>2, <2>3, SameDiskLemma DEF IInv
<1> QED
  BY <1>1, <1>2, <1>3 DEF Next

THEOREM Invariance == Spec => []IInv
  BY InitIInv, NextIInv, PTL DEF Spec

(* Every variable keeps its type: in particular a session holds on to      *)
(* versions that exist, and numbers stay within the log.                   *)
THEOREM TypeCorrect == Spec => []TypeOK
<1>1. IInv => TypeOK
  BY DEF IInv
<1> QED
  BY <1>1, Invariance, PTL

(* Whatever the connections do, no transaction marks a version that        *)
(* another one has inserted and not committed.                             *)
THEOREM Privacy == Spec => []UncommittedPrivate
<1>1. IInv => UncommittedPrivate
  BY DEF IInv
<1> QED
  BY <1>1, Invariance, PTL

(* IsVisible decides read committed for every running transaction.         *)
THEOREM VisibilityCorrect == Spec => []VisibilityIsReadCommitted
<1>1. IInv => VisibilityIsReadCommitted
  <2> SUFFICES ASSUME IInv, NEW c \in Client, tx[c] # 0, NEW i \in DOMAIN rows
               PROVE  IsVisible(rows[i].ins, rows[i].del, tx[c], txlog, active)
                        <=> ReadCommitted(rows[i].ins, rows[i].del, tx[c], txlog)
    BY DEF VisibilityIsReadCommitted
  <2>1. tx[c] \in TxId /\ txlog[tx[c]] \in {"IN_PROGRESS", "COMMITED"}
    BY MvccAssumption DEF IInv, TypeOK, Sessions, Enlisted, TxId
  <2> QED
    BY <2>1, VisibleLemma DEF IInv
<1> QED
  BY <1>1, Invariance, PTL

(* No transaction owns two unmarked versions of one key.                   *)
THEOREM OwnVersionUnique == Spec => []OneOwnVersion
<1>1. IInv => OneOwnVersion
  BY DEF IInv
<1> QED
  BY <1>1, Invariance, PTL

(* An outcome in the log is final, across rollbacks, abandoned             *)
(* transactions and restarts.                                              *)
THEOREM OutcomesFinal == Spec => OutcomeFinal
<1> DEFINE Kept == \A t \in TxId : txlog[t] \in {"COMMITED", "ABORTED"}
                                      => txlog'[t] = txlog[t]
<1>1. ASSUME IInv, [Next]_vars PROVE Kept
  <2>1. ASSUME NEW c \in Client, NewTransaction(c) PROVE Kept
    BY <1>1, <2>1, MvccAssumption DEF NewTransaction, IInv, TypeOK, Numbers, TxId
  <2>2. ASSUME NEW c \in Client, Step(c) PROVE Kept
    <3>1. CASE Begin(c) \/ Execute(c) \/ Fail(c)
      BY <2>1, <3>1 DEF Begin, Execute, Enlist, Fail
    <3>2. CASE LogCommit(c) \/ Rollback(c)
      <4>1. tx[c] # 0 /\ pc[c] # "unlock" /\ UNCHANGED <<rows, nextId>>
        BY <1>1, <3>2, OwnTxLemma DEF LogCommit, Rollback
      <4>2. \E s \in {"COMMITED", "ABORTED"} : txlog' = [txlog EXCEPT ![tx[c]] = s]
        BY <3>2 DEF LogCommit, Rollback
      <4> QED
        BY <1>1, <4>1, <4>2, OutcomeLemma
    <3>3. CASE UNCHANGED txlog
      BY <3>3
    <3> QED
      BY <2>2, <3>1, <3>2, <3>3
         DEF Step, Query, Lookup, MarkDeleted, Lock, Flag, Retry, Replace, Check, Put,
             Commit, Unlock, disk
  <2>3. CASE Crash \/ UNCHANGED vars
    BY <2>3 DEF Crash, vars, disk
  <2> QED
    BY <1>1, <2>2, <2>3 DEF Next
<1>2. IInv /\ [Next]_vars => [Kept]_vars
  BY <1>1
<1> QED
  BY <1>2, Invariance, PTL DEF Spec, OutcomeFinal

-----------------------------------------------------------------------------
(***************************************************************************)
(* What the update lock is good for: proofs of the properties of Mvcc that *)
(* hold of disciplined clients only, for every number of them, of rows and *)
(* of transactions.  Such a client updates inside BEGIN ... COMMIT and     *)
(* commits only what took the lock.                                        *)
(*                                                                         *)
(* The argument has three parts.  The session that has passed lock() is    *)
(* the holder until unlock(), so that all that is uncommitted is its own.  *)
(* The rows of a query that waits for the lock may be out of date; but     *)
(* then somebody holds the lock or the mark is up, and the mark sends the  *)
(* session back to the query: a row it replaces has no mark of anybody.    *)
(* And a replacement shows its new version to the same transactions that   *)
(* cease to see the old one, so that each of them sees one version.        *)
(***************************************************************************)

(* The clients, and a table in which every key has its row.                *)
DisciplinedClients ==
  /\ Disciplined /\ ~Autocommit /\ Workload \subseteq {"SELECT", "UPDATE"}
  /\ \A k \in Key : \E i \in DOMAIN Seed : Seed[i] = k

-----------------------------------------------------------------------------
(* The inductive invariant, in named parts, over IInv. *)

Locked == {"flag", "retry", "replace", "check", "put", "log", "unlock"}
Updating == {"lock", "flag", "retry", "replace", "check", "put"}

(* No transaction fails, and the lock is held for one that was given out.  *)
Quiet ==
  /\ \A t \in TxId : txlog[t] # "ABORTED"
  /\ holder # 0 => txlog[holder] # "NONE"

(* A session works inside BEGIN ... COMMIT, on an UPDATE with literals     *)
(* that parse, and has the lock from lock() to unlock().                   *)
Update(c) == stmt[c].kind = "UPDATE" /\ stmt[c].valid /\ stmt[c].to = {} /\ isUpdate[c]
Orderly(c) ==
  /\ pc[c] \notin {"lookup", "mark", "commit"}
  /\ pc[c] # "idle" => running[c]
  /\ ~running[c] => tx[c] = 0
  /\ pc[c] = "query" => stmt[c].kind = "SELECT" \/ Update(c)
  /\ pc[c] \in Updating => Update(c)
  /\ pc[c] \in Locked => holder = tx[c]
  /\ tx[c] # 0 /\ holder = tx[c] => isUpdate[c]
  /\ pc[c] \in {"check", "put"} => \E i \in DOMAIN rows : target[c] = {i}

(* Rows that were marked since the query selected them are noticed.        *)
Outdated(c) == \E i \in todo[c] : rows[i].del # 0
Noticed(c) ==
  /\ pc[c] = "lock" /\ Outdated(c) => stale \/ holder \notin {0, tx[c]}
  /\ pc[c] = "flag" /\ Outdated(c) => stale
  /\ pc[c] \in {"replace", "check", "put"} => ~Outdated(c)

(* The versions of a key that a transaction sees; number 0 is that of a    *)
(* transaction that has written nothing.                                   *)
Sees(t, k) == {i \in DOMAIN rows : /\ rows[i].key = k
                                   /\ ReadCommitted(rows[i].ins, rows[i].del, t, txlog)}
Single(S) == \E i \in S : S = {i}
Committed == \A k \in Key : Single(Sees(0, k))
View(c) ==
  \A t \in TxId : tx[c] = t =>
    \A k \in Key :
      IF pc[c] \in {"check", "put"} /\ k \in NewKey(c) THEN Sees(t, k) = {}
                                                       ELSE Single(Sees(t, k))

DInv ==
  /\ Quiet /\ UpdateExclusive /\ Committed
  /\ \A c \in Client : Orderly(c) /\ Noticed(c) /\ View(c)

-----------------------------------------------------------------------------
(* Facts about one state. *)

LEMMA RowFacts ==
  ASSUME IInv
  PROVE  /\ \A i \in DOMAIN rows :
              /\ rows[i].key \in Key /\ rows[i].ins \in TxId
              /\ rows[i].del # 0 => rows[i].del \in TxId
              /\ txlog[rows[i].ins] # "NONE"
              /\ rows[i].del # 0 => txlog[rows[i].del] # "NONE"
         /\ 0 \notin TxId /\ MaxTx \in Nat
  <1>1. \A i \in DOMAIN rows : rows[i] \in Row
    BY DEF IInv, TypeOK
  <1>2. MaxTx \in Nat /\ 0 \notin TxId
    BY MvccAssumption DEF TxId
  <1> QED BY <1>1, <1>2 DEF IInv, RowsLogged, Row, TxId

LEMMA SessionFacts ==
  ASSUME IInv, DInv, NEW c \in Client
  PROVE  /\ pc[c] \in Pc /\ todo[c] \subseteq DOMAIN rows /\ target[c] \subseteq DOMAIN rows
         /\ Orderly(c) /\ Noticed(c) /\ View(c) /\ Enlisted(c) /\ Holding(c)
         /\ pc[c] # "idle" \/ running[c] => tx[c] \in TxId /\ tx[c] # 0
         /\ tx[c] # 0 => tx[c] \in TxId
  BY MvccAssumption DEF IInv, DInv, TypeOK, Sessions, Enlisted, TxId

(* While the lock is free, or that of c, nobody else has passed lock().    *)
LEMMA Exclusion ==
  ASSUME IInv, DInv, NEW c \in Client, tx[c] # 0, holder \in {0, tx[c]},
         NEW d \in Client \ {c}
  PROVE  pc[d] \notin Locked /\ (tx[d] # 0 => holder # tx[d] /\ tx[d] # tx[c])
  <1>1. tx[d] # 0 => tx[d] # tx[c]
    BY DEF IInv, Distinct
  <1>2. pc[d] \in Locked => tx[d] # 0 /\ holder = tx[d]
    BY SessionFacts DEF Orderly, Locked
  <1> QED BY <1>1, <1>2

(* A query returns what its transaction sees.                              *)
LEMMA VisibleIsSeen ==
  ASSUME IInv, DInv, NEW c \in Client, NEW t \in TxId, tx[c] = t, NEW keys
  PROVE  Visible(t, keys) = {i \in DOMAIN rows : /\ rows[i].key \in keys
                               /\ ReadCommitted(rows[i].ins, rows[i].del, t, txlog)}
  <1>1. txlog[t] \in {"IN_PROGRESS", "COMMITED"}
    BY RowFacts, SessionFacts DEF Enlisted
  <1>2. \A i \in DOMAIN rows :
          IsVisible(rows[i].ins, rows[i].del, t, txlog, active)
            <=> ReadCommitted(rows[i].ins, rows[i].del, t, txlog)
    BY <1>1, VisibleLemma DEF IInv
  <1> QED BY <1>2 DEF Visible

-----------------------------------------------------------------------------
(* What a step leaves alone. *)

Others(c) == \A d \in Client \ {c} : SameSession(d) /\ isUpdate'[d] = isUpdate[d]

(* A session that takes no part stays orderly, unless the lock is taken    *)
(* from it.                                                                *)
LEMMA OrderlyKept ==
  ASSUME IInv, DInv, NEW d \in Client, SameSession(d), isUpdate'[d] = isUpdate[d],
         DOMAIN rows \subseteq DOMAIN rows',
         holder' = holder \/ (pc[d] \notin Locked /\ (tx[d] # 0 => holder' # tx[d]))
  PROVE  Orderly(d)'
  <1>1. Orderly(d)
    BY DEF DInv
  <1>2. Update(d)' = Update(d)
    BY DEF Update, SameSession
  <1> QED BY <1>1, <1>2 DEF Orderly, SameSession

(* Marks that nobody overwrites go on being noticed, ...                   *)
LEMMA NoticedKept ==
  ASSUME IInv, DInv, NEW d \in Client, SameSession(d), UNCHANGED <<holder, stale>>,
         \A i \in DOMAIN rows : rows'[i].del = rows[i].del
  PROVE  Noticed(d)'
  <1>1. Noticed(d) /\ todo[d] \subseteq DOMAIN rows
    BY SessionFacts
  <1>2. Outdated(d)' = Outdated(d)
    BY <1>1 DEF Outdated, SameSession
  <1> QED BY <1>1, <1>2 DEF Noticed, SameSession

(* ... and new ones are, by a session that has not passed lock().          *)
LEMMA NoticedOutside ==
  ASSUME NEW d \in Client, SameSession(d), pc[d] \notin Locked,
         stale' \/ holder' \notin {0, tx[d]}
  PROVE  Noticed(d)'
  BY DEF Noticed, SameSession, Locked

(* With the rows and the log as they were everybody sees what they saw.    *)
LEMMA SeesKept ==
  ASSUME UNCHANGED <<rows, txlog>>
  PROVE  /\ \A t, k : Sees(t, k)' = Sees(t, k)
         /\ Committed => Committed'
  <1>1. \A t, k : Sees(t, k)' = Sees(t, k)
    BY DEF Sees, ReadCommitted
  <1> QED BY <1>1 DEF Committed, Single

LEMMA ViewKept ==
  ASSUME UNCHANGED <<rows, txlog>>, NEW d \in Client, View(d), tx'[d] = tx[d],
         \/ pc[d] \notin {"check", "put"} /\ pc'[d] \notin {"check", "put"}
         \/ /\ pc[d] \in {"check", "put"} /\ pc'[d] \in {"check", "put"}
            /\ stmt'[d] = stmt[d] /\ target'[d] = target[d]
  PROVE  View(d)'
  <1>1. \A t, k : Sees(t, k)' = Sees(t, k)
    BY SeesKept
  <1>2. pc[d] \in {"check", "put"} => NewKey(d)' = NewKey(d)
    BY DEF NewKey
  <1> QED BY <1>1, <1>2 DEF View, Single

(* A step of c that writes neither to disk nor to the lock.                *)
LEMMA LocalStep ==
  ASSUME IInv, DInv, NEW c \in Client, Others(c),
         UNCHANGED <<rows, txlog, tx, holder, stale>>, Orderly(c)', Noticed(c)',
         \/ pc[c] \notin {"check", "put"} /\ pc'[c] \notin {"check", "put"}
         \/ /\ pc[c] \in {"check", "put"} /\ pc'[c] \in {"check", "put"}
            /\ stmt'[c] = stmt[c] /\ target'[c] = target[c]
  PROVE  DInv'
  <1>1. Quiet' /\ UpdateExclusive'
    BY DEF DInv, Quiet, UpdateExclusive
  <1>2. Committed'
    BY SeesKept DEF DInv
  <1>3. View(c)'
    BY ViewKept DEF DInv
  <1>4. ASSUME NEW d \in Client \ {c} PROVE Orderly(d)' /\ Noticed(d)' /\ View(d)'
    <2>1. SameSession(d) /\ isUpdate'[d] = isUpdate[d]
      BY DEF Others
    <2>2. Orderly(d)' /\ Noticed(d)'
      BY <2>1, OrderlyKept, NoticedKept
    <2>3. View(d)'
      BY <2>1, ViewKept DEF DInv, SameSession
    <2> QED BY <2>2, <2>3
  <1> QED BY <1>1, <1>2, <1>3, <1>4 DEF DInv

-----------------------------------------------------------------------------
(* The steps. *)

(* A statement starts, inside a transaction, and it is one of the two.     *)
LEMMA DExecute ==
  ASSUME DisciplinedClients, IInv, DInv, NEW c \in Client, Execute(c)
  PROVE  DInv'
  <1>1. PICK s \in Issued :
          /\ Enlist(c)
          /\ stmt' = [stmt EXCEPT ![c] = s]
          /\ isUpdate' = [isUpdate EXCEPT ![c] = @ \/ s.kind = "UPDATE"]
          /\ Go(c, IF s.kind = "INSERT" THEN "check" ELSE "query")
    BY DEF Execute
  <1>2. /\ pc[c] = "idle" /\ UNCHANGED <<rows, lock, running, todo, target>>
    BY DEF Execute
  <1>3. running[c] /\ UNCHANGED <<txlog, nextId, active, tx>>
    BY <1>1 DEF Enlist, DisciplinedClients
  <1>4. /\ s.kind \in {"SELECT", "UPDATE"} /\ s.valid /\ s.to = {}
    BY DEF Issued, DisciplinedClients
  <1>5. Others(c)
    BY <1>1, <1>2, <1>3 DEF Others, SameSession, Go, IInv, TypeOK
  <1>6. /\ pc'[c] = "query" /\ stmt'[c] = s
        /\ isUpdate'[c] = (isUpdate[c] \/ s.kind = "UPDATE")
    BY <1>1, <1>4 DEF Go, IInv, TypeOK
  <1>7. Orderly(c)'
    BY <1>2, <1>3, <1>4, <1>6, SessionFacts DEF Orderly, Update, Updating, Locked, lock
  <1>8. Noticed(c)'
    BY <1>6 DEF Noticed
  <1> QED BY <1>2, <1>3, <1>5, <1>6, <1>7, <1>8, LocalStep DEF lock

(* The rows of a query: whoever has marked one of them holds the lock.     *)
LEMMA DQuery ==
  ASSUME DisciplinedClients, IInv, DInv, NEW c \in Client, Query(c)
  PROVE  DInv'
  <1> DEFINE data == Visible(tx[c], stmt[c].where)
             rest == IF stmt[c].kind = "SELECT" THEN {} ELSE data
             p == IF stmt[c].kind = "DELETE" THEN "lookup" ELSE "lock"
  <1>1. /\ pc[c] = "query" /\ Continue(c, rest, p)
        /\ UNCHANGED <<disk, active, lock, tx, running, isUpdate, target>>
    BY DEF Query
  <1>2. /\ running[c] /\ tx[c] \in TxId /\ tx[c] # 0
        /\ stmt[c].kind = "SELECT" \/ Update(c)
    BY <1>1, SessionFacts DEF Orderly
  <1>3. p = "lock" /\ rest \in SUBSET (DOMAIN rows)
    BY <1>2 DEF Update, Visible
  <1>4. /\ pc'[c] = (IF rest = {} THEN "idle" ELSE "lock") /\ todo'[c] = rest
        /\ rest # {} => stmt'[c] = stmt[c]
        /\ \A d \in Client \ {c} : pc'[d] = pc[d] /\ stmt'[d] = stmt[d] /\ todo'[d] = todo[d]
    <2>1. TypeOK
      BY DEF IInv
    <2>2. /\ pc'[c] = (IF rest = {} THEN IF running[c] THEN "idle" ELSE "commit" ELSE p)
          /\ todo'[c] = rest
          /\ \A d \in Client \ {c} :
               pc'[d] = pc[d] /\ stmt'[d] = stmt[d] /\ todo'[d] = todo[d]
      BY <1>1, <1>3, <2>1, ContinueLemma
    <2>3. rest # {} => stmt'[c] = stmt[c]
      BY <1>1 DEF Continue
    <2> QED BY <1>2, <1>3, <2>2, <2>3
  <1>5. Others(c)
    BY <1>1, <1>4 DEF Others, SameSession
  <1>6. Orderly(c)'
    <2>1. rest # {} => Update(c)
      BY <1>2
    <2> HIDE DEF rest
    <2>2. rest # {} => Update(c)'
      BY <1>1, <1>4, <2>1 DEF Update
    <2> QED BY <1>1, <1>2, <1>4, <2>2, SessionFacts
            DEF Orderly, Updating, Locked, lock
  <1>7. Noticed(c)'
    <2>1. ASSUME NEW i \in rest, rows[i].del # 0 PROVE holder \notin {0, tx[c]}
      <3>1. i \in DOMAIN rows /\ ReadCommitted(rows[i].ins, rows[i].del, tx[c], txlog)
        BY <1>2, <2>1, VisibleIsSeen
      <3>2. /\ rows[i].del # tx[c] /\ txlog[rows[i].del] # "COMMITED"
            /\ rows[i].del \in TxId /\ txlog[rows[i].del] # "NONE"
        BY <2>1, <3>1, RowFacts DEF ReadCommitted
      <3>3. txlog[rows[i].del] = "IN_PROGRESS"
        BY <3>2 DEF DInv, Quiet, IInv, TypeOK, Status, Outcome
      <3> QED BY <2>1, <3>1, <3>2, <3>3 DEF DInv, UpdateExclusive
    <2>2. holder' = holder /\ tx'[c] = tx[c] /\ \A i \in rest : rows'[i] = rows[i]
      BY <1>1 DEF lock, disk
    <2> HIDE DEF rest
    <2>3. Outdated(c)' => holder' \notin {0, tx'[c]}
      BY <1>4, <2>1, <2>2 DEF Outdated
    <2> QED BY <1>4, <2>3 DEF Noticed
  <1> HIDE DEF rest
  <1> QED BY <1>1, <1>4, <1>5, <1>6, <1>7, LocalStep DEF disk, lock

(* A session that passes lock() shuts the others out.                      *)
LEMMA DLock ==
  ASSUME DisciplinedClients, IInv, DInv, NEW c \in Client, Lock(c)
  PROVE  DInv'
  <1>1. /\ pc[c] = "lock" /\ holder \in {0, tx[c]} /\ holder' = tx[c] /\ stale' = stale
        /\ pc' = [pc EXCEPT ![c] = "flag"]
        /\ UNCHANGED <<rows, txlog, nextId, active, tx, running, isUpdate, stmt, todo, target>>
    BY DEF Lock, L!Acquire, Go, disk
  <1>2. /\ running[c] /\ tx[c] \in TxId /\ tx[c] # 0 /\ Update(c) /\ Noticed(c)
        /\ txlog[tx[c]] = "IN_PROGRESS" /\ View(c) /\ Orderly(c)
    BY <1>1, SessionFacts DEF Orderly, Updating, Enlisted
  <1>3. Others(c) /\ pc'[c] = "flag"
    BY <1>1 DEF Others, SameSession, IInv, TypeOK
  <1>4. Quiet'
    BY <1>1, <1>2 DEF DInv, Quiet
  <1>5. UpdateExclusive'
    BY <1>1 DEF DInv, UpdateExclusive
  <1>6. Committed'
    BY <1>1, SeesKept DEF DInv
  <1>7. Orderly(c)' /\ Noticed(c)' /\ View(c)'
    <2>1. Update(c)'
      BY <1>1, <1>2 DEF Update
    <2>2. Orderly(c)'
      BY <1>1, <1>2, <1>3, <2>1 DEF Orderly, Update
    <2>3. Outdated(c)' = Outdated(c)
      BY <1>1 DEF Outdated
    <2>4. Noticed(c)'
      BY <1>1, <1>2, <1>3, <2>3 DEF Noticed
    <2>5. View(c)'
      BY <1>1, <1>2, <1>3, ViewKept
    <2> QED BY <2>2, <2>4, <2>5
  <1>8. ASSUME NEW d \in Client \ {c} PROVE Orderly(d)' /\ Noticed(d)' /\ View(d)'
    <2>1. SameSession(d) /\ isUpdate'[d] = isUpdate[d]
      BY <1>3 DEF Others
    <2>2. pc[d] \notin Locked /\ (tx[d] # 0 => holder' # tx[d])
      BY <1>1, <1>2, Exclusion
    <2>3. Orderly(d)'
      BY <1>1, <2>1, <2>2, OrderlyKept
    <2>4. Noticed(d)'
      <3>1. holder' \notin {0, tx[d]}
        BY <1>1, <1>2, <2>2
      <3> QED BY <2>1, <2>2, <3>1, NoticedOutside
    <2>5. View(d)'
      BY <1>1, <2>1, ViewKept DEF DInv, SameSession
    <2> QED BY <2>3, <2>4, <2>5
  <1> QED BY <1>4, <1>5, <1>6, <1>7, <1>8 DEF DInv

(* The mark sends back a session whose rows are out of date.               *)
LEMMA DFlag ==
  ASSUME DisciplinedClients, IInv, DInv, NEW c \in Client, Flag(c)
  PROVE  DInv'
  <1>1. /\ pc[c] = "flag" /\ pc' = [pc EXCEPT ![c] = IF stale THEN "retry" ELSE "replace"]
        /\ UNCHANGED <<rows, txlog, nextId, active, holder, stale>>
        /\ UNCHANGED <<tx, running, isUpdate, stmt, todo, target>>
    BY DEF Flag, Go, disk, lock
  <1>2. Others(c) /\ pc'[c] = IF stale THEN "retry" ELSE "replace"
    BY <1>1 DEF Others, SameSession, IInv, TypeOK
  <1>3. Orderly(c) /\ Noticed(c)
    BY SessionFacts
  <1>4. Orderly(c)'
    <2>1. Update(c)' = Update(c)
      BY <1>1 DEF Update
    <2> QED BY <1>1, <1>2, <1>3, <2>1 DEF Orderly, Updating, Locked
  <1>5. Noticed(c)'
    <2>1. Outdated(c)' = Outdated(c)
      BY <1>1 DEF Outdated
    <2> QED BY <1>1, <1>2, <1>3, <2>1 DEF Noticed
  <1> QED BY <1>1, <1>2, <1>4, <1>5, LocalStep

(* The mark is lowered by the holder, which keeps everybody else waiting.  *)
LEMMA DRetry ==
  ASSUME DisciplinedClients, IInv, DInv, NEW c \in Client, Retry(c)
  PROVE  DInv'
  <1>1. /\ pc[c] = "retry" /\ holder' = holder /\ stale' = FALSE
        /\ pc' = [pc EXCEPT ![c] = "query"] /\ todo' = [todo EXCEPT ![c] = {}]
        /\ UNCHANGED <<rows, txlog, nextId, active, tx, running, isUpdate, stmt, target>>
    BY DEF Retry, L!Consume, Go, disk
  <1>2. /\ running[c] /\ tx[c] \in TxId /\ tx[c] # 0 /\ Update(c) /\ holder = tx[c]
        /\ Orderly(c) /\ View(c)
    BY <1>1, SessionFacts DEF Orderly, Updating, Locked
  <1>3. Others(c) /\ pc'[c] = "query"
    BY <1>1 DEF Others, SameSession, IInv, TypeOK
  <1>4. Quiet' /\ UpdateExclusive'
    BY <1>1 DEF DInv, Quiet, UpdateExclusive
  <1>5. Committed'
    BY <1>1, SeesKept DEF DInv
  <1>6. Orderly(c)' /\ Noticed(c)' /\ View(c)'
    <2>1. Update(c)'
      BY <1>1, <1>2 DEF Update
    <2>2. Orderly(c)'
      BY <1>1, <1>2, <1>3, <2>1 DEF Orderly, Updating, Locked
    <2>3. Noticed(c)'
      BY <1>3 DEF Noticed
    <2>4. View(c)'
      BY <1>1, <1>2, <1>3, ViewKept
    <2> QED BY <2>2, <2>3, <2>4
  <1>7. ASSUME NEW d \in Client \ {c} PROVE Orderly(d)' /\ Noticed(d)' /\ View(d)'
    <2>1. SameSession(d) /\ isUpdate'[d] = isUpdate[d]
      BY <1>3 DEF Others
    <2>2. pc[d] \notin Locked /\ (tx[d] # 0 => holder' # tx[d]) /\ holder' # 0
      BY <1>1, <1>2, Exclusion
    <2>3. Orderly(d)'
      BY <1>1, <2>1, <2>2, OrderlyKept
    <2>4. Noticed(d)'
      BY <2>1, <2>2, NoticedOutside
    <2>5. View(d)'
      BY <1>1, <2>1, ViewKept DEF DInv, SameSession
    <2> QED BY <2>3, <2>4, <2>5
  <1> QED BY <1>4, <1>5, <1>6, <1>7 DEF DInv

LEMMA DCommit ==
  ASSUME DisciplinedClients, IInv, DInv, NEW c \in Client, Commit(c)
  PROVE  DInv'
  <1>1. /\ pc' = [pc EXCEPT ![c] = "log"]
        /\ UNCHANGED <<rows, txlog, nextId, holder, stale>>
        /\ UNCHANGED <<tx, running, isUpdate, stmt, todo, target>>
    BY DEF Commit, Go, disk, lock
  <1>2. Orderly(c)
    BY SessionFacts
  <1>3. pc[c] = "idle" /\ running[c] /\ holder = tx[c]
    BY <1>2 DEF Commit, Orderly, DisciplinedClients
  <1>4. Others(c) /\ pc'[c] = "log"
    BY <1>1 DEF Others, SameSession, IInv, TypeOK
  <1>5. Orderly(c)'
    BY <1>1, <1>2, <1>3, <1>4 DEF Orderly, Updating
  <1>6. Noticed(c)'
    BY <1>4 DEF Noticed
  <1> QED BY <1>1, <1>3, <1>4, <1>5, <1>6, LocalStep

(* The session that has marked a version does not see its key any more.    *)
LEMMA NothingSeen ==
  ASSUME IInv, DInv, NEW c \in Client, pc[c] \in {"check", "put"}
  PROVE  /\ Visible(tx[c], NewKey(c)) = {} /\ stmt[c].valid /\ NewKey(c) \subseteq Key
         /\ \E k \in Key : NewKey(c) = {k}
  <1>1. /\ tx[c] \in TxId /\ Update(c) /\ View(c)
        /\ \E i \in DOMAIN rows : target[c] = {i}
    BY SessionFacts DEF Orderly, Updating
  <1>2. PICK i \in DOMAIN rows : target[c] = {i}
    BY <1>1
  <1>3. NewKey(c) = {rows[i].key} /\ rows[i].key \in Key
    BY <1>1, <1>2, RowFacts DEF NewKey, Update
  <1>4. Sees(tx[c], rows[i].key) = {}
    BY <1>1, <1>3 DEF View
  <1>5. Visible(tx[c], NewKey(c)) = {}
    BY <1>1, <1>3, <1>4, VisibleIsSeen DEF Sees
  <1> QED BY <1>1, <1>3, <1>5 DEF Update

(* So the second half of Table::Update is never refused.                   *)
LEMMA CheckPasses ==
  ASSUME IInv, DInv, NEW c \in Client, Check(c)
  PROVE  pc[c] = "check" /\ pc' = [pc EXCEPT ![c] = "put"] /\ UNCHANGED <<todo, stmt, target>>
  <1>1. pc[c] = "check"
    BY DEF Check
  <1>2. Visible(tx[c], NewKey(c)) = {} /\ stmt[c].valid
    BY <1>1, NothingSeen
  <1> QED BY <1>1, <1>2 DEF Check, Go

LEMMA DCheck ==
  ASSUME DisciplinedClients, IInv, DInv, NEW c \in Client, Check(c)
  PROVE  DInv'
  <1>1. pc[c] = "check" /\ pc' = [pc EXCEPT ![c] = "put"] /\ UNCHANGED <<todo, stmt, target>>
    BY CheckPasses
  <1>2. UNCHANGED <<rows, txlog, nextId, holder, stale, tx, running, isUpdate>>
    BY DEF Check, disk, lock
  <1>3. Others(c) /\ pc'[c] = "put"
    BY <1>1, <1>2 DEF Others, SameSession, IInv, TypeOK
  <1>4. Orderly(c) /\ Noticed(c)
    BY SessionFacts
  <1>5. Orderly(c)'
    <2>1. Update(c)' = Update(c)
      BY <1>1, <1>2 DEF Update
    <2> QED BY <1>1, <1>2, <1>3, <1>4, <2>1 DEF Orderly, Updating, Locked
  <1>6. Noticed(c)'
    <2>1. Outdated(c)' = Outdated(c)
      BY <1>1, <1>2 DEF Outdated
    <2> QED BY <1>1, <1>3, <1>4, <2>1 DEF Noticed
  <1> QED BY <1>1, <1>2, <1>3, <1>5, <1>6, LocalStep

(* A session outside that sees what it saw.                                *)
LEMMA ViewOutside ==
  ASSUME NEW d \in Client, View(d), SameSession(d), pc[d] \notin Locked,
         \A u \in TxId : tx[d] = u => \A k \in Key : Sees(u, k)' = Sees(u, k)
  PROVE  View(d)'
  BY DEF View, SameSession, Locked, Single

(* Writing the rows under the lock disturbs no other session.              *)
LEMMA OutsideKept ==
  ASSUME IInv, DInv, NEW c \in Client, pc[c] \in Locked, Others(c),
         UNCHANGED <<holder, stale>>, DOMAIN rows \subseteq DOMAIN rows',
         \A u \in TxId \cup {0} : u # tx[c] => \A k \in Key : Sees(u, k)' = Sees(u, k)
  PROVE  Committed' /\ \A d \in Client \ {c} : Orderly(d)' /\ Noticed(d)' /\ View(d)'
  <1>1. tx[c] \in TxId /\ tx[c] # 0 /\ holder = tx[c]
    BY SessionFacts DEF Orderly, Locked
  <1>2. Committed'
    BY <1>1 DEF DInv, Committed, Single
  <1>3. ASSUME NEW d \in Client \ {c} PROVE Orderly(d)' /\ Noticed(d)' /\ View(d)'
    <2>1. SameSession(d) /\ isUpdate'[d] = isUpdate[d] /\ View(d)
      BY DEF Others, DInv
    <2>2. pc[d] \notin Locked /\ (tx[d] # 0 => holder # tx[d] /\ tx[d] # tx[c])
      BY <1>1, Exclusion
    <2>3. Orderly(d)'
      BY <2>1, OrderlyKept
    <2>4. Noticed(d)'
      <3>1. holder' \notin {0, tx[d]}
        BY <1>1, <2>2
      <3> QED BY <2>1, <2>2, <3>1, NoticedOutside
    <2>5. View(d)'
      <3>1. ASSUME NEW u \in TxId, tx[d] = u PROVE \A k \in Key : Sees(u, k)' = Sees(u, k)
        BY <2>2, <3>1, RowFacts
      <3> QED BY <2>1, <2>2, <3>1, ViewOutside
    <2> QED BY <2>3, <2>4, <2>5
  <1> QED BY <1>2, <1>3

(* The old version is marked: the others see it all the same.              *)
LEMMA DReplace ==
  ASSUME DisciplinedClients, IInv, DInv, NEW c \in Client, Replace(c)
  PROVE  DInv'
  <1>1. /\ pc[c] = "replace" /\ pc' = [pc EXCEPT ![c] = "check"]
        /\ UNCHANGED <<txlog, nextId, holder, stale, tx, running, isUpdate, stmt>>
    BY DEF Replace, Go, lock
  <1>2. PICK i \in todo[c] : /\ Mark(i, tx[c])
                             /\ todo' = [todo EXCEPT ![c] = @ \ {i}]
                             /\ target' = [target EXCEPT ![c] = {i}]
    BY DEF Replace
  <1>3. /\ tx[c] \in TxId /\ tx[c] # 0 /\ holder = tx[c] /\ txlog[tx[c]] = "IN_PROGRESS"
        /\ Orderly(c) /\ View(c) /\ Update(c)
        /\ i \in DOMAIN rows /\ todo[c] \subseteq DOMAIN rows
        /\ \A j \in todo[c] : rows[j].del = 0
        /\ rows[i].ins = tx[c] \/ txlog[rows[i].ins] = "COMMITED"
    BY <1>1, SessionFacts DEF Orderly, Locked, Updating, Enlisted, Noticed, Outdated, Holding
  <1>4. /\ DOMAIN rows' = DOMAIN rows
        /\ \A j \in DOMAIN rows :
             /\ rows'[j].key = rows[j].key /\ rows'[j].ins = rows[j].ins
             /\ rows'[j].del = IF j = i THEN tx[c] ELSE rows[j].del
    <2>1. rows \in Seq(Row)
      BY DEF IInv, TypeOK
    <2> QED BY <1>2, <1>3, <2>1, MarkLemma
  <1>5. /\ Others(c) /\ pc'[c] = "check" /\ todo'[c] = todo[c] \ {i} /\ target'[c] = {i}
    BY <1>1, <1>2 DEF Others, SameSession, IInv, TypeOK
  <1>6. Quiet'
    BY <1>1 DEF DInv, Quiet
  <1>7. UpdateExclusive'
    <2>1. ASSUME NEW j \in DOMAIN rows', NEW t \in {rows'[j].ins, rows'[j].del},
                 t # 0, txlog'[t] = "IN_PROGRESS"
          PROVE  t = holder'
      <3>1. CASE t = tx[c]
        BY <1>1, <1>3, <3>1
      <3>2. CASE t # tx[c]
        <4>1. t \in {rows[j].ins, rows[j].del}
          BY <1>4, <2>1, <3>2
        <4> QED BY <1>1, <1>4, <2>1, <4>1 DEF DInv, UpdateExclusive
      <3> QED BY <3>1, <3>2
    <2> QED BY <2>1 DEF UpdateExclusive
  <1>8. ASSUME NEW u \in TxId \cup {0}, u # tx[c], NEW k \in Key
        PROVE  Sees(u, k)' = Sees(u, k)
    <2>1. ASSUME NEW j \in DOMAIN rows
          PROVE  ReadCommitted(rows'[j].ins, rows'[j].del, u, txlog')
                   <=> ReadCommitted(rows[j].ins, rows[j].del, u, txlog)
      BY <1>1, <1>3, <1>4, <1>8 DEF ReadCommitted
    <2> QED BY <1>4, <2>1 DEF Sees
  <1>9. \A d \in Client \ {c} : Orderly(d)' /\ Noticed(d)' /\ View(d)'
    BY <1>1, <1>4, <1>5, <1>8, OutsideKept DEF Locked
  <1>10. Committed'
    BY <1>1, <1>4, <1>5, <1>8, OutsideKept DEF Locked
  <1>11. Orderly(c)'
    <2>1. Update(c)' = Update(c)
      BY <1>1 DEF Update
    <2> QED BY <1>1, <1>3, <1>4, <1>5, <2>1 DEF Orderly, Updating, Locked
  <1>12. Noticed(c)'
    <2>1. \A j \in todo'[c] : rows'[j].del = 0
      BY <1>3, <1>4, <1>5
    <2> QED BY <1>5, <2>1 DEF Noticed, Outdated
  <1>13. View(c)'
    <2> SUFFICES ASSUME NEW t \in TxId, tx'[c] = t, NEW k \in Key
                 PROVE  IF k \in NewKey(c)' THEN (Sees(t, k) = {})' ELSE Single(Sees(t, k))'
      BY <1>5 DEF View
    <2>1. t = tx[c] /\ Single(Sees(t, k))
      BY <1>1, <1>3 DEF View
    <2>2. NewKey(c)' = {rows[i].key}
      BY <1>1, <1>3, <1>4, <1>5 DEF NewKey, Update
    <2>3. Sees(t, k)' = Sees(t, k) \ {i}
      <3>1. ASSUME NEW j \in DOMAIN rows, j # i
            PROVE  ReadCommitted(rows'[j].ins, rows'[j].del, t, txlog')
                     <=> ReadCommitted(rows[j].ins, rows[j].del, t, txlog)
        BY <1>1, <1>4, <3>1 DEF ReadCommitted
      <3>2. ~ReadCommitted(rows'[i].ins, rows'[i].del, t, txlog')
        BY <1>3, <1>4, <2>1 DEF ReadCommitted
      <3> QED BY <1>4, <3>1, <3>2 DEF Sees
    <2>4. i \in Sees(t, k) <=> k = rows[i].key
      BY <1>3, <2>1 DEF Sees, ReadCommitted
    <2> QED BY <2>1, <2>2, <2>3, <2>4 DEF Single
  <1> QED BY <1>6, <1>7, <1>9, <1>10, <1>11, <1>12, <1>13 DEF DInv

(* The new version is written: its owner sees it, and nobody else.         *)
LEMMA DPut ==
  ASSUME DisciplinedClients, IInv, DInv, NEW c \in Client, Put(c)
  PROVE  DInv'
  <1>1. /\ pc[c] = "put" /\ Continue(c, todo[c], "lock")
        /\ target' = [target EXCEPT ![c] = {}]
        /\ UNCHANGED <<txlog, nextId, holder, stale, tx, running, isUpdate>>
    BY DEF Put, lock
  <1>2. /\ tx[c] \in TxId /\ tx[c] # 0 /\ holder = tx[c] /\ txlog[tx[c]] = "IN_PROGRESS"
        /\ running[c] /\ Orderly(c) /\ View(c) /\ Update(c) /\ ~Outdated(c)
        /\ todo[c] \in SUBSET (DOMAIN rows) /\ rows \in Seq(Row)
    BY <1>1, SessionFacts DEF Orderly, Locked, Updating, Enlisted, Noticed, IInv, TypeOK
  <1>3. PICK k \in Key : NewKey(c) = {k}
    BY <1>1, NothingSeen
  <1>4. Append1(k, tx[c])
    BY <1>3 DEF Put
  <1> DEFINE n == Len(rows) + 1
  <1>5. /\ DOMAIN rows' = DOMAIN rows \cup {n} /\ n \notin DOMAIN rows
        /\ \A j \in DOMAIN rows : rows'[j] = rows[j]
        /\ rows'[n].key = k /\ rows'[n].ins = tx[c] /\ rows'[n].del = 0
    <2> DEFINE r == [key |-> k, ins |-> tx[c], del |-> 0]
    <2>1. r \in Row /\ r.key = k /\ r.ins = tx[c] /\ r.del = 0
      BY <1>2, MvccAssumption DEF Row, TxId
    <2>2. rows' = Append(rows, r)
      BY <1>4 DEF Append1
    <2> HIDE DEF r
    <2> QED BY <1>2, <2>1, <2>2
  <1> HIDE DEF n
  <1>6. /\ pc'[c] = (IF todo[c] = {} THEN "idle" ELSE "lock") /\ todo'[c] = todo[c]
        /\ target'[c] = {}
        /\ todo[c] # {} => stmt'[c] = stmt[c]
        /\ \A d \in Client \ {c} : pc'[d] = pc[d] /\ stmt'[d] = stmt[d] /\ todo'[d] = todo[d]
    <2>1. TypeOK
      BY DEF IInv
    <2>2. /\ pc'[c] = (IF todo[c] = {} THEN IF running[c] THEN "idle" ELSE "commit" ELSE "lock")
          /\ todo'[c] = todo[c]
          /\ \A d \in Client \ {c} :
               pc'[d] = pc[d] /\ stmt'[d] = stmt[d] /\ todo'[d] = todo[d]
      BY <1>1, <1>2, <2>1, ContinueLemma
    <2>3. todo[c] # {} => stmt'[c] = stmt[c]
      BY <1>1 DEF Continue
    <2> QED BY <1>1, <1>2, <2>1, <2>2, <2>3 DEF TypeOK
  <1>7. Others(c)
    BY <1>1, <1>6 DEF Others, SameSession
  <1>8. Quiet'
    BY <1>1 DEF DInv, Quiet
  <1>9. UpdateExclusive'
    <2>1. ASSUME NEW j \in DOMAIN rows', NEW t \in {rows'[j].ins, rows'[j].del},
                 t # 0, txlog'[t] = "IN_PROGRESS"
          PROVE  t = holder'
      <3>1. CASE j = n
        BY <1>1, <1>2, <1>5, <2>1, <3>1
      <3>2. CASE j # n
        BY <1>1, <1>5, <2>1, <3>2 DEF DInv, UpdateExclusive
      <3> QED BY <3>1, <3>2
    <2> QED BY <2>1 DEF UpdateExclusive
  <1>10. ASSUME NEW u \in TxId \cup {0}, u # tx[c], NEW l \in Key
         PROVE  Sees(u, l)' = Sees(u, l)
    <2>1. ~ReadCommitted(rows'[n].ins, rows'[n].del, u, txlog')
      BY <1>1, <1>2, <1>5, <1>10 DEF ReadCommitted
    <2>2. \A j \in DOMAIN rows :
            ReadCommitted(rows'[j].ins, rows'[j].del, u, txlog')
              <=> ReadCommitted(rows[j].ins, rows[j].del, u, txlog)
      BY <1>1, <1>5 DEF ReadCommitted
    <2> QED BY <1>5, <2>1, <2>2 DEF Sees
  <1>11. Committed' /\ \A d \in Client \ {c} : Orderly(d)' /\ Noticed(d)' /\ View(d)'
    BY <1>1, <1>5, <1>7, <1>10, OutsideKept DEF Locked
  <1>12. Orderly(c)'
    <2>1. todo[c] # {} => Update(c)'
      BY <1>1, <1>2, <1>6 DEF Update
    <2>2. isUpdate'[c]
      BY <1>1, <1>2 DEF Update
    <2> QED BY <1>1, <1>2, <1>6, <2>1, <2>2 DEF Orderly, Updating, Locked
  <1>13. Noticed(c)'
    <2>1. \A j \in todo'[c] : rows'[j].del = 0
      BY <1>2, <1>5, <1>6 DEF Outdated
    <2> QED BY <1>6, <2>1 DEF Noticed, Outdated
  <1>14. View(c)'
    <2> SUFFICES ASSUME NEW t \in TxId, tx'[c] = t, NEW l \in Key
                 PROVE  Single(Sees(t, l))'
      BY <1>6 DEF View
    <2>1. /\ t = tx[c]
          /\ IF l = k THEN Sees(t, l) = {} ELSE Single(Sees(t, l))
      BY <1>1, <1>2, <1>3 DEF View
    <2>2. Sees(t, l)' = IF l = k THEN Sees(t, l) \cup {n} ELSE Sees(t, l)
      <3>1. ReadCommitted(rows'[n].ins, rows'[n].del, t, txlog')
        BY <1>5, <2>1 DEF ReadCommitted
      <3>2. \A j \in DOMAIN rows :
              ReadCommitted(rows'[j].ins, rows'[j].del, t, txlog')
                <=> ReadCommitted(rows[j].ins, rows[j].del, t, txlog)
        BY <1>1, <1>5 DEF ReadCommitted
      <3> QED BY <1>5, <3>1, <3>2 DEF Sees
    <2> QED BY <2>1, <2>2 DEF Single
  <1> QED BY <1>8, <1>9, <1>11, <1>12, <1>13, <1>14 DEF DInv

(* A transaction that begins has written nothing and sees what number 0    *)
(* sees.                                                                   *)
LEMMA DBegin ==
  ASSUME DisciplinedClients, IInv, DInv, NEW c \in Client, Begin(c)
  PROVE  DInv'
  <1>1. /\ pc[c] = "idle" /\ ~running[c] /\ NewTransaction(c)
        /\ tx' = [tx EXCEPT ![c] = nextId]
        /\ running' = [running EXCEPT ![c] = TRUE]
        /\ UNCHANGED <<rows, holder, stale, isUpdate, pc, stmt, todo, target>>
    BY DEF Begin, lock
  <1>2. nextId \in TxId /\ nextId # 0 /\ txlog[nextId] = "NONE"
    BY <1>1, MvccAssumption DEF IInv, TypeOK, Numbers, NewTransaction, TxId
  <1>3. /\ txlog' = [txlog EXCEPT ![nextId] = "IN_PROGRESS"]
        /\ txlog'[nextId] = "IN_PROGRESS"
        /\ \A u \in TxId : u # nextId => txlog'[u] = txlog[u]
    BY <1>1, <1>2 DEF NewTransaction, IInv, TypeOK
  <1>4. holder # nextId /\ (holder # 0 => holder \in TxId)
    BY <1>2, MvccAssumption DEF DInv, Quiet, IInv, TypeOK, TxId
  <1>5. tx[c] = 0 /\ tx'[c] = nextId /\ running'[c] /\ Orderly(c)
    BY <1>1, SessionFacts DEF Orderly, IInv, TypeOK
  <1>6. Quiet'
    BY <1>1, <1>2, <1>3, <1>4 DEF DInv, Quiet
  <1>7. \A i \in DOMAIN rows : \A t \in {rows[i].ins, rows[i].del} :
          t # 0 => t \in TxId /\ t # nextId
    BY <1>2, RowFacts
  <1>8. UpdateExclusive'
    BY <1>1, <1>3, <1>7 DEF DInv, UpdateExclusive
  <1>9. ASSUME NEW u \in TxId \cup {0}, NEW k \in Key
        PROVE  Sees(u, k)' = Sees(IF u = nextId THEN 0 ELSE u, k)
    <2>1. \A i \in DOMAIN rows :
            ReadCommitted(rows'[i].ins, rows'[i].del, u, txlog')
              <=> ReadCommitted(rows[i].ins, rows[i].del, IF u = nextId THEN 0 ELSE u, txlog)
      BY <1>1, <1>3, <1>7, RowFacts DEF ReadCommitted
    <2> QED BY <1>1, <2>1 DEF Sees
  <1>10. Committed'
    BY <1>2, <1>9 DEF DInv, Committed, Single
  <1>11. Orderly(c)' /\ Noticed(c)' /\ View(c)'
    <2>1. Orderly(c)'
      BY <1>1, <1>4, <1>5 DEF Orderly, Updating, Locked
    <2>2. Noticed(c)'
      BY <1>1 DEF Noticed
    <2>3. ASSUME NEW t \in TxId, t = nextId, NEW k \in Key PROVE Single(Sees(t, k))'
      <3>1. Sees(t, k)' = Sees(0, k)
        BY <1>9, <2>3
      <3> QED BY <3>1 DEF DInv, Committed, Single
    <2>4. View(c)'
      BY <1>1, <1>5, <2>3 DEF View
    <2> QED BY <2>1, <2>2, <2>4
  <1>12. ASSUME NEW d \in Client \ {c} PROVE Orderly(d)' /\ Noticed(d)' /\ View(d)'
    <2>1. SameSession(d) /\ isUpdate'[d] = isUpdate[d]
      BY <1>1 DEF SameSession, IInv, TypeOK
    <2>2. Orderly(d)' /\ Noticed(d)'
      BY <1>1, <2>1, OrderlyKept, NoticedKept
    <2>3. tx[d] # nextId
      BY <1>1, NewTransactionLemma
    <2>4. \A u \in TxId : tx[d] = u => \A k \in Key : Sees(u, k)' = Sees(u, k)
      BY <1>9, <2>3
    <2>5. pc[d] \in {"check", "put"} => NewKey(d)' = NewKey(d)
      BY <1>1 DEF NewKey
    <2>6. View(d) /\ tx'[d] = tx[d] /\ pc'[d] = pc[d]
      BY <2>1 DEF DInv, SameSession
    <2>7. View(d)'
      BY <2>4, <2>5, <2>6 DEF View, Single
    <2> QED BY <2>2, <2>7
  <1> QED BY <1>6, <1>8, <1>10, <1>11, <1>12 DEF DInv

(* A commit shows everybody what its transaction has seen all along.       *)
LEMMA DLogCommit ==
  ASSUME DisciplinedClients, IInv, DInv, NEW c \in Client, LogCommit(c)
  PROVE  DInv'
  <1>1. /\ pc[c] = "log" /\ pc' = [pc EXCEPT ![c] = "unlock"]
        /\ txlog' = [txlog EXCEPT ![tx[c]] = "COMMITED"]
        /\ UNCHANGED <<rows, nextId, holder, stale, tx, running, isUpdate, stmt, todo, target>>
    BY DEF LogCommit, Go, lock
  <1>2. PICK w \in TxId : w = tx[c] /\ w # 0 /\ holder = w /\ txlog[w] = "IN_PROGRESS"
    BY <1>1, SessionFacts DEF Orderly, Locked, Enlisted
  <1>3. txlog'[w] = "COMMITED" /\ \A u \in TxId : u # w => txlog'[u] = txlog[u]
    BY <1>1, <1>2 DEF IInv, TypeOK
  <1>4. Others(c) /\ pc'[c] = "unlock" /\ Orderly(c) /\ View(c)
    BY <1>1, SessionFacts DEF Others, SameSession, IInv, TypeOK
  <1>5. Quiet'
    BY <1>1, <1>2, <1>3 DEF DInv, Quiet
  <1>6. UpdateExclusive'
    <2>1. ASSUME NEW j \in DOMAIN rows, NEW t \in {rows[j].ins, rows[j].del},
                 t # 0, txlog'[t] = "IN_PROGRESS"
          PROVE  t = holder
      <3>1. t \in TxId
        BY <2>1, RowFacts
      <3>2. txlog[t] = "IN_PROGRESS"
        BY <1>3, <2>1, <3>1
      <3> QED BY <2>1, <3>2 DEF DInv, UpdateExclusive
    <2> QED BY <1>1, <2>1 DEF UpdateExclusive
  <1>7. \A j \in DOMAIN rows :
          /\ rows[j].ins \in TxId /\ txlog[rows[j].ins] \in {"IN_PROGRESS", "COMMITED"}
          /\ txlog[rows[j].ins] = "IN_PROGRESS" => rows[j].ins = w
          /\ rows[j].del # 0 =>
               /\ rows[j].del \in TxId /\ txlog[rows[j].del] \in {"IN_PROGRESS", "COMMITED"}
               /\ txlog[rows[j].del] = "IN_PROGRESS" => rows[j].del = w
    <2>1. \A t \in TxId : txlog[t] # "NONE" => txlog[t] \in {"IN_PROGRESS", "COMMITED"}
      BY DEF DInv, Quiet, IInv, TypeOK, Status, Outcome
    <2> QED BY <1>2, <2>1, RowFacts DEF DInv, UpdateExclusive
  <1>8. ASSUME NEW u \in TxId \cup {0}, NEW k \in Key,
               u = 0 \/ u = w \/ txlog[u] = "IN_PROGRESS"
        PROVE  Sees(u, k)' = Sees(w, k)
    <2>1. ASSUME NEW j \in DOMAIN rows
          PROVE  ReadCommitted(rows[j].ins, rows[j].del, u, txlog')
                   <=> ReadCommitted(rows[j].ins, rows[j].del, w, txlog)
      <3>1. txlog'[rows[j].ins] = "COMMITED"
        BY <1>3, <1>7, <2>1
      <3>2. rows[j].ins = w \/ txlog[rows[j].ins] = "COMMITED"
        BY <1>7, <2>1
      <3>3. rows[j].del # 0 => txlog'[rows[j].del] = "COMMITED"
        BY <1>3, <1>7, <2>1
      <3>4. rows[j].del # 0 => rows[j].del = w \/ txlog[rows[j].del] = "COMMITED"
        BY <1>7, <2>1
      <3> QED BY <3>1, <3>2, <3>3, <3>4 DEF ReadCommitted
    <2> QED BY <1>1, <2>1 DEF Sees
  <1>9. \A k \in Key : Single(Sees(w, k))
    BY <1>1, <1>2, <1>4 DEF View
  <1>10. Committed'
    <2>1. \A k \in Key : Sees(0, k)' = Sees(w, k)
      BY <1>8
    <2> QED BY <1>9, <2>1 DEF Committed, Single
  <1>11. Orderly(c)' /\ Noticed(c)' /\ View(c)'
    <2>1. Orderly(c)'
      BY <1>1, <1>4 DEF Orderly, Updating, Locked
    <2>2. Noticed(c)'
      BY <1>4 DEF Noticed
    <2>3. ASSUME NEW t \in TxId, tx'[c] = t, NEW k \in Key PROVE Single(Sees(t, k))'
      <3>1. Sees(t, k)' = Sees(w, k)
        BY <1>1, <1>2, <1>8, <2>3
      <3> QED BY <1>9, <3>1 DEF Single
    <2>4. View(c)'
      BY <1>4, <2>3 DEF View
    <2> QED BY <2>1, <2>2, <2>4
  <1>12. ASSUME NEW d \in Client \ {c} PROVE Orderly(d)' /\ Noticed(d)' /\ View(d)'
    <2>1. SameSession(d) /\ isUpdate'[d] = isUpdate[d]
      BY <1>4 DEF Others
    <2>2. Orderly(d)' /\ Noticed(d)'
      BY <1>1, <2>1, OrderlyKept, NoticedKept
    <2>3. pc[d] \notin Locked
      BY <1>2, Exclusion
    <2>4. ASSUME NEW t \in TxId, tx'[d] = t, NEW k \in Key PROVE Single(Sees(t, k))'
      <3>1. txlog[t] = "IN_PROGRESS"
        BY <1>1, <2>3, <2>4, RowFacts, SessionFacts DEF Enlisted, Locked
      <3>2. Sees(t, k)' = Sees(w, k)
        BY <1>8, <3>1
      <3> QED BY <1>9, <3>2 DEF Single
    <2>5. View(d)'
      BY <2>1, <2>3, <2>4 DEF View, SameSession, Locked
    <2> QED BY <2>2, <2>5
  <1> QED BY <1>5, <1>6, <1>10, <1>11, <1>12 DEF DInv

(* The lock is given back with the mark up, as rows have been updated.     *)
LEMMA DUnlock ==
  ASSUME DisciplinedClients, IInv, DInv, NEW c \in Client, Unlock(c)
  PROVE  DInv'
  <1>1. /\ pc[c] = "unlock" /\ pc' = [pc EXCEPT ![c] = "idle"] /\ Forget(c)
        /\ holder' = 0 /\ stale' = (running[c] /\ isUpdate[c])
        /\ UNCHANGED <<rows, txlog, nextId, active, stmt, todo, target>>
    BY DEF Unlock, Go, L!Release, disk
  <1>2. /\ tx[c] \in TxId /\ tx[c] # 0 /\ holder = tx[c] /\ txlog[tx[c]] = "COMMITED"
        /\ running[c] /\ isUpdate[c] /\ Orderly(c)
    BY <1>1, SessionFacts DEF Orderly, Locked, Enlisted
  <1>3. /\ pc'[c] = "idle" /\ tx'[c] = 0 /\ ~running'[c] /\ stale'
        /\ \A d \in Client \ {c} : SameSession(d) /\ isUpdate'[d] = isUpdate[d]
    BY <1>1, <1>2 DEF SameSession, Forget, IInv, TypeOK
  <1>4. Quiet'
    BY <1>1 DEF DInv, Quiet
  <1>5. UpdateExclusive'
    BY <1>1, <1>2 DEF DInv, UpdateExclusive
  <1>6. Committed'
    BY <1>1, SeesKept DEF DInv
  <1>7. Orderly(c)' /\ Noticed(c)' /\ View(c)'
    BY <1>3, RowFacts DEF Orderly, Updating, Locked, Noticed, View
  <1>8. ASSUME NEW d \in Client \ {c} PROVE Orderly(d)' /\ Noticed(d)' /\ View(d)'
    <2>1. SameSession(d) /\ isUpdate'[d] = isUpdate[d]
      BY <1>3
    <2>2. pc[d] \notin Locked /\ (tx[d] # 0 => holder' # tx[d])
      BY <1>1, <1>2, Exclusion
    <2>3. Orderly(d)'
      BY <1>1, <2>1, <2>2, OrderlyKept
    <2>4. Noticed(d)'
      BY <1>3, <2>1, <2>2, NoticedOutside
    <2>5. View(d)'
      BY <1>1, <2>1, ViewKept DEF DInv, SameSession
    <2> QED BY <2>3, <2>4, <2>5
  <1> QED BY <1>4, <1>5, <1>6, <1>7, <1>8 DEF DInv

-----------------------------------------------------------------------------
(* The invariant of every reachable state. *)

LEMMA InitDInv == DisciplinedClients /\ Init => DInv
  <1> SUFFICES ASSUME DisciplinedClients, Init PROVE DInv
    OBVIOUS
  <1>1. /\ DOMAIN rows = DOMAIN Seed /\ 1 \in TxId /\ 0 \notin TxId
        /\ \A i \in DOMAIN rows : rows[i].key = Seed[i] /\ rows[i].ins = 1 /\ rows[i].del = 0
    <2>1. DOMAIN Seed = 1..Len(Seed)
      BY MvccAssumption
    <2> QED BY <2>1, MvccAssumption DEF Init, TxId
  <1>2. \A t \in TxId : txlog[t] = IF t = 1 THEN "COMMITED" ELSE "NONE"
    BY DEF Init
  <1>3. Quiet /\ UpdateExclusive
    BY <1>1, <1>2 DEF Init, Quiet, UpdateExclusive, L!LockInit
  <1>4. ASSUME NEW k \in Key PROVE Single(Sees(0, k))
    <2>1. PICK i \in DOMAIN Seed : Seed[i] = k
      BY DEF DisciplinedClients
    <2>2. \A j \in DOMAIN Seed : Seed[j] = k => j = i
      BY <2>1, MvccAssumption
    <2>3. Sees(0, k) = {i}
      BY <1>1, <1>2, <2>1, <2>2 DEF Sees, ReadCommitted
    <2> QED BY <2>3 DEF Single
  <1>5. \A c \in Client : Orderly(c) /\ Noticed(c) /\ View(c)
    BY <1>1 DEF Init, Orderly, Noticed, View, Updating, Locked
  <1> QED BY <1>3, <1>4, <1>5 DEF DInv, Committed

(* What these clients never do.                                            *)
LEMMA NotDone ==
  ASSUME DisciplinedClients, IInv, DInv
  PROVE  /\ ~Crash
         /\ \A c \in Client : /\ ~Fail(c) /\ ~Rollback(c)
                              /\ ~Lookup(c) /\ ~MarkDeleted(c)
  <1>1. \A c \in Client : pc[c] \notin {"lookup", "mark"}
    BY SessionFacts DEF Orderly
  <1> QED BY <1>1 DEF DisciplinedClients, Crash, Fail, Rollback, Lookup, MarkDeleted

LEMMA NextDInv == DisciplinedClients /\ IInv /\ DInv /\ [Next]_vars => DInv'
  <1> SUFFICES ASSUME DisciplinedClients, IInv, DInv, [Next]_vars PROVE DInv'
    OBVIOUS
  <1>1. ASSUME NEW c \in Client, Step(c) PROVE DInv'
    BY <1>1, NotDone, DBegin, DExecute, DQuery, DLock, DFlag, DRetry, DReplace, DCheck,
       DPut, DCommit, DLogCommit, DUnlock DEF Step
  <1>2. CASE UNCHANGED vars
    <2>1. UNCHANGED <<rows, txlog, holder, stale, tx, running, isUpdate, pc, stmt, todo, target>>
      BY <1>2 DEF vars, disk, lock, session
    <2>2. Quiet' /\ UpdateExclusive' /\ Committed'
      BY <2>1, SeesKept DEF DInv, Quiet, UpdateExclusive
    <2>3. ASSUME NEW d \in Client PROVE Orderly(d)' /\ Noticed(d)' /\ View(d)'
      <3>1. SameSession(d) /\ isUpdate'[d] = isUpdate[d]
        BY <2>1 DEF SameSession
      <3>2. Orderly(d)' /\ Noticed(d)'
        BY <2>1, <3>1, OrderlyKept, NoticedKept
      <3>3. View(d)'
        BY <2>1, <3>1, ViewKept DEF DInv, SameSession
      <3> QED BY <3>2, <3>3
    <2> QED BY <2>2, <2>3 DEF DInv
  <1> QED BY <1>1, <1>2, NotDone DEF Next

THEOREM DisciplinedInvariance ==
  ASSUME DisciplinedClients
  PROVE  Spec => [](IInv /\ DInv)
  <1>1. Init => DInv
    BY InitDInv
  <1>2. IInv /\ DInv /\ [Next]_vars => DInv'
    BY NextDInv
  <1> QED BY <1>1, <1>2, InitIInv, NextIInv, PTL DEF Spec

-----------------------------------------------------------------------------
(* What it implies. *)

(* Whatever is uncommitted in the table is the work of the transaction     *)
(* that holds the update lock.                                             *)
THEOREM UncommittedIsHolders ==
  ASSUME DisciplinedClients
  PROVE  Spec => []UpdateExclusive
  <1>1. IInv /\ DInv => UpdateExclusive
    BY DEF DInv
  <1> QED BY <1>1, DisciplinedInvariance, PTL

(* A running transaction finds one version of every row at each moment, or *)
(* none of the row it is replacing: commits of others take a version away  *)
(* and give the next one in one step.                                      *)
THEOREM OneVersionSeen ==
  ASSUME DisciplinedClients
  PROVE  Spec => []OneVersion
  <1>1. IInv /\ DInv => OneVersion
    <2> SUFFICES ASSUME IInv, DInv, NEW c \in Client, tx[c] # 0, NEW k \in Key
                 PROVE  Cardinality(Visible(tx[c], {k})) =
                          IF pc[c] \in {"check", "put"} /\ k \in NewKey(c) THEN 0 ELSE 1
      BY DEF OneVersion
    <2>1. PICK t \in TxId : tx[c] = t
      BY SessionFacts
    <2>2. Visible(tx[c], {k}) = Sees(t, k)
      BY <2>1, VisibleIsSeen DEF Sees
    <2>3. IF pc[c] \in {"check", "put"} /\ k \in NewKey(c) THEN Sees(t, k) = {}
                                                         ELSE Single(Sees(t, k))
      BY <2>1, SessionFacts DEF View
    <2>4. Cardinality({}) = 0 /\ \A i : Cardinality({i}) = 1
      BY FS_EmptySet, FS_Singleton
    <2> QED BY <2>2, <2>3, <2>4 DEF Single
  <1> QED BY <1>1, DisciplinedInvariance, PTL

(* No session overwrites the deletion mark of another one: the rows it     *)
(* replaces bear no mark, although its query may have run before the       *)
(* transaction that held the lock marked them.                             *)
THEOREM MarksAreKept ==
  ASSUME DisciplinedClients
  PROVE  Spec => MarksKept
  <1> DEFINE Kept == \A i \in DOMAIN rows :
                       rows[i].del # 0 /\ txlog[rows[i].del] \in {"IN_PROGRESS", "COMMITED"}
                         => rows'[i].del = rows[i].del
  <1>1. ASSUME IInv, DInv, [Next]_vars PROVE Kept
    <2>1. ASSUME NEW c \in Client, Step(c) PROVE Kept
      <3>1. CASE Replace(c)
        <4>1. pc[c] = "replace" /\ \E i \in todo[c] : Mark(i, tx[c])
          BY <3>1 DEF Replace
        <4>2. PICK i \in todo[c] : Mark(i, tx[c])
          BY <4>1
        <4>3. /\ tx[c] \in TxId /\ i \in DOMAIN rows /\ rows \in Seq(Row)
              /\ rows[i].del = 0
          BY <1>1, <4>1, <4>2, SessionFacts DEF Noticed, Outdated, IInv, TypeOK
        <4> QED BY <4>2, <4>3, MarkLemma
      <3>2. CASE Put(c)
        <4>1. pc[c] = "put" /\ \E k \in NewKey(c) : Append1(k, tx[c])
          BY <3>2 DEF Put
        <4>2. /\ tx[c] \in TxId /\ rows \in Seq(Row)
              /\ \E k \in Key : Append1(k, tx[c])
          BY <1>1, <4>1, SessionFacts, NothingSeen DEF IInv, TypeOK
        <4> QED BY <4>2, AppendLemma
      <3>3. CASE UNCHANGED rows
        BY <3>3
      <3> QED
        BY <1>1, <2>1, <3>1, <3>2, <3>3, NotDone
           DEF Step, Begin, Execute, Query, Lock, Flag, Retry, Check, Commit, LogCommit,
               Unlock, disk
    <2>2. CASE UNCHANGED vars
      BY <2>2 DEF vars, disk
    <2> QED BY <1>1, <2>1, <2>2, NotDone DEF Next
  <1>2. IInv /\ DInv /\ [Next]_vars => [Kept]_vars
    BY <1>1
  <1> QED BY <1>2, DisciplinedInvariance, PTL DEF Spec, MarksKept

(* An UPDATE that has marked the old version of a row writes the new one:  *)
(* Table::Insert finds no row of the key and so does not refuse.           *)
THEOREM UpdatesAreNotLost ==
  ASSUME DisciplinedClients
  PROVE  Spec => NoLostUpdate
  <1> DEFINE Kept == \A c \in Client :
                       pc[c] = "check" /\ stmt[c].kind = "UPDATE" /\ stmt[c].valid
                         /\ stmt[c].to = {}
                         => pc'[c] \in {"check", "put"}
  <1>1. ASSUME IInv, DInv, [Next]_vars PROVE Kept
    <2>0. pc \in [Client -> Pc]
      BY <1>1 DEF IInv, TypeOK
    <2>1. ASSUME NEW c \in Client, Step(c) PROVE Kept
      <3>1. \A d \in Client \ {c} : pc'[d] = pc[d]
        BY <2>0, <2>1, <1>1, NotDone
           DEF Step, Begin, Execute, Query, Lock, Flag, Retry, Replace, Check, Put, Commit,
               LogCommit, Unlock, Go, Continue, Finish
      <3>2. pc[c] = "check" => Check(c)
        BY <1>1, <2>1, NotDone
           DEF Step, Begin, Execute, Query, Lock, Flag, Retry, Replace, Put, Commit,
               LogCommit, Unlock
      <3>3. pc[c] = "check" => pc'[c] = "put"
        BY <1>1, <2>0, <3>2, CheckPasses
      <3> QED BY <3>1, <3>3
    <2>2. CASE UNCHANGED vars
      BY <2>2 DEF vars, session
    <2> QED BY <1>1, <2>1, <2>2, NotDone DEF Next
  <1>2. IInv /\ DInv /\ [Next]_vars => [Kept]_vars
    BY <1>1
  <1> QED BY <1>2, DisciplinedInvariance, PTL DEF Spec, NoLostUpdate
=============================================================================
