-------------------------------- MODULE Scan --------------------------------
(***************************************************************************)
(* One query that runs while other transactions work: Table::RangeQuery of *)
(* daemon/storage/table.cpp as the several reads it makes.  It walks the   *)
(* leaf chain, copying one leaf at a time; for every entry of the copy it  *)
(* reads the row version and its two transaction marks from the data page; *)
(* and only when the walk has ended does it judge what it has read, version *)
(* by version, with Database::IsVisible, which looks at the list of active *)
(* transactions and then at the log, once for the deleter and once for the *)
(* inserter.                                                               *)
(*                                                                         *)
(* The other transactions insert, mark, commit and roll back without any   *)
(* regard for the query or for each other's marks.  The query walks the    *)
(* whole chain: a bound only drops versions by their key.  One connection  *)
(* at a time changes the index, whose leaves are split in ways a copy of a *)
(* leaf does not see.                                                      *)
(***************************************************************************)
EXTENDS Visibility, Sequences, Functions

CONSTANTS
  Tx,             \* the transactions, none of them 0
  Reader,         \* the one that queries
  Key,            \* primary keys
  MaxRow          \* bound: row versions

ASSUME ScanAssumption ==
  /\ Reader \in Tx /\ 0 \notin Tx
  /\ Key \subseteq Nat /\ MaxRow \in Nat

VARIABLES
  (* shared *)
  log, active,    \* the transaction log and active_transactions
  row,            \* the row versions in the order they were written
  (* the query *)
  pc,             \* what it is doing
  leaf,           \* what is left of the leaf it has copied
  last,           \* the last entry of the leaves copied so far, 0 for none
  known,          \* how many versions there were when it was copied
  read,           \* the versions read, with their marks, not yet judged
  seen,           \* what IsVisible has read about the first of them
  result,         \* transactionVisibleRows
  (* history: the versions that were, and were not, visible to the reader  *)
  (* at some instant since the query began, and those whose mark one       *)
  (* transaction wrote over another's                                      *)
  shown, hidden, contested

shared == <<log, active, row>>
query == <<pc, leaf, last, known, read, seen, result>>
history == <<shown, hidden, contested>>
vars == <<shared, query, history>>

Id == 1..MaxRow
Nothing == [insActive |-> FALSE, delActive |-> FALSE, del |-> "NONE"]

-----------------------------------------------------------------------------
(* The other transactions, and the reader's own before it queries. *)

Running(t) == log[t] = "IN_PROGRESS" /\ t \in active

MayAct(t) == t = Reader => pc = "idle"

Begin(t) ==
  /\ log[t] = "NONE"
  /\ active' = active \cup {t}
  /\ log' = [log EXCEPT ![t] = "IN_PROGRESS"]
  /\ UNCHANGED <<row, query>>

(* Mutant: the two transaction fields of the block header swapped.         *)
InsertSwapped(t, k) ==
  /\ MayAct(t) /\ Running(t) /\ Len(row) < MaxRow
  /\ row' = Append(row, [key |-> k, ins |-> 0, del |-> t])
  /\ UNCHANGED <<log, active, query>>

(* Table::Insert, and the second half of Table::Update: the version is     *)
(* written before its index entry, which makes it known to queries.        *)
Insert(t, k) ==
  /\ MayAct(t) /\ Running(t) /\ Len(row) < MaxRow
  /\ row' = Append(row, [key |-> k, ins |-> t, del |-> 0])
  /\ UNCHANGED <<log, active, query>>

(* Table::Delete, and the first half of Table::Update: the version was     *)
(* visible to t when t looked for it, which may be a while ago.            *)
Mark(t, i) ==
  /\ MayAct(t) /\ Running(t)
  /\ row[i].ins = t \/ log[row[i].ins] = "COMMITED"
  /\ row' = [row EXCEPT ![i].del = t]
  /\ UNCHANGED <<log, active, query>>

(* Transaction::Commit: first the transaction leaves the active ones ...   *)
Leave(t) ==
  /\ MayAct(t) /\ Running(t)
  /\ active' = active \ {t}
  /\ UNCHANGED <<log, row, query>>

(* ... then the log says that it is committed.                             *)
Commit(t) ==
  /\ log[t] = "IN_PROGRESS" /\ t \notin active
  /\ log' = [log EXCEPT ![t] = "COMMITED"]
  /\ UNCHANGED <<active, row, query>>

(* Transaction::Rollback, which leaves the active ones as they are.        *)
Rollback(t) ==
  /\ MayAct(t) /\ Running(t)
  /\ log' = [log EXCEPT ![t] = "ABORTED"]
  /\ UNCHANGED <<active, row, query>>

-----------------------------------------------------------------------------
(* The query. *)

(* The order of the leaf chain: by key, equal keys as they came.           *)
Before(i, j) ==
  row[i].key < row[j].key \/ (row[i].key = row[j].key /\ i < j)

(* What the chain holds behind the leaves already copied.                  *)
Behind == {i \in DOMAIN row : last # 0 => Before(last, i)}

Ascending(s) == \A m, n \in DOMAIN s : m < n => Before(s[m], s[n])

(* Some of the entries behind, in the order of the chain.                  *)
Pieces == {s \in UNION {[1..n -> Behind] : n \in 1..MaxRow} : Ascending(s)}

Start ==
  /\ pc = "idle" /\ Running(Reader)
  /\ pc' = "walk" /\ last' = 0 /\ known' = Len(row)
  /\ UNCHANGED <<shared, leaf, read, seen, result>>

(* The leaf s is copied, and the walk will go on behind its last entry.    *)
Copied(s) ==
  /\ leaf' = s
  /\ last' = s[Len(s)] /\ known' = Len(row)
  /\ UNCHANGED <<shared, pc, read, seen, result>>

(* Mutant: the next leaf is looked for one entry too far.                  *)
CopyLeafBehind ==
  /\ pc = "walk" /\ leaf = <<>>
  /\ \E s \in Pieces : Copied(s)

(* Mutant: the leaf copied last is copied again.                           *)
CopyLeafAgain ==
  /\ pc = "walk" /\ leaf = <<>>
  /\ \E s \in Pieces : Copied(IF last = 0 THEN s ELSE <<last>> \o s)

(* readPage of the first leaf, or of the sibling that the last copy names: *)
(* entries that follow, in one piece.  Passed over are only entries that   *)
(* went into the copied leaf after it was copied.                          *)
CopyLeaf ==
  /\ pc = "walk" /\ leaf = <<>>
  /\ \E s \in Pieces :
       /\ \A j \in Behind \ Range(s) :
            Before(j, s[Len(s)]) => Before(j, s[1]) /\ last # 0 /\ j > known
       /\ Copied(s)

(* readValue: the version and its marks, from the data page.               *)
ReadRow ==
  /\ pc = "walk" /\ leaf # <<>>
  /\ LET i == Head(leaf)
     IN  read' = Append(read, [id |-> i, ins |-> row[i].ins, del |-> row[i].del])
  /\ leaf' = Tail(leaf)
  /\ UNCHANGED <<shared, pc, last, known, seen, result>>

(* The copied leaf was the last one, or, when the walk starts, the tree is *)
(* empty.                                                                  *)
EndWalk ==
  /\ pc = "walk" /\ leaf = <<>>
  /\ \A j \in Behind : j > known
  /\ pc' = "judge"
  /\ UNCHANGED <<shared, leaf, last, known, read, seen, result>>

(* IsVisible's early return, or its two searches of the active ones; what  *)
(* they find never decides the verdict, so they are one step.              *)
ReadActive ==
  /\ pc = "judge" /\ read # <<>>
  /\ IF Head(read).del = Reader
     THEN /\ read' = Tail(read)
          /\ UNCHANGED <<pc, seen>>
     ELSE /\ pc' = "deleter"
          /\ seen' = [seen EXCEPT !.insActive = Head(read).ins \in active,
                                  !.delActive = Head(read).del \in active]
          /\ UNCHANGED read
  /\ UNCHANGED <<shared, leaf, last, known, result>>

ReadDeleter ==
  /\ pc = "deleter"
  /\ pc' = "inserter"
  /\ seen' = [seen EXCEPT !.del = ReadTransactionLog(log, Head(read).del)]
  /\ UNCHANGED <<shared, leaf, last, known, read, result>>

ReadInserter ==
  /\ pc = "inserter"
  /\ pc' = "judge"
  /\ LET r == Head(read)
     IN  result' = IF Verdict(r.ins, r.del, Reader, seen.insActive, seen.delActive,
                              seen.del, ReadTransactionLog(log, r.ins))
                   THEN Append(result, r.id) ELSE result
  /\ read' = Tail(read) /\ seen' = Nothing
  /\ UNCHANGED <<shared, leaf, last, known>>

Done ==
  /\ pc = "judge" /\ read = <<>>
  /\ pc' = "done"
  /\ UNCHANGED <<shared, leaf, last, known, read, seen, result>>

(* The reader's next statement.                                            *)
NextStatement ==
  /\ pc = "done"
  /\ pc' = "idle" /\ result' = <<>> /\ last' = 0 /\ known' = 0
  /\ UNCHANGED <<shared, leaf, read, seen>>

-----------------------------------------------------------------------------
(* The versions the reader may see at this instant.                        *)
VisibleNow == {i \in DOMAIN row : ReadCommitted(row[i].ins, row[i].del, Reader, log)}

(* History follows every step of a query; one that begins forgets what the *)
(* last one could see.                                                     *)
Overrun == {i \in DOMAIN row : row[i].del \notin {0, row'[i].del}}
Record ==
  /\ contested' = contested \cup Overrun
  /\ IF pc' = "idle" THEN shown' = {} /\ hidden' = {}
     ELSE /\ shown' = shown \cup VisibleNow'
          /\ hidden' = hidden \cup (Id \ VisibleNow')

Init ==
  /\ log = [t \in Tx |-> "NONE"] /\ active = {} /\ row = <<>>
  /\ pc = "idle" /\ leaf = <<>> /\ last = 0 /\ known = 0
  /\ read = <<>> /\ seen = Nothing /\ result = <<>>
  /\ shown = {} /\ hidden = {} /\ contested = {}

Transactions ==
  \E t \in Tx :
    \/ Begin(t) \/ Leave(t) \/ Commit(t) \/ Rollback(t)
    \/ \E k \in Key : Insert(t, k)
    \/ \E i \in DOMAIN row : Mark(t, i)

Query ==
  \/ Start \/ CopyLeaf \/ ReadRow \/ EndWalk
  \/ ReadActive \/ ReadDeleter \/ ReadInserter \/ Done \/ NextStatement

Next == (Transactions \/ Query) /\ Record

Spec == Init /\ [][Next]_vars

-----------------------------------------------------------------------------
TypeOK ==
  /\ log \in [Tx -> Status] /\ active \subseteq Tx
  /\ row \in Seq([key : Key, ins : Tx, del : Tx \cup {0}]) /\ Len(row) <= MaxRow
  /\ pc \in {"idle", "walk", "judge", "deleter", "inserter", "done"}
  /\ leaf \in Seq(Id)
  /\ last \in 0..Len(row) /\ known \in 0..Len(row)
  /\ read \in Seq([id : Id, ins : Tx, del : Tx \cup {0}])
  /\ seen \in [insActive : BOOLEAN, delActive : BOOLEAN, del : Status]
  /\ result \in Seq(Id)
  /\ shown \subseteq Id /\ hidden \subseteq Id /\ contested \subseteq Id

(* The walk comes to every entry at most once and in the order of the      *)
(* chain, whatever is inserted while it runs.                              *)
InOrder ==
  Ascending(result \o [n \in DOMAIN read |-> read[n].id] \o leaf)

(* No query returns a version whose insertion is not committed when it     *)
(* returns, unless the reader made it itself.                              *)
NoDirtyRow ==
  \A i \in Range(result) : row[i].ins = Reader \/ log[row[i].ins] = "COMMITED"

(* A version that a query returns was visible at some instant while it     *)
(* ran, although its marks, the list and the two statuses are read at four *)
(* different times.  A version that one transaction both inserted and      *)
(* deleted is the exception: the deleter's status, read first, may be the  *)
(* one before its commit, and the inserter's the one after it.             *)
Torn(i) == row[i].ins = row[i].del
ReturnedWasVisible ==
  \A i \in Range(result) : ~Torn(i) => i \in shown

(* A version that a query leaves out was not visible at some instant while *)
(* it ran: nothing is lost to a leaf that splits or to a commit.  A version *)
(* that two transactions marked is the exception: the query may have read  *)
(* the first mark, and the second stands in its place.                     *)
MissedWasHidden ==
  pc = "done" => Id \ Range(result) \subseteq hidden \cup contested
=============================================================================
