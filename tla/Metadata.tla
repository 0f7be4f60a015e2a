------------------------------ MODULE Metadata ------------------------------
(***************************************************************************)
(* Transaction numbers and the catalogue of tables: what connecting to a   *)
(* database, starting a transaction and CREATE TABLE do to the metadata    *)
(* file and to the global TRANSACTION_ID (Database::Database in daemon/    *)
(* storage/database.cpp, Transaction::Transaction and CreateTable in       *)
(* daemon/storage/transaction.cpp).                                        *)
(*                                                                         *)
(* The first eight bytes of a metadata file are the next number of its     *)
(* database; a line per table follows.  TRANSACTION_ID is one variable of  *)
(* the daemon, whatever databases its threads are connected to; the map of *)
(* tables is one per connection.  No lock guards any of them: a step here  *)
(* is one access to the counter or to a file.                              *)
(*                                                                         *)
(* Abstractions.  A table definition is a value of Columns, and lines have *)
(* the same length.  Of the rows only the number of their transaction is   *)
(* kept.  active_transactions is left to module Mvcc, where visibility     *)
(* turns out not to depend on it.                                          *)
(***************************************************************************)
EXTENDS Naturals, Sequences, SequencesExt

CONSTANTS
  Client, Db,
  NoDb,           \* not connected
  Table, Columns,
  None,           \* no such table in the map of a connection
  MaxTx,          \* bound: transaction numbers are 1..MaxTx
  MaxLines,       \* bound: lines of a metadata file
  Overlap,        \* may one thread be between two steps of another?
  Mixed           \* may sessions be in different databases at one time?

ASSUME MetadataAssumption ==
  /\ NoDb \notin Db /\ None \notin Columns
  /\ MaxTx \in Nat \ {0} /\ MaxLines \in Nat
  /\ Overlap \in BOOLEAN /\ Mixed \in BOOLEAN

VARIABLES
  (* the files of each database *)
  next,           \* the number at the head of the metadata file, 0: empty
  lines,          \* the lines after it
  log,            \* the transaction log
  rows,           \* the numbers that stand in row versions as inserter
  (* the memory of the daemon *)
  nextId,         \* TRANSACTION_ID
  (* per session *)
  at,             \* what its thread does next
  db,             \* its database
  tables,         \* database->tables
  tx,             \* transaction_id of its transaction, 0 for none
  arg,            \* the argument of writeTransactionId
  line            \* the position and the line CREATE TABLE is to write

disk == <<next, lines, log, rows>>
session == <<at, db, tables, tx, arg, line>>
vars == <<disk, nextId, session>>

TxId == 1..MaxTx
Line == [table : Table, columns : Columns]
Map == [Table -> Columns \cup {None}]
Status == {"NONE", "IN_PROGRESS", "COMMITED", "ABORTED"}
Constructor == {"log", "increment", "read", "store"}
At == {"out", "open", "number", "load", "idle", "append"} \cup Constructor

NoTables == [t \in Table |-> None]
NoLine == [pos |-> 0, new |-> None]

Go(c, p) == at' = [at EXCEPT ![c] = p]

(* No other thread is in the middle of something, if threads may not       *)
(* overlap, or in another database, if databases may not mix.              *)
Alone(c, d) ==
  /\ Overlap \/ \A o \in Client \ {c} : at[o] \in {"out", "idle"}
  /\ Mixed \/ \A o \in Client \ {c} : db[o] \in {NoDb, d}

-----------------------------------------------------------------------------
(* CONNECT: the constructor of Database. *)

(* Create the files if need be and look at the size of the metadata.       *)
Connect(c) ==
  /\ at[c] = "out"
  /\ \E d \in Db :
       /\ Alone(c, d)
       /\ db' = [db EXCEPT ![c] = d]
       /\ Go(c, IF next[d] = 0 THEN "open" ELSE "number")
  /\ UNCHANGED <<disk, nextId, tables, tx, arg, line>>

(* A new file starts with number 1.  TRANSACTION_ID stays as it is.        *)
WriteFirst(c) ==
  /\ at[c] = "open"
  /\ next' = [next EXCEPT ![db[c]] = 1]
  /\ Go(c, "idle")
  /\ UNCHANGED <<lines, log, rows, nextId, db, tables, tx, arg, line>>

(* Mutant: TRANSACTION_ID is kept when the file holds a number.            *)
ReadNumberKeep(c) ==
  /\ at[c] = "number"
  /\ Go(c, "load")
  /\ UNCHANGED <<disk, nextId, db, tables, tx, arg, line>>

(* readTransactionId.                                                      *)
ReadNumber(c) ==
  /\ at[c] = "number"
  /\ nextId' = next[db[c]]
  /\ Go(c, "load")
  /\ UNCHANGED <<disk, db, tables, tx, arg, line>>

(* The map that reading all lines one after the other leaves: a table has  *)
(* the columns of the last line about it.                                  *)
Stored(d, m) ==
  \A t \in Table :
    LET about == {i \in DOMAIN lines[d] : lines[d][i].table = t}
    IN  \/ about = {} /\ m[t] = None
        \/ \E i \in about :
             (\A j \in about : j <= i) /\ m[t] = lines[d][i].columns

(* LoadTables fills the map of this connection, once.                      *)
LoadTables(c) ==
  /\ at[c] = "load"
  /\ \E m \in Map : Stored(db[c], m) /\ tables' = [tables EXCEPT ![c] = m]
  /\ Go(c, "idle")
  /\ UNCHANGED <<disk, nextId, db, tx, arg, line>>

-----------------------------------------------------------------------------
(* The constructor of Transaction.  Every use of TRANSACTION_ID reads the  *)
(* variable anew.                                                          *)

TakeNumber(c) ==
  /\ at[c] = "idle" /\ tx[c] = 0
  /\ Alone(c, db[c])
  /\ nextId <= MaxTx
  /\ tx' = [tx EXCEPT ![c] = nextId]
  /\ Go(c, "log")
  /\ UNCHANGED <<disk, nextId, db, tables, arg, line>>

LogStart(c) ==
  /\ at[c] = "log"
  /\ nextId <= MaxTx
  /\ log' = [log EXCEPT ![db[c]][nextId] = "IN_PROGRESS"]
  /\ Go(c, "increment")
  /\ UNCHANGED <<next, lines, rows, nextId, db, tables, tx, arg, line>>

Increment(c) ==
  /\ at[c] = "increment"
  /\ nextId <= MaxTx
  /\ nextId' = nextId + 1
  /\ Go(c, "read")
  /\ UNCHANGED <<disk, db, tables, tx, arg, line>>

ReadArgument(c) ==
  /\ at[c] = "read"
  /\ arg' = [arg EXCEPT ![c] = nextId]
  /\ Go(c, "store")
  /\ UNCHANGED <<disk, nextId, db, tables, tx, line>>

(* Mutant: the number is stored when it is taken, before the increment.    *)
StoreNumberEarly(c) ==
  /\ at[c] = "store"
  /\ next' = [next EXCEPT ![db[c]] = tx[c]]
  /\ arg' = [arg EXCEPT ![c] = 0]
  /\ Go(c, "idle")
  /\ UNCHANGED <<lines, log, rows, nextId, db, tables, tx, line>>

(* Mutant: one more than TRANSACTION_ID is stored.                         *)
StoreNumberNext(c) ==
  /\ at[c] = "store"
  /\ next' = [next EXCEPT ![db[c]] = arg[c] + 1]
  /\ arg' = [arg EXCEPT ![c] = 0]
  /\ Go(c, "idle")
  /\ UNCHANGED <<lines, log, rows, nextId, db, tables, tx, line>>

(* writeTransactionId.                                                     *)
StoreNumber(c) ==
  /\ at[c] = "store"
  /\ next' = [next EXCEPT ![db[c]] = arg[c]]
  /\ arg' = [arg EXCEPT ![c] = 0]
  /\ Go(c, "idle")
  /\ UNCHANGED <<lines, log, rows, nextId, db, tables, tx, line>>

-----------------------------------------------------------------------------
(* What a transaction does. *)

(* A row is written.  The statement found its table in the map of its      *)
(* connection; INSERT does not survive it when the table is not there (the *)
(* parser follows a null pointer), which Crash stands for.                 *)
InsertRow(c) ==
  /\ at[c] = "idle" /\ tx[c] # 0
  /\ \E t \in Table : tables[c][t] # None
  /\ rows' = [rows EXCEPT ![db[c]] = @ \cup {tx[c]}]
  /\ UNCHANGED <<next, lines, log, nextId, session>>

(* CREATE TABLE seeks the end of the metadata file ...                     *)
Seek(c) ==
  /\ at[c] = "idle" /\ tx[c] # 0
  /\ Alone(c, db[c])
  /\ Len(lines[db[c]]) < MaxLines
  /\ \E new \in Line :
       line' = [line EXCEPT ![c] = [pos |-> Len(lines[db[c]]) + 1, new |-> new]]
  /\ Go(c, "append")
  /\ UNCHANGED <<disk, nextId, db, tables, tx, arg>>

(* The file with a line put at a position that is inside it or at its end. *)
PutLine(f, pos, new) == IF pos <= Len(f) THEN [f EXCEPT ![pos] = new] ELSE Append(f, new)

(* Mutant: the line is written where the first table of the file is.       *)
FlushAtHead(c) ==
  /\ at[c] = "append"
  /\ lines' = [lines EXCEPT ![db[c]] = PutLine(@, 1, line[c].new)]
  /\ tables' = [tables EXCEPT ![c][line[c].new.table] = line[c].new.columns]
  /\ line' = [line EXCEPT ![c] = NoLine]
  /\ Go(c, "idle")
  /\ UNCHANGED <<next, log, rows, nextId, db, tx, arg>>

(* ... writes the line there and enters the table in its own map, whatever *)
(* the file or the maps of other connections have under that name.         *)
Flush(c) ==
  /\ at[c] = "append"
  /\ lines' = [lines EXCEPT ![db[c]] = PutLine(@, line[c].pos, line[c].new)]
  /\ tables' = [tables EXCEPT ![c][line[c].new.table] = line[c].new.columns]
  /\ line' = [line EXCEPT ![c] = NoLine]
  /\ Go(c, "idle")
  /\ UNCHANGED <<next, log, rows, nextId, db, tx, arg>>

(* Commit or Rollback, as far as the log is concerned.                     *)
End(c) ==
  /\ at[c] = "idle" /\ tx[c] # 0
  /\ \E outcome \in {"COMMITED", "ABORTED"} :
       log' = [log EXCEPT ![db[c]][tx[c]] = outcome]
  /\ tx' = [tx EXCEPT ![c] = 0]
  /\ UNCHANGED <<next, lines, rows, nextId, at, db, tables, arg, line>>

(* A statement throws (GetTable does not know its table, for instance):    *)
(* the transaction made for it is dropped as it is.                        *)
Abandon(c) ==
  /\ at[c] = "idle" /\ tx[c] # 0
  /\ tx' = [tx EXCEPT ![c] = 0]
  /\ UNCHANGED <<disk, nextId, at, db, tables, arg, line>>

(* The client hangs up; its next connection has a thread of its own.       *)
Leave(c) ==
  /\ at[c] = "idle"
  /\ Go(c, "out")
  /\ db' = [db EXCEPT ![c] = NoDb]
  /\ tx' = [tx EXCEPT ![c] = 0]
  /\ tables' = [tables EXCEPT ![c] = NoTables]
  /\ UNCHANGED <<disk, nextId, arg, line>>

(* The daemon dies and starts again: the files are as the last write left  *)
(* them, TRANSACTION_ID is 1.                                              *)
Crash ==
  /\ nextId' = 1
  /\ at' = [c \in Client |-> "out"]
  /\ db' = [c \in Client |-> NoDb]
  /\ tables' = [c \in Client |-> NoTables]
  /\ tx' = [c \in Client |-> 0]
  /\ arg' = [c \in Client |-> 0]
  /\ line' = [c \in Client |-> NoLine]
  /\ UNCHANGED disk

-----------------------------------------------------------------------------
Init ==
  /\ next = [d \in Db |-> 0]
  /\ lines = [d \in Db |-> <<>>]
  /\ log = [d \in Db |-> [n \in TxId |-> "NONE"]]
  /\ rows = [d \in Db |-> {}]
  /\ nextId = 1
  /\ at = [c \in Client |-> "out"]
  /\ db = [c \in Client |-> NoDb]
  /\ tables = [c \in Client |-> NoTables]
  /\ tx = [c \in Client |-> 0]
  /\ arg = [c \in Client |-> 0]
  /\ line = [c \in Client |-> NoLine]

Step(c) ==
  \/ Connect(c) \/ WriteFirst(c) \/ ReadNumber(c) \/ LoadTables(c)
  \/ TakeNumber(c) \/ LogStart(c) \/ Increment(c) \/ ReadArgument(c) \/ StoreNumber(c)
  \/ InsertRow(c) \/ Seek(c) \/ Flush(c)
  \/ End(c) \/ Abandon(c) \/ Leave(c)

Next == (\E c \in Client : Step(c)) \/ Crash

Spec == Init /\ [][Next]_vars

-----------------------------------------------------------------------------
TypeOK ==
  /\ next \in [Db -> 0..(MaxTx + 1)]
  /\ lines \in [Db -> Seq(Line)]
  /\ log \in [Db -> [TxId -> Status]]
  /\ rows \in [Db -> SUBSET TxId]
  /\ nextId \in 1..(MaxTx + 1)
  /\ at \in [Client -> At]
  /\ db \in [Client -> Db \cup {NoDb}]
  /\ tables \in [Client -> Map]
  /\ tx \in [Client -> 0..MaxTx]
  /\ arg \in [Client -> 0..(MaxTx + 1)]
  /\ line \in [Client -> [pos : Nat, new : Line \cup {None}]]

(* Two transactions that run in one database have different numbers: what  *)
(* IsVisible, the log and the lock tell transactions apart by.             *)
NumbersUnique ==
  \A c, o \in Client :
    c # o /\ db[c] = db[o] /\ tx[c] # 0 /\ tx[o] # 0 => tx[c] # tx[o]

(* The constructor, with the number logged before it is stored, the file   *)
(* of another database read in between and the daemon dying at any step,   *)
(* gives a transaction a number of its own: no row carries it and no       *)
(* outcome was logged under it, also after a restart.                      *)
Outcome == [d \in Db |-> [n \in TxId |->
              IF log[d][n] \in {"COMMITED", "ABORTED"} THEN log[d][n] ELSE "OPEN"]]
Inside == [c \in Client |-> IF at[c] \in {"open", "number", "load"} THEN NoDb ELSE db[c]]
Running == [c \in Client |-> IF at[c] \in Constructor THEN 0 ELSE tx[c]]

Numbers == INSTANCE TxNumbers WITH outcome <- Outcome, db <- Inside, tx <- Running

ImplementsTxNumbers == Numbers!Spec

(* What a connection takes a table for is what some CREATE TABLE of that   *)
(* database has stored: after a restart the table is still there.          *)
KnownIsOnDisk ==
  \A c \in Client : \A t \in Table :
    tables[c][t] # None =>
      [table |-> t, columns |-> tables[c][t]] \in Range(lines[db[c]])

(* No table is lost from the metadata: whatever connections, transactions  *)
(* and restarts do, its lines stay in front of those written later.        *)
TablesKept == [][\A d \in Db : IsPrefix(lines[d], lines'[d])]_vars

=============================================================================
