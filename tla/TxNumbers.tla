----------------------------- MODULE TxNumbers -----------------------------
(***************************************************************************)
(* What the rest of the engine may rely on when it starts a transaction:   *)
(* every transaction of a database has a number of its own that no row and *)
(* no outcome in that database belongs to yet.  Taking a number is one     *)
(* step here; module Metadata has the steps of the constructor, the global *)
(* counter and the metadata file behind it.                                *)
(***************************************************************************)
EXTENDS Naturals

CONSTANTS
  Client, Db,
  NoDb,           \* not connected
  MaxTx           \* bound: transaction numbers are 1..MaxTx

VARIABLES
  next,           \* per database, the number all later transactions exceed
  rows,           \* per database, the numbers of transactions that wrote rows
  outcome,        \* per database and number: "OPEN", "COMMITED" or "ABORTED"
  db,             \* the database of a session
  tx              \* the running transaction of a session, 0 for none

vars == <<next, rows, outcome, db, tx>>

Init ==
  /\ next = [d \in Db |-> 0]
  /\ rows = [d \in Db |-> {}]
  /\ outcome = [d \in Db |-> [n \in 1..MaxTx |-> "OPEN"]]
  /\ db = [c \in Client |-> NoDb]
  /\ tx = [c \in Client |-> 0]

(* The first connection to a database creates it.                          *)
Connect(c) ==
  /\ db[c] = NoDb
  /\ \E d \in Db :
       /\ db' = [db EXCEPT ![c] = d]
       /\ next' = [next EXCEPT ![d] = IF @ = 0 THEN 1 ELSE @]
  /\ UNCHANGED <<rows, outcome, tx>>

(* A transaction gets a number that is beyond all numbers given before.    *)
Begin(c) ==
  /\ db[c] # NoDb /\ tx[c] = 0
  /\ \E n \in next[db[c]]..MaxTx :
       /\ tx' = [tx EXCEPT ![c] = n]
       /\ next' = [next EXCEPT ![db[c]] = n + 1]
  /\ UNCHANGED <<rows, outcome, db>>

Write(c) ==
  /\ tx[c] # 0
  /\ rows' = [rows EXCEPT ![db[c]] = @ \cup {tx[c]}]
  /\ UNCHANGED <<next, outcome, db, tx>>

End(c) ==
  /\ tx[c] # 0
  /\ \E o \in {"COMMITED", "ABORTED"} :
       outcome' = [outcome EXCEPT ![db[c]][tx[c]] = o]
  /\ tx' = [tx EXCEPT ![c] = 0]
  /\ UNCHANGED <<next, rows, db>>

(* A statement that throws drops its transaction.                          *)
Abandon(c) ==
  /\ tx' = [tx EXCEPT ![c] = 0]
  /\ UNCHANGED <<next, rows, outcome, db>>

Leave(c) ==
  /\ tx' = [tx EXCEPT ![c] = 0]
  /\ db' = [db EXCEPT ![c] = NoDb]
  /\ UNCHANGED <<next, rows, outcome>>

Crash ==
  /\ tx' = [c \in Client |-> 0]
  /\ db' = [c \in Client |-> NoDb]
  /\ UNCHANGED <<next, rows, outcome>>

Next ==
  \/ \E c \in Client :
       Connect(c) \/ Begin(c) \/ Write(c) \/ End(c) \/ Abandon(c) \/ Leave(c)
  \/ Crash

Spec == Init /\ [][Next]_vars
=============================================================================
