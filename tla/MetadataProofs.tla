--------------------------- MODULE MetadataProofs ---------------------------
(***************************************************************************)
(* What holds of Metadata for every set of connections, databases and      *)
(* tables and every bound, as long as one thread at a time takes a number, *)
(* connects or creates a table, and all sessions are in one database:      *)
(* numbers are unique, taking one implements TxNumbers, and the catalogue  *)
(* keeps every table through restarts.  The runs show that without the     *)
(* first condition it is not so.                                           *)
(*                                                                         *)
(* The constructor of Transaction has the number in three places, the      *)
(* counter, the file and the session, which agree only between two         *)
(* transactions.  The invariant says how they differ at each step of it.   *)
(***************************************************************************)
EXTENDS Metadata, TLAPS

OneAtATime == ~Overlap /\ ~Mixed

Quiet(c) == at[c] \in {"out", "idle"}
Taking(c) == at[c] \in Constructor

OneBusy == \A c, o \in Client : c # o => Quiet(c) \/ Quiet(o)

OneDb == \A c, o \in Client : db[c] # NoDb /\ db[o] # NoDb => db[c] = db[o]

(* Which of its variables a session has set where.                         *)
Placed(c) ==
  /\ db[c] = NoDb <=> at[c] = "out"
  /\ at[c] \in {"out", "open", "number", "load"} => tx[c] = 0 /\ tables[c] = NoTables
  /\ Taking(c) => tx[c] # 0
  /\ at[c] = "open" => next[db[c]] = 0
  /\ at[c] \notin {"out", "open"} => next[db[c]] # 0

(* The counter is never behind the file of an open database.               *)
CounterAhead(c) ==
  at[c] \notin {"out", "open", "number"} =>
    next[db[c]] <= nextId

(* The three places of the number, while it is taken.                      *)
Number(c) ==
  /\ at[c] \in {"log", "increment"} => nextId = tx[c]
  /\ at[c] \in {"read", "store"} => nextId = tx[c] + 1
  /\ at[c] = "store" => arg[c] = nextId
  /\ Taking(c) => next[db[c]] <= tx[c]

(* All that is known of a database has a number below that in its file.    *)
Below ==
  /\ \A d \in Db : \A n \in TxId :
       n \in rows[d] \/ log[d][n] \in {"COMMITED", "ABORTED"} => n < next[d]
  /\ \A c \in Client : tx[c] # 0 /\ ~Taking(c) => tx[c] < next[db[c]]

(* CREATE TABLE has seen the end of the file where it still is.            *)
AtEnd(c) ==
  at[c] = "append" => line[c].pos = Len(lines[db[c]]) + 1 /\ line[c].new \in Line

Sessions == \A c \in Client : Placed(c) /\ CounterAhead(c) /\ Number(c) /\ AtEnd(c)

IInv == /\ TypeOK /\ OneBusy /\ OneDb /\ Sessions /\ Below
        /\ NumbersUnique /\ KnownIsOnDisk
-----------------------------------------------------------------------------
(* What LoadTables takes a table for is what one of the lines says.        *)
LEMMA StoredLemma ==
  ASSUME lines \in [Db -> Seq(Line)], NEW d \in Db, NEW m \in Map, Stored(d, m),
         NEW t \in Table, m[t] # None
  PROVE  [table |-> t, columns |-> m[t]] \in Range(lines[d])
<1>1. PICK i \in DOMAIN lines[d] :
        lines[d][i].table = t /\ m[t] = lines[d][i].columns
  BY DEF Stored
<1>2. lines[d][i] \in Line
  OBVIOUS
<1>3. lines[d][i] = [table |-> t, columns |-> m[t]]
  BY <1>1, <1>2 DEF Line
<1> QED
  BY <1>3 DEF Range

(* At the end of a file, PutLine appends.                                  *)
LEMMA PutAtEnd ==
  ASSUME NEW f \in Seq(Line), NEW new \in Line
  PROVE  /\ PutLine(f, Len(f) + 1, new) = Append(f, new)
         /\ Append(f, new) \in Seq(Line)
         /\ new \in Range(Append(f, new))
         /\ Range(f) \subseteq Range(Append(f, new))
<1>1. PutLine(f, Len(f) + 1, new) = Append(f, new)
  BY DEF PutLine
<1>2. Append(f, new)[Len(f) + 1] = new /\ Len(f) + 1 \in DOMAIN Append(f, new)
  OBVIOUS
<1>3. \A i \in DOMAIN f : i \in DOMAIN Append(f, new) /\ Append(f, new)[i] = f[i]
  OBVIOUS
<1> QED
  BY <1>1, <1>2, <1>3 DEF Range

LEMMA TypeInit == ASSUME Init PROVE TypeOK
BY MetadataAssumption
   DEF Init, TypeOK, TxId, Status, At, Map, NoTables, NoLine, Line

LEMMA InitInv == ASSUME Init PROVE IInv
<1>1. OneBusy /\ OneDb /\ NumbersUnique
  BY DEF Init, OneBusy, Quiet, OneDb, NumbersUnique
<1>2. Sessions
  BY DEF Init, Sessions, Placed, CounterAhead, Number, AtEnd, Taking, Constructor
<1>3. Below
  BY DEF Init, Below, Taking, TxId
<1>4. KnownIsOnDisk
  BY DEF Init, KnownIsOnDisk, NoTables
<1> QED
  BY <1>1, <1>2, <1>3, <1>4, TypeInit DEF IInv
-----------------------------------------------------------------------------
(* A session that is connected is connected to some database.              *)
LEMMA Connected ==
  ASSUME TypeOK, Sessions, NEW c \in Client, at[c] # "out"
  PROVE  db[c] \in Db
BY DEF TypeOK, Sessions, Placed

(* CREATE TABLE appends its line to the file of its database.              *)
LEMMA FlushLemma ==
  ASSUME TypeOK, Sessions, NEW c \in Client, Flush(c)
  PROVE  /\ line[c].new \in Line /\ db[c] \in Db /\ lines[db[c]] \in Seq(Line)
         /\ lines' = [lines EXCEPT ![db[c]] = Append(lines[db[c]], line[c].new)]
         /\ lines' \in [Db -> Seq(Line)]
<1>1. db[c] \in Db
  BY Connected DEF Flush
<1>2. lines[db[c]] \in Seq(Line)
  BY <1>1 DEF TypeOK
<1>3. line[c].new \in Line /\ line[c].pos = Len(lines[db[c]]) + 1
  BY DEF Flush, Sessions, AtEnd
<1>4. /\ PutLine(lines[db[c]], line[c].pos, line[c].new)
           = Append(lines[db[c]], line[c].new)
      /\ Append(lines[db[c]], line[c].new) \in Seq(Line)
  BY <1>2, <1>3, PutAtEnd
<1> QED
  BY <1>1, <1>2, <1>3, <1>4 DEF Flush, TypeOK

(* Each step preserves the types.                                          *)
LEMMA TypeStep ==
  ASSUME IInv, NEW c \in Client, Step(c)
  PROVE  TypeOK'
<1> USE MetadataAssumption DEF IInv, TypeOK, disk, session, Go, At, Constructor
<1>1. CASE Connect(c)
  BY <1>1 DEF Connect
<1>2. CASE WriteFirst(c)
  BY <1>2, Connected DEF WriteFirst
<1>3. CASE ReadNumber(c)
  <2>1. db[c] \in Db /\ next[db[c]] # 0
    BY <1>3, Connected DEF ReadNumber, Sessions, Placed
  <2>2. next[db[c]] \in 1..(MaxTx + 1)
    BY <2>1
  <2> QED
    BY <1>3, <2>2 DEF ReadNumber
<1>4. CASE LoadTables(c)
  BY <1>4 DEF LoadTables
<1>5. CASE TakeNumber(c)
  BY <1>5 DEF TakeNumber
<1>6. CASE LogStart(c)
  <2>1. db[c] \in Db /\ nextId \in TxId
    BY <1>6, Connected DEF LogStart, TxId
  <2> QED
    BY <1>6, <2>1 DEF LogStart, Status
<1>7. CASE Increment(c)
  BY <1>7 DEF Increment
<1>8. CASE ReadArgument(c)
  <2>1. arg' \in [Client -> 0..(MaxTx + 1)]
    BY <1>8 DEF ReadArgument
  <2> QED
    BY <1>8, <2>1 DEF ReadArgument
<1>9. CASE StoreNumber(c)
  <2>1. next' \in [Db -> 0..(MaxTx + 1)]
    BY <1>9 DEF StoreNumber
  <2>2. arg' \in [Client -> 0..(MaxTx + 1)]
    BY <1>9 DEF StoreNumber
  <2> QED
    BY <1>9, <2>1, <2>2 DEF StoreNumber
<1>10. CASE InsertRow(c)
  <2>1. tx[c] \in TxId /\ db[c] \in Db
    BY <1>10, Connected DEF InsertRow, TxId
  <2> QED
    BY <1>10, <2>1 DEF InsertRow
<1>11. CASE Seek(c)
  BY <1>11 DEF Seek
<1>12. CASE Flush(c)
  <2>1. line[c].new \in Line /\ lines' \in [Db -> Seq(Line)]
    BY <1>12, FlushLemma
  <2>2. tables' \in [Client -> Map]
    BY <1>12, <2>1 DEF Flush, Map, Line
  <2>3. line' \in [Client -> [pos : Nat, new : Line \cup {None}]]
    BY <1>12 DEF Flush, NoLine
  <2>4. at' \in [Client -> At]
    BY <1>12 DEF Flush
  <2> QED
    BY <1>12, <2>1, <2>2, <2>3, <2>4 DEF Flush
<1>13. CASE End(c)
  <2>1. tx[c] \in TxId /\ db[c] \in Db
    BY <1>13, Connected DEF End, TxId
  <2> QED
    BY <1>13, <2>1 DEF End, Status
<1>14. CASE Abandon(c)
  BY <1>14 DEF Abandon
<1>15. CASE Leave(c)
  BY <1>15 DEF Leave, NoTables, Map
<1> QED
  BY <1>1, <1>2, <1>3, <1>4, <1>5, <1>6, <1>7, <1>8, <1>9, <1>10, <1>11, <1>12,
     <1>13, <1>14, <1>15 DEF Step
-----------------------------------------------------------------------------
(* A step of one session leaves the variables of the others alone.         *)
LEMMA OthersKept ==
  ASSUME TypeOK, NEW c \in Client, Step(c), NEW o \in Client \ {c}
  PROVE  /\ at'[o] = at[o] /\ db'[o] = db[o] /\ tables'[o] = tables[o]
         /\ tx'[o] = tx[o] /\ arg'[o] = arg[o] /\ line'[o] = line[o]
BY DEF TypeOK, Step, Go, disk, session, Connect, WriteFirst, ReadNumber, LoadTables,
       TakeNumber, LogStart, Increment, ReadArgument, StoreNumber, InsertRow, Seek,
       Flush, End, Abandon, Leave

(* While a session is busy after its step, all others are quiet.           *)
LEMMA OthersQuiet ==
  ASSUME TypeOK, OneBusy, OneAtATime, NEW c \in Client, Step(c), ~Quiet(c)',
         NEW o \in Client \ {c}
  PROVE  Quiet(o)
<1> USE DEF OneBusy, Quiet
<1>1. CASE ~Quiet(c)
  BY <1>1
<1>2. CASE Quiet(c)
  <2>1. Alone(c, db'[c]) \/ at' = at \/ at'[c] = "out"
    BY <1>2 DEF TypeOK, Step, Go, disk, session, Connect, WriteFirst, ReadNumber,
       LoadTables, TakeNumber, LogStart, Increment, ReadArgument, StoreNumber,
       InsertRow, Seek, Flush, End, Abandon, Leave
  <2> QED
    BY <1>2, <2>1 DEF Alone, OneAtATime
<1> QED
  BY <1>1, <1>2

LEMMA OneBusyStep ==
  ASSUME TypeOK, OneBusy, OneAtATime, NEW c \in Client, Step(c)
  PROVE  OneBusy'
<1> SUFFICES ASSUME NEW a \in Client, NEW b \in Client, a # b
             PROVE  Quiet(a)' \/ Quiet(b)'
  BY DEF OneBusy
<1>1. \A o \in Client \ {c} : Quiet(o)' <=> Quiet(o)
  BY OthersKept DEF Quiet
<1>2. Quiet(c)' \/ \A o \in Client \ {c} : Quiet(o)
  BY OthersQuiet
<1> QED
  BY <1>1, <1>2 DEF OneBusy

LEMMA OneDbStep ==
  ASSUME TypeOK, OneDb, OneAtATime, NEW c \in Client, Step(c)
  PROVE  OneDb'
<1>1. db'[c] \in {NoDb, db[c]} \/ Alone(c, db'[c])
  BY DEF TypeOK, Step, Go, disk, session, Connect, WriteFirst, ReadNumber, LoadTables,
     TakeNumber, LogStart, Increment, ReadArgument, StoreNumber, InsertRow, Seek,
     Flush, End, Abandon, Leave
<1>2. \A o \in Client \ {c} : db'[o] = db[o]
  BY OthersKept
<1> QED
  BY <1>1, <1>2 DEF OneDb, Alone, OneAtATime
-----------------------------------------------------------------------------
(* What is known of a session after a step of its own.                     *)
LEMMA OwnStep ==
  ASSUME IInv, NEW c \in Client, Step(c)
  PROVE  Placed(c)' /\ CounterAhead(c)' /\ Number(c)' /\ AtEnd(c)'
<1> USE MetadataAssumption
    DEF IInv, TypeOK, disk, session, Go, At, Constructor, Placed, CounterAhead, Number,
        AtEnd, Taking
<1>0. Placed(c) /\ CounterAhead(c) /\ Number(c) /\ AtEnd(c)
  BY DEF Sessions
<1>1. CASE Connect(c)
  BY <1>0, <1>1 DEF Connect
<1>2. CASE WriteFirst(c)
  BY <1>0, <1>2 DEF WriteFirst
<1>3. CASE ReadNumber(c)
  BY <1>0, <1>3 DEF ReadNumber
<1>4. CASE LoadTables(c)
  BY <1>0, <1>4 DEF LoadTables
<1>5. CASE TakeNumber(c)
  BY <1>0, <1>5 DEF TakeNumber
<1>6. CASE LogStart(c)
  BY <1>0, <1>6 DEF LogStart
<1>7. CASE Increment(c)
  BY <1>0, <1>7 DEF Increment
<1>8. CASE ReadArgument(c)
  BY <1>0, <1>8 DEF ReadArgument
<1>9. CASE StoreNumber(c)
  BY <1>0, <1>9 DEF StoreNumber
<1>10. CASE InsertRow(c)
  BY <1>0, <1>10 DEF InsertRow
<1>11. CASE Seek(c)
  BY <1>0, <1>11 DEF Seek
<1>12. CASE Flush(c)
  BY <1>0, <1>12 DEF Flush
<1>13. CASE End(c)
  BY <1>0, <1>13 DEF End
<1>14. CASE Abandon(c)
  BY <1>0, <1>14 DEF Abandon
<1>15. CASE Leave(c)
  BY <1>0, <1>15 DEF Leave
<1> QED
  BY <1>1, <1>2, <1>3, <1>4, <1>5, <1>6, <1>7, <1>8, <1>9, <1>10, <1>11, <1>12,
     <1>13, <1>14, <1>15 DEF Step

(* The number in a file never goes down, and a session that is quiet       *)
(* changes neither the files' numbers and tables nor the counter.          *)
LEMMA NumbersStep ==
  ASSUME IInv, NEW c \in Client, Step(c)
  PROVE  /\ \A d \in Db : next[d] <= next'[d]
         /\ Quiet(c) => next' = next /\ nextId' = nextId /\ lines' = lines
<1> USE DEF IInv, TypeOK, disk, session, Go, Quiet
<1>1. CASE WriteFirst(c)
  BY <1>1 DEF WriteFirst, Sessions, Placed
<1>2. CASE StoreNumber(c)
  <2>1. next[db[c]] <= tx[c] /\ arg[c] = tx[c] + 1 /\ db[c] \in Db
    BY <1>2, Connected DEF StoreNumber, Sessions, Number, Taking, Constructor
  <2> QED
    BY <1>2, <2>1 DEF StoreNumber
<1>3. CASE ~WriteFirst(c) /\ ~StoreNumber(c)
  <2>1. next' = next
    BY <1>3 DEF Step, Connect, ReadNumber, LoadTables, TakeNumber, LogStart, Increment,
       ReadArgument, InsertRow, Seek, Flush, End, Abandon, Leave
  <2>2. Quiet(c) => nextId' = nextId /\ lines' = lines
    BY <1>3 DEF Step, Connect, ReadNumber, LoadTables, TakeNumber, LogStart, Increment,
       ReadArgument, InsertRow, Seek, Flush, End, Abandon, Leave
  <2> QED
    BY <2>1, <2>2
<1> QED
  BY <1>1, <1>2, <1>3
(* What is known of a session survives the steps of the others.            *)
LEMMA OtherStep ==
  ASSUME IInv, OneAtATime, NEW c \in Client, Step(c), NEW o \in Client \ {c}
  PROVE  Placed(o)' /\ CounterAhead(o)' /\ Number(o)' /\ AtEnd(o)'
<1> USE DEF Placed, CounterAhead, Number, AtEnd, Taking, Constructor
<1>0. Placed(o) /\ CounterAhead(o) /\ Number(o) /\ AtEnd(o)
  BY DEF IInv, Sessions
<1>1. /\ at'[o] = at[o] /\ db'[o] = db[o] /\ tables'[o] = tables[o]
      /\ tx'[o] = tx[o] /\ arg'[o] = arg[o] /\ line'[o] = line[o]
  BY OthersKept DEF IInv
<1>2. CASE Quiet(c)
  <2>1. next' = next /\ nextId' = nextId /\ lines' = lines
    BY <1>2, NumbersStep
  <2> QED
    BY <1>0, <1>1, <2>1
<1>3. CASE ~Quiet(c)
  <2>1. Quiet(o)
    BY <1>3 DEF IInv, OneBusy
  <2>2. db[c] \in Db /\ at[c] \in At
    BY <1>3, Connected DEF IInv, Quiet, TypeOK
  <2>3. at[o] = "idle" => db[o] = db[c] /\ db[o] \in Db
    BY <2>2, <1>0, MetadataAssumption DEF IInv, OneDb, TypeOK
  <2>4. at[o] = "idle" => next'[db[o]] # 0
    <3>1. ASSUME at[o] = "idle" PROVE next'[db[o]] # 0
      <4>1. next[db[o]] # 0 /\ next[db[o]] \in Nat /\ next[db[o]] <= next'[db[o]]
        BY <3>1, <1>0, <2>3, NumbersStep DEF IInv, TypeOK
      <4>2. next'[db[o]] \in Nat
        BY <2>3, <3>1, TypeStep DEF TypeOK
      <4> QED
        BY <4>1, <4>2
    <3> QED
      BY <3>1
  <2>5. db'[c] = db[c] /\ at'[c] \notin {"out", "open", "number"}
    BY <1>3 DEF IInv, TypeOK, Quiet, Go, disk, session, Step, Connect, WriteFirst,
       ReadNumber, LoadTables, TakeNumber, LogStart, Increment, ReadArgument,
       StoreNumber, InsertRow, Seek, Flush, End, Abandon, Leave
  <2>6. at[o] = "idle" => next'[db[o]] <= nextId'
    BY <2>3, <2>5, OwnStep
  <2> QED
    BY <1>0, <1>1, <2>1, <2>4, <2>6 DEF Quiet
<1> QED
  BY <1>2, <1>3

LEMMA SessionsStep ==
  ASSUME IInv, OneAtATime, NEW c \in Client, Step(c)
  PROVE  Sessions'
BY OwnStep, OtherStep DEF Sessions

(* What rows and outcomes are about stays below the number in the file.    *)
LEMMA BelowStep ==
  ASSUME IInv, OneAtATime, NEW c \in Client, Step(c)
  PROVE  Below'
<1> DEFINE Ended(d, n) == log[d][n] \in {"COMMITED", "ABORTED"}
           Free(o) == tx[o] # 0 /\ ~Taking(o)
<1>0. next' \in [Db -> 0..(MaxTx + 1)] /\ next \in [Db -> 0..(MaxTx + 1)]
  BY TypeStep DEF IInv, TypeOK
<1>1. \A o \in Client : Free(o)' => tx'[o] < next'[db'[o]]
  <2>1. ASSUME NEW o \in Client \ {c}, Free(o)' PROVE tx'[o] < next'[db'[o]]
    <3>1. /\ tx'[o] = tx[o] /\ db'[o] = db[o] /\ at'[o] = at[o]
          /\ tx[o] \in Nat /\ tx[o] # 0
      BY <2>1, OthersKept DEF IInv, TypeOK
    <3>2. tx[o] < next[db[o]] /\ db[o] \in Db
      <4>1. at[o] # "out"
        BY <3>1 DEF IInv, Sessions, Placed
      <4> QED
        BY <2>1, <3>1, <4>1, Connected DEF IInv, Below, Taking
    <3> QED
      BY <1>0, <3>1, <3>2, NumbersStep
  <2>2. ASSUME Free(c)' PROVE tx'[c] < next'[db'[c]]
    <3> USE DEF IInv, TypeOK, Go, disk, session, Taking, Constructor
    <3>1. CASE StoreNumber(c)
      BY <3>1, Connected DEF StoreNumber, Sessions, Number
    <3>2. CASE ~StoreNumber(c)
      <4>1. tx[c] # 0 /\ ~Taking(c) /\ tx'[c] = tx[c] /\ db'[c] = db[c] /\ next' = next
        BY <2>2, <3>2 DEF Step, Connect, WriteFirst, ReadNumber, LoadTables, TakeNumber,
           LogStart, Increment, ReadArgument, InsertRow, Seek, Flush, End, Abandon,
           Leave, Sessions, Placed
      <4> QED
        BY <4>1 DEF Below
    <3> QED
      BY <3>1, <3>2
  <2> QED
    BY <2>1, <2>2
<1>2. ASSUME NEW d \in Db, NEW n \in TxId, n \in rows'[d] \/ Ended(d, n)'
      PROVE  n < next'[d]
  <2>1. CASE n \in rows[d] \/ Ended(d, n)
    BY <2>1, <1>0, NumbersStep DEF IInv, Below, TxId
  <2>2. CASE n \notin rows[d] /\ ~Ended(d, n)
    <3>1. (InsertRow(c) \/ End(c)) /\ d = db[c] /\ n = tx[c]
      BY <1>2, <2>2 DEF IInv, TypeOK, Go, disk, session, Step, Connect, WriteFirst,
         ReadNumber, LoadTables, TakeNumber, LogStart, Increment, ReadArgument,
         StoreNumber, InsertRow, Seek, Flush, End, Abandon, Leave
    <3>2. tx[c] < next[db[c]] /\ next' = next
      BY <3>1 DEF InsertRow, End, IInv, Below, Taking, Constructor
    <3> QED
      BY <3>1, <3>2
  <2> QED
    BY <2>1, <2>2
<1> QED
  BY <1>1, <1>2 DEF Below, Taking
(* A number that is taken is beyond those of all running transactions.     *)
LEMMA UniqueStep ==
  ASSUME IInv, OneAtATime, NEW c \in Client, Step(c)
  PROVE  NumbersUnique'
<1>1. ASSUME NEW o \in Client \ {c}, tx'[c] # 0, tx'[o] # 0, db'[c] = db'[o]
      PROVE  tx'[c] # tx'[o]
  <2>1. tx'[o] = tx[o] /\ db'[o] = db[o] /\ at'[o] = at[o]
    BY OthersKept DEF IInv
  <2>2. CASE TakeNumber(c)
    <3>1. tx'[c] = nextId /\ ~Quiet(c)'
      BY <2>2 DEF TakeNumber, IInv, TypeOK, Go, Quiet
    <3>2. Quiet(o)
      BY <3>1, OthersQuiet DEF IInv
    <3>3. at[o] = "idle" /\ db[o] \in Db
      BY <1>1, <2>1, <3>2, Connected DEF Quiet, IInv, Sessions, Placed
    <3>4. tx[o] < next[db[o]] /\ next[db[o]] <= nextId
      BY <1>1, <2>1, <3>3 DEF IInv, Below, Taking, Constructor, Sessions, CounterAhead
    <3> QED
      BY <2>1, <3>1, <3>3, <3>4 DEF IInv, TypeOK
  <2>3. CASE ~TakeNumber(c)
    <3>1. tx'[c] = tx[c] /\ db'[c] = db[c]
      BY <1>1, <2>3 DEF IInv, TypeOK, Go, disk, session, Step, Connect, WriteFirst,
         ReadNumber, LoadTables, LogStart, Increment, ReadArgument, StoreNumber,
         InsertRow, Seek, Flush, End, Abandon, Leave, Sessions, Placed
    <3> QED
      BY <1>1, <2>1, <3>1 DEF IInv, NumbersUnique
  <2> QED
    BY <2>2, <2>3
<1>2. \A o \in Client \ {c} : tx'[o] = tx[o] /\ db'[o] = db[o]
  BY OthersKept DEF IInv
<1> QED
  BY <1>1, <1>2 DEF IInv, NumbersUnique

(* Lines are only ever added, at the end.                                  *)
LEMMA LinesStep ==
  ASSUME IInv, NEW c \in Client, Step(c), NEW d \in Db
  PROVE  /\ Range(lines[d]) \subseteq Range(lines'[d])
         /\ IsPrefix(lines[d], lines'[d])
<1>0. lines[d] \in Seq(Line)
  BY DEF IInv, TypeOK
<1>1. CASE lines'[d] = lines[d]
  <2>1. IsPrefix(lines[d], lines[d])
    BY <1>0 DEF IsPrefix
  <2> QED
    BY <1>1, <2>1
<1>2. CASE lines'[d] # lines[d]
  <2>1. Flush(c)
    BY <1>2 DEF disk, Step, Connect, WriteFirst, ReadNumber, LoadTables, TakeNumber,
       LogStart, Increment, ReadArgument, StoreNumber, InsertRow, Seek, End, Abandon,
       Leave
  <2>2. line[c].new \in Line /\ lines'[d] = Append(lines[d], line[c].new)
    BY <1>2, <2>1, FlushLemma DEF IInv, TypeOK
  <2>3. IsPrefix(lines[d], Append(lines[d], line[c].new))
    BY <1>0, <2>2 DEF IsPrefix
  <2> QED
    BY <1>0, <2>2, <2>3, PutAtEnd
<1> QED
  BY <1>1, <1>2

(* A connection learns of a table from the file or writes it there.        *)
LEMMA KnownStep ==
  ASSUME IInv, NEW c \in Client, Step(c)
  PROVE  KnownIsOnDisk'
<1> SUFFICES ASSUME NEW o \in Client, NEW t \in Table, tables'[o][t] # None
             PROVE  [table |-> t, columns |-> tables'[o][t]] \in Range(lines'[db'[o]])
  BY DEF KnownIsOnDisk
<1>1. CASE tables'[o][t] = tables[o][t]
  <2>1. at[o] \notin {"out", "open", "number", "load"}
    BY <1>1 DEF IInv, Sessions, Placed, NoTables
  <2>2. db'[o] = db[o] /\ db[o] \in Db
    <3>1. CASE o # c
      BY <2>1, <3>1, OthersKept, Connected DEF IInv
    <3>2. CASE o = c /\ Leave(c)
      BY <3>2 DEF Leave, NoTables, IInv, TypeOK
    <3>3. CASE o = c /\ ~Leave(c)
      BY <2>1, <3>3, Connected DEF IInv, disk, session, Step, Connect, WriteFirst,
         ReadNumber, LoadTables, TakeNumber, LogStart, Increment, ReadArgument,
         StoreNumber, InsertRow, Seek, Flush, End, Abandon
    <3> QED
      BY <3>1, <3>2, <3>3
  <2> QED
    BY <1>1, <2>2, LinesStep DEF IInv, KnownIsOnDisk
<1>2. CASE tables'[o][t] # tables[o][t]
  <2>1. o = c /\ (LoadTables(c) \/ Flush(c))
    BY <1>2, OthersKept DEF IInv, TypeOK, disk, session, Step, Connect, WriteFirst,
       ReadNumber, TakeNumber, LogStart, Increment, ReadArgument, StoreNumber,
       InsertRow, Seek, End, Abandon, Leave, NoTables
  <2>2. CASE LoadTables(c)
    <3>1. PICK m \in Map : Stored(db[c], m) /\ tables' = [tables EXCEPT ![c] = m]
      BY <2>2 DEF LoadTables
    <3>2. tables'[c] = m /\ db'[c] = db[c] /\ lines' = lines /\ db[c] \in Db
      BY <2>2, <3>1, Connected DEF LoadTables, disk, IInv, TypeOK
    <3> QED
      BY <2>1, <3>1, <3>2, StoredLemma DEF IInv, TypeOK
  <2>3. CASE Flush(c)
    <3> DEFINE new == line[c].new
    <3>1. new \in Line /\ lines'[db[c]] = Append(lines[db[c]], new) /\ db'[c] = db[c]
          /\ lines[db[c]] \in Seq(Line)
      BY <2>3, FlushLemma DEF Flush, IInv, TypeOK
    <3>2. t = new.table /\ tables'[c][t] = new.columns
      BY <1>2, <2>1, <2>3 DEF Flush, IInv, TypeOK, Map
    <3>3. new = [table |-> t, columns |-> tables'[c][t]]
      BY <3>1, <3>2 DEF Line
    <3> QED
      BY <2>1, <3>1, <3>3, PutAtEnd
  <2> QED
    BY <2>1, <2>2, <2>3
<1> QED
  BY <1>1, <1>2
-----------------------------------------------------------------------------
LEMMA CrashInv == ASSUME IInv, Crash PROVE IInv'
<1> USE MetadataAssumption DEF Crash, disk, IInv
<1>1. TypeOK'
  BY DEF TypeOK, At, NoTables, Map, NoLine
<1>2. OneBusy' /\ OneDb' /\ NumbersUnique'
  BY DEF OneBusy, Quiet, OneDb, NumbersUnique
<1>3. Sessions'
  BY DEF Sessions, Placed, CounterAhead, Number, AtEnd, Taking, Constructor
<1>4. Below'
  BY DEF Below, Taking
<1>5. KnownIsOnDisk'
  BY DEF KnownIsOnDisk, NoTables
<1> QED
  BY <1>1, <1>2, <1>3, <1>4, <1>5

LEMMA StutterInv == ASSUME IInv, UNCHANGED vars PROVE IInv'
<1> USE DEF IInv, vars, disk, session
<1>1. TypeOK' /\ OneBusy' /\ OneDb' /\ NumbersUnique' /\ KnownIsOnDisk'
  BY DEF TypeOK, OneBusy, Quiet, OneDb, NumbersUnique, KnownIsOnDisk
<1>2. Sessions' /\ Below'
  BY DEF Sessions, Placed, CounterAhead, Number, AtEnd, Taking, Below
<1> QED
  BY <1>1, <1>2

LEMMA NextInv == ASSUME IInv, OneAtATime, [Next]_vars PROVE IInv'
<1>1. ASSUME NEW c \in Client, Step(c) PROVE IInv'
  <2>1. TypeOK' /\ OneBusy' /\ OneDb'
    BY <1>1, TypeStep, OneBusyStep, OneDbStep DEF IInv
  <2>2. Sessions' /\ Below' /\ NumbersUnique' /\ KnownIsOnDisk'
    BY <1>1, SessionsStep, BelowStep, UniqueStep, KnownStep
  <2> QED
    BY <2>1, <2>2 DEF IInv
<1> QED
  BY <1>1, CrashInv, StutterInv DEF Next

THEOREM Invariance == ASSUME OneAtATime PROVE Spec => []IInv
<1>1. IInv /\ [Next]_vars => IInv'
  BY NextInv
<1> QED
  BY <1>1, InitInv, PTL DEF Spec

(* The counter, the files and the sessions keep their types: no number     *)
(* stored in a file is beyond those that can be handed out.                *)
THEOREM MetadataTypes == ASSUME OneAtATime PROVE Spec => []TypeOK
<1>1. IInv => TypeOK
  BY DEF IInv
<1> QED
  BY <1>1, Invariance, PTL

(* No two transactions that run in one database have the same number, when *)
(* constructors do not overlap.                                            *)
THEOREM UniqueNumbers == ASSUME OneAtATime PROVE Spec => []NumbersUnique
<1>1. IInv => NumbersUnique
  BY DEF IInv
<1> QED
  BY <1>1, Invariance, PTL

(* What a connection takes for a table is in the metadata file, where the  *)
(* next connection and the next start of the daemon find it.               *)
THEOREM CatalogueOnDisk == ASSUME OneAtATime PROVE Spec => []KnownIsOnDisk
<1>1. IInv => KnownIsOnDisk
  BY DEF IInv
<1> QED
  BY <1>1, Invariance, PTL

(* No line of a metadata file is overwritten or lost.                      *)
THEOREM CatalogueKept == ASSUME OneAtATime PROVE Spec => TablesKept
<1> DEFINE Kept == \A d \in Db : IsPrefix(lines[d], lines'[d])
<1>1. ASSUME IInv, [Next]_vars PROVE Kept
  <2>1. ASSUME NEW c \in Client, Step(c) PROVE Kept
    BY <1>1, <2>1, LinesStep
  <2>2. CASE Crash \/ UNCHANGED vars
    <3>1. lines' = lines
      BY <2>2 DEF Crash, vars, disk
    <3>2. \A d \in Db : IsPrefix(lines[d], lines[d])
      BY <1>1 DEF IsPrefix, IInv, TypeOK
    <3> QED
      BY <3>1, <3>2
  <2> QED
    BY <1>1, <2>1, <2>2 DEF Next
<1>2. IInv /\ [Next]_vars => [Kept]_vars
  BY <1>1
<1> QED
  BY <1>2, Invariance, PTL DEF Spec, TablesKept
-----------------------------------------------------------------------------
(* Taking a number implements TxNumbers: the abstract step of a connection *)
(* is the last of its concrete ones, and so is that of the constructor.    *)

(* A step of one session changes what TxNumbers sees of that session only. *)
LEMMA MapOne ==
  ASSUME TypeOK, NEW c \in Client, Step(c)
  PROVE  /\ Inside' = [Inside EXCEPT ![c] = Inside'[c]]
         /\ Running' = [Running EXCEPT ![c] = Running'[c]]
  BY OthersKept DEF Inside, Running

(* Steps that TxNumbers does not see.                                      *)
LEMMA HiddenStep ==
  ASSUME IInv, NEW c \in Client,
         \/ Connect(c) \/ ReadNumber(c) \/ TakeNumber(c) \/ LogStart(c) \/ Increment(c)
         \/ ReadArgument(c) \/ Seek(c) \/ Flush(c)
  PROVE  UNCHANGED Numbers!vars
<1> USE DEF disk, session, Go, Connect, ReadNumber, TakeNumber, LogStart, Increment,
            ReadArgument, Seek, Flush, Constructor
<1>1. UNCHANGED <<next, rows>>
  OBVIOUS
<1>2. Inside' = Inside
  <2>1. Inside'[c] = Inside[c]
    BY DEF Inside, IInv, TypeOK, Sessions, Placed
  <2> QED
    BY <2>1, MapOne DEF Step, IInv, Inside
<1>3. Running' = Running
  <2>1. Running'[c] = Running[c]
    BY DEF Running, IInv, TypeOK, Sessions, Placed
  <2> QED
    BY <2>1, MapOne DEF Step, IInv, Running
<1>4. Outcome' = Outcome
  <2>1. CASE LogStart(c)
    <3>1. /\ log' = [log EXCEPT ![db[c]][nextId] = "IN_PROGRESS"]
          /\ db[c] \in Db /\ nextId \in TxId /\ nextId = tx[c] /\ next[db[c]] <= tx[c]
      BY <2>1, Connected DEF IInv, TypeOK, TxId, Sessions, Number, Taking
    <3>2. log[db[c]][nextId] \notin {"COMMITED", "ABORTED"}
      BY <3>1 DEF IInv, TypeOK, Below, TxId
    <3>3. ASSUME NEW d \in Db, NEW n \in TxId PROVE Outcome'[d][n] = Outcome[d][n]
      BY <3>1, <3>2 DEF Outcome, IInv, TypeOK
    <3> QED
      BY <3>3 DEF Outcome
  <2>2. CASE log' = log
    BY <2>2 DEF Outcome
  <2> QED
    BY <2>1, <2>2
<1> QED
  BY <1>1, <1>2, <1>3, <1>4 DEF Numbers!vars

(* The last step of the constructor of Database is CONNECT.                *)
LEMMA ConnectStep ==
  ASSUME IInv, NEW c \in Client, WriteFirst(c) \/ LoadTables(c)
  PROVE  Numbers!Connect(c)
<1> USE DEF WriteFirst, LoadTables, disk, Go, IInv, TypeOK
<1>1. /\ db[c] \in Db /\ Inside[c] = NoDb
      /\ Inside'[c] = db[c] /\ Running'[c] = Running[c]
  BY Connected DEF Inside, Running, Constructor
<1>2. next' = [next EXCEPT ![db[c]] = IF @ = 0 THEN 1 ELSE @]
  BY <1>1 DEF Sessions, Placed
<1>3. Inside' = [Inside EXCEPT ![c] = db[c]] /\ Running' = Running
  BY <1>1, MapOne DEF Step, Running
<1>4. Outcome' = Outcome /\ rows' = rows
  BY DEF Outcome
<1> QED
  BY <1>1, <1>2, <1>3, <1>4 DEF Numbers!Connect

(* The last step of the constructor of Transaction is Begin.               *)
LEMMA BeginStep ==
  ASSUME IInv, NEW c \in Client, StoreNumber(c)
  PROVE  Numbers!Begin(c)
<1> USE DEF StoreNumber, Go, IInv, TypeOK, Constructor
<1>1. /\ db[c] \in Db /\ tx[c] # 0 /\ next[db[c]] <= tx[c] /\ arg[c] = tx[c] + 1
  BY Connected DEF Sessions, Placed, Number, Taking
<1>2. /\ Inside[c] = db[c] /\ Inside'[c] = Inside[c]
      /\ Running[c] = 0 /\ Running'[c] = tx[c]
  BY DEF Inside, Running
<1>3. Inside' = Inside /\ Running' = [Running EXCEPT ![c] = tx[c]]
  BY <1>2, MapOne DEF Step, Inside
<1>4. Outcome' = Outcome /\ rows' = rows
  BY DEF Outcome
<1>5. tx[c] \in next[db[c]]..MaxTx /\ next' = [next EXCEPT ![db[c]] = tx[c] + 1]
  BY <1>1, MetadataAssumption
<1>6. Inside[c] # NoDb
  BY <1>1, <1>2, MetadataAssumption
<1> QED
  BY <1>2, <1>3, <1>4, <1>5, <1>6 DEF Numbers!Begin

LEMMA OutcomeStep ==
  ASSUME TypeOK, NEW d \in Db, NEW n \in TxId, NEW o \in {"COMMITED", "ABORTED"},
         log' = [log EXCEPT ![d][n] = o]
  PROVE  Outcome' = [Outcome EXCEPT ![d][n] = o]
<1> DEFINE Seen(s) == IF s \in {"COMMITED", "ABORTED"} THEN s ELSE "OPEN"
<1>1. Outcome = [e \in Db |-> [m \in TxId |-> Seen(log[e][m])]]
  BY DEF Outcome
<1>2. Outcome' = [e \in Db |-> [m \in TxId |-> Seen(log'[e][m])]]
  BY DEF Outcome
<1>3. ASSUME NEW e \in Db, NEW m \in TxId
      PROVE  log'[e][m] = IF e = d /\ m = n THEN o ELSE log[e][m]
  BY DEF TypeOK
<1>4. Outcome' = [e \in Db |-> [m \in TxId |->
                    IF e = d /\ m = n THEN o ELSE Outcome[e][m]]]
  BY <1>1, <1>2, <1>3
<1>5. Outcome \in [Db -> [TxId -> {"COMMITED", "ABORTED", "OPEN"}]]
  BY <1>1
<1> QED
  BY <1>4, <1>5

(* What a transaction does are steps of their own.                         *)
LEMMA WorkStep ==
  ASSUME IInv, NEW c \in Client
  PROVE  /\ InsertRow(c) => Numbers!Write(c)
         /\ End(c) => Numbers!End(c)
         /\ Abandon(c) => Numbers!Abandon(c)
         /\ Leave(c) => Numbers!Leave(c)
<1> USE DEF IInv, TypeOK, Constructor
<1>1. at[c] = "idle" => Inside[c] = db[c] /\ Running[c] = tx[c] /\ db[c] \in Db
  BY Connected DEF Inside, Running
<1>2. ASSUME InsertRow(c) PROVE Numbers!Write(c)
  <2>1. Inside' = Inside /\ Running' = Running /\ Outcome' = Outcome
    BY <1>2 DEF InsertRow, session, Inside, Running, Outcome
  <2> QED
    BY <1>1, <1>2, <2>1 DEF InsertRow, Numbers!Write
<1>3. ASSUME End(c) PROVE Numbers!End(c)
  <2>1. Inside'[c] = Inside[c] /\ Running'[c] = 0
    BY <1>3 DEF End, Inside, Running
  <2>2. Inside' = Inside /\ Running' = [Running EXCEPT ![c] = 0]
    <3>1. Inside' = Inside
      BY <1>3 DEF End, Inside
    <3> QED
      BY <1>3, <2>1, <3>1, MapOne DEF Step
  <2>3. PICK o \in {"COMMITED", "ABORTED"} : log' = [log EXCEPT ![db[c]][tx[c]] = o]
    BY <1>3 DEF End
  <2>4. tx[c] \in TxId
    BY <1>3 DEF End, TxId
  <2>5. Outcome' = [Outcome EXCEPT ![db[c]][tx[c]] = o]
    BY <1>1, <1>3, <2>3, <2>4, OutcomeStep DEF End
  <2> QED
    BY <1>1, <1>3, <2>2, <2>5 DEF End, Numbers!End
<1>4. ASSUME Abandon(c) PROVE Numbers!Abandon(c)
  <2>1. Inside'[c] = Inside[c] /\ Running'[c] = 0 /\ Outcome' = Outcome
    BY <1>4 DEF Abandon, disk, Inside, Running, Outcome
  <2>2. Inside' = Inside /\ Running' = [Running EXCEPT ![c] = 0]
    BY <1>4, <2>1, MapOne DEF Step, Inside
  <2> QED
    BY <1>4, <2>1, <2>2 DEF Abandon, disk, Numbers!Abandon
<1>5. ASSUME Leave(c) PROVE Numbers!Leave(c)
  <2>1. Inside'[c] = NoDb /\ Running'[c] = 0 /\ Outcome' = Outcome
    BY <1>5 DEF Leave, Go, disk, Inside, Running, Outcome
  <2>2. Inside' = [Inside EXCEPT ![c] = NoDb] /\ Running' = [Running EXCEPT ![c] = 0]
    BY <1>5, <2>1, MapOne DEF Step
  <2> QED
    BY <1>5, <2>1, <2>2 DEF Leave, disk, Numbers!Leave
<1> QED
  BY <1>2, <1>3, <1>4, <1>5

LEMMA MappedStep ==
  ASSUME IInv, [Next]_vars
  PROVE  [Numbers!Next]_(Numbers!vars)
<1>1. ASSUME NEW c \in Client, Step(c) PROVE [Numbers!Next]_(Numbers!vars)
  BY <1>1, HiddenStep, ConnectStep, BeginStep, WorkStep DEF Step, Numbers!Next
<1>2. ASSUME Crash PROVE Numbers!Crash
  BY <1>2 DEF Crash, disk, Numbers!Crash, Inside, Running, Outcome, Constructor
<1>3. ASSUME UNCHANGED vars PROVE UNCHANGED Numbers!vars
  BY <1>3 DEF vars, disk, session, Numbers!vars, Inside, Running, Outcome
<1> QED
  BY <1>1, <1>2, <1>3 DEF Next, Numbers!Next

(* The constructor of Transaction, its steps and restarts included, gives  *)
(* every transaction a number that no row and no outcome belongs to.       *)
THEOREM NumbersRefine == ASSUME OneAtATime PROVE Spec => ImplementsTxNumbers
<1>1. Init => Numbers!Init
  BY DEF Init, Numbers!Init, Outcome, Inside, Running, Constructor, TxId
<1>2. IInv /\ [Next]_vars => [Numbers!Next]_(Numbers!vars)
  BY MappedStep
<1> QED
  BY <1>1, <1>2, Invariance, PTL DEF Spec, ImplementsTxNumbers, Numbers!Spec
=============================================================================
