----------------------------- MODULE ScanProofs -----------------------------
(***************************************************************************)
(* Proofs about Scan, for any transactions, keys and number of versions:   *)
(* what a query returns and leaves out while others write.                 *)
(***************************************************************************)
EXTENDS Scan, TLAPS

(* The records that row and read are sequences of.                         *)
Version == [key : Key, ins : Tx, del : Tx \cup {0}]
Reading == [id : Id, ins : Tx, del : Tx \cup {0}]

-----------------------------------------------------------------------------
(* The inductive invariant, in named parts. *)

(* Whoever wrote into a version has started, and marks what is its own or  *)
(* committed.                                                              *)
Rightful(ins, del) ==
  /\ log[ins] # "NONE"
  /\ del # 0 => /\ log[del] # "NONE"
                /\ del = ins \/ log[ins] = "COMMITED"
Marks == \A i \in DOMAIN row : Rightful(row[i].ins, row[i].del)

(* The reader works as long as its query does, and what each phase of a    *)
(* query leaves empty.                                                     *)
Phases ==
  /\ pc # "idle" => log[Reader] = "IN_PROGRESS" /\ Reader \in active
  /\ pc = "idle" => read = <<>> /\ result = <<>>
  /\ pc = "walk" => result = <<>>
  /\ pc # "walk" => leaf = <<>>
  /\ pc \in {"deleter", "inserter"} => read # <<>> /\ read[1].del # Reader
  /\ pc = "done" => read = <<>>

(* What a version read some time ago says of the version as it is.         *)
Remembered(r) ==
  /\ r.id \in DOMAIN row /\ r.ins = row[r.id].ins
  /\ Rightful(r.ins, r.del)
  /\ row[r.id].del # r.del => row[r.id].del = r.ins \/ r.id \in shown
  /\ row[r.id].del # r.del /\ r.del # 0 => r.id \in contested
  /\ r.del = Reader => r.id \in hidden
  /\ r.del = 0 /\ r.ins = Reader => r.id \in shown
  /\ r.del \notin {0, Reader, r.ins} /\ log[r.del] # "COMMITED" => r.id \in shown
Memory == \A n \in DOMAIN read : Remembered(read[n])

(* What the deleter's status, read before, says of it now.                 *)
StatusOf(r) ==
  /\ seen.del # "NONE"
  /\ seen.del = "ABORTED" => r.del = 0 \/ log[r.del] = "ABORTED"
  /\ seen.del = "COMMITED" => r.del # 0 /\ log[r.del] = "COMMITED"
  /\ seen.del # "COMMITED" /\ r.del \notin {0, Reader, r.ins} => r.id \in shown
Judging == pc = "inserter" => StatusOf(read[1])

Kept(i) ==
  /\ i \in DOMAIN row
  /\ row[i].ins = Reader \/ log[row[i].ins] = "COMMITED"
  /\ Torn(i) \/ i \in shown
Returned == \A n \in DOMAIN result : Kept(result[n])

(* Results, then versions read, then the leaf, in the order of the chain.  *)
Sorted ==
  /\ \A n \in DOMAIN leaf : leaf[n] \in DOMAIN row
  /\ Ascending(result) /\ Ascending(leaf)
  /\ \A m, n \in DOMAIN read : m < n => Before(read[m].id, read[n].id)
  /\ \A m \in DOMAIN result, n \in DOMAIN read : Before(result[m], read[n].id)
  /\ \A m \in DOMAIN read, n \in DOMAIN leaf : Before(read[m].id, leaf[n])

UpTo(i) == last # 0 /\ (i = last \/ Before(i, last))
Frontier ==
  pc = "walk" => /\ \A n \in DOMAIN leaf : UpTo(leaf[n])
                 /\ \A n \in DOMAIN read : UpTo(read[n].id)

(* A version is hidden, contested, or somewhere on its way to the result.  *)
OnItsWay(i) ==
  \/ \E n \in DOMAIN result : result[n] = i
  \/ \E n \in DOMAIN read : read[n].id = i
  \/ \E n \in DOMAIN leaf : leaf[n] = i
  \/ pc = "walk" /\ i \in Behind
Coverage ==
  pc # "idle" =>
    /\ \A i \in Id : i > known => i \in hidden
    /\ \A i \in Id : i \in hidden \/ i \in contested \/ OnItsWay(i)

IInv ==
  /\ TypeOK
  /\ Marks /\ Phases /\ Memory /\ Judging /\ Returned
  /\ Sorted /\ Frontier /\ Coverage

-----------------------------------------------------------------------------
(* Sequences, and the order of the chain. *)

(* What Head and Tail return.                                              *)
LEMMA TailFacts ==
  ASSUME NEW S, NEW s \in Seq(S), s # <<>>
  PROVE  /\ Len(s) \in Nat \ {0} /\ Head(s) = s[1] /\ s[1] \in S
         /\ Tail(s) \in Seq(S) /\ Len(Tail(s)) = Len(s) - 1
         /\ \A n \in 1..(Len(s) - 1) : Tail(s)[n] = s[n + 1]
  OBVIOUS

(* What Append returns.                                                    *)
LEMMA AppendFacts ==
  ASSUME NEW S, NEW s \in Seq(S), NEW e \in S
  PROVE  /\ Append(s, e) \in Seq(S) /\ Len(Append(s, e)) = Len(s) + 1
         /\ \A n \in 1..Len(s) : Append(s, e)[n] = s[n]
         /\ Append(s, e)[Len(s) + 1] = e
  OBVIOUS

(* A sequence is a function on 1..Len.                                     *)
LEMMA ElementFacts ==
  ASSUME NEW S, NEW s \in Seq(S)
  PROVE  /\ Len(s) \in Nat /\ DOMAIN s = 1..Len(s)
         /\ \A n \in DOMAIN s : s[n] \in S
  OBVIOUS

(* The fields of a version, and of a version read.                         *)
LEMMA VersionFields ==
  ASSUME NEW r \in Version
  PROVE  r.key \in Key /\ r.ins \in Tx /\ r.del \in Tx \cup {0}
  BY DEF Version

LEMMA ReadingFields ==
  ASSUME NEW r \in Reading
  PROVE  r.id \in Id /\ r.ins \in Tx /\ r.del \in Tx \cup {0}
  BY DEF Reading

(* What the types say of each version and each version read.               *)
LEMMA RowTypes ==
  ASSUME TypeOK
  PROVE  /\ row \in Seq(Version) /\ Len(row) \in Nat /\ DOMAIN row = 1..Len(row)
         /\ \A i \in DOMAIN row : /\ row[i] \in Version /\ row[i].key \in Nat
                                 /\ row[i].ins \in Tx /\ row[i].del \in Tx \cup {0}
         /\ DOMAIN row \subseteq Id
  <1>1. row \in Seq(Version) /\ Len(row) <= MaxRow
    BY DEF TypeOK, Version
  <1>2. Len(row) \in Nat /\ DOMAIN row = 1..Len(row)
        /\ \A i \in DOMAIN row : row[i] \in Version
    BY <1>1, ElementFacts
  <1>3. DOMAIN row \subseteq Id
    BY <1>1, <1>2, ScanAssumption DEF Id
  <1> QED BY <1>1, <1>2, <1>3, VersionFields, ScanAssumption

(* The same for the versions read.                                         *)
LEMMA ReadTypes ==
  ASSUME TypeOK
  PROVE  /\ read \in Seq(Reading) /\ Len(read) \in Nat /\ DOMAIN read = 1..Len(read)
         /\ \A n \in DOMAIN read :
              /\ read[n] \in Reading /\ read[n].id \in Id
              /\ read[n].ins \in Tx /\ read[n].del \in Tx \cup {0}
  <1>1. read \in Seq(Reading)
    BY DEF TypeOK, Reading
  <1>2. Len(read) \in Nat /\ DOMAIN read = 1..Len(read)
        /\ \A n \in DOMAIN read : read[n] \in Reading
    BY <1>1, ElementFacts
  <1> QED BY <1>1, <1>2, ReadingFields

(* The chain is in a strict total order.                                   *)
LEMMA BeforeIsOrder ==
  ASSUME TypeOK
  PROVE  /\ \A i, j \in DOMAIN row : i = j \/ Before(i, j) \/ Before(j, i)
         /\ \A i, j, k \in DOMAIN row : Before(i, j) /\ Before(j, k) => Before(i, k)
         /\ \A i \in DOMAIN row : ~Before(i, i)
  <1>1. DOMAIN row \subseteq Nat /\ \A i \in DOMAIN row : row[i].key \in Nat
    BY RowTypes
  <1> QED BY <1>1 DEF Before

-----------------------------------------------------------------------------
(* Types. *)

(* The initial state has its types.                                        *)
LEMMA InitInv ==
  ASSUME Init
  PROVE  IInv
  <1>1. TypeOK
    BY ScanAssumption DEF Init, TypeOK, Status, Outcome, Nothing
  <1>2. Marks /\ Phases /\ Memory /\ Judging /\ Returned /\ Sorted /\ Frontier /\ Coverage
    BY DEF Init, Marks, Phases, Memory, Judging, Returned, Sorted, Frontier, Coverage, Ascending
  <1> QED BY <1>1, <1>2 DEF IInv

(* The histories stay within the versions there can be.                    *)
LEMMA RecordTypes ==
  ASSUME TypeOK, Record, DOMAIN row' \subseteq Id
  PROVE  shown' \subseteq Id /\ hidden' \subseteq Id /\ contested' \subseteq Id
  BY RowTypes DEF TypeOK, Record, Overrun, VisibleNow

-----------------------------------------------------------------------------
(* The other transactions. *)

(* What no step of theirs does to versions, statuses and the query.        *)
RowsGrow ==
  /\ DOMAIN row \subseteq DOMAIN row' /\ Len(row) <= Len(row')
  /\ \A i \in DOMAIN row : row'[i].key = row[i].key /\ row'[i].ins = row[i].ins
  /\ \A i \in DOMAIN row : row'[i].del # row[i].del =>
       /\ row'[i].del \in Tx /\ log'[row'[i].del] = "IN_PROGRESS"
       /\ row'[i].del = row[i].ins \/ log'[row[i].ins] = "COMMITED"
       /\ pc # "idle" => row'[i].del # Reader
  /\ \A i \in DOMAIN row' \ DOMAIN row :
       row'[i].ins \in Tx /\ row'[i].del = 0 /\ log'[row'[i].ins] # "NONE"
LogGrows ==
  /\ \A t \in Tx : /\ log[t] \in {"COMMITED", "ABORTED"} => log'[t] = log[t]
                   /\ log[t] # "NONE" => log'[t] # "NONE"
  /\ pc # "idle" => log'[Reader] = "IN_PROGRESS" /\ Reader \in active'
Grows == RowsGrow /\ LogGrows /\ UNCHANGED query

SharedTypes ==
  /\ log \in [Tx -> Status] /\ active \subseteq Tx
  /\ row \in Seq(Version) /\ Len(row) <= MaxRow

(* A transaction begins, commits or rolls back.                            *)
StatusStep(t) == Begin(t) \/ Leave(t) \/ Commit(t) \/ Rollback(t)

LEMMA StatusGrows ==
  ASSUME IInv, NEW t \in Tx, StatusStep(t)
  PROVE  Grows /\ SharedTypes'
  <1> USE DEF StatusStep, Begin, Leave, Commit, Rollback
  <1>1. row' = row /\ UNCHANGED query /\ TypeOK /\ Phases /\ Reader \in Tx
    BY ScanAssumption DEF IInv
  <1>2. SharedTypes'
    BY <1>1 DEF TypeOK, SharedTypes, Version, Status, Outcome
  <1>3. \A u \in Tx : /\ log[u] \in {"COMMITED", "ABORTED"} => log'[u] = log[u]
                      /\ log[u] # "NONE" => log'[u] # "NONE"
    BY <1>1 DEF Running, TypeOK
  <1>4. pc # "idle" => log'[Reader] = "IN_PROGRESS" /\ Reader \in active'
    BY <1>1 DEF MayAct, Phases, TypeOK
  <1>5. LogGrows
    BY <1>3, <1>4 DEF LogGrows
  <1>6. Len(row) \in Nat
    BY <1>1, RowTypes
  <1>7. RowsGrow
    BY <1>1, <1>6 DEF RowsGrow
  <1> QED BY <1>1, <1>2, <1>5, <1>7 DEF Grows

(* It inserts a version.                                                   *)
LEMMA InsertGrows ==
  ASSUME IInv, NEW t \in Tx, NEW k \in Key, Insert(t, k)
  PROVE  Grows /\ SharedTypes'
  <1> DEFINE new == [key |-> k, ins |-> t, del |-> 0]
  <1>1. /\ row \in Seq(Version) /\ new \in Version /\ row' = Append(row, new)
        /\ log[t] = "IN_PROGRESS" /\ UNCHANGED <<log, active, query>>
        /\ TypeOK /\ Phases /\ Len(row) < MaxRow /\ MaxRow \in Nat
    BY ScanAssumption DEF Insert, Running, IInv, TypeOK, Version
  <1>2. /\ row' \in Seq(Version) /\ Len(row') = Len(row) + 1
        /\ \A n \in 1..Len(row) : row'[n] = row[n]
        /\ row'[Len(row) + 1] = new
    <2> HIDE DEF new
    <2> QED BY <1>1, AppendFacts
  <1>3. DOMAIN row = 1..Len(row) /\ DOMAIN row' = 1..(Len(row) + 1) /\ Len(row) \in Nat
    BY <1>1, <1>2
  <1>4. SharedTypes'
    BY <1>1, <1>2, <1>3 DEF SharedTypes, TypeOK
  <1>5. \A i \in DOMAIN row' \ DOMAIN row : row'[i] = new
    BY <1>2, <1>3
  <1>6. \A i \in DOMAIN row : row'[i] = row[i]
    BY <1>2, <1>3
  <1>7. DOMAIN row \subseteq DOMAIN row' /\ Len(row) <= Len(row')
    BY <1>2, <1>3
  <1> QED BY <1>1, <1>4, <1>5, <1>6, <1>7 DEF Grows, RowsGrow, LogGrows, Phases

(* It marks a version as deleted.                                          *)
LEMMA MarkGrows ==
  ASSUME IInv, NEW t \in Tx, NEW i \in DOMAIN row, Mark(t, i)
  PROVE  Grows /\ SharedTypes'
  <1>1. /\ row \in Seq(Version) /\ row' = [row EXCEPT ![i].del = t]
        /\ log[t] = "IN_PROGRESS" /\ UNCHANGED <<log, active, query>>
        /\ t = row[i].ins \/ log[row[i].ins] = "COMMITED"
        /\ pc # "idle" => t # Reader
        /\ TypeOK /\ Phases
    BY DEF Mark, MayAct, Running, IInv, TypeOK, Version
  <1> DEFINE new == [row[i] EXCEPT !.del = t]
  <1>2. row' = [row EXCEPT ![i] = new]
    BY <1>1
  <1>3. new \in Version /\ new.key = row[i].key /\ new.ins = row[i].ins /\ new.del = t
    BY <1>1, RowTypes DEF Version
  <1> HIDE DEF new
  <1>5. row' \in Seq(Version) /\ Len(row') = Len(row) /\ DOMAIN row' = DOMAIN row
    BY <1>1, <1>2, <1>3
  <1>6. row'[i] = new /\ \A j \in DOMAIN row : j # i => row'[j] = row[j]
    BY <1>1, <1>2
  <1>7. Len(row) \in Nat
    BY <1>1, RowTypes
  <1>4. SharedTypes'
    BY <1>1, <1>5 DEF SharedTypes, TypeOK
  <1> QED BY <1>1, <1>3, <1>4, <1>5, <1>6, <1>7 DEF Grows, RowsGrow, LogGrows, Phases, TypeOK

(* Whatever a query has read, judged and collected stays good while the    *)
(* others work.                                                            *)
LEMMA GrowsKeeps ==
  ASSUME IInv, Grows, SharedTypes', Record
  PROVE  IInv'
  <1> USE DEF Grows, RowsGrow, LogGrows
  <1>0. /\ TypeOK /\ Marks /\ Phases /\ Memory /\ Judging /\ Returned
        /\ Sorted /\ Frontier /\ Coverage
        /\ row \in Seq(Version) /\ row' \in Seq(Version)
        /\ DOMAIN row = 1..Len(row) /\ DOMAIN row' = 1..Len(row')
        /\ Len(row) \in Nat /\ Len(row') \in Nat
        /\ Reader \in Tx /\ 0 \notin Tx /\ DOMAIN row' \subseteq Id
    <2>1. TypeOK /\ row' \in Seq(Version) /\ Len(row') <= MaxRow
      BY DEF IInv, SharedTypes
    <2>2. Len(row') \in Nat /\ DOMAIN row' = 1..Len(row')
      BY <2>1, ElementFacts
    <2>3. DOMAIN row' \subseteq Id
      BY <2>1, <2>2, ScanAssumption DEF Id
    <2> QED BY <2>1, <2>2, <2>3, RowTypes, ScanAssumption DEF IInv
  <1>1. pc' = pc /\ leaf' = leaf /\ last' = last /\ known' = known
        /\ read' = read /\ seen' = seen /\ result' = result
    BY DEF query
  <1>2. TypeOK'
    <2>1. shown' \subseteq Id /\ hidden' \subseteq Id /\ contested' \subseteq Id
      BY <1>0, RecordTypes
    <2>2. last \in 0..Len(row') /\ known \in 0..Len(row')
      BY <1>0 DEF TypeOK
    <2> QED BY <1>0, <1>1, <2>1, <2>2 DEF TypeOK, SharedTypes, Version
  <1>3. pc # "idle" => /\ shown \subseteq shown' /\ hidden \subseteq hidden'
                       /\ VisibleNow' \subseteq shown'
                       /\ Id \ VisibleNow' \subseteq hidden'
    BY <1>1 DEF Record
  <1>4. contested \subseteq contested'
    BY DEF Record
  <1>5. \A i \in DOMAIN row : row[i].ins \in Tx /\ row[i].del \in Tx \cup {0}
    BY <1>0, RowTypes
  <1>6. \A ins \in Tx, del \in Tx \cup {0} : Rightful(ins, del) => Rightful(ins, del)'
    BY DEF Rightful
  <1>7. \A i, j \in DOMAIN row : Before(i, j) => Before(i, j)'
    BY DEF Before
  <1>8. Marks'
    <2> SUFFICES ASSUME NEW i \in DOMAIN row'
                 PROVE  Rightful(row[i].ins, row[i].del)'
      BY DEF Marks
    <2>1. CASE i \in DOMAIN row /\ row'[i].del = row[i].del
      <3>1. /\ Rightful(row[i].ins, row[i].del) /\ row'[i].ins = row[i].ins
            /\ row[i].ins \in Tx /\ row[i].del \in Tx \cup {0}
        BY <1>0, <1>5, <2>1 DEF Marks
      <3> QED BY <3>1, <2>1 DEF Rightful
    <2>2. CASE i \in DOMAIN row /\ row'[i].del # row[i].del
      <3>1. /\ log'[row[i].ins] # "NONE" /\ row'[i].ins = row[i].ins
            /\ log'[row'[i].del] = "IN_PROGRESS"
            /\ row'[i].del = row[i].ins \/ log'[row[i].ins] = "COMMITED"
        BY <1>0, <1>5, <2>2 DEF Marks, Rightful
      <3> QED BY <3>1 DEF Rightful
    <2>3. CASE i \notin DOMAIN row
      BY <2>3 DEF Rightful
    <2> QED BY <2>1, <2>2, <2>3
  <1>9. Phases'
    BY <1>0, <1>1 DEF Phases
  <1>10. Memory'
    <2>a. \A n \in DOMAIN read : Remembered(read[n]) /\ read[n] \in Reading /\ pc # "idle"
      BY <1>0, ReadTypes DEF Memory, Phases
    <2> SUFFICES ASSUME NEW r \in Reading, Remembered(r), pc # "idle"
                 PROVE  Remembered(r)'
      BY <2>a, <1>1 DEF Memory
    <2>1. Remembered(r) /\ r \in Reading
      OBVIOUS
    <2>2. pc # "idle"
      OBVIOUS
    <2>3. /\ r.id \in DOMAIN row /\ r.ins \in Tx /\ r.del \in Tx \cup {0}
          /\ r.ins = row[r.id].ins /\ r.ins = row'[r.id].ins /\ Rightful(r.ins, r.del)'
      BY <2>1, <1>6, ReadingFields DEF Remembered
    <2>4. row'[r.id].del # r.del => row'[r.id].del = r.ins \/ r.id \in shown'
      <3>1. CASE row'[r.id].del = row[r.id].del
        BY <2>1, <2>2, <1>3, <3>1 DEF Remembered
      <3>2. CASE row'[r.id].del # row[r.id].del /\ row'[r.id].del # r.ins
        <4>1. /\ log'[r.ins] = "COMMITED" /\ row'[r.id].del # Reader
              /\ log'[row'[r.id].del] = "IN_PROGRESS" /\ r.id \in DOMAIN row'
          BY <2>2, <2>3, <3>2
        <4>2. r.id \in VisibleNow'
          BY <4>1, <2>3 DEF VisibleNow, ReadCommitted
        <4> QED BY <4>2, <2>2, <1>3
      <3> QED BY <3>1, <3>2
    <2>5. row'[r.id].del # r.del /\ r.del # 0 => r.id \in contested'
      <3>1. CASE row[r.id].del = r.del
        BY <2>3, <3>1 DEF Record, Overrun
      <3>2. CASE row[r.id].del # r.del
        BY <2>1, <1>4, <3>2 DEF Remembered
      <3> QED BY <3>1, <3>2
    <2>6. r.del \notin {0, Reader, r.ins} /\ log'[r.del] # "COMMITED" => r.id \in shown'
      BY <2>1, <2>2, <2>3, <1>3 DEF Remembered
    <2> QED BY <2>1, <2>2, <2>3, <2>4, <2>5, <2>6, <1>0, <1>3 DEF Remembered
  <1>11. Judging'
    <2> SUFFICES ASSUME pc = "inserter" PROVE StatusOf(read[1])'
      BY <1>1 DEF Judging
    <2>1. read # <<>> /\ read[1] \in Reading
      BY <1>0, ReadTypes, TailFacts DEF Phases
    <2>2. StatusOf(read[1]) /\ read[1].del \in Tx \cup {0}
      BY <1>0, <2>1, ReadingFields DEF Judging
    <2>3. pc # "idle" OBVIOUS
    <2> QED BY <2>2, <2>3, <1>1, <1>3 DEF StatusOf
  <1>12. Returned'
    <2>a. \A n \in DOMAIN result : Kept(result[n]) /\ pc # "idle"
      BY <1>0 DEF Returned, Phases
    <2> SUFFICES ASSUME NEW i, Kept(i), pc # "idle"
                 PROVE  Kept(i)'
      BY <2>a, <1>1 DEF Returned
    <2>1. Kept(i) /\ pc # "idle"
      OBVIOUS
    <2>2. i \in DOMAIN row /\ row'[i].ins = row[i].ins /\ row[i].ins \in Tx
      BY <2>1, <1>5 DEF Kept
    <2>3. row'[i].ins = Reader \/ log'[row'[i].ins] = "COMMITED"
      BY <2>1, <2>2 DEF Kept
    <2>4. Torn(i)' \/ i \in shown'
      <3>1. CASE row'[i].del = row[i].del
        BY <2>1, <2>2, <1>3, <3>1 DEF Kept, Torn
      <3>2. CASE row'[i].del # row[i].del /\ row'[i].del # row[i].ins
        <4>1. /\ log'[row[i].ins] = "COMMITED" /\ row'[i].del # Reader
              /\ log'[row'[i].del] = "IN_PROGRESS" /\ i \in DOMAIN row'
          BY <2>1, <2>2, <3>2
        <4>2. i \in VisibleNow'
          BY <4>1, <2>2 DEF VisibleNow, ReadCommitted
        <4> QED BY <4>2, <2>1, <1>3
      <3> QED BY <3>1, <3>2, <2>2 DEF Torn
    <2> QED BY <2>2, <2>3, <2>4 DEF Kept
  <1>13. Sorted'
    <2>1. /\ \A n \in DOMAIN result : result[n] \in DOMAIN row
          /\ \A n \in DOMAIN read : read[n].id \in DOMAIN row
          /\ \A n \in DOMAIN leaf : leaf[n] \in DOMAIN row
      BY <1>0 DEF Returned, Kept, Memory, Remembered, Sorted
    <2> QED BY <1>0, <1>1, <1>7, <2>1 DEF Sorted, Ascending
  <1>14. Frontier'
    <2> SUFFICES ASSUME pc = "walk" PROVE Frontier'
      BY <1>1 DEF Frontier
    <2>1. /\ \A n \in DOMAIN read : read[n].id \in DOMAIN row
          /\ \A n \in DOMAIN leaf : leaf[n] \in DOMAIN row
          /\ last # 0 => last \in DOMAIN row
      BY <1>0 DEF Memory, Remembered, Sorted, TypeOK
    <2> QED BY <1>0, <1>1, <1>7, <2>1 DEF Frontier, UpTo
  <1>15. Coverage'
    <2> SUFFICES ASSUME pc # "idle" PROVE Coverage'
      BY <1>1 DEF Coverage
    <2>1. \A i \in Behind : i \in Behind'
      <3>1. last # 0 => last \in DOMAIN row
        BY <1>0 DEF TypeOK
      <3> QED BY <3>1, <1>1, <1>7 DEF Behind
    <2>2. \A i \in Id : OnItsWay(i) => OnItsWay(i)'
      BY <2>1, <1>1 DEF OnItsWay
    <2> QED BY <2>2, <1>0, <1>1, <1>3, <1>4 DEF Coverage
  <1> QED BY <1>2, <1>8, <1>9, <1>10, <1>11, <1>12, <1>13, <1>14, <1>15 DEF IInv

-----------------------------------------------------------------------------
(* The query. *)

(* What a step of the query leaves as it is.                               *)
LEMMA QueryFrame ==
  ASSUME IInv, UNCHANGED shared, Record, pc' # "idle"
  PROVE  /\ shown \subseteq shown' /\ hidden \subseteq hidden' /\ contested' = contested
         /\ VisibleNow \subseteq shown' /\ Id \ VisibleNow \subseteq hidden'
         /\ shown' \subseteq Id /\ hidden' \subseteq Id /\ contested' \subseteq Id
         /\ SharedTypes' /\ Marks'
         /\ \A r \in Reading : Remembered(r) => Remembered(r)'
         /\ \A i \in Id : Kept(i) => Kept(i)'
         /\ \A i, j : Before(i, j) => Before(i, j)'
  <1>1. TypeOK /\ Marks /\ row' = row /\ log' = log /\ active' = active
    BY DEF IInv, shared
  <1>2. VisibleNow' = VisibleNow
    BY <1>1 DEF VisibleNow, ReadCommitted
  <1>3. Overrun = {}
    BY <1>1 DEF Overrun
  <1>4. /\ shown' = shown \cup VisibleNow /\ hidden' = hidden \cup (Id \ VisibleNow)
        /\ contested' = contested
    BY <1>2, <1>3 DEF Record
  <1>5. shown' \subseteq Id /\ hidden' \subseteq Id /\ contested' \subseteq Id
    BY <1>1, RowTypes, RecordTypes
  <1>6. SharedTypes' /\ Marks'
    BY <1>1 DEF SharedTypes, TypeOK, Version, Marks, Rightful
  <1>7. \A r \in Reading : Remembered(r) => Remembered(r)'
    BY <1>1, <1>4 DEF Remembered, Rightful
  <1>8. \A i \in Id : Kept(i) => Kept(i)'
    BY <1>1, <1>4 DEF Kept, Torn
  <1>9. \A i, j : Before(i, j) => Before(i, j)'
    BY <1>1 DEF Before
  <1> QED BY <1>4, <1>5, <1>6, <1>7, <1>8, <1>9

(* The query begins: what there is is ahead, what there is not is hidden.   *)
LEMMA StartKeeps ==
  ASSUME IInv, Start, Record
  PROVE  IInv'
  <1>1. /\ pc = "idle" /\ pc' = "walk" /\ last' = 0 /\ known' = Len(row)
        /\ leaf' = <<>> /\ read' = <<>> /\ result' = <<>> /\ seen' = seen
        /\ UNCHANGED shared /\ Running(Reader) /\ TypeOK
    BY DEF Start, IInv, Phases
  <1>2. pc' # "idle"
    BY <1>1
  <1>3. row' = row /\ log' = log /\ active' = active
    BY <1>1 DEF shared
  <1>4. TypeOK'
    BY <1>1, <1>2, <1>3, QueryFrame, RowTypes DEF TypeOK
  <1>5. Phases'
    BY <1>1, <1>3 DEF Phases, Running
  <1>6. Memory' /\ Judging' /\ Returned' /\ Sorted' /\ Frontier'
    BY <1>1 DEF Memory, Judging, Returned, Sorted, Frontier, Ascending
  <1>7. Coverage'
    <2>1. Behind' = DOMAIN row
      BY <1>1, <1>3 DEF Behind
    <2>2. \A i \in Id : i \notin DOMAIN row => i \in hidden'
      BY <1>1, <1>2, QueryFrame DEF VisibleNow
    <2>3. \A i \in Id : i > Len(row) => i \notin DOMAIN row
      BY <1>1, RowTypes DEF Id
    <2> QED BY <1>1, <2>1, <2>2, <2>3 DEF Coverage, OnItsWay
  <1> QED BY <1>1, <1>2, <1>4, <1>5, <1>6, <1>7, QueryFrame DEF IInv

(* A leaf is copied: what it passes over came too late to be visible all   *)
(* the while.                                                              *)
LEMMA CopyLeafKeeps ==
  ASSUME IInv, CopyLeaf, Record
  PROVE  IInv'
  <1>1. PICK s \in Pieces :
          /\ \A j \in Behind \ Range(s) :
               Before(j, s[Len(s)]) => Before(j, s[1]) /\ last # 0 /\ j > known
          /\ Copied(s)
    BY DEF CopyLeaf
  <1>2. /\ pc = "walk" /\ pc' = "walk" /\ leaf = <<>> /\ leaf' = s
        /\ last' = s[Len(s)] /\ known' = Len(row)
        /\ read' = read /\ seen' = seen /\ result' = result /\ UNCHANGED shared
    BY <1>1 DEF CopyLeaf, Copied
  <1>3. TypeOK /\ Phases /\ Memory /\ Judging /\ Returned /\ Sorted /\ Frontier /\ Coverage
        /\ row' = row /\ log' = log /\ active' = active /\ pc' # "idle"
    BY <1>2 DEF IInv, shared
  <1>4. PICK n \in 1..MaxRow : s \in [1..n -> Behind] /\ Ascending(s)
    BY <1>1 DEF Pieces
  <1>5. /\ Behind \subseteq DOMAIN row /\ DOMAIN row \subseteq Id
        /\ Len(row) \in Nat /\ DOMAIN row = 1..Len(row) /\ n \in Nat
    BY <1>3, RowTypes, ScanAssumption DEF Behind
  <1>6. /\ s \in Seq(Id) /\ Len(s) = n /\ DOMAIN s = 1..n
        /\ \A k \in 1..n : s[k] \in Behind
    BY <1>4, <1>5
  <1>7. last' \in Behind /\ last' = s[n] /\ last' # 0 /\ last' \in DOMAIN row
    BY <1>2, <1>5, <1>6
  <1>8. TypeOK'
    <2>1. last' \in 0..Len(row) /\ known' \in 0..Len(row)
      BY <1>2, <1>5, <1>7
    <2> QED BY <1>2, <1>3, <1>6, <2>1, QueryFrame DEF TypeOK
  <1>9. Phases' /\ Judging'
    BY <1>2, <1>3 DEF Phases, Judging
  <1>10. Memory'
    BY <1>2, <1>3, QueryFrame, ReadTypes DEF Memory
  <1>11. Returned'
    BY <1>2, <1>3 DEF Returned, Phases
  <1>12. \A k \in 1..n : s[k] = last' \/ Before(s[k], last')
    BY <1>4, <1>6, <1>7 DEF Ascending
  <1>13. \A m \in DOMAIN read : /\ read[m].id \in DOMAIN row
                               /\ \A j \in Behind : Before(read[m].id, j)
    <2> SUFFICES ASSUME NEW m \in DOMAIN read, NEW j \in Behind
                 PROVE  read[m].id \in DOMAIN row /\ Before(read[m].id, j)
      BY <1>5, <1>3 DEF Memory, Remembered
    <2>1. read[m].id \in DOMAIN row /\ UpTo(read[m].id)
      BY <1>2, <1>3 DEF Memory, Remembered, Frontier
    <2>2. last \in DOMAIN row /\ j \in DOMAIN row /\ Before(last, j)
      BY <1>3, <1>5, <2>1 DEF UpTo, Behind, TypeOK
    <2> QED BY <1>3, <2>1, <2>2, BeforeIsOrder DEF UpTo
  <1>14. Sorted'
    <2>1. /\ Ascending(s)' /\ Ascending(result)'
      BY <1>2, <1>3, <1>4, QueryFrame DEF Ascending, Phases
    <2>2. \A m, k \in DOMAIN read : m < k => Before(read[m].id, read[k].id)'
      BY <1>2, <1>3, QueryFrame DEF Sorted
    <2>3. \A m \in DOMAIN read, k \in DOMAIN s : Before(read[m].id, s[k])'
      BY <1>2, <1>3, <1>6, <1>13, QueryFrame
    <2>4. \A k \in DOMAIN s : s[k] \in DOMAIN row
      BY <1>5, <1>6
    <2> QED BY <1>2, <1>3, <2>1, <2>2, <2>3, <2>4 DEF Sorted, Phases, Ascending
  <1>15. Frontier'
    <2>1. \A i \in Id : i = last' \/ Before(i, last') => UpTo(i)'
      BY <1>3, <1>7, QueryFrame DEF UpTo, Before
    <2>2. \A m \in DOMAIN read : UpTo(read[m].id)'
      BY <1>2, <1>3, <1>5, <1>7, <1>13, <2>1
    <2>3. \A k \in 1..n : UpTo(s[k])'
      BY <1>5, <1>6, <1>12, <2>1
    <2> QED BY <1>2, <1>6, <2>2, <2>3 DEF Frontier
  <1>16. Coverage'
    <2>1. \A i \in Id : i > known' => i \in hidden'
      <3>1. \A i \in Id : i > Len(row) => i \notin DOMAIN row
        BY <1>5 DEF Id
      <3> QED BY <1>2, <1>3, <3>1, QueryFrame DEF VisibleNow
    <2>2. ASSUME NEW i \in Behind
          PROVE  i \in hidden' \/ OnItsWay(i)'
      <3>1. i \in Id /\ i \in DOMAIN row
        BY <1>5
      <3>2. CASE \E k \in 1..n : s[k] = i
        BY <1>2, <1>6, <3>2 DEF OnItsWay
      <3>3. CASE ~(\E k \in 1..n : s[k] = i) /\ Before(i, last')
        <4>1. i \in Behind \ Range(s) /\ Before(i, s[Len(s)])
          BY <1>2, <1>6, <3>3 DEF Range
        <4>2. i > known
          BY <1>1, <4>1
        <4> QED BY <1>3, <3>1, <4>2, <1>2, QueryFrame DEF Coverage
      <3>4. CASE Before(last', i)
        <4>1. i \in Behind'
          BY <1>3, <3>1, <3>4 DEF Behind, Before
        <4> QED BY <1>2, <4>1 DEF OnItsWay
      <3>5. i = last' => \E k \in 1..n : s[k] = i
        BY <1>5, <1>7
      <3> QED BY <1>3, <1>7, <3>1, <3>2, <3>3, <3>4, <3>5, BeforeIsOrder
    <2>3. ASSUME NEW i \in Id
          PROVE  i \in hidden' \/ i \in contested' \/ OnItsWay(i)'
      <3>1. i \in hidden \/ i \in contested \/ OnItsWay(i)
        BY <1>2, <1>3 DEF Coverage
      <3>2. CASE i \in hidden \/ i \in contested
        BY <1>2, <1>3, <3>2, QueryFrame
      <3>3. CASE OnItsWay(i)
        <4>1. i \in Behind \/ (\E m \in DOMAIN result : result[m] = i)
                           \/ (\E m \in DOMAIN read : read[m].id = i)
          BY <1>2, <3>3 DEF OnItsWay
        <4>2. (\E m \in DOMAIN result : result[m] = i)
                \/ (\E m \in DOMAIN read : read[m].id = i) => OnItsWay(i)'
          BY <1>2 DEF OnItsWay
        <4> QED BY <2>2, <4>1, <4>2
      <3> QED BY <3>1, <3>2, <3>3
    <2> QED BY <2>1, <2>3 DEF Coverage
  <1> QED BY <1>2, <1>3, <1>8, <1>9, <1>10, <1>11, <1>14, <1>15, <1>16, QueryFrame DEF IInv

(* A version is read: its marks say whether it is visible at this instant. *)
LEMMA ReadRowKeeps ==
  ASSUME IInv, ReadRow, Record
  PROVE  IInv'
  <1> DEFINE i == leaf[1]
             new == [id |-> i, ins |-> row[i].ins, del |-> row[i].del]
  <1>1. /\ pc = "walk" /\ pc' = "walk" /\ leaf # <<>> /\ leaf' = Tail(leaf)
        /\ read' = Append(read, [id |-> Head(leaf), ins |-> row[Head(leaf)].ins,
                                 del |-> row[Head(leaf)].del])
        /\ last' = last /\ known' = known /\ seen' = seen /\ result' = result
        /\ UNCHANGED shared
    BY DEF ReadRow
  <1>2. TypeOK /\ Marks /\ Phases /\ Memory /\ Judging /\ Returned /\ Sorted /\ Frontier /\ Coverage
        /\ row' = row /\ log' = log /\ active' = active /\ pc' # "idle"
    BY <1>1 DEF IInv, shared
  <1>3. /\ Len(leaf) \in Nat \ {0} /\ DOMAIN leaf = 1..Len(leaf) /\ Head(leaf) = i /\ i \in Id
        /\ leaf' \in Seq(Id) /\ DOMAIN leaf' = 1..(Len(leaf) - 1)
        /\ \A n \in DOMAIN leaf' : leaf'[n] = leaf[n + 1]
    BY <1>1, <1>2, TailFacts, ElementFacts DEF TypeOK
  <1>4. i \in DOMAIN row
    BY <1>2, <1>3 DEF Sorted
  <1>5. /\ new \in Reading /\ new.id = i /\ new.ins = row[i].ins /\ new.del = row[i].del
        /\ row[i].ins \in Tx /\ row[i].del \in Tx \cup {0}
    BY <1>2, <1>3, <1>4, RowTypes DEF Reading
  <1>6. read' = Append(read, new)
    BY <1>1, <1>3
  <1> HIDE DEF new
  <1>7. /\ Len(read) \in Nat /\ DOMAIN read = 1..Len(read)
        /\ read' \in Seq(Reading) /\ DOMAIN read' = 1..(Len(read) + 1)
        /\ \A n \in DOMAIN read : read'[n] = read[n]
        /\ read'[Len(read) + 1] = new
    BY <1>2, <1>5, <1>6, ReadTypes, AppendFacts, ElementFacts
  <1>8. TypeOK'
    BY <1>1, <1>2, <1>3, <1>7, QueryFrame DEF TypeOK, Reading
  <1>9. Phases' /\ Judging' /\ Returned'
    BY <1>1, <1>2 DEF Phases, Judging, Returned
  <1>10. Memory'
    <2>1. ASSUME NEW r \in Reading, r.id = i, r.ins = row[i].ins, r.del = row[i].del
          PROVE  Remembered(r)'
      <3>1. Rightful(row[i].ins, row[i].del)
        BY <1>2, <1>4 DEF Marks
      <3>2. r.del = Reader => i \in hidden'
        <4>1. r.del = Reader => i \notin VisibleNow
          BY <2>1, ScanAssumption DEF VisibleNow, ReadCommitted
        <4> QED BY <1>1, <1>2, <1>3, <4>1, QueryFrame
      <3>3. \/ r.del = 0 /\ r.ins = Reader
            \/ r.del \notin {0, Reader, r.ins} /\ log[r.del] # "COMMITED"
            => i \in shown'
        <4>1. \/ r.del = 0 /\ r.ins = Reader
              \/ r.del \notin {0, Reader, r.ins} /\ log[r.del] # "COMMITED"
              => i \in VisibleNow
          BY <1>4, <2>1, <3>1 DEF VisibleNow, ReadCommitted, Rightful
        <4> QED BY <1>1, <1>2, <4>1, QueryFrame
      <3> QED BY <1>2, <1>4, <2>1, <3>1, <3>2, <3>3 DEF Remembered, Rightful
    <2>3. \A n \in DOMAIN read : read[n] \in Reading /\ Remembered(read[n])
      BY <1>2, ReadTypes DEF Memory
    <2>4. \A r \in Reading : Remembered(r) => Remembered(r)'
      BY <1>1, <1>2, QueryFrame
    <2>5. \A r \in Reading : r = new => Remembered(r)'
      BY <1>5, <2>1
    <2>6. \A n \in DOMAIN read' : n \in DOMAIN read \/ n = Len(read) + 1
      BY <1>7
    <2>7. \A n \in DOMAIN read' : Remembered(read[n])'
      BY <1>5, <1>7, <2>3, <2>4, <2>5, <2>6
    <2> QED BY <2>7 DEF Memory
  <1>11. \A n \in DOMAIN read' :
           \/ n \in DOMAIN read /\ read'[n] = read[n]
           \/ n = Len(read) + 1 /\ read'[n].id = leaf[1]
    BY <1>5, <1>7
  <1>12. Sorted'
    <2>1. /\ result' = <<>> /\ \A n \in DOMAIN leaf' : leaf'[n] \in DOMAIN row'
      BY <1>1, <1>2, <1>3 DEF Phases, Sorted
    <2>2. \A m, n \in DOMAIN leaf' : m < n => Before(leaf'[m], leaf'[n])
      BY <1>2, <1>3 DEF Sorted, Ascending
    <2>3. \A m, n \in DOMAIN read' : m < n => Before(read'[m].id, read'[n].id)
      BY <1>2, <1>3, <1>7, <1>11 DEF Sorted
    <2>4. \A m \in DOMAIN read', n \in DOMAIN leaf' : Before(read'[m].id, leaf'[n])
      BY <1>2, <1>3, <1>7, <1>11 DEF Sorted, Ascending
    <2>5. \A j, k : Before(j, k) => Before(j, k)'
      BY <1>1, <1>2, QueryFrame
    <2> QED BY <2>1, <2>2, <2>3, <2>4, <2>5 DEF Sorted, Ascending
  <1>13. Frontier'
    <2>1. \A j : UpTo(j) => UpTo(j)'
      BY <1>1, <1>2 DEF UpTo, Before
    <2>2. \A n \in DOMAIN leaf' : UpTo(leaf'[n])
      BY <1>1, <1>2, <1>3 DEF Frontier
    <2>3. \A n \in DOMAIN read' : UpTo(read'[n].id)
      BY <1>1, <1>2, <1>3, <1>11 DEF Frontier
    <2> QED BY <2>1, <2>2, <2>3 DEF Frontier
  <1>14. Coverage'
    <2>1. \A j \in Id : j > known' => j \in hidden'
      BY <1>1, <1>2, QueryFrame DEF Coverage
    <2>2. ASSUME NEW j \in Id, OnItsWay(j)
          PROVE  OnItsWay(j)'
      <3>1. CASE \E n \in DOMAIN leaf : leaf[n] = j
        <4>1. PICK n \in DOMAIN leaf : leaf[n] = j
          BY <3>1
        <4>2. CASE n = 1
          BY <1>5, <1>7, <4>1, <4>2 DEF OnItsWay
        <4>3. CASE n # 1
          <5>1. n - 1 \in DOMAIN leaf' /\ leaf'[n - 1] = j
            BY <1>3, <4>1, <4>3
          <5> QED BY <5>1 DEF OnItsWay
        <4> QED BY <4>2, <4>3
      <3>2. CASE \E n \in DOMAIN read : read[n].id = j
        BY <1>7, <3>2 DEF OnItsWay
      <3>3. CASE j \in Behind
        <4>1. j \in Behind'
          BY <1>1, <1>2, <3>3 DEF Behind, Before
        <4> QED BY <1>1, <4>1 DEF OnItsWay
      <3>4. CASE \E n \in DOMAIN result : result[n] = j
        BY <1>1, <3>4 DEF OnItsWay
      <3> QED BY <2>2, <3>1, <3>2, <3>3, <3>4 DEF OnItsWay
    <2> QED BY <1>1, <1>2, <2>1, <2>2, QueryFrame DEF Coverage
  <1> QED BY <1>1, <1>2, <1>8, <1>9, <1>10, <1>12, <1>13, <1>14, QueryFrame DEF IInv

(* The walk ends: whatever is still ahead came too late.                   *)
LEMMA EndWalkKeeps ==
  ASSUME IInv, EndWalk, Record
  PROVE  IInv'
  <1>1. /\ pc = "walk" /\ pc' = "judge" /\ leaf = <<>> /\ leaf' = <<>>
        /\ last' = last /\ known' = known /\ read' = read /\ seen' = seen
        /\ result' = result /\ UNCHANGED shared
        /\ \A j \in Behind : j > known
    BY DEF EndWalk
  <1>2. TypeOK /\ Marks /\ Phases /\ Memory /\ Returned /\ Sorted /\ Coverage
        /\ row' = row /\ log' = log /\ active' = active /\ pc' # "idle"
    BY <1>1 DEF IInv, shared
  <1>3. TypeOK'
    BY <1>1, <1>2, QueryFrame DEF TypeOK
  <1>4. Phases' /\ Judging' /\ Frontier' /\ Returned'
    BY <1>1, <1>2 DEF Phases, Judging, Frontier, Returned
  <1>5. Memory'
    BY <1>1, <1>2, QueryFrame, ReadTypes DEF Memory
  <1>6. Sorted'
    BY <1>1, <1>2 DEF Sorted, Ascending, Before
  <1>7. Coverage'
    <2>1. \A j \in Behind : j \in Id
      BY <1>2, RowTypes DEF Behind
    <2>2. \A j \in Id : OnItsWay(j) => j \in Behind \/ OnItsWay(j)'
      BY <1>1 DEF OnItsWay
    <2> QED BY <1>1, <1>2, <2>1, <2>2, QueryFrame DEF Coverage
  <1> QED BY <1>1, <1>2, <1>3, <1>4, <1>5, <1>6, <1>7, QueryFrame DEF IInv

(* A phase that changes neither what was read nor the result.              *)
LEMMA PhaseKeeps ==
  ASSUME IInv, Record, UNCHANGED shared, UNCHANGED <<leaf, last, known, read, result>>,
         pc \in {"judge", "deleter"}, pc' \in {"deleter", "inserter", "done"},
         seen' \in [insActive : BOOLEAN, delActive : BOOLEAN, del : Status],
         Phases', Judging'
  PROVE  IInv'
  <1>1. TypeOK /\ Marks /\ Phases /\ Memory /\ Returned /\ Sorted /\ Coverage
        /\ row' = row /\ log' = log /\ active' = active /\ pc' # "idle"
        /\ leaf' = leaf /\ last' = last /\ known' = known /\ read' = read /\ result' = result
    BY DEF IInv, shared
  <1>2. TypeOK'
    BY <1>1, QueryFrame DEF TypeOK
  <1>3. Frontier'
    BY DEF Frontier
  <1>4. Memory'
    BY <1>1, QueryFrame, ReadTypes DEF Memory
  <1>5. Returned'
    BY <1>1, QueryFrame, ElementFacts DEF Returned, TypeOK
  <1>6. Sorted'
    BY <1>1 DEF Sorted, Ascending, Before
  <1>7. Coverage'
    <2>1. \A j \in Id : OnItsWay(j) => OnItsWay(j)'
      BY <1>1 DEF OnItsWay
    <2> QED BY <1>1, <2>1, QueryFrame DEF Coverage
  <1> QED BY <1>1, <1>2, <1>3, <1>4, <1>5, <1>6, <1>7, QueryFrame DEF IInv

(* The version judged goes: into the result, or it was hidden or contested. *)
LEMMA HeadJudged ==
  ASSUME IInv, Record, UNCHANGED <<shared, leaf, last, known>>,
         pc \in {"judge", "inserter"}, pc' = "judge", read # <<>>, read' = Tail(read),
         seen' \in [insActive : BOOLEAN, delActive : BOOLEAN, del : Status],
         NEW e \in Id, e = read[1].id,
         \/ result' = result /\ e \in hidden' \cup contested'
         \/ result' = Append(result, e) /\ Kept(e)'
  PROVE  IInv'
  <1>1. /\ TypeOK /\ Marks /\ Phases /\ Memory /\ Returned /\ Sorted /\ Coverage
        /\ row' = row /\ log' = log /\ active' = active /\ pc' # "idle"
        /\ UNCHANGED shared /\ leaf' = leaf /\ last' = last /\ known' = known
        /\ leaf = <<>>
    BY DEF IInv, shared, Phases
  <1>2. /\ read \in Seq(Reading) /\ DOMAIN read = 1..Len(read) /\ Len(read) \in Nat \ {0}
        /\ \A n \in DOMAIN read : read[n] \in Reading
        /\ read' \in Seq(Reading) /\ DOMAIN read' = 1..(Len(read) - 1)
        /\ \A n \in DOMAIN read' : read'[n] = read[n + 1] /\ n + 1 \in DOMAIN read
        /\ 1 \in DOMAIN read
    BY <1>1, ReadTypes, TailFacts, ElementFacts
  <1>3. /\ result \in Seq(Id) /\ DOMAIN result = 1..Len(result) /\ Len(result) \in Nat
        /\ \A n \in DOMAIN result : result[n] \in Id
    BY <1>1, ElementFacts DEF TypeOK
  <1>a. /\ Append(result, e) \in Seq(Id) /\ Len(Append(result, e)) = Len(result) + 1
        /\ \A n \in 1..Len(result) : Append(result, e)[n] = result[n]
        /\ Append(result, e)[Len(result) + 1] = e
        /\ DOMAIN Append(result, e) = 1..(Len(result) + 1) /\ Append(result, e) # result
    <2>1. result \in Seq(Id) /\ e \in Id
      BY <1>3
    <2> QED BY ONLY <2>1, AppendFacts, ElementFacts
  <1>4. /\ result' \in Seq(Id)
        /\ \A n \in DOMAIN result : n \in DOMAIN result' /\ result'[n] = result[n]
        /\ \A n \in DOMAIN result' :
             \/ n \in DOMAIN result /\ result'[n] = result[n]
             \/ n = Len(result) + 1 /\ result'[n] = e /\ result' # result
    <2>1. CASE result' = result
      BY <1>3, <2>1
    <2>2. CASE result' = Append(result, e)
      <3>1. /\ result' \in Seq(Id) /\ Len(result') = Len(result) + 1
            /\ \A n \in 1..Len(result) : result'[n] = result[n]
            /\ result'[Len(result) + 1] = e
        BY <1>a, <2>2
      <3>2. DOMAIN result' = 1..(Len(result) + 1)
        BY <1>3, <3>1
      <3>3. result' # result
        BY <1>3, <3>1
      <3> QED BY <1>3, <3>1, <3>2, <3>3
    <2> QED BY <2>1, <2>2
  <1>5. TypeOK'
    BY <1>1, <1>2, <1>4, QueryFrame DEF TypeOK, Reading
  <1>6. Phases' /\ Judging' /\ Frontier'
    BY <1>1 DEF Phases, Judging, Frontier
  <1>7. Memory'
    <2>1. \A n \in DOMAIN read' : read'[n] \in Reading /\ Remembered(read'[n])
      BY <1>1, <1>2 DEF Memory
    <2>2. \A r \in Reading : Remembered(r) => Remembered(r)'
      BY <1>1, QueryFrame
    <2>3. \A n \in DOMAIN read' : Remembered(read[n])'
      BY <2>1, <2>2
    <2> QED BY <2>3 DEF Memory
  <1>8. Returned'
    <2>1. \A n \in DOMAIN result : result[n] \in Id /\ Kept(result[n])
      BY <1>1, <1>3 DEF Returned
    <2>2. \A i \in Id : Kept(i) => Kept(i)'
      BY <1>1, QueryFrame
    <2>3. \A n \in DOMAIN result' : Kept(result[n])'
      BY <1>2, <1>4, <2>1, <2>2
    <2> QED BY <2>3 DEF Returned
  <1>9. Sorted'
    <2>1. \A m, n \in DOMAIN read' : m < n => Before(read'[m].id, read'[n].id)
      BY <1>1, <1>2 DEF Sorted
    <2>2. \A n \in DOMAIN read' : Before(e, read'[n].id)
      BY <1>1, <1>2 DEF Sorted
    <2>3. \A m \in DOMAIN result, n \in DOMAIN read' : Before(result[m], read'[n].id)
      BY <1>1, <1>2 DEF Sorted
    <2>4. \A m, n \in DOMAIN result : m < n => Before(result[m], result[n])
      BY <1>1 DEF Sorted, Ascending
    <2>5. \A m \in DOMAIN result : Before(result[m], e)
      BY <1>1, <1>2 DEF Sorted
    <2>6. \A m, n \in DOMAIN result' : m < n => Before(result'[m], result'[n])
      BY <1>3, <1>4, <2>4, <2>5
    <2>7. \A m \in DOMAIN result', n \in DOMAIN read' : Before(result'[m], read'[n].id)
      BY <1>4, <2>2, <2>3
    <2>8. \A i, j : Before(i, j) => Before(i, j)'
      BY <1>1, QueryFrame
    <2> QED BY <1>1, <2>1, <2>6, <2>7, <2>8 DEF Sorted, Ascending
  <1>10. Coverage'
    <2>1. ASSUME NEW j \in Id, OnItsWay(j)
          PROVE  OnItsWay(j)' \/ j \in hidden' \cup contested'
      <3>1. CASE \E n \in DOMAIN result : result[n] = j
        BY <1>4, <3>1 DEF OnItsWay
      <3>2. CASE \E n \in DOMAIN read : read[n].id = j
        <4>1. PICK n \in DOMAIN read : read[n].id = j
          BY <3>2
        <4>2. CASE n = 1 /\ result' # result
          <5>1. result' = Append(result, e)
            BY <4>2
          <5>2. DOMAIN result' = 1..(Len(result) + 1) /\ result'[Len(result) + 1] = e
            BY <1>a, <5>1
          <5>3. Len(result) + 1 \in DOMAIN result' /\ result'[Len(result) + 1] = e
            BY <1>3, <5>2
          <5> QED BY <4>1, <4>2, <5>3 DEF OnItsWay
        <4>3. CASE n # 1
          <5>1. n - 1 \in DOMAIN read' /\ read'[n - 1].id = j
            BY <1>2, <4>1, <4>3
          <5> QED BY <5>1 DEF OnItsWay
        <4>4. CASE n = 1 /\ result' = result
          <5>1. result' # Append(result, e)
            BY <1>a, <1>3, <4>4
          <5> QED BY <4>1, <4>4, <5>1
        <4> QED BY <4>2, <4>3, <4>4
      <3> QED BY <1>1, <2>1, <3>1, <3>2 DEF OnItsWay
    <2> QED BY <1>1, <2>1, QueryFrame DEF Coverage
  <1> QED BY <1>1, <1>5, <1>6, <1>7, <1>8, <1>9, <1>10, QueryFrame DEF IInv

(* What is known of the version under judgement.                           *)
LEMMA HeadFacts ==
  ASSUME IInv, read # <<>>
  PROVE  /\ Head(read) = read[1] /\ read[1] \in Reading /\ Remembered(read[1])
         /\ read[1].id \in Id /\ read[1].ins \in Tx /\ read[1].del \in Tx \cup {0}
  <1>1. TypeOK /\ Memory
    BY DEF IInv
  <1>2. Len(read) \in Nat \ {0} /\ Head(read) = read[1]
    BY <1>1, ReadTypes, TailFacts
  <1>3. 1 \in DOMAIN read
    BY <1>1, <1>2, ReadTypes
  <1> QED BY <1>1, <1>2, <1>3, ReadTypes DEF Memory

(* IsVisible's early return drops what the reader itself deleted.          *)
LEMMA ReadActiveKeeps ==
  ASSUME IInv, ReadActive, Record
  PROVE  IInv'
  <1>1. /\ pc = "judge" /\ read # <<>> /\ Head(read) = read[1]
        /\ UNCHANGED shared /\ leaf' = leaf /\ last' = last /\ known' = known
        /\ result' = result /\ TypeOK /\ Phases /\ Remembered(read[1])
    BY HeadFacts DEF ReadActive, IInv
  <1>2. CASE read[1].del = Reader
    <2>1. read' = Tail(read) /\ pc' = "judge" /\ seen' = seen
      BY <1>1, <1>2 DEF ReadActive
    <2>2. read[1].id \in hidden'
      BY <1>1, <1>2, <2>1, QueryFrame DEF Remembered
    <2>3. seen' \in [insActive : BOOLEAN, delActive : BOOLEAN, del : Status]
      BY <1>1, <2>1 DEF TypeOK
    <2>4. UNCHANGED <<shared, leaf, last, known>> /\ read[1].id \in Id
      BY <1>1, HeadFacts
    <2> QED BY <1>1, <2>1, <2>2, <2>3, <2>4, HeadJudged
  <1>3. CASE read[1].del # Reader
    <2>1. /\ pc' = "deleter" /\ read' = read
          /\ seen' = [seen EXCEPT !.insActive = Head(read).ins \in active,
                                  !.delActive = Head(read).del \in active]
      BY <1>1, <1>3 DEF ReadActive
    <2>2. seen' \in [insActive : BOOLEAN, delActive : BOOLEAN, del : Status]
      <3> DEFINE i == Head(read).ins \in active
                 d == Head(read).del \in active
      <3>1. i \in BOOLEAN /\ d \in BOOLEAN
        OBVIOUS
      <3>2. seen' = [seen EXCEPT !.insActive = i, !.delActive = d]
        BY <2>1
      <3> HIDE DEF i, d
      <3> QED BY <1>1, <3>1, <3>2 DEF TypeOK
    <2>3. Phases' /\ Judging'
      BY <1>1, <1>3, <2>1 DEF Phases, Judging, shared
    <2> QED BY <1>1, <2>1, <2>2, <2>3, PhaseKeeps
  <1> QED BY <1>2, <1>3

(* The deleter's status is read.                                           *)
LEMMA ReadDeleterKeeps ==
  ASSUME IInv, ReadDeleter, Record
  PROVE  IInv'
  <1>1. /\ pc = "deleter" /\ pc' = "inserter"
        /\ seen' = [seen EXCEPT !.del = ReadTransactionLog(log, Head(read).del)]
        /\ UNCHANGED shared /\ leaf' = leaf /\ last' = last /\ known' = known
        /\ read' = read /\ result' = result /\ TypeOK /\ Phases
    BY DEF ReadDeleter, IInv
  <1>2. /\ read # <<>> /\ read[1].del # Reader /\ Head(read) = read[1]
        /\ Remembered(read[1]) /\ read[1].del \in Tx \cup {0}
    BY <1>1, HeadFacts DEF Phases
  <1> DEFINE st == ReadTransactionLog(log, read[1].del)
  <1>3. /\ st \in Status /\ st # "NONE"
        /\ st = "ABORTED" => read[1].del = 0 \/ log[read[1].del] = "ABORTED"
        /\ st = "COMMITED" => read[1].del # 0 /\ log[read[1].del] = "COMMITED"
        /\ st # "COMMITED" /\ read[1].del # 0 => log[read[1].del] # "COMMITED"
    BY <1>1, <1>2 DEF ReadTransactionLog, Remembered, Rightful, TypeOK, Status, Outcome
  <1>4. seen' = [seen EXCEPT !.del = st]
    BY <1>1, <1>2
  <1> HIDE DEF st
  <1>5. /\ seen' \in [insActive : BOOLEAN, delActive : BOOLEAN, del : Status]
        /\ seen'.del = st
    BY <1>1, <1>3, <1>4 DEF TypeOK
  <1>6. Phases'
    BY <1>1 DEF Phases, shared
  <1>7. Judging'
    <2>1. log' = log /\ shown \subseteq shown'
      BY <1>1, QueryFrame DEF shared
    <2> QED BY <1>1, <1>2, <1>3, <1>5, <2>1 DEF Judging, StatusOf, Remembered
  <1> QED BY <1>1, <1>5, <1>6, <1>7, PhaseKeeps

(* The verdict: a version returned was visible at one of the instants, one *)
(* left out was hidden at one.                                             *)
LEMMA ReadInserterKeeps ==
  ASSUME IInv, ReadInserter, Record
  PROVE  IInv'
  <1> DEFINE r == read[1]
             ins == ReadTransactionLog(log, r.ins)
             verdict == Verdict(r.ins, r.del, Reader, seen.insActive, seen.delActive,
                                seen.del, ins)
  <1>1. /\ pc = "inserter" /\ TypeOK /\ Phases /\ Judging /\ read # <<>>
    BY DEF IInv, ReadInserter, Phases
  <1>2. /\ Head(read) = r /\ Remembered(r) /\ r.del # Reader /\ r \in Reading
        /\ r.id \in Id /\ r.ins \in Tx /\ r.del \in Tx \cup {0}
        /\ StatusOf(r)
    BY <1>1, HeadFacts DEF Phases, Judging
  <1>3. /\ pc' = "judge" /\ read' = Tail(read) /\ seen' = Nothing
        /\ result' = IF verdict THEN Append(result, r.id) ELSE result
        /\ UNCHANGED shared /\ leaf' = leaf /\ last' = last /\ known' = known
    BY <1>1, <1>2 DEF ReadInserter
  <1>4. seen' \in [insActive : BOOLEAN, delActive : BOOLEAN, del : Status]
    BY <1>3 DEF Nothing, Status, Outcome
  <1>5. /\ ins = log[r.ins] /\ ins \in {"IN_PROGRESS", "COMMITED", "ABORTED"}
        /\ row' = row /\ log' = log /\ r.id \in DOMAIN row /\ row[r.id].ins = r.ins
        /\ log[Reader] = "IN_PROGRESS"
        /\ seen.insActive \in BOOLEAN /\ seen.delActive \in BOOLEAN
        /\ row[r.id].del \in Tx \cup {0}
    <2>1. r.ins # 0 /\ log[r.ins] \in Status /\ log[r.ins] # "NONE"
      BY <1>1, <1>2, ScanAssumption DEF Remembered, Rightful, TypeOK
    <2>2. row' = row /\ log' = log
      BY <1>3 DEF shared
    <2>3. r.id \in DOMAIN row /\ row[r.id].ins = r.ins /\ row[r.id].del \in Tx \cup {0}
      BY <1>1, <1>2, RowTypes DEF Remembered
    <2> QED BY <1>1, <2>1, <2>2, <2>3 DEF ReadTransactionLog, Status, Outcome, Phases, TypeOK
  <1>6. /\ shown \subseteq shown' /\ hidden \subseteq hidden' /\ contested' = contested
        /\ VisibleNow \subseteq shown' /\ Id \ VisibleNow \subseteq hidden'
    BY <1>3, QueryFrame
  <1>7. ASSUME verdict
        PROVE  \A i \in Id : i = r.id => Kept(i)'
    <2>1. seen.del # "COMMITED" /\ (r.ins = Reader \/ log[r.ins] = "COMMITED")
      BY <1>2, <1>5, <1>7 DEF Verdict, StatusOf, Remembered, Rightful
    <2>2. row[r.id].ins = row[r.id].del \/ r.id \in shown'
      <3>1. CASE r.del = 0 /\ r.ins = Reader
        BY <1>2, <1>6, <3>1 DEF Remembered
      <3>2. CASE r.del = 0 /\ r.ins # Reader /\ row[r.id].del = 0
        <4>1. r.id \in VisibleNow
          BY <1>5, <2>1, <3>2 DEF VisibleNow, ReadCommitted
        <4> QED BY <1>6, <4>1
      <3>3. CASE row[r.id].del # r.del
        BY <1>2, <1>5, <1>6, <3>3 DEF Remembered
      <3>4. CASE r.del # 0 /\ row[r.id].del = r.del
        BY <1>2, <1>5, <1>6, <2>1, <3>4 DEF StatusOf
      <3> QED BY <3>1, <3>2, <3>3, <3>4
    <2>3. /\ r.id \in DOMAIN row'
          /\ row'[r.id].ins = Reader \/ log'[row'[r.id].ins] = "COMMITED"
          /\ row'[r.id].ins = row'[r.id].del \/ r.id \in shown'
      BY <1>5, <2>1, <2>2
    <2> HIDE DEF r
    <2>4. ASSUME NEW i \in Id, i = r.id
          PROVE  Kept(i)'
      BY <1>5, <2>3, <2>4 DEF Kept, Torn
    <2> QED BY <2>4
  <1>8. ASSUME ~verdict
        PROVE  r.id \in hidden' \cup contested'
    <2>1. CASE seen.del = "COMMITED" /\ row[r.id].del # r.del
      BY <1>2, <1>6, <2>1 DEF StatusOf, Remembered
    <2>2. CASE seen.del = "COMMITED" /\ row[r.id].del = r.del
      <3>1. r.id \notin VisibleNow
        BY <1>2, <2>2 DEF StatusOf, VisibleNow, ReadCommitted
      <3> QED BY <1>2, <1>6, <3>1
    <2>3. CASE seen.del # "COMMITED"
      <3>1. r.ins # Reader /\ log[r.ins] # "COMMITED"
        BY <1>2, <1>5, <1>8, <2>3 DEF Verdict, Remembered, Rightful
      <3>2. r.id \notin VisibleNow
        BY <1>5, <3>1 DEF VisibleNow, ReadCommitted
      <3> QED BY <1>2, <1>6, <3>2
    <2> QED BY <2>1, <2>2, <2>3
  <1> HIDE DEF verdict
  <1>9. PICK e \in Id : e = r.id
    BY <1>2
  <1>10. /\ UNCHANGED <<shared, leaf, last, known>>
         /\ \/ result' = result /\ e \in hidden' \cup contested'
            \/ result' = Append(result, e) /\ Kept(e)'
    BY <1>3, <1>7, <1>8, <1>9
  <1> QED BY <1>1, <1>3, <1>4, <1>9, <1>10, HeadJudged

(* The query returns, and the next statement forgets its result.           *)
LEMMA DoneKeeps ==
  ASSUME IInv, Done, Record
  PROVE  IInv'
  <1>1. /\ pc = "judge" /\ pc' = "done" /\ read = <<>>
        /\ UNCHANGED shared /\ UNCHANGED <<leaf, last, known, read, result>> /\ seen' = seen
        /\ TypeOK /\ Phases
    BY DEF Done, IInv
  <1>2. Phases' /\ Judging'
    BY <1>1 DEF Phases, Judging, shared
  <1> QED BY <1>1, <1>2, PhaseKeeps DEF TypeOK

LEMMA NextStatementKeeps ==
  ASSUME IInv, NextStatement, Record
  PROVE  IInv'
  <1>1. /\ pc = "done" /\ pc' = "idle" /\ result' = <<>> /\ last' = 0 /\ known' = 0
        /\ leaf' = leaf /\ read' = read /\ seen' = seen /\ leaf = <<>> /\ read = <<>>
        /\ row' = row /\ log' = log /\ active' = active /\ TypeOK /\ Marks
    BY DEF NextStatement, IInv, Phases, shared
  <1>2. TypeOK'
    <2>1. shown' \subseteq Id /\ hidden' \subseteq Id /\ contested' \subseteq Id
      BY <1>1, RowTypes, RecordTypes
    <2>2. 0 \in 0..Len(row)
      BY <1>1, RowTypes
    <2> QED BY <1>1, <2>1, <2>2 DEF TypeOK
  <1>3. Marks'
    BY <1>1 DEF Marks, Rightful
  <1>4. Phases' /\ Memory' /\ Judging' /\ Returned' /\ Frontier' /\ Coverage' /\ Sorted'
    BY <1>1 DEF Phases, Memory, Judging, Returned, Frontier, Coverage, Sorted, Ascending
  <1> QED BY <1>2, <1>3, <1>4 DEF IInv

-----------------------------------------------------------------------------
(* The theorems. *)

(* Nothing happens.                                                        *)
LEMMA StutterKeeps ==
  ASSUME IInv, UNCHANGED vars
  PROVE  IInv'
  <1>1. /\ log' = log /\ active' = active /\ row' = row /\ pc' = pc /\ leaf' = leaf
        /\ last' = last /\ known' = known /\ read' = read /\ seen' = seen /\ result' = result
        /\ shown' = shown /\ hidden' = hidden /\ contested' = contested
    BY DEF vars, shared, query, history
  <1>2. TypeOK'
    BY <1>1 DEF IInv, TypeOK
  <1>3. Marks' /\ Memory' /\ Judging' /\ Returned'
    BY <1>1 DEF IInv, Marks, Memory, Judging, Returned, Rightful, Remembered, StatusOf, Kept, Torn
  <1>4. Phases' /\ Sorted' /\ Frontier' /\ Coverage'
    BY <1>1 DEF IInv, Phases, Sorted, Frontier, Coverage, Ascending, Before, UpTo, OnItsWay, Behind
  <1> QED BY <1>2, <1>3, <1>4 DEF IInv

(* Every step keeps the invariant.                                         *)
LEMMA NextKeeps ==
  ASSUME IInv, [Next]_vars
  PROVE  IInv'
  <1>1. CASE Transactions /\ Record
    <2>1. Grows /\ SharedTypes'
      BY <1>1, StatusGrows, InsertGrows, MarkGrows DEF Transactions, StatusStep
    <2> QED BY <1>1, <2>1, GrowsKeeps
  <1>2. CASE Query /\ Record
    BY <1>2, StartKeeps, CopyLeafKeeps, ReadRowKeeps, EndWalkKeeps, ReadActiveKeeps,
       ReadDeleterKeeps, ReadInserterKeeps, DoneKeeps, NextStatementKeeps DEF Query
  <1>3. CASE UNCHANGED vars
    BY <1>3, StutterKeeps
  <1> QED BY <1>1, <1>2, <1>3 DEF Next

(* The invariant holds in every state of the specification.               *)
THEOREM Invariance == Spec => []IInv
  <1>1. Init => IInv
    BY InitInv
  <1>2. IInv /\ [Next]_vars => IInv'
    BY NextKeeps
  <1> QED BY <1>1, <1>2, PTL DEF Spec

(* The variables of RangeQuery and of the engine keep their types.         *)
THEOREM ScanTypes == Spec => []TypeOK
  BY Invariance, PTL DEF IInv

(* A query never returns a version whose inserter has not committed, but   *)
(* its own: RangeQuery and IsVisible, however their reads are spread.      *)
THEOREM NothingDirty == Spec => []NoDirtyRow
  <1>1. IInv => NoDirtyRow
    BY DEF IInv, Returned, Kept, NoDirtyRow, Range
  <1> QED BY <1>1, Invariance, PTL

(* What a query returns was visible to its transaction at some instant     *)
(* while it ran.                                                           *)
THEOREM ReturnedVisible == Spec => []ReturnedWasVisible
  <1>1. IInv => ReturnedWasVisible
    BY DEF IInv, Returned, Kept, ReturnedWasVisible, Range
  <1> QED BY <1>1, Invariance, PTL

(* What a finished query leaves out was hidden at some instant, or marked  *)
(* by two transactions.                                                    *)
THEOREM MissedHidden == Spec => []MissedWasHidden
  <1>1. IInv => MissedWasHidden
    BY DEF IInv, Coverage, OnItsWay, Phases, MissedWasHidden, Range
  <1> QED BY <1>1, Invariance, PTL

(* Sequences in ascending order, one before the other, make one in order.  *)
LEMMA Joined ==
  ASSUME NEW s \in Seq(Id), NEW t \in Seq(Id), Ascending(s), Ascending(t),
         \A m \in DOMAIN s, n \in DOMAIN t : Before(s[m], t[n])
  PROVE  s \o t \in Seq(Id) /\ Ascending(s \o t)
  <1>1. /\ s \o t \in Seq(Id) /\ DOMAIN (s \o t) = 1..(Len(s) + Len(t))
        /\ DOMAIN s = 1..Len(s) /\ DOMAIN t = 1..Len(t)
        /\ Len(s) \in Nat /\ Len(t) \in Nat
        /\ \A n \in 1..(Len(s) + Len(t)) :
             (s \o t)[n] = IF n <= Len(s) THEN s[n] ELSE t[n - Len(s)]
    OBVIOUS
  <1>2. ASSUME NEW m \in DOMAIN (s \o t), NEW n \in DOMAIN (s \o t), m < n
        PROVE  Before((s \o t)[m], (s \o t)[n])
    <2>1. CASE n <= Len(s)
      <3>1. m \in DOMAIN s /\ n \in DOMAIN s /\ (s \o t)[m] = s[m] /\ (s \o t)[n] = s[n]
        BY <1>1, <1>2, <2>1
      <3> QED BY <1>2, <3>1 DEF Ascending
    <2>2. CASE m <= Len(s) /\ n > Len(s)
      <3>1. /\ m \in DOMAIN s /\ n - Len(s) \in DOMAIN t
            /\ (s \o t)[m] = s[m] /\ (s \o t)[n] = t[n - Len(s)]
        BY <1>1, <1>2, <2>2
      <3> QED BY <3>1
    <2>3. CASE m > Len(s)
      <3>1. /\ m - Len(s) \in DOMAIN t /\ n - Len(s) \in DOMAIN t /\ m - Len(s) < n - Len(s)
            /\ (s \o t)[m] = t[m - Len(s)] /\ (s \o t)[n] = t[n - Len(s)]
        BY <1>1, <1>2, <2>3
      <3> QED BY <3>1 DEF Ascending
    <2> QED BY <1>1, <2>1, <2>2, <2>3
  <1> QED BY <1>1, <1>2 DEF Ascending

(* The walk meets entries at most once and in the order of the chain.      *)
THEOREM WalkInOrder == Spec => []InOrder
  <1>1. ASSUME IInv
        PROVE  InOrder
    <2> DEFINE ids == [n \in DOMAIN read |-> read[n].id]
    <2>1. TypeOK /\ Sorted /\ Phases
      BY <1>1 DEF IInv
    <2>2. ids \in Seq(Id) /\ DOMAIN ids = DOMAIN read /\ \A n \in DOMAIN read : ids[n] = read[n].id
      BY <2>1, ReadTypes
    <2>3. result \in Seq(Id) /\ leaf \in Seq(Id) /\ (result = <<>> \/ leaf = <<>>)
      BY <2>1 DEF TypeOK, Phases
    <2> HIDE DEF ids
    <2>4. Ascending(result) /\ Ascending(leaf) /\ Ascending(ids)
      BY <2>1, <2>2 DEF Sorted, Ascending
    <2>5. result \o ids \in Seq(Id) /\ Ascending(result \o ids)
      BY <2>1, <2>2, <2>3, <2>4, Joined DEF Sorted
    <2>6. \A m \in DOMAIN (result \o ids), n \in DOMAIN leaf : Before((result \o ids)[m], leaf[n])
      <3>1. CASE leaf = <<>>
        BY <3>1
      <3>2. CASE result = <<>>
        <4>1. result \o ids = ids
          BY <2>2, <3>2
        <4> QED BY <2>1, <2>2, <4>1 DEF Sorted
      <3> QED BY <2>3, <3>1, <3>2
    <2>7. Ascending((result \o ids) \o leaf)
      BY <2>3, <2>4, <2>5, <2>6, Joined
    <2> QED BY <2>7 DEF InOrder, ids
  <1> QED BY <1>1, Invariance, PTL
=============================================================================
