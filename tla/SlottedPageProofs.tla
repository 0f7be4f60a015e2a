------------------------- MODULE SlottedPageProofs -------------------------
(***************************************************************************)
(* Proofs about SlottedPage, for any page size, any rows that are short    *)
(* enough and crashes at any step, as long as there is one connection.     *)
(***************************************************************************)
EXTENDS SlottedPage, TLAPS

(* One connection, and rows no longer than the headers of a page with two  *)
(* blocks: such a row never wraps around the offset.                       *)
OneConnection ==
  /\ \A t, u \in Thread : t = u
  /\ \A l \in RowLen : l <= HeaderSize + 2 * BlockHeaderSize

-----------------------------------------------------------------------------
(* The inductive invariant, in named parts. *)

(* Every page holds a block, and an entry of the page file is exact, unless *)
(* the page has got another block since.                                   *)
Filled == \A n \in DOMAIN data : Len(data[n].slots) >= 1
Maps ==
  /\ Len(pageMap) <= Len(data) /\ Len(data) <= Len(pageMap) + 1
  /\ \A n \in DOMAIN pageMap :
       pageMap[n] = Room(data[n]) \/ Len(data[n].slots) >= 2

(* The index names pages the page file knows, and blocks with their rows.  *)
Holds(p) ==
  /\ p.page \in DOMAIN pageMap /\ p.page \in DOMAIN data
  /\ p.block \in DOMAIN data[p.page].slots
  /\ data[p.page].slots[p.block].row = p.row
  /\ p.row \in deleted => data[p.page].slots[p.block].marked
Indexed ==
  /\ \A p \in index : Holds(p) /\ p.row < nextRow
  /\ \A p, q \in index : p.row = q.row => p = q
  /\ \A r \in deleted : \E p \in index : p.row = r

(* A row under way is in nobody's index, and fits where it is to go.       *)
Fresh(t) ==
  /\ row[t] \in 1..MaxRow /\ row[t] < nextRow /\ len[t] \in RowLen
  /\ \A p \in index : p.row # row[t]

(* The copy of a page holds the page's blocks, and the new one.            *)
Extends(page, t) ==
  /\ Len(buffer[t].slots) = Len(page.slots) + 1
  /\ \A i \in DOMAIN page.slots : buffer[t].slots[i] = page.slots[i]
NewBlock(t) ==
  /\ WellFormed(buffer[t]) /\ blockNumber[t] = Len(buffer[t].slots)
  /\ Len(buffer[t].slots) >= 1 /\ buffer[t].slots[blockNumber[t]].row = row[t]

Marking(t) ==
  \E p \in index : row[t] = p.row /\ pageNumber[t] = p.page /\ blockNumber[t] = p.block

(* What each program counter says of the rest of the stack.                *)
Target(t) == IF newPage[t] THEN pageNumber[t] = Len(pageMap) + 1
                           ELSE pageNumber[t] \in DOMAIN pageMap
Stack(t) ==
  /\ pc[t] \in {"find", "read", "write", "map", "index", "drop"} => Fresh(t)
  /\ pc[t] = "find" => pageNumber[t] \in 1..(Len(pageMap) + 1) /\ newPage[t]
  /\ pc[t] \in {"read", "write"} => Target(t)
  /\ pc[t] = "read" /\ ~newPage[t] => len[t] <= data[pageNumber[t]].end
  /\ pc[t] = "write" => NewBlock(t) /\ (~newPage[t] => Extends(data[pageNumber[t]], t))
  /\ pc[t] = "map" => /\ NewBlock(t) /\ pageNumber[t] \in DOMAIN data
                      /\ pageNumber[t] <= Len(pageMap) + 1
                      /\ data[pageNumber[t]] = buffer[t]
  /\ pc[t] = "index" => /\ pageNumber[t] \in DOMAIN pageMap
                        /\ blockNumber[t] \in DOMAIN data[pageNumber[t]].slots
                        /\ data[pageNumber[t]].slots[blockNumber[t]].row = row[t]
  /\ pc[t] \in {"readMark", "writeMark"} => Marking(t)
  /\ pc[t] = "writeMark" => buffer[t] = SetMark(data[pageNumber[t]], blockNumber[t])

IInv ==
  /\ TypeOK
  /\ PagesWellFormed /\ Filled /\ Maps /\ Indexed
  /\ \A t \in Thread : Stack(t)

-----------------------------------------------------------------------------
(* Sequences, pages and files. *)

(* The width of an offset is kept folded: these facts are all that is used. *)
LEMMA Offsets ==
  /\ U16 \in Nat /\ U16 - 1 \in Nat
  /\ \A n : n \in 0..(U16 - 1) <=> n \in Nat /\ n < U16
  <1>1. U16 \in Nat /\ U16 >= 1
    BY SMT DEF U16
  <1>2. U16 - 1 \in Nat
    BY <1>1
  <1>3. ASSUME NEW n PROVE n \in 0..(U16 - 1) <=> n \in Nat /\ n < U16
    BY <1>1
  <1> QED BY <1>1, <1>2, <1>3

(* A difference of 16-bit offsets that is not negative does not wrap.      *)
LEMMA NoWrap ==
  ASSUME NEW e \in Nat, e < U16, NEW l \in Nat, l <= e
  PROVE  (e + U16 - l) % U16 = e - l
  BY SMT DEF U16

(* A sequence is a function on 1..Len.                                     *)
LEMMA ElementFacts ==
  ASSUME NEW S, NEW s \in Seq(S)
  PROVE  /\ Len(s) \in Nat /\ DOMAIN s = 1..Len(s)
         /\ \A n \in DOMAIN s : s[n] \in S
  OBVIOUS

(* What Append returns.                                                    *)
LEMMA AppendFacts ==
  ASSUME NEW S, NEW s \in Seq(S), NEW e \in S
  PROVE  /\ Append(s, e) \in Seq(S) /\ Len(Append(s, e)) = Len(s) + 1
         /\ DOMAIN Append(s, e) = 1..(Len(s) + 1)
         /\ \A n \in 1..Len(s) : Append(s, e)[n] = s[n]
         /\ Append(s, e)[Len(s) + 1] = e
  OBVIOUS

(* A write to a file changes one page or entry, and adds one at most.      *)
LEMMA PutFacts ==
  ASSUME NEW S, NEW file \in Seq(S), NEW n \in 1..(Len(file) + 1), NEW v \in S
  PROVE  /\ Put(file, n, v) \in Seq(S)
         /\ Len(Put(file, n, v)) = IF n <= Len(file) THEN Len(file) ELSE Len(file) + 1
         /\ n \in DOMAIN Put(file, n, v) /\ Put(file, n, v)[n] = v
         /\ \A i \in DOMAIN file :
              i \in DOMAIN Put(file, n, v) /\ (i # n => Put(file, n, v)[i] = file[i])
         /\ \A i \in DOMAIN Put(file, n, v) : i = n \/ i \in DOMAIN file
  <1>1. Len(file) \in Nat /\ DOMAIN file = 1..Len(file)
    BY ElementFacts
  <1>2. CASE n \in DOMAIN file
    <2>1. Put(file, n, v) = [file EXCEPT ![n] = v]
      BY <1>2 DEF Put
    <2> QED BY <1>1, <1>2, <2>1
  <1>3. CASE n \notin DOMAIN file
    <2>0. n = Len(file) + 1
      <3>1. n \notin 1..Len(file)
        BY <1>1, <1>3
      <3>2. n \in 1..(Len(file) + 1)
        OBVIOUS
      <3>3. Len(file) \in Nat
        BY <1>1
      <3> QED BY ONLY <3>1, <3>2, <3>3
    <2>1. Put(file, n, v) = Append(file, v)
      BY <1>3 DEF Put
    <2>2. /\ Append(file, v) \in Seq(S) /\ Len(Append(file, v)) = Len(file) + 1
          /\ DOMAIN Append(file, v) = 1..(Len(file) + 1)
          /\ \A i \in 1..Len(file) : Append(file, v)[i] = file[i]
          /\ Append(file, v)[Len(file) + 1] = v
      BY AppendFacts
    <2> QED BY <1>1, <2>0, <2>1, <2>2
  <1> QED BY <1>2, <1>3

(* The fields of a page and of a block.                                    *)
LEMMA PageFields ==
  ASSUME NEW page \in Page
  PROVE  /\ page.slots \in Seq(Slot) /\ page.end \in Nat /\ page.end < U16
         /\ Len(page.slots) \in Nat /\ DOMAIN page.slots = 1..Len(page.slots)
         /\ \A i \in DOMAIN page.slots : page.slots[i] \in Slot
  <1>1. page.slots \in Seq(Slot) /\ page.end \in 0..(U16 - 1)
    BY DEF Page
  <1> QED BY <1>1, ElementFacts, Offsets

LEMMA SlotFields ==
  ASSUME NEW s \in Slot
  PROVE  /\ s.row \in 1..MaxRow /\ s.len \in RowLen /\ s.len \in Nat /\ s.len > 0
         /\ s.off \in Nat /\ s.off < U16 /\ s.marked \in BOOLEAN
  <1>1. /\ s.row \in 1..MaxRow /\ s.len \in RowLen /\ s.off \in 0..(U16 - 1)
        /\ s.marked \in BOOLEAN
    BY DEF Slot
  <1>2. s.len \in 2..PageSize /\ PageSize \in Nat
    BY <1>1, SlottedPageAssumption
  <1> QED BY <1>1, <1>2, Offsets

(* Adding a row that is not longer than what is left keeps a page well     *)
(* formed, and leaves the other values where they are.                     *)
LEMMA AddKeeps ==
  ASSUME NEW page \in Page, WellFormed(page), NEW l \in RowLen, NEW r \in 1..MaxRow,
         l <= page.end, Fits(page, l)
  PROVE  /\ Add(page, r, l) \in Page /\ WellFormed(Add(page, r, l))
         /\ Len(Add(page, r, l).slots) = Len(page.slots) + 1
         /\ \A i \in DOMAIN page.slots : Add(page, r, l).slots[i] = page.slots[i]
         /\ Add(page, r, l).slots[Len(page.slots) + 1].row = r
  <1>1. /\ l \in Nat /\ l > 0 /\ page.end \in Nat /\ page.end < U16
        /\ page.slots \in Seq(Slot) /\ DOMAIN page.slots = 1..Len(page.slots)
        /\ Len(page.slots) \in Nat /\ PageSize \in Nat /\ page.end <= PageSize
    <2>1. l \in 2..PageSize /\ PageSize \in Nat
      BY SlottedPageAssumption
    <2> QED BY <2>1, PageFields DEF WellFormed
  <1>2. NewEnd(page, l) = page.end - l
    BY <1>1, NoWrap DEF NewEnd
  <1> DEFINE e == page.end - l
             new == [row |-> r, len |-> l, off |-> e, marked |-> FALSE]
             slots == Append(page.slots, new)
  <1>3. e \in Nat /\ e < U16 /\ e + l = page.end /\ e > Beg(page) + BlockHeaderSize
    <2>1. Beg(page) \in Nat /\ BlockHeaderSize \in Nat
      BY <1>1 DEF Beg, BlockHeaderSize, HeaderSize
    <2>2. NewEnd(page, l) > Beg(page) + BlockHeaderSize
      BY DEF Fits
    <2> QED BY <1>1, <1>2, <2>1, <2>2, Offsets
  <1>4. Add(page, r, l) = [slots |-> slots, end |-> e]
    BY <1>2 DEF Add
  <1>5. new \in Slot /\ new.row = r /\ new.len = l /\ new.off = e
    <2> HIDE DEF e
    <2>1. e \in 0..(U16 - 1)
      BY <1>3, Offsets
    <2> QED BY <2>1 DEF Slot
  <1> HIDE DEF new, e
  <1>6. /\ slots \in Seq(Slot) /\ Len(slots) = Len(page.slots) + 1
        /\ DOMAIN slots = 1..(Len(page.slots) + 1)
        /\ \A i \in 1..Len(page.slots) : slots[i] = page.slots[i]
        /\ slots[Len(page.slots) + 1] = new
    BY <1>1, <1>5, AppendFacts
  <1> HIDE DEF slots
  <1>7. Add(page, r, l).slots = slots /\ Add(page, r, l).end = e
    BY <1>4
  <1>8. Add(page, r, l) \in Page
    <2>1. e \in 0..(U16 - 1)
      BY <1>3, Offsets
    <2> QED BY <1>4, <1>6, <2>1 DEF Page
  <1>9. WellFormed(Add(page, r, l))
    <2>1. Beg(Add(page, r, l)) = Beg(page) + BlockHeaderSize
      <3>1. Len(Add(page, r, l).slots) = Len(page.slots) + 1
        BY <1>6, <1>7
      <3> QED BY <1>1, <3>1 DEF Beg, BlockHeaderSize, HeaderSize
    <2>2. Beg(page) \in Nat
      BY <1>1 DEF Beg, BlockHeaderSize, HeaderSize
    <2>3. Beg(Add(page, r, l)) <= e /\ e <= PageSize
      BY <1>1, <1>3, <2>1, <2>2 DEF BlockHeaderSize
    <2>4. \A i \in DOMAIN page.slots :
            /\ page.slots[i].off \in Nat /\ page.slots[i].len \in Nat
            /\ page.slots[i].off >= page.end
            /\ page.slots[i].off + page.slots[i].len <= PageSize
      BY PageFields, SlotFields DEF WellFormed
    <2>5. ASSUME NEW i \in DOMAIN slots
          PROVE  slots[i].off >= e /\ slots[i].off + slots[i].len <= PageSize
      <3>1. CASE i \in DOMAIN page.slots
        BY <1>1, <1>3, <1>6, <2>4, <3>1
      <3>2. CASE i = Len(page.slots) + 1
        BY <1>1, <1>3, <1>5, <1>6, <3>2
      <3> QED BY <1>1, <1>6, <3>1, <3>2
    <2>6. ASSUME NEW i \in DOMAIN slots, NEW j \in DOMAIN slots, i < j
          PROVE  slots[j].off + slots[j].len <= slots[i].off
      <3>1. i \in DOMAIN page.slots /\ slots[i] = page.slots[i]
        BY <1>1, <1>6, <2>6
      <3>2. CASE j \in DOMAIN page.slots
        BY <1>1, <1>6, <2>6, <3>1, <3>2 DEF WellFormed
      <3>3. CASE j = Len(page.slots) + 1
        BY <1>1, <1>3, <1>5, <1>6, <2>4, <3>1, <3>3
      <3> QED BY <1>1, <1>6, <3>2, <3>3
    <2> QED BY <1>7, <2>3, <2>5, <2>6 DEF WellFormed
  <1> QED BY <1>1, <1>5, <1>6, <1>7, <1>8, <1>9

(* A row that seems to fit is not longer than what is left below the       *)
(* values, also where the page file is behind by a row.                    *)
LEMMA RoomyFits ==
  ASSUME OneConnection, NEW page \in Page, WellFormed(page), NEW l \in RowLen,
         NEW available \in Nat, LooksRoomy(available, l),
         available = Room(page) \/ Len(page.slots) >= 2
  PROVE  l <= page.end
  <1>1. l \in Nat /\ l <= HeaderSize + 2 * BlockHeaderSize
    <2>1. l \in 2..PageSize /\ PageSize \in Nat
      BY SlottedPageAssumption
    <2> QED BY <2>1 DEF OneConnection
  <1>2. Len(page.slots) \in Nat /\ page.end \in Nat /\ Beg(page) <= page.end
    BY PageFields DEF WellFormed
  <1>3. /\ Beg(page) \in Nat
        /\ Len(page.slots) >= 2 => Beg(page) >= HeaderSize + 2 * BlockHeaderSize
    BY <1>2 DEF Beg, HeaderSize, BlockHeaderSize
  <1>4. CASE available = Room(page)
    <2>1. available > l + SearchSlack
      BY DEF LooksRoomy
    <2>2. available = page.end - Beg(page)
      BY <1>4 DEF Room
    <2> QED BY <1>1, <1>2, <1>3, <2>1, <2>2 DEF SearchSlack
  <1>5. CASE Len(page.slots) >= 2
    BY <1>1, <1>2, <1>3, <1>5 DEF HeaderSize, BlockHeaderSize
  <1> QED BY <1>4, <1>5

(* A mark changes nothing but itself.                                      *)
LEMMA SetMarkKeeps ==
  ASSUME NEW page \in Page, NEW b \in DOMAIN page.slots
  PROVE  /\ SetMark(page, b) \in Page /\ Room(SetMark(page, b)) = Room(page)
         /\ SetMark(page, b).end = page.end
         /\ Len(SetMark(page, b).slots) = Len(page.slots)
         /\ DOMAIN SetMark(page, b).slots = DOMAIN page.slots
         /\ SetMark(page, b).slots[b].marked
         /\ \A i \in DOMAIN page.slots :
              /\ SetMark(page, b).slots[i].row = page.slots[i].row
              /\ page.slots[i].marked => SetMark(page, b).slots[i].marked
         /\ WellFormed(page) => WellFormed(SetMark(page, b))
  <1>1. /\ page.slots \in Seq(Slot) /\ page.slots[b] \in Slot
        /\ Len(page.slots) \in Nat /\ DOMAIN page.slots = 1..Len(page.slots)
    BY PageFields
  <1> DEFINE new == [page.slots[b] EXCEPT !.marked = TRUE]
             slots == [page.slots EXCEPT ![b] = new]
  <1>2. /\ new \in Slot /\ new.row = page.slots[b].row /\ new.len = page.slots[b].len
        /\ new.off = page.slots[b].off /\ new.marked = TRUE
    BY <1>1 DEF Slot
  <1>3. SetMark(page, b) = [page EXCEPT !.slots = slots]
    BY DEF SetMark, Page
  <1> HIDE DEF new
  <1>4. /\ slots \in Seq(Slot) /\ Len(slots) = Len(page.slots)
        /\ DOMAIN slots = DOMAIN page.slots /\ slots[b] = new
        /\ \A i \in DOMAIN page.slots : i # b => slots[i] = page.slots[i]
    BY <1>1, <1>2
  <1> HIDE DEF slots
  <1>5. /\ SetMark(page, b) \in Page /\ SetMark(page, b).slots = slots
        /\ SetMark(page, b).end = page.end
    BY <1>3, <1>4 DEF Page
  <1>6. \A i \in DOMAIN page.slots :
          /\ slots[i].row = page.slots[i].row /\ slots[i].len = page.slots[i].len
          /\ slots[i].off = page.slots[i].off
          /\ page.slots[i].marked => slots[i].marked
    BY <1>2, <1>4
  <1>7. Beg(SetMark(page, b)) = Beg(page)
    BY <1>4, <1>5 DEF Beg
  <1>8. WellFormed(page) => WellFormed(SetMark(page, b))
    BY <1>4, <1>5, <1>6, <1>7 DEF WellFormed
  <1> QED BY <1>2, <1>4, <1>5, <1>6, <1>7, <1>8 DEF Room

(* A new page.                                                             *)
LEMMA EmptyPageFacts ==
  /\ EmptyPage \in Page /\ WellFormed(EmptyPage) /\ Len(EmptyPage.slots) = 0
  /\ EmptyPage.end = PageSize
  <1>1. EmptyPage.slots = <<>> /\ EmptyPage.end = PageSize
    BY DEF EmptyPage
  <1>2. PageSize \in 0..(U16 - 1)
    BY SlottedPageAssumption, Offsets
  <1>3. EmptyPage \in Page
    BY <1>2 DEF EmptyPage, Page
  <1>4. Beg(EmptyPage) <= PageSize
    BY <1>1, SlottedPageAssumption DEF Beg, HeaderSize, BlockHeaderSize
  <1> QED BY <1>1, <1>3, <1>4, SlottedPageAssumption DEF WellFormed

-----------------------------------------------------------------------------
(* What an action need not prove anew. *)

Disk == PagesWellFormed /\ Filled /\ Maps /\ Indexed

(* The types, for one thread and for one page.                             *)
LEMMA TypeFacts ==
  ASSUME TypeOK, NEW t \in Thread
  PROVE  /\ pc[t] \in Pc /\ row[t] \in 0..MaxRow /\ len[t] \in RowLen \cup {0}
         /\ pageNumber[t] \in Nat /\ blockNumber[t] \in Nat
         /\ newPage[t] \in BOOLEAN /\ buffer[t] \in Page
         /\ nextRow \in Nat /\ nextRow >= 1 /\ nextRow <= MaxRow + 1
         /\ MaxRow \in Nat
  BY SlottedPageAssumption DEF TypeOK

LEMMA FileFacts ==
  ASSUME TypeOK
  PROVE  /\ Len(data) \in Nat /\ DOMAIN data = 1..Len(data)
         /\ \A n \in DOMAIN data : data[n] \in Page
         /\ Len(pageMap) \in Nat /\ DOMAIN pageMap = 1..Len(pageMap)
         /\ \A n \in DOMAIN pageMap : pageMap[n] \in Nat
  <1>1. data \in Seq(Page) /\ pageMap \in Seq(0..(U16 - 1))
    BY DEF TypeOK
  <1> QED BY <1>1, ElementFacts, Offsets

(* The stack of the one thread is every stack.                             *)
LEMMA OneStack ==
  ASSUME OneConnection, NEW t \in Thread, Stack(t)'
  PROVE  \A u \in Thread : Stack(u)'
  BY DEF OneConnection

(* The files and the index are left alone.                                 *)
LEMMA DiskKept ==
  ASSUME TypeOK, Disk, UNCHANGED <<data, pageMap, index, deleted>>,
         nextRow' \in Nat, nextRow' >= nextRow
  PROVE  Disk'
  <1>1. PagesWellFormed' /\ Filled' /\ Maps'
    BY DEF Disk, PagesWellFormed, Filled, Maps
  <1>2. Indexed'
    <2>1. ASSUME NEW p \in index PROVE Holds(p)' /\ p.row < nextRow'
      <3>1. Holds(p) /\ p.row < nextRow
        BY DEF Disk, Indexed
      <3>2. Holds(p)'
        BY <3>1 DEF Holds
      <3>3. p.row \in Nat /\ nextRow \in Nat
        BY SlottedPageAssumption DEF TypeOK, Place
      <3> QED BY <3>1, <3>2, <3>3
    <2> QED BY <2>1 DEF Disk, Indexed
  <1> QED BY <1>1, <1>2 DEF Disk

-----------------------------------------------------------------------------
(* The steps. *)

LEMMA StartInsertKeeps ==
  ASSUME OneConnection, IInv, NEW t \in Thread, StartInsert(t)
  PROVE  IInv'
  <1>1. TypeOK /\ Disk /\ Stack(t)
    BY DEF IInv, Disk
  <1>2. /\ nextRow <= MaxRow /\ nextRow' = nextRow + 1
        /\ row' = [row EXCEPT ![t] = nextRow] /\ pc' = [pc EXCEPT ![t] = "find"]
        /\ pageNumber' = [pageNumber EXCEPT ![t] = 1]
        /\ newPage' = [newPage EXCEPT ![t] = TRUE]
        /\ UNCHANGED <<data, pageMap, index, unplaced, blockNumber, buffer, deleted>>
    BY DEF StartInsert, Go, disk
  <1>3. PICK l \in RowLen : len' = [len EXCEPT ![t] = l]
    BY DEF StartInsert
  <1>4. /\ nextRow \in Nat /\ nextRow >= 1 /\ nextRow <= MaxRow /\ MaxRow \in Nat
        /\ Len(pageMap) \in Nat
    BY <1>1, <1>2, TypeFacts, FileFacts
  <1>5. TypeOK'
    BY <1>1, <1>2, <1>3, <1>4 DEF TypeOK, Pc
  <1>6. Disk'
    BY <1>1, <1>2, <1>4, DiskKept
  <1>7. /\ row'[t] = nextRow /\ pc'[t] = "find" /\ pageNumber'[t] = 1
        /\ newPage'[t] = TRUE /\ len'[t] = l
    BY <1>1, <1>2, <1>3 DEF TypeOK
  <1>8. Fresh(t)'
    BY <1>1, <1>2, <1>4, <1>7 DEF Fresh, Disk, Indexed
  <1>9. Stack(t)'
    BY <1>2, <1>4, <1>7, <1>8 DEF Stack
  <1> QED BY <1>5, <1>6, <1>9, OneStack DEF IInv, Disk

LEMMA FindPageKeeps ==
  ASSUME OneConnection, IInv, NEW t \in Thread, FindPage(t)
  PROVE  IInv'
  <1>1. TypeOK /\ Disk /\ Stack(t)
    BY DEF IInv, Disk
  <1>2. /\ pc[t] = "find" /\ UNCHANGED <<data, pageMap, index, unplaced, row, len>>
        /\ UNCHANGED <<blockNumber, buffer, nextRow, deleted>>
    BY DEF FindPage, disk
  <1>3. /\ Fresh(t) /\ newPage[t] /\ pageNumber[t] \in 1..(Len(pageMap) + 1)
        /\ Len(pageMap) \in Nat /\ DOMAIN pageMap = 1..Len(pageMap)
    BY <1>1, <1>2, FileFacts DEF Stack
  <1>4. Disk'
    BY <1>1, <1>2, TypeFacts, DiskKept
  <1>5. Fresh(t)'
    BY <1>2, <1>3 DEF Fresh
  <1>6. CASE pageNumber[t] \notin DOMAIN pageMap
    <2>1. pc' = [pc EXCEPT ![t] = "read"] /\ UNCHANGED <<pageNumber, newPage>>
      BY <1>6 DEF FindPage, Go
    <2>2. TypeOK' /\ pc'[t] = "read"
      BY <1>1, <1>2, <2>1 DEF TypeOK, Pc
    <2>3. Target(t)'
      BY <1>2, <1>3, <1>6, <2>1 DEF Target
    <2>4. Stack(t)'
      BY <1>3, <1>5, <2>1, <2>2, <2>3 DEF Stack
    <2> QED BY <1>4, <2>2, <2>4, OneStack DEF IInv, Disk
  <1>7. CASE pageNumber[t] \in DOMAIN pageMap /\ LooksRoomy(pageMap[pageNumber[t]], len[t])
    <2>1. /\ pc' = [pc EXCEPT ![t] = "read"] /\ newPage' = [newPage EXCEPT ![t] = FALSE]
          /\ UNCHANGED pageNumber
      BY <1>7 DEF FindPage, Go
    <2>2. TypeOK' /\ pc'[t] = "read" /\ newPage'[t] = FALSE
      BY <1>1, <1>2, <2>1 DEF TypeOK, Pc
    <2>3. Target(t)'
      BY <1>2, <1>7, <2>1, <2>2 DEF Target
    <2>4. len[t] <= data[pageNumber[t]].end
      <3>1. /\ pageNumber[t] \in DOMAIN data /\ data[pageNumber[t]] \in Page
            /\ WellFormed(data[pageNumber[t]])
        BY <1>1, <1>3, <1>7, FileFacts DEF Disk, Maps, PagesWellFormed
      <3>2. len[t] \in RowLen /\ pageMap[pageNumber[t]] \in Nat
        BY <1>1, <1>3, <1>7, FileFacts DEF Fresh
      <3>3. \/ pageMap[pageNumber[t]] = Room(data[pageNumber[t]])
            \/ Len(data[pageNumber[t]].slots) >= 2
        BY <1>1, <1>7 DEF Disk, Maps
      <3> QED BY <1>7, <3>1, <3>2, <3>3, RoomyFits
    <2>5. Stack(t)'
      BY <1>2, <1>5, <2>1, <2>2, <2>3, <2>4 DEF Stack
    <2> QED BY <1>4, <2>2, <2>5, OneStack DEF IInv, Disk
  <1>8. CASE pageNumber[t] \in DOMAIN pageMap /\ ~LooksRoomy(pageMap[pageNumber[t]], len[t])
    <2>1. pageNumber' = [pageNumber EXCEPT ![t] = pageNumber[t] + 1] /\ UNCHANGED <<pc, newPage>>
      BY <1>8 DEF FindPage
    <2>2. TypeOK' /\ pageNumber'[t] = pageNumber[t] + 1
      BY <1>1, <1>2, <2>1, TypeFacts DEF TypeOK
    <2>3. pageNumber'[t] \in 1..(Len(pageMap') + 1)
      BY <1>2, <1>3, <1>8, <2>2
    <2>4. Stack(t)'
      BY <1>2, <1>3, <1>5, <2>1, <2>3 DEF Stack
    <2> QED BY <1>4, <2>2, <2>4, OneStack DEF IInv, Disk
  <1> QED BY <1>6, <1>7, <1>8

(* The copy the row is added to.                                           *)
LEMMA ReadPageKeeps ==
  ASSUME OneConnection, IInv, NEW t \in Thread, ReadPage(t)
  PROVE  IInv'
  <1>1. TypeOK /\ Disk /\ Stack(t)
    BY DEF IInv, Disk
  <1> DEFINE page == PageToFill(t)
  <1>2. /\ pc[t] = "read" /\ UNCHANGED <<data, pageMap, index, unplaced, row, len>>
        /\ UNCHANGED <<pageNumber, newPage, nextRow, deleted>>
    BY DEF ReadPage, disk
  <1>3. /\ Fresh(t) /\ Target(t) /\ len[t] \in RowLen /\ row[t] \in 1..MaxRow
        /\ newPage[t] \in BOOLEAN
    BY <1>1, <1>2, TypeFacts DEF Stack, Fresh
  <1>4. page \in Page /\ WellFormed(page) /\ len[t] <= page.end
    <2>1. CASE newPage[t]
      <3>1. page = EmptyPage
        BY <2>1 DEF PageToFill
      <3>2. len[t] \in 2..PageSize
        BY <1>3, SlottedPageAssumption
      <3> QED BY <3>1, <3>2, EmptyPageFacts
    <2>2. CASE ~newPage[t]
      <3>1. page = data[pageNumber[t]]
        BY <2>2 DEF PageToFill
      <3>2. pageNumber[t] \in DOMAIN data
        BY <1>1, <1>3, <2>2, FileFacts DEF Target, Disk, Maps
      <3> QED BY <1>1, <1>2, <2>2, <3>1, <3>2, FileFacts DEF Stack, Disk, PagesWellFormed
    <2> QED BY <1>3, <2>1, <2>2
  <1>5. Disk' /\ Fresh(t)' /\ Target(t)'
    <2>1. Disk'
      BY <1>1, <1>2, TypeFacts, DiskKept
    <2> QED BY <1>2, <1>3, <2>1 DEF Fresh, Target
  <1>6. CASE Fits(page, len[t])
    <2> DEFINE new == Add(page, row[t], len[t])
    <2>1. /\ pc' = [pc EXCEPT ![t] = "write"] /\ buffer' = [buffer EXCEPT ![t] = new]
          /\ blockNumber' = [blockNumber EXCEPT ![t] = Len(page.slots) + 1]
      BY <1>6 DEF ReadPage, Go
    <2>2. /\ new \in Page /\ WellFormed(new) /\ Len(new.slots) = Len(page.slots) + 1
          /\ \A i \in DOMAIN page.slots : new.slots[i] = page.slots[i]
          /\ new.slots[Len(page.slots) + 1].row = row[t]
      BY <1>3, <1>4, <1>6, AddKeeps
    <2>3. Len(page.slots) \in Nat
      BY <1>4, PageFields
    <2>4. newPage[t] \/ page = data[pageNumber[t]]
      BY DEF PageToFill
    <2> HIDE DEF new, page
    <2>5. TypeOK' /\ pc'[t] = "write" /\ buffer'[t] = new /\ blockNumber'[t] = Len(page.slots) + 1
      <3>1. Len(page.slots) + 1 \in Nat
        BY <2>3
      <3> DEFINE b == Len(page.slots) + 1
      <3> HIDE DEF b
      <3>2. blockNumber' = [blockNumber EXCEPT ![t] = b] /\ b \in Nat
        BY <2>1, <3>1 DEF b
      <3>3. /\ blockNumber' \in [Thread -> Nat] /\ blockNumber'[t] = b
            /\ buffer' \in [Thread -> Page] /\ buffer'[t] = new
            /\ pc' \in [Thread -> Pc] /\ pc'[t] = "write"
        BY <1>1, <2>1, <2>2, <3>2 DEF TypeOK, Pc
      <3>4. TypeOK'
        BY <1>1, <1>2, <3>3 DEF TypeOK
      <3> QED BY <3>3, <3>4 DEF b
    <2>6. NewBlock(t)'
      BY <1>2, <2>2, <2>3, <2>5 DEF NewBlock
    <2>7. ~newPage[t] => Extends(data[pageNumber[t]], t)'
      BY <1>2, <2>2, <2>4, <2>5 DEF Extends
    <2>8. Stack(t)'
      BY <1>2, <1>5, <2>5, <2>6, <2>7 DEF Stack
    <2> QED BY <1>5, <2>5, <2>8, OneStack DEF IInv, Disk
  <1>7. CASE ~Fits(page, len[t])
    <2>1. pc' = [pc EXCEPT ![t] = "drop"] /\ UNCHANGED <<buffer, blockNumber>>
      BY <1>7 DEF ReadPage, Go
    <2>2. TypeOK' /\ pc'[t] = "drop"
      BY <1>1, <1>2, <2>1 DEF TypeOK, Pc
    <2>3. Stack(t)'
      BY <1>5, <2>2 DEF Stack
    <2> QED BY <1>5, <2>2, <2>3, OneStack DEF IInv, Disk
  <1> QED BY <1>6, <1>7

(* A place holds on to its row as long as its page keeps the blocks it had *)
(* and their marks.                                                        *)
LEMMA IndexedKept ==
  ASSUME Indexed, UNCHANGED <<index, deleted, nextRow>>,
         \A n \in DOMAIN pageMap : n \in DOMAIN pageMap',
         \A n \in DOMAIN data : n \in DOMAIN data',
         \A n \in DOMAIN pageMap \cap DOMAIN data : \A i \in DOMAIN data[n].slots :
           /\ i \in DOMAIN data'[n].slots
           /\ data'[n].slots[i].row = data[n].slots[i].row
           /\ data[n].slots[i].marked => data'[n].slots[i].marked
  PROVE  Indexed'
  <1>1. ASSUME NEW p \in index PROVE Holds(p)'
    BY DEF Indexed, Holds
  <1> QED BY <1>1 DEF Indexed

(* The page is written back: an orphan of a crash is overwritten.          *)
LEMMA WritePageKeeps ==
  ASSUME OneConnection, IInv, NEW t \in Thread, WritePage(t)
  PROVE  IInv'
  <1>1. TypeOK /\ Disk /\ Stack(t)
    BY DEF IInv, Disk
  <1> DEFINE n == pageNumber[t]
             copy == buffer[t]
  <1>2. /\ pc[t] = "write" /\ pc' = [pc EXCEPT ![t] = "map"] /\ data' = Put(data, n, copy)
        /\ UNCHANGED <<pageMap, index, unplaced, row, len, pageNumber, blockNumber>>
        /\ UNCHANGED <<newPage, buffer, nextRow, deleted>>
    BY DEF WritePage, Go
  <1>3. /\ Fresh(t) /\ Target(t) /\ NewBlock(t)
        /\ newPage[t] \/ Extends(data[n], t)
    BY <1>1, <1>2 DEF Stack
  <1>4. /\ n \in Nat /\ copy \in Page /\ newPage[t] \in BOOLEAN
        /\ Len(data) \in Nat /\ DOMAIN data = 1..Len(data) /\ data \in Seq(Page)
        /\ Len(pageMap) \in Nat /\ DOMAIN pageMap = 1..Len(pageMap)
        /\ Len(pageMap) <= Len(data) /\ Len(data) <= Len(pageMap) + 1
    BY <1>1, TypeFacts, FileFacts DEF Disk, Maps, TypeOK
  <1>5. n \in 1..(Len(data) + 1) /\ n \in 1..(Len(pageMap) + 1)
    <2>1. CASE newPage[t]
      BY <1>3, <1>4, <2>1 DEF Target
    <2>2. CASE ~newPage[t]
      BY <1>3, <1>4, <2>2 DEF Target
    <2> QED BY <1>4, <2>1, <2>2
  <1>6. /\ data' \in Seq(Page) /\ n \in DOMAIN data' /\ data'[n] = copy
        /\ Len(data') = IF n <= Len(data) THEN Len(data) ELSE Len(data) + 1
        /\ \A i \in DOMAIN data : i \in DOMAIN data' /\ (i # n => data'[i] = data[i])
        /\ \A i \in DOMAIN data' : i = n \/ i \in DOMAIN data
    <2>1. data' = Put(data, n, copy) /\ data \in Seq(Page) /\ copy \in Page
      BY <1>2, <1>4
    <2> HIDE DEF n, copy
    <2>2. n \in 1..(Len(data) + 1)
      BY <1>5
    <2> QED BY ONLY <2>1, <2>2, PutFacts
  <1>7. TypeOK' /\ pc'[t] = "map"
    BY <1>1, <1>2, <1>6 DEF TypeOK, Pc
  <1>8. PagesWellFormed'
    <2>1. ASSUME NEW i \in DOMAIN data' PROVE WellFormed(data'[i])
      BY <1>1, <1>3, <1>6 DEF Disk, PagesWellFormed, NewBlock
    <2> QED BY <2>1 DEF PagesWellFormed
  <1>9. Filled'
    <2>1. ASSUME NEW i \in DOMAIN data' PROVE Len(data'[i].slots) >= 1
      BY <1>1, <1>3, <1>6 DEF Disk, Filled, NewBlock
    <2> QED BY <2>1 DEF Filled
  <1>10. newPage[t] \/ (n \in DOMAIN pageMap /\ n \in DOMAIN data /\ Len(copy.slots) >= 2)
    <2>1. ASSUME ~newPage[t] PROVE n \in DOMAIN pageMap /\ n \in DOMAIN data
      BY <1>3, <1>4, <2>1 DEF Target
    <2>2. ASSUME ~newPage[t] PROVE Len(copy.slots) >= 2
      <3>1. Len(data[n].slots) >= 1 /\ Len(data[n].slots) \in Nat
        BY <1>1, <2>1, <2>2, FileFacts, PageFields DEF Disk, Filled
      <3> QED BY <1>3, <2>2, <3>1 DEF Extends
    <2> QED BY <2>1, <2>2
  <1>11. newPage[t] => n \notin DOMAIN pageMap
    BY <1>3, <1>4 DEF Target
  <1>12. Maps'
    <2>1. Len(pageMap') <= Len(data') /\ Len(data') <= Len(pageMap') + 1
      <3>1. CASE n <= Len(data)
        BY <1>2, <1>4, <1>6, <3>1
      <3>2. CASE ~(n <= Len(data))
        BY <1>2, <1>4, <1>5, <1>6, <3>2
      <3> QED BY <3>1, <3>2
    <2>2. ASSUME NEW i \in DOMAIN pageMap'
          PROVE  pageMap'[i] = Room(data'[i]) \/ Len(data'[i].slots) >= 2
      <3>1. i \in DOMAIN pageMap /\ pageMap'[i] = pageMap[i] /\ i \in DOMAIN data
        BY <1>2, <1>4
      <3>2. CASE i = n
        BY <1>6, <1>10, <1>11, <3>1, <3>2
      <3>3. CASE i # n
        BY <1>1, <1>6, <3>1, <3>3 DEF Disk, Maps
      <3> QED BY <3>2, <3>3
    <2> QED BY <2>1, <2>2 DEF Maps
  <1>13. Indexed'
    <2>1. ASSUME NEW m \in DOMAIN pageMap, NEW i \in DOMAIN data[m].slots, m \in DOMAIN data
          PROVE  i \in DOMAIN data'[m].slots /\ data'[m].slots[i] = data[m].slots[i]
      <3>1. CASE m = n
        <4>1. ~newPage[t] /\ Extends(data[n], t)
          BY <1>3, <1>11, <2>1, <3>1
        <4>2. /\ DOMAIN copy.slots = 1..Len(copy.slots)
              /\ DOMAIN data[n].slots = 1..Len(data[n].slots)
              /\ Len(data[n].slots) \in Nat
          BY <1>4, <2>1, <3>1, FileFacts, <1>1, PageFields
        <4> QED BY <1>6, <2>1, <3>1, <4>1, <4>2 DEF Extends
      <3>2. CASE m # n
        BY <1>6, <2>1, <3>2
      <3> QED BY <3>1, <3>2
    <2> QED BY <1>1, <1>2, <1>6, <2>1, IndexedKept DEF Disk
  <1>14. Stack(t)'
    <2>1. Fresh(t)' /\ NewBlock(t)'
      BY <1>2, <1>3 DEF Fresh, NewBlock
    <2>2. n <= Len(pageMap) + 1
      BY <1>4, <1>5
    <2> QED BY <1>2, <1>6, <1>7, <2>1, <2>2 DEF Stack
  <1> QED BY <1>7, <1>8, <1>9, <1>12, <1>13, <1>14, OneStack DEF IInv

(* The entry of the page file becomes exact.                               *)
LEMMA WriteMapKeeps ==
  ASSUME OneConnection, IInv, NEW t \in Thread, WriteMap(t)
  PROVE  IInv'
  <1>1. TypeOK /\ Disk /\ Stack(t)
    BY DEF IInv, Disk
  <1> DEFINE n == pageNumber[t]
             room == Room(buffer[t])
  <1>2. /\ pc[t] = "map" /\ pc' = [pc EXCEPT ![t] = "index"]
        /\ pageMap' = Put(pageMap, n, room)
        /\ UNCHANGED <<data, index, unplaced, row, len, pageNumber, blockNumber>>
        /\ UNCHANGED <<newPage, buffer, nextRow, deleted>>
    BY DEF WriteMap, Go
  <1>3. /\ Fresh(t) /\ NewBlock(t) /\ n \in DOMAIN data /\ n <= Len(pageMap) + 1
        /\ data[n] = buffer[t]
    BY <1>1, <1>2 DEF Stack
  <1>4. /\ n \in Nat /\ buffer[t] \in Page
        /\ Len(data) \in Nat /\ DOMAIN data = 1..Len(data)
        /\ Len(pageMap) \in Nat /\ DOMAIN pageMap = 1..Len(pageMap)
        /\ pageMap \in Seq(0..(U16 - 1))
        /\ Len(pageMap) <= Len(data) /\ Len(data) <= Len(pageMap) + 1
    BY <1>1, TypeFacts, FileFacts DEF Disk, Maps, TypeOK
  <1>5. n \in 1..(Len(pageMap) + 1)
    BY <1>3, <1>4
  <1>6. room \in 0..(U16 - 1)
    <2>1. /\ buffer[t].end \in Nat /\ buffer[t].end < U16 /\ Len(buffer[t].slots) \in Nat
          /\ Beg(buffer[t]) <= buffer[t].end
      BY <1>3, <1>4, PageFields DEF NewBlock, WellFormed
    <2>2. Beg(buffer[t]) \in Nat
      BY <2>1 DEF Beg, HeaderSize, BlockHeaderSize
    <2>3. room = buffer[t].end - Beg(buffer[t])
      BY DEF Room
    <2> HIDE DEF room
    <2>4. room \in Nat /\ room < U16
      BY <2>1, <2>2, <2>3, Offsets
    <2> QED BY <2>4, Offsets
  <1>7. /\ pageMap' \in Seq(0..(U16 - 1)) /\ n \in DOMAIN pageMap' /\ pageMap'[n] = room
        /\ Len(pageMap') = IF n <= Len(pageMap) THEN Len(pageMap) ELSE Len(pageMap) + 1
        /\ \A i \in DOMAIN pageMap :
             i \in DOMAIN pageMap' /\ (i # n => pageMap'[i] = pageMap[i])
        /\ \A i \in DOMAIN pageMap' : i = n \/ i \in DOMAIN pageMap
    <2> DEFINE Entry == 0..(U16 - 1)
    <2>1. pageMap' = Put(pageMap, n, room) /\ pageMap \in Seq(Entry) /\ room \in Entry
      BY <1>2, <1>4, <1>6
    <2> HIDE DEF n, room, Entry
    <2>2. /\ Put(pageMap, n, room) \in Seq(Entry)
          /\ n \in DOMAIN Put(pageMap, n, room) /\ Put(pageMap, n, room)[n] = room
          /\ Len(Put(pageMap, n, room)) =
               IF n <= Len(pageMap) THEN Len(pageMap) ELSE Len(pageMap) + 1
          /\ \A i \in DOMAIN pageMap :
               /\ i \in DOMAIN Put(pageMap, n, room)
               /\ i # n => Put(pageMap, n, room)[i] = pageMap[i]
          /\ \A i \in DOMAIN Put(pageMap, n, room) : i = n \/ i \in DOMAIN pageMap
      BY ONLY <1>5, <2>1, PutFacts
    <2> QED BY <2>1, <2>2 DEF Entry
  <1>8. TypeOK' /\ pc'[t] = "index"
    BY <1>1, <1>2, <1>7 DEF TypeOK, Pc
  <1>9. PagesWellFormed' /\ Filled'
    BY <1>1, <1>2 DEF Disk, PagesWellFormed, Filled
  <1>10. Maps'
    <2>1. Len(pageMap') <= Len(data') /\ Len(data') <= Len(pageMap') + 1
      <3>1. CASE n <= Len(pageMap)
        BY <1>2, <1>4, <1>7, <3>1
      <3>2. CASE ~(n <= Len(pageMap))
        BY <1>2, <1>3, <1>4, <1>5, <1>7, <3>2
      <3> QED BY <3>1, <3>2
    <2>2. ASSUME NEW i \in DOMAIN pageMap'
          PROVE  pageMap'[i] = Room(data'[i]) \/ Len(data'[i].slots) >= 2
      <3>1. CASE i = n
        BY <1>2, <1>3, <1>7, <3>1
      <3>2. CASE i # n
        BY <1>1, <1>2, <1>7, <3>2 DEF Disk, Maps
      <3> QED BY <3>1, <3>2
    <2> QED BY <2>1, <2>2 DEF Maps
  <1>11. Indexed'
    BY <1>1, <1>2, <1>7, IndexedKept DEF Disk
  <1>12. Stack(t)'
    <2>1. Fresh(t)'
      BY <1>2, <1>3 DEF Fresh
    <2>2. /\ blockNumber[t] \in DOMAIN data[n].slots
          /\ data[n].slots[blockNumber[t]].row = row[t]
      <3>1. Len(buffer[t].slots) \in Nat /\ DOMAIN buffer[t].slots = 1..Len(buffer[t].slots)
        BY <1>4, PageFields
      <3> QED BY <1>3, <3>1 DEF NewBlock
    <2> QED BY <1>2, <1>7, <1>8, <2>1, <2>2 DEF Stack
  <1> QED BY <1>8, <1>9, <1>10, <1>11, <1>12, OneStack DEF IInv

(* The index gets the place, of a row it did not know.                     *)
LEMMA IndexRowKeeps ==
  ASSUME OneConnection, IInv, NEW t \in Thread, IndexRow(t)
  PROVE  IInv'
  <1>1. TypeOK /\ Disk /\ Stack(t)
    BY DEF IInv, Disk
  <1> DEFINE new == [row |-> row[t], page |-> pageNumber[t], block |-> blockNumber[t]]
  <1>2. /\ pc[t] = "index" /\ pc' = [pc EXCEPT ![t] = "idle"] /\ index' = index \cup {new}
        /\ UNCHANGED <<data, pageMap, unplaced, row, len, pageNumber, blockNumber>>
        /\ UNCHANGED <<newPage, buffer, nextRow, deleted>>
    BY DEF IndexRow, Go
  <1>3. /\ Fresh(t) /\ pageNumber[t] \in DOMAIN pageMap
        /\ blockNumber[t] \in DOMAIN data[pageNumber[t]].slots
        /\ data[pageNumber[t]].slots[blockNumber[t]].row = row[t]
    BY <1>1, <1>2 DEF Stack
  <1>4. pageNumber[t] \in DOMAIN data /\ pageNumber[t] \in Nat \ {0}
    BY <1>1, <1>3, FileFacts DEF Disk, Maps
  <1>5. blockNumber[t] \in Nat \ {0}
    BY <1>1, <1>3, <1>4, FileFacts, PageFields
  <1>6. new \in Place
    BY <1>3, <1>4, <1>5 DEF Fresh, Place
  <1>7. TypeOK' /\ pc'[t] = "idle"
    BY <1>1, <1>2, <1>6 DEF TypeOK, Pc
  <1>8. PagesWellFormed' /\ Filled' /\ Maps'
    BY <1>1, <1>2 DEF Disk, PagesWellFormed, Filled, Maps
  <1>9. row[t] \notin deleted
    BY <1>1, <1>3 DEF Disk, Indexed, Fresh
  <1>10. /\ new.row = row[t] /\ new.page = pageNumber[t] /\ new.block = blockNumber[t]
         /\ row[t] < nextRow
    BY <1>3 DEF Fresh
  <1> HIDE DEF new
  <1>11. Indexed'
    <2>1. ASSUME NEW p \in index' PROVE Holds(p)' /\ p.row < nextRow'
      <3>1. CASE p \in index
        <4>1. Holds(p) /\ p.row < nextRow
          BY <1>1, <3>1 DEF Disk, Indexed
        <4> QED BY <1>2, <4>1 DEF Holds
      <3>2. CASE p = new
        BY <1>2, <1>3, <1>4, <1>9, <1>10, <3>2 DEF Holds
      <3> QED BY <1>2, <3>1, <3>2
    <2>2. ASSUME NEW p \in index', NEW q \in index', p.row = q.row PROVE p = q
      <3>1. \A o \in index : o.row # new.row
        BY <1>3, <1>10 DEF Fresh
      <3> QED BY <1>1, <1>2, <2>2, <3>1 DEF Disk, Indexed
    <2>3. \A r \in deleted' : \E p \in index' : p.row = r
      BY <1>1, <1>2 DEF Disk, Indexed
    <2> QED BY <2>1, <2>2, <2>3 DEF Indexed
  <1>12. Stack(t)'
    BY <1>7 DEF Stack
  <1> QED BY <1>7, <1>8, <1>11, <1>12, OneStack DEF IInv

LEMMA IndexPlaceholderKeeps ==
  ASSUME OneConnection, IInv, NEW t \in Thread, IndexPlaceholder(t)
  PROVE  IInv'
  <1>1. TypeOK /\ Disk /\ Stack(t)
    BY DEF IInv, Disk
  <1>2. /\ pc[t] = "drop" /\ pc' = [pc EXCEPT ![t] = "idle"]
        /\ unplaced' = unplaced \cup {row[t]}
        /\ UNCHANGED <<data, pageMap, index, row, len, pageNumber, blockNumber>>
        /\ UNCHANGED <<newPage, buffer, nextRow, deleted>>
    BY DEF IndexPlaceholder, Go
  <1>3. row[t] \in 1..MaxRow
    BY <1>1, <1>2 DEF Stack, Fresh
  <1>4. TypeOK' /\ pc'[t] = "idle"
    BY <1>1, <1>2, <1>3 DEF TypeOK, Pc
  <1>5. Disk'
    BY <1>1, <1>2, TypeFacts, DiskKept
  <1>6. Stack(t)'
    BY <1>4 DEF Stack
  <1> QED BY <1>4, <1>5, <1>6, OneStack DEF IInv, Disk

LEMMA StartDeleteKeeps ==
  ASSUME OneConnection, IInv, NEW t \in Thread, StartDelete(t)
  PROVE  IInv'
  <1>1. TypeOK /\ Disk /\ Stack(t)
    BY DEF IInv, Disk
  <1>2. /\ pc' = [pc EXCEPT ![t] = "readMark"]
        /\ UNCHANGED <<data, pageMap, index, unplaced, len>>
        /\ UNCHANGED <<newPage, buffer, nextRow, deleted>>
    BY DEF StartDelete, Go, disk
  <1>3. PICK p \in index : /\ row' = [row EXCEPT ![t] = p.row]
                           /\ pageNumber' = [pageNumber EXCEPT ![t] = p.page]
                           /\ blockNumber' = [blockNumber EXCEPT ![t] = p.block]
    BY DEF StartDelete
  <1>4. p.row \in 1..MaxRow /\ p.page \in Nat /\ p.block \in Nat
    BY <1>1 DEF TypeOK, Place
  <1>5. TypeOK' /\ pc'[t] = "readMark"
    <2>1. p.row \in 0..MaxRow
      BY <1>1, <1>4, TypeFacts
    <2> QED BY <1>1, <1>2, <1>3, <1>4, <2>1 DEF TypeOK, Pc
  <1>6. Disk'
    BY <1>1, <1>2, TypeFacts, DiskKept
  <1>7. Marking(t)'
    BY <1>1, <1>2, <1>3 DEF Marking, TypeOK
  <1>8. Stack(t)'
    BY <1>5, <1>7 DEF Stack
  <1> QED BY <1>5, <1>6, <1>8, OneStack DEF IInv, Disk

(* The place of a row to mark is one of a page.                            *)
LEMMA MarkedPlace ==
  ASSUME TypeOK, Disk, NEW t \in Thread, Marking(t)
  PROVE  /\ pageNumber[t] \in DOMAIN data /\ pageNumber[t] \in 1..Len(data)
         /\ data[pageNumber[t]] \in Page
         /\ blockNumber[t] \in DOMAIN data[pageNumber[t]].slots
  <1>1. PICK p \in index : row[t] = p.row /\ pageNumber[t] = p.page /\ blockNumber[t] = p.block
    BY DEF Marking
  <1>2. Holds(p)
    BY DEF Disk, Indexed
  <1> QED BY <1>1, <1>2, FileFacts DEF Holds

LEMMA ReadMarkKeeps ==
  ASSUME OneConnection, IInv, NEW t \in Thread, ReadMark(t)
  PROVE  IInv'
  <1>1. TypeOK /\ Disk /\ Stack(t)
    BY DEF IInv, Disk
  <1> DEFINE new == SetMark(data[pageNumber[t]], blockNumber[t])
  <1>2. /\ pc[t] = "readMark" /\ pc' = [pc EXCEPT ![t] = "writeMark"]
        /\ buffer' = [buffer EXCEPT ![t] = new]
        /\ UNCHANGED <<data, pageMap, index, unplaced, row, len, pageNumber, blockNumber>>
        /\ UNCHANGED <<newPage, nextRow, deleted>>
    BY DEF ReadMark, Go, disk
  <1>3. Marking(t)
    BY <1>1, <1>2 DEF Stack
  <1>4. new \in Page
    BY <1>1, <1>3, MarkedPlace, SetMarkKeeps
  <1>5. Disk'
    BY <1>1, <1>2, TypeFacts, DiskKept
  <1>6. Marking(t)'
    BY <1>2, <1>3 DEF Marking
  <1>7. new' = new
    BY <1>2
  <1> HIDE DEF new
  <1>8. TypeOK' /\ pc'[t] = "writeMark" /\ buffer'[t] = new
    BY <1>1, <1>2, <1>4 DEF TypeOK, Pc
  <1>9. buffer'[t] = new'
    BY <1>7, <1>8
  <1>10. Stack(t)'
    BY <1>6, <1>8, <1>9 DEF Stack, new
  <1> QED BY <1>5, <1>8, <1>10, OneStack DEF IInv, Disk

(* The page is written back with the mark.                                 *)
LEMMA WriteMarkKeeps ==
  ASSUME OneConnection, IInv, NEW t \in Thread, WriteMark(t)
  PROVE  IInv'
  <1>1. TypeOK /\ Disk /\ Stack(t)
    BY DEF IInv, Disk
  <1> DEFINE n == pageNumber[t]
             b == blockNumber[t]
             page == data[n]
             new == SetMark(page, b)
  <1>2. /\ pc[t] = "writeMark" /\ pc' = [pc EXCEPT ![t] = "idle"]
        /\ data' = Put(data, n, buffer[t]) /\ deleted' = deleted \cup {row[t]}
        /\ UNCHANGED <<pageMap, index, unplaced, row, len, pageNumber, blockNumber>>
        /\ UNCHANGED <<newPage, buffer, nextRow>>
    BY DEF WriteMark, Go
  <1>3. Marking(t) /\ buffer[t] = new
    BY <1>1, <1>2 DEF Stack
  <1>4. /\ n \in DOMAIN data /\ page \in Page /\ b \in DOMAIN page.slots
        /\ Len(data) \in Nat /\ DOMAIN data = 1..Len(data) /\ data \in Seq(Page)
    BY <1>1, <1>3, MarkedPlace, FileFacts DEF TypeOK
  <1>5. /\ new \in Page /\ Room(new) = Room(page) /\ Len(new.slots) = Len(page.slots)
        /\ DOMAIN new.slots = DOMAIN page.slots /\ new.slots[b].marked
        /\ \A i \in DOMAIN page.slots :
             /\ new.slots[i].row = page.slots[i].row
             /\ page.slots[i].marked => new.slots[i].marked
        /\ WellFormed(page) => WellFormed(new)
    BY <1>4, SetMarkKeeps
  <1>6. PICK place \in index : row[t] = place.row /\ n = place.page /\ b = place.block
    BY <1>3 DEF Marking
  <1>7. row[t] \in 1..MaxRow
    BY <1>1, <1>6 DEF TypeOK, Place
  <1> HIDE DEF new, page
  <1>8. /\ data' \in Seq(Page) /\ n \in DOMAIN data' /\ data'[n] = new
        /\ Len(data') = Len(data) /\ DOMAIN data' = DOMAIN data
        /\ \A i \in DOMAIN data : i # n => data'[i] = data[i]
    <2>1. data' = [data EXCEPT ![n] = new]
      BY <1>2, <1>3, <1>4 DEF Put
    <2> HIDE DEF n
    <2> QED BY <1>4, <1>5, <2>1
  <1>9. TypeOK' /\ pc'[t] = "idle"
    BY <1>1, <1>2, <1>7, <1>8 DEF TypeOK, Pc
  <1>10. PagesWellFormed'
    <2>1. ASSUME NEW i \in DOMAIN data' PROVE WellFormed(data'[i])
      BY <1>1, <1>5, <1>8 DEF Disk, PagesWellFormed, page
    <2> QED BY <2>1 DEF PagesWellFormed
  <1>11. Filled'
    <2>1. ASSUME NEW i \in DOMAIN data' PROVE Len(data'[i].slots) >= 1
      BY <1>1, <1>5, <1>8 DEF Disk, Filled, page
    <2> QED BY <2>1 DEF Filled
  <1>12. Maps'
    <2>1. ASSUME NEW i \in DOMAIN pageMap
          PROVE  pageMap[i] = Room(data'[i]) \/ Len(data'[i].slots) >= 2
      <3>1. i \in DOMAIN data
        BY <1>1, FileFacts DEF Disk, Maps
      <3>2. pageMap[i] = Room(data[i]) \/ Len(data[i].slots) >= 2
        BY <1>1 DEF Disk, Maps
      <3> QED BY <1>5, <1>8, <3>1, <3>2 DEF page
    <2> QED BY <1>1, <1>2, <1>8, <2>1 DEF Disk, Maps
  <1>13. Indexed'
    <2>1. ASSUME NEW p \in index PROVE Holds(p)'
      <3>1. Holds(p)
        BY <1>1 DEF Disk, Indexed
      <3>2. /\ p.page \in DOMAIN pageMap' /\ p.page \in DOMAIN data'
            /\ p.block \in DOMAIN data'[p.page].slots
            /\ data'[p.page].slots[p.block].row = p.row
            /\ data[p.page].slots[p.block].marked => data'[p.page].slots[p.block].marked
        <4>1. CASE p.page = n
          BY <1>2, <1>5, <1>8, <3>1, <4>1 DEF Holds, page
        <4>2. CASE p.page # n
          BY <1>2, <1>8, <3>1, <4>2 DEF Holds
        <4> QED BY <4>1, <4>2
      <3>3. p.row = row[t] => data'[p.page].slots[p.block].marked
        <4>1. ASSUME p.row = row[t] PROVE p = place
          BY <1>1, <1>6, <4>1 DEF Disk, Indexed
        <4> QED BY <1>5, <1>6, <1>8, <4>1
      <3>4. p.row \in deleted' => data'[p.page].slots[p.block].marked
        BY <1>2, <3>1, <3>2, <3>3 DEF Holds
      <3> QED BY <3>2, <3>4 DEF Holds
    <2>2. \A r \in deleted' : \E p \in index' : p.row = r
      BY <1>1, <1>2, <1>6 DEF Disk, Indexed
    <2> QED BY <1>1, <1>2, <2>1, <2>2 DEF Disk, Indexed
  <1>14. Stack(t)'
    BY <1>9 DEF Stack
  <1> QED BY <1>9, <1>10, <1>11, <1>12, <1>13, <1>14, OneStack DEF IInv

(* The daemon dies: every file keeps what it has, every stack is gone.     *)
LEMMA CrashKeeps ==
  ASSUME IInv, Crash
  PROVE  IInv'
  <1>1. TypeOK /\ Disk
    BY DEF IInv, Disk
  <1>2. /\ pc' = [t \in Thread |-> "idle"]
        /\ row' = [t \in Thread |-> 0] /\ len' = [t \in Thread |-> 0]
        /\ pageNumber' = [t \in Thread |-> 0] /\ blockNumber' = [t \in Thread |-> 0]
        /\ newPage' = [t \in Thread |-> FALSE] /\ buffer' = [t \in Thread |-> EmptyPage]
        /\ UNCHANGED <<data, pageMap, index, unplaced, nextRow, deleted>>
    BY DEF Crash, disk
  <1>3. 0 \in 0..MaxRow
    BY SlottedPageAssumption
  <1>4. TypeOK'
    BY <1>1, <1>2, <1>3, EmptyPageFacts DEF TypeOK, Pc
  <1>5. Disk'
    <2>1. nextRow \in Nat
      BY <1>1, SlottedPageAssumption DEF TypeOK
    <2> QED BY <1>1, <1>2, <2>1, DiskKept
  <1>6. ASSUME NEW t \in Thread PROVE Stack(t)'
    BY <1>2 DEF Stack
  <1> QED BY <1>4, <1>5, <1>6 DEF IInv, Disk

LEMMA InitHolds ==
  ASSUME Init
  PROVE  IInv
  <1>1. MaxRow \in Nat /\ EmptyPage \in Page
    BY SlottedPageAssumption, EmptyPageFacts
  <1>2. TypeOK
    BY <1>1 DEF Init, TypeOK, Pc
  <1>3. PagesWellFormed /\ Filled /\ Maps /\ Indexed
    BY DEF Init, PagesWellFormed, Filled, Maps, Indexed
  <1>4. ASSUME NEW t \in Thread PROVE Stack(t)
    BY DEF Init, Stack
  <1> QED BY <1>2, <1>3, <1>4 DEF IInv

LEMMA StepKeeps ==
  ASSUME OneConnection, IInv, [Next]_vars
  PROVE  IInv'
  <1>1. CASE UNCHANGED vars
    <2>1. TypeOK' /\ PagesWellFormed' /\ Filled' /\ Maps'
      BY <1>1 DEF IInv, TypeOK, PagesWellFormed, Filled, Maps, vars, disk, local
    <2>2. ASSUME NEW p PROVE Holds(p)' = Holds(p)
      BY <1>1 DEF Holds, vars, disk
    <2>3. Indexed'
      BY <1>1, <2>2 DEF IInv, Indexed, vars, disk
    <2>4. ASSUME NEW t \in Thread PROVE Stack(t)'
      BY <1>1 DEF IInv, Stack, Fresh, Target, NewBlock, Extends, Marking, vars, disk, local
    <2> QED BY <2>1, <2>3, <2>4 DEF IInv
  <1>2. CASE Crash
    BY <1>2, CrashKeeps
  <1>3. ASSUME NEW t \in Thread, Step(t) PROVE IInv'
    BY <1>3, StartInsertKeeps, FindPageKeeps, ReadPageKeeps, WritePageKeeps, WriteMapKeeps,
       IndexRowKeeps, IndexPlaceholderKeeps, StartDeleteKeeps, ReadMarkKeeps, WriteMarkKeeps
       DEF Step
  <1> QED BY <1>1, <1>2, <1>3 DEF Next

-----------------------------------------------------------------------------
(* The theorems. *)

(* The invariant holds at every step of one connection and across crashes. *)
THEOREM Invariance == ASSUME OneConnection PROVE Spec => []IInv
  <1>1. Init => IInv
    BY InitHolds
  <1>2. IInv /\ [Next]_vars => IInv'
    BY StepKeeps
  <1> QED BY <1>1, <1>2, PTL DEF Spec

(* The files, the index and the stacks have their types: no offset leaves  *)
(* its 16 bits.                                                            *)
THEOREM PageTypes == ASSUME OneConnection PROVE Spec => []TypeOK
  <1>1. IInv => TypeOK
    BY DEF IInv
  <1> QED BY <1>1, Invariance, PTL

(* Whatever insertValueToDataFile copies stays in its place: no two values *)
(* of a page overlap, none reaches into the headers or beyond the page.    *)
THEOREM PagesStayWellFormed == ASSUME OneConnection PROVE Spec => []PagesWellFormed
  <1>1. IInv => PagesWellFormed
    BY DEF IInv
  <1> QED BY <1>1, Invariance, PTL

(* Every place the index holds has the row it was given for, also after    *)
(* the daemon died between the writes of the page, the page file and the   *)
(* index.                                                                  *)
THEOREM RowsStayReadable == ASSUME OneConnection PROVE Spec => []RowsReadable
  <1>1. IInv => RowsReadable
    <2> SUFFICES ASSUME IInv, NEW p \in index PROVE ReadValue(p) = p.row
      BY DEF RowsReadable
    <2>1. Holds(p)
      BY DEF IInv, Indexed
    <2>2. WellFormed(data[p.page])
      BY <2>1 DEF IInv, PagesWellFormed, Holds
    <2> QED BY <2>1, <2>2 DEF ReadValue, Holds, WellFormed
  <1> QED BY <1>1, Invariance, PTL

(* A mark that has been written is never taken back by the write of an     *)
(* older copy of the page.                                                 *)
THEOREM MarksNeverLost == ASSUME OneConnection PROVE Spec => []MarksStay
  <1>1. IInv => MarksStay
    <2> SUFFICES ASSUME IInv, NEW p \in index, p.row \in deleted
                 PROVE  data[p.page].slots[p.block].marked
      BY DEF MarksStay
    <2>1. Holds(p)
      BY DEF IInv, Indexed
    <2> QED BY <2>1 DEF Holds
  <1> QED BY <1>1, Invariance, PTL
=============================================================================
