---------------------------- MODULE SlottedPage ----------------------------
(***************************************************************************)
(* Where daemon/storage/table.cpp keeps the row versions: the data file, a *)
(* sequence of slotted pages, and the page file, which remembers how much  *)
(* room each page has.  A connection that inserts a row looks for a page   *)
(* in the page file, reads the page, adds the row to its copy, writes the  *)
(* whole page back, then the page file, then the index.  One that deletes  *)
(* a version reads the page, sets a mark in its copy and writes the page   *)
(* back.  Each of these accesses to a file is a step; every write is       *)
(* flushed, so that a step survives the death of the daemon.               *)
(*                                                                         *)
(* Offsets count bytes, as in the code.  The bytes of a row are abstracted *)
(* to its number and its length; the transaction that marked a version to  *)
(* the fact that it is marked; the index to the set of places it holds.    *)
(***************************************************************************)
EXTENDS Naturals, Sequences

CONSTANTS
  Thread,         \* the threads of the connections
  PageSize,       \* PAGE_SIZE
  RowLen,         \* the lengths rows may have
  MaxRow,         \* bound: rows inserted
  CanCrash        \* may the daemon die?

U16 == 65536                   \* offsets are uint16_t
HeaderSize == 6                \* noOfBlocks, begOffset, endOffset
BlockHeaderSize == 20          \* offset, length, t_ins, t_del
SearchSlack == 4               \* 2 * sizeof(uint16_t) in writeData

(***************************************************************************)
(* A row of one byte has half of its length written, and one longer than a *)
(* page fits nowhere: both are outside this model.                         *)
(***************************************************************************)
ASSUME SlottedPageAssumption ==
  /\ PageSize \in Nat /\ PageSize > HeaderSize + BlockHeaderSize /\ PageSize < U16
  /\ RowLen \subseteq 2..PageSize
  /\ MaxRow \in Nat
  /\ CanCrash \in BOOLEAN

VARIABLES
  (* on disk *)
  data,           \* the data file: a sequence of pages
  pageMap,        \* the page file: availableSpace of each page
  index,          \* the places of rows that the index holds
  unplaced,       \* the rows for which the index holds no place
  (* in the stack of each thread *)
  pc,             \* where it is
  row, len,       \* the row it inserts
  pageNumber, blockNumber,     \* the place it works on
  newPage,        \* has it found no page with room?
  buffer,         \* its copy of the page
  (* history *)
  nextRow,        \* rows are numbered in the order of their insertion
  deleted         \* rows whose mark has been written

disk == <<data, pageMap, index, unplaced>>
local == <<pc, row, len, pageNumber, blockNumber, newPage, buffer>>
vars == <<disk, local, nextRow, deleted>>

Slot == [row : 1..MaxRow, len : RowLen, off : 0..(U16 - 1), marked : BOOLEAN]
Page == [slots : Seq(Slot), end : 0..(U16 - 1)]
Place == [row : 1..MaxRow, page : Nat \ {0}, block : Nat \ {0}]

Pc == {"idle", "find", "read", "write", "map", "index", "drop", "readMark", "writeMark"}

-----------------------------------------------------------------------------
(* Pages. *)

EmptyPage == [slots |-> <<>>, end |-> PageSize]

(* begOffset and the room between the block headers and the values.        *)
Beg(page) == HeaderSize + BlockHeaderSize * Len(page.slots)

Room(page) == page.end - Beg(page)

(* newEndOffset, a 16-bit difference: a row that is longer than all that   *)
(* is left of the page below its values makes it wrap around.              *)
NewEnd(page, l) == (page.end + U16 - l) % U16

(* Mutant: the header of the new block is forgotten.                       *)
FitsNoHeader(page, l) == NewEnd(page, l) > Beg(page)

(* The test of insertValueToDataFile, newEndOffset > newBegOffset.         *)
Fits(page, l) == NewEnd(page, l) > Beg(page) + BlockHeaderSize

(* After a wrap-around the value is copied to somewhere beyond the page.   *)
Add(page, r, l) ==
  [slots |-> Append(page.slots,
                    [row |-> r, len |-> l, off |-> NewEnd(page, l), marked |-> FALSE]),
   end |-> NewEnd(page, l)]

(* deleteData does not look whether the block exists; it does as long as   *)
(* RowsReadable holds.                                                     *)
SetMark(page, b) == [page EXCEPT !.slots[b].marked = TRUE]

(* The test of writeData on an entry of the page file.                     *)
LooksRoomy(available, l) == available > l + SearchSlack

(* Table::readValue: the row at a place, 0 when the place is out of range  *)
(* or the value beyond the page.                                           *)
ReadValue(place) ==
  IF /\ place.page \in DOMAIN data
     /\ place.block \in DOMAIN data[place.page].slots
     /\ LET slot == data[place.page].slots[place.block]
        IN  slot.off + slot.len <= PageSize
  THEN data[place.page].slots[place.block].row
  ELSE 0

(* Write one page or one entry of a file, at its end if need be.           *)
Put(file, n, value) == IF n \in DOMAIN file THEN [file EXCEPT ![n] = value]
                                            ELSE Append(file, value)

Go(t, p, q) == pc[t] = p /\ pc' = [pc EXCEPT ![t] = q]

-----------------------------------------------------------------------------
(* Table::writeData and insertValueToDataFile. *)

StartInsert(t) ==
  /\ Go(t, "idle", "find")
  /\ nextRow <= MaxRow
  /\ row' = [row EXCEPT ![t] = nextRow]
  /\ \E l \in RowLen : len' = [len EXCEPT ![t] = l]
  /\ nextRow' = nextRow + 1
  /\ pageNumber' = [pageNumber EXCEPT ![t] = 1]
  /\ newPage' = [newPage EXCEPT ![t] = TRUE]
  /\ UNCHANGED <<disk, blockNumber, buffer, deleted>>

(* The loop of writeData: one entry of the page file after the other.      *)
FindPage(t) ==
  /\ pc[t] = "find"
  /\ IF pageNumber[t] \notin DOMAIN pageMap
     THEN Go(t, "find", "read") /\ UNCHANGED <<pageNumber, newPage>>
     ELSE IF LooksRoomy(pageMap[pageNumber[t]], len[t])
     THEN /\ Go(t, "find", "read")
          /\ newPage' = [newPage EXCEPT ![t] = FALSE]
          /\ UNCHANGED pageNumber
     ELSE /\ pageNumber' = [pageNumber EXCEPT ![t] = @ + 1]
          /\ UNCHANGED <<pc, newPage>>
  /\ UNCHANGED <<disk, row, len, blockNumber, buffer, nextRow, deleted>>

(* Mutant: a page of the file is taken for a new one.                      *)
ReadPageFresh(t) ==
  /\ pc[t] = "read"
  /\ LET page == EmptyPage
     IN  IF Fits(page, len[t])
         THEN /\ Go(t, "read", "write")
              /\ buffer' = [buffer EXCEPT ![t] = Add(page, row[t], len[t])]
              /\ blockNumber' = [blockNumber EXCEPT ![t] = Len(page.slots) + 1]
         ELSE Go(t, "read", "drop") /\ UNCHANGED <<buffer, blockNumber>>
  /\ UNCHANGED <<disk, row, len, pageNumber, newPage, nextRow, deleted>>

(* The page that insertValueToDataFile works on.                           *)
PageToFill(t) == IF newPage[t] THEN EmptyPage ELSE data[pageNumber[t]]

(* Read the page, unless it is new, and add the row to the copy; -1 when   *)
(* the page has no room for it after all.                                  *)
ReadPage(t) ==
  /\ pc[t] = "read"
  /\ LET page == PageToFill(t)
     IN  IF Fits(page, len[t])
         THEN /\ Go(t, "read", "write")
              /\ buffer' = [buffer EXCEPT ![t] = Add(page, row[t], len[t])]
              /\ blockNumber' = [blockNumber EXCEPT ![t] = Len(page.slots) + 1]
         ELSE Go(t, "read", "drop") /\ UNCHANGED <<buffer, blockNumber>>
  /\ UNCHANGED <<disk, row, len, pageNumber, newPage, nextRow, deleted>>

WritePage(t) ==
  /\ Go(t, "write", "map")
  /\ data' = Put(data, pageNumber[t], buffer[t])
  /\ UNCHANGED <<pageMap, index, unplaced, row, len, pageNumber, blockNumber, newPage,
                 buffer, nextRow, deleted>>

(* Mutant: the block header is not counted as used.                        *)
WriteMapNoHeader(t) ==
  /\ Go(t, "map", "index")
  /\ pageMap' = Put(pageMap, pageNumber[t], Room(buffer[t]) - BlockHeaderSize)
  /\ UNCHANGED <<data, index, unplaced, row, len, pageNumber, blockNumber, newPage, buffer,
                 nextRow, deleted>>

WriteMap(t) ==
  /\ Go(t, "map", "index")
  /\ pageMap' = Put(pageMap, pageNumber[t], Room(buffer[t]))
  /\ UNCHANGED <<data, index, unplaced, row, len, pageNumber, blockNumber, newPage, buffer,
                 nextRow, deleted>>

(* Table::Insert hands the place of the row to the index ...               *)
IndexRow(t) ==
  /\ Go(t, "index", "idle")
  /\ index' = index \cup {[row |-> row[t], page |-> pageNumber[t], block |-> blockNumber[t]]}
  /\ UNCHANGED <<data, pageMap, unplaced, row, len, pageNumber, blockNumber, newPage, buffer,
                 nextRow, deleted>>

(* ... or, after a -1, a block of another key without a place.             *)
IndexPlaceholder(t) ==
  /\ Go(t, "drop", "idle")
  /\ unplaced' = unplaced \cup {row[t]}
  /\ UNCHANGED <<data, pageMap, index, row, len, pageNumber, blockNumber, newPage, buffer,
                 nextRow, deleted>>

-----------------------------------------------------------------------------
(* deleteData, on a version that a query has found through the index. *)

StartDelete(t) ==
  /\ Go(t, "idle", "readMark")
  /\ \E place \in index :
       /\ row' = [row EXCEPT ![t] = place.row]
       /\ pageNumber' = [pageNumber EXCEPT ![t] = place.page]
       /\ blockNumber' = [blockNumber EXCEPT ![t] = place.block]
  /\ UNCHANGED <<disk, len, newPage, buffer, nextRow, deleted>>

(* Mutant: the copy of the page of the previous statement is used again.   *)
ReadMarkCached(t) ==
  /\ Go(t, "readMark", "writeMark")
  /\ LET page == IF blockNumber[t] \in DOMAIN buffer[t].slots THEN buffer[t]
                                                              ELSE data[pageNumber[t]]
     IN  buffer' = [buffer EXCEPT ![t] = SetMark(page, blockNumber[t])]
  /\ UNCHANGED <<disk, row, len, pageNumber, blockNumber, newPage, nextRow, deleted>>

ReadMark(t) ==
  /\ Go(t, "readMark", "writeMark")
  /\ buffer' = [buffer EXCEPT ![t] = SetMark(data[pageNumber[t]], blockNumber[t])]
  /\ UNCHANGED <<disk, row, len, pageNumber, blockNumber, newPage, nextRow, deleted>>

WriteMark(t) ==
  /\ Go(t, "writeMark", "idle")
  /\ data' = Put(data, pageNumber[t], buffer[t])
  /\ deleted' = deleted \cup {row[t]}
  /\ UNCHANGED <<pageMap, index, unplaced, row, len, pageNumber, blockNumber, newPage, buffer,
                 nextRow>>

-----------------------------------------------------------------------------
Init ==
  /\ data = <<>> /\ pageMap = <<>> /\ index = {} /\ unplaced = {}
  /\ pc = [t \in Thread |-> "idle"]
  /\ row = [t \in Thread |-> 0] /\ len = [t \in Thread |-> 0]
  /\ pageNumber = [t \in Thread |-> 0] /\ blockNumber = [t \in Thread |-> 0]
  /\ newPage = [t \in Thread |-> FALSE]
  /\ buffer = [t \in Thread |-> EmptyPage]
  /\ nextRow = 1 /\ deleted = {}

(* The daemon dies between two writes and starts again.  A value copied    *)
(* beyond the page may kill it, too: it leaves the stack of the thread.    *)
Overruns(t) == pc[t] = "read" /\ len[t] > PageToFill(t).end

Crash ==
  /\ CanCrash \/ \E t \in Thread : Overruns(t)
  /\ pc' = [t \in Thread |-> "idle"]
  /\ row' = [t \in Thread |-> 0] /\ len' = [t \in Thread |-> 0]
  /\ pageNumber' = [t \in Thread |-> 0] /\ blockNumber' = [t \in Thread |-> 0]
  /\ newPage' = [t \in Thread |-> FALSE]
  /\ buffer' = [t \in Thread |-> EmptyPage]
  /\ UNCHANGED <<disk, nextRow, deleted>>

Step(t) == \/ StartInsert(t) \/ FindPage(t) \/ ReadPage(t) \/ WritePage(t) \/ WriteMap(t)
           \/ IndexRow(t) \/ IndexPlaceholder(t)
           \/ StartDelete(t) \/ ReadMark(t) \/ WriteMark(t)

Next == (\E t \in Thread : Step(t)) \/ Crash

Spec == Init /\ [][Next]_vars

-----------------------------------------------------------------------------
TypeOK ==
  /\ data \in Seq(Page)
  /\ pageMap \in Seq(0..(U16 - 1))
  /\ index \subseteq Place
  /\ unplaced \subseteq 1..MaxRow
  /\ pc \in [Thread -> Pc]
  /\ row \in [Thread -> 0..MaxRow]
  /\ len \in [Thread -> RowLen \cup {0}]
  /\ pageNumber \in [Thread -> Nat]
  /\ blockNumber \in [Thread -> Nat]
  /\ newPage \in [Thread -> BOOLEAN]
  /\ buffer \in [Thread -> Page]
  /\ nextRow \in 1..(MaxRow + 1)
  /\ deleted \subseteq 1..MaxRow

(* No two values of a page overlap, none reaches into the block headers or *)
(* beyond the page: what insertValueToDataFile copies stays in its place.  *)
WellFormed(page) ==
  /\ Beg(page) <= page.end /\ page.end <= PageSize
  /\ \A i \in DOMAIN page.slots :
       /\ page.slots[i].off >= page.end
       /\ page.slots[i].off + page.slots[i].len <= PageSize
       /\ \A j \in DOMAIN page.slots :
            i < j => page.slots[j].off + page.slots[j].len <= page.slots[i].off

PagesWellFormed == \A n \in DOMAIN data : WellFormed(data[n])

(* Every place the index holds, for as long as it holds it, has the row it *)
(* was given for, also after the daemon died between the page, the page    *)
(* file and the index.                                                     *)
RowsReadable == \A place \in index : ReadValue(place) = place.row

(* A mark that has been written stays: no later write of the page, made    *)
(* from a copy, takes it back.                                             *)
MarksStay ==
  \A place \in index :
    place.row \in deleted /\ ReadValue(place) = place.row
      => data[place.page].slots[place.block].marked

=============================================================================
