------------------------------- MODULE Btree -------------------------------
(***************************************************************************)
(* The index of a table, storage/btree.cpp: a B+ tree in a file of pages.  *)
(* An insertion reads the nodes from the root to a leaf, changes its       *)
(* copies of them and writes the changed ones back, one page a step and in *)
(* the order of the code; the daemon may die between two writes.  One      *)
(* connection inserts; the others may read the file at any step.           *)
(*                                                                         *)
(* A block of a leaf is a key and the number of the insertion, which       *)
(* stands for the place of the row; that of a separator is never used and  *)
(* left out, as is prevSibling.  Pages count from 1, the root is page 1,   *)
(* and 0 is "no page".  A node has as many blocks as fit, a number, since  *)
(* Block::size() is the same for all blocks of a level.                    *)
(***************************************************************************)
EXTENDS Naturals, Sequences, FiniteSets, SequencesExt

CONSTANTS
  MaxKey,         \* the keys are 1..MaxKey
  LeafCap,        \* blocks that fit into a leaf
  InnerCap,       \* blocks that fit into an inner node
  MaxInsert,      \* bound: insertions
  MaxCrash        \* bound: crashes in the middle of the writes of an insertion

ASSUME BtreeAssumption ==
  /\ MaxKey \in Nat \ {0} /\ MaxInsert \in Nat
  /\ LeafCap \in Nat \ {0} /\ InnerCap \in Nat /\ InnerCap >= 2
  /\ MaxCrash \in Nat

VARIABLES
  file,           \* the index file: a sequence of nodes
  pc,             \* where the insertion is
  new,            \* the block it inserts
  path,           \* its copies: the node, its page, the child taken, root first
  at,             \* the element of path that it splits or writes
  (* history *)
  nextId,         \* insertions are numbered
  inserted,       \* blocks whose insertion is complete
  torn            \* crashes that have cut the writes of an insertion

vars == <<file, pc, new, path, at, nextId, inserted, torn>>

Key == 1..MaxKey
Block == [key : Key, id : 0..MaxInsert]
Node == [leaf : BOOLEAN, blocks : Seq(Block), children : Seq(Nat \ {0}), next : Nat]
NoBlock == [key |-> 1, id |-> 0]

-----------------------------------------------------------------------------
(* Nodes. *)

Leaf(blocks) == [leaf |-> TRUE, blocks |-> blocks, children |-> <<>>, next |-> 0]

(* Mutant: equal keys are looked for on the right.                         *)
ChildRight(node, key) ==
  LET first == SelectInSeq(node.blocks, LAMBDA b : b.key > key)
  IN  IF first = 0 THEN Len(node.blocks) + 1 ELSE first

(* The child under which a key is looked for: the loops of insertHelper    *)
(* and of search stop at the first block that is not below the key.        *)
Child(node, key) ==
  LET first == SelectInSeq(node.blocks, LAMBDA b : b.key >= key)
  IN  IF first = 0 THEN Len(node.blocks) + 1 ELSE first

(* Mutant: the block is put at the end of the leaf.                        *)
AddSortedLast(node, block) == [node EXCEPT !.blocks = Append(@, block)]

(* insertHelper: the block goes behind the last one that is not above it.  *)
AddSorted(node, block) ==
  LET last == SelectLastInSeq(node.blocks, LAMBDA b : b.key <= block.key)
  IN  [node EXCEPT !.blocks = InsertAt(@, last + 1, block)]

(* insertAtIndex, and the assignment of the new child that follows it.     *)
AddChild(node, j, block, page) ==
  [node EXCEPT !.blocks = InsertAt(@, j, block),
               !.children = InsertAt(@, j + 1, page)]

Capacity(node) == IF node.leaf THEN LeafCap ELSE InnerCap

(* Mutant: one block too many.                                             *)
OverfullLate(node) == Len(node.blocks) > Capacity(node) + 1

Overfull(node) == Len(node.blocks) > Capacity(node)

Mid(node) == Len(node.blocks) \div 2

(* Mutant: the separator is the last block of the right half.              *)
SeparatorLast(node) == [node.blocks[Len(node.blocks)] EXCEPT !.id = 0]

(* The block in the middle is copied, a leaf keeps it in its right half.   *)
Separator(node) == [node.blocks[Mid(node) + 1] EXCEPT !.id = 0]

(* Mutant: the left half is not linked to the new node.                    *)
LeftHalfUnlinked(node, next) ==
  [node EXCEPT !.blocks = SubSeq(@, 1, Mid(node)),
               !.children = IF node.leaf THEN <<>> ELSE SubSeq(@, 1, Mid(node) + 1)]

LeftHalf(node, next) ==
  [node EXCEPT !.blocks = SubSeq(@, 1, Mid(node)),
               !.children = IF node.leaf THEN <<>> ELSE SubSeq(@, 1, Mid(node) + 1),
               !.next = next]

RightHalf(node, next) ==
  [node EXCEPT !.blocks = SubSeq(@, Mid(node) + (IF node.leaf THEN 1 ELSE 2), Len(@)),
               !.children = IF node.leaf THEN <<>> ELSE SubSeq(@, Mid(node) + 2, Len(@)),
               !.next = next]

-----------------------------------------------------------------------------
(* Btree::insert and insertHelper. *)

Visit(page, key) ==
  [page |-> page, node |-> file[page],
   j |-> IF file[page].leaf THEN 0 ELSE Child(file[page], key)]

(* The first insertion writes a leaf as the root.                          *)
Start(key) ==
  /\ pc = "idle" /\ nextId <= MaxInsert
  /\ new' = [key |-> key, id |-> nextId]
  /\ nextId' = nextId + 1
  /\ IF file = <<>>
     THEN /\ file' = <<Leaf(<<new'>>)>>
          /\ inserted' = inserted \cup {new'}
          /\ UNCHANGED <<pc, path>>
     ELSE /\ pc' = "descend"
          /\ path' = <<Visit(1, key)>>
          /\ UNCHANGED <<file, inserted>>
  /\ UNCHANGED <<at, torn>>

Descend ==
  /\ pc = "descend" /\ ~Last(path).node.leaf
  /\ LET page == Last(path).node.children[Last(path).j]
     IN  path' = Append(path, Visit(page, new.key))
  /\ UNCHANGED <<file, pc, new, at, nextId, inserted, torn>>

AddToLeaf ==
  /\ pc = "descend" /\ Last(path).node.leaf
  /\ LET leaf == AddSorted(Last(path).node, new)
     IN  /\ path' = [path EXCEPT ![Len(path)].node = leaf]
         /\ pc' = IF Overfull(leaf) THEN "split" ELSE "flush"
  /\ at' = Len(path)
  /\ UNCHANGED <<file, new, nextId, inserted, torn>>

-----------------------------------------------------------------------------
(* balance, for a node below the root: write the right half as a new page, *)
(* enter it in the parent, write the left half; then the parent may have   *)
(* to be split.                                                            *)

WriteRight ==
  /\ pc = "split" /\ at > 1
  /\ LET node == path[at].node
         page == Len(file) + 1
         j == path[at - 1].j
         parent == AddChild(path[at - 1].node, j, Separator(node), page)
         next == IF node.leaf THEN node.next
                 ELSE IF j + 2 \in DOMAIN parent.children THEN parent.children[j + 2]
                 ELSE 0
     IN  /\ file' = Append(file, RightHalf(node, next))
         /\ path' = [path EXCEPT ![at].node = LeftHalf(node, page),
                                 ![at - 1].node = parent]
  /\ pc' = "left"
  /\ UNCHANGED <<new, at, nextId, inserted, torn>>

WriteLeft ==
  /\ pc = "left"
  /\ file' = [file EXCEPT ![path[at].page] = path[at].node]
  /\ at' = at - 1
  /\ pc' = IF Overfull(path[at - 1].node) THEN "split" ELSE "flush"
  /\ UNCHANGED <<new, path, nextId, inserted, torn>>

(* The same for the root, which keeps its page: two new pages, linked to   *)
(* each other after they are written and before the root refers to them.   *)
WriteFirstChild ==
  /\ pc = "split" /\ at = 1
  /\ file' = Append(file, LeftHalf(path[1].node, 0))
  /\ pc' = "second"
  /\ UNCHANGED <<new, path, at, nextId, inserted, torn>>

WriteSecondChild ==
  /\ pc = "second"
  /\ file' = Append(file, RightHalf(path[1].node, 0))
  /\ pc' = "link"
  /\ UNCHANGED <<new, path, at, nextId, inserted, torn>>

LinkChildren ==
  /\ pc = "link"
  /\ LET c2 == Len(file)
         c1 == c2 - 1
     IN  /\ file' = [file EXCEPT ![c1].next = c2, ![c2].next = path[1].node.next]
         /\ path' = [path EXCEPT ![1].node.leaf = FALSE,
                                 ![1].node.blocks = <<Separator(path[1].node)>>,
                                 ![1].node.children = <<c1, c2>>]
  /\ pc' = "flush"
  /\ UNCHANGED <<new, at, nextId, inserted, torn>>

(* Every call of balance is followed by updateFlush in its caller, so that *)
(* the nodes are written from the last parent down to the leaf.            *)
Flush ==
  /\ pc = "flush"
  /\ file' = [file EXCEPT ![path[at].page] = path[at].node]
  /\ IF at < Len(path)
     THEN at' = at + 1 /\ UNCHANGED <<pc, path, inserted>>
     ELSE /\ pc' = "idle" /\ at' = 0 /\ path' = <<>>
          /\ inserted' = inserted \cup {new}
  /\ UNCHANGED <<new, nextId, torn>>

-----------------------------------------------------------------------------
Init ==
  /\ file = <<>> /\ pc = "idle" /\ new = NoBlock /\ path = <<>> /\ at = 0
  /\ nextId = 1 /\ inserted = {} /\ torn = 0

(* Before the first write a crash leaves no trace.                         *)
Crash ==
  /\ pc \notin {"idle", "descend"} /\ torn < MaxCrash
  /\ pc' = "idle" /\ new' = NoBlock /\ path' = <<>> /\ at' = 0
  /\ torn' = torn + 1
  /\ UNCHANGED <<file, nextId, inserted>>

Next ==
  \/ \E key \in Key : Start(key)
  \/ Descend \/ AddToLeaf
  \/ WriteRight \/ WriteLeft
  \/ WriteFirstChild \/ WriteSecondChild \/ LinkChildren
  \/ Flush
  \/ Crash

Spec == Init /\ [][Next]_vars

-----------------------------------------------------------------------------
(* Readers: Btree::search, Btree::beg and the walk of RangeQuery along     *)
(* nextSibling.                                                            *)

(* The leaf to which search descends for a key.                            *)
LeafFor(key) ==
  LET page[d \in 0..Len(file)] ==
        IF d = 0 THEN 1
        ELSE LET node == file[page[d - 1]]
             IN  IF node.leaf THEN page[d - 1] ELSE node.children[Child(node, key)]
  IN  page[Len(file)]

Found(key) ==
  file # <<>> /\ LET leaf == file[LeafFor(key)]
                 IN  \E i \in DOMAIN leaf.blocks : leaf.blocks[i].key = key

(* The blocks from a leaf to the end of the chain.                         *)
ChainFrom(first) ==
  LET page[d \in 1..Len(file)] ==
        IF d = 1 THEN first
        ELSE IF page[d - 1] = 0 THEN 0 ELSE file[page[d - 1]].next
  IN  FlattenSeq([d \in 1..Len(file) |-> IF page[d] = 0 THEN <<>> ELSE file[page[d]].blocks])

(* beg: down the first children.                                           *)
Beg ==
  LET page[d \in 0..Len(file)] ==
        IF d = 0 THEN 1
        ELSE LET node == file[page[d - 1]]
             IN  IF node.leaf THEN page[d - 1] ELSE node.children[1]
  IN  page[Len(file)]

Chain == IF file = <<>> THEN <<>> ELSE ChainFrom(Beg)

Separators == UNION {{file[p].blocks[i].key : i \in DOMAIN file[p].blocks} :
                       p \in {p \in DOMAIN file : ~file[p].leaf}}

-----------------------------------------------------------------------------
(* Types, and no copy of a node grows by more than one block beyond what   *)
(* fits before balance splits it.                                          *)
TypeOK ==
  /\ file \in Seq(Node)
  /\ pc \in {"idle", "descend", "split", "left", "second", "link", "flush"}
  /\ new \in Block
  /\ path \in Seq([page : Nat \ {0}, node : Node, j : Nat])
  /\ \A i \in DOMAIN path : Len(path[i].node.blocks) <= Capacity(path[i].node) + 1
  /\ at \in 0..Len(path)
  /\ nextId \in 1..(MaxInsert + 1)
  /\ inserted \subseteq Block
  /\ torn \in 0..MaxCrash

(* What writePage and updateFlush put into a page fits into it, an inner   *)
(* node has a child more than it has blocks, and all its children are      *)
(* pages of one kind: after any crash, too.                                *)
PagesFit ==
  \A p \in DOMAIN file :
    /\ Len(file[p].blocks) \in 1..Capacity(file[p])
    /\ ~file[p].leaf =>
         /\ Len(file[p].children) = Len(file[p].blocks) + 1
         /\ \A i, j \in DOMAIN file[p].children :
              /\ file[p].children[i] \in DOMAIN file
              /\ file[file[p].children[i]].leaf = file[file[p].children[j]].leaf

(* A scan along the leaves meets every inserted block exactly once: at     *)
(* every step of another insertion, and after any crash.                   *)
ChainComplete ==
  LET chain == Chain
  IN  \A b \in inserted : Cardinality({i \in DOMAIN chain : chain[i] = b}) = 1

(* The scan meets the blocks in the order of their keys, on which the      *)
(* bounds of RangeQuery rely, as long as no crash has cut an insertion.    *)
ChainSorted ==
  torn = 0 => LET chain == Chain
              IN  \A i \in 2..Len(chain) : chain[i - 1].key <= chain[i].key

(* Where search finds a key, no block of the key is in an earlier leaf, or *)
(* RangeQuery would miss some versions of the row and return the others.   *)
SearchFirst ==
  torn = 0 => \A key \in {b.key : b \in inserted} :
    Found(key) => {b \in inserted : b.key = key} \subseteq ToSet(ChainFrom(LeafFor(key)))

(* The only keys that search may miss are separators.                      *)
MissesAreSeparators ==
  pc = "idle" /\ torn = 0 =>
    \A key \in {b.key : b \in inserted} \ Separators : Found(key)

=============================================================================
