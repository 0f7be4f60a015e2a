------------------------- MODULE BtreeOrderProofs -------------------------
(***************************************************************************)
(* Proofs about what a reader of the index meets.  At every step of an     *)
(* insertion and after any crash, a scan along the leaves meets every      *)
(* block of an insertion that was finished, once; and as long as no crash  *)
(* has cut an insertion in two, it meets them in order, a search that      *)
(* finds a key leads to the first leaf that has it, and between two        *)
(* insertions a search misses nothing but keys of separators.              *)
(*                                                                         *)
(* The invariant is about a tree whose pages are written one at a time,    *)
(* while the insertion holds copies of some of them:                       *)
(*   Sync      which copy is ahead of its page;                            *)
(*   Heights   there are bounds lo and heights lvl, such that the children *)
(*             of a node start at its separators and lie one level lower:  *)
(*             a descent ends, and the leftmost leaf is the one bounded    *)
(*             by 0;                                                       *)
(*   Links     the leaves that the next pointers go through, and the live  *)
(*             pages, that a descent may reach: pages a crash has left     *)
(*             behind are not among them;                                  *)
(*   Contents  no block is in two leaves, every finished one is in one,    *)
(*             and which leaf the unfinished one comes to;                 *)
(*   Order     as long as nothing is torn: a leaf ends where the next one  *)
(*             starts, the bound hi of a leaf is where its parent has the  *)
(*             next separator, and par is the page a child hangs under.    *)
(* The scan and the search are functions defined by recursion.  That they  *)
(* exist, and what they are, is proved from the heights and the chain by   *)
(* the least number at which it would fail.                                *)
(***************************************************************************)
EXTENDS BtreeProofs, FiniteSetTheorems

-----------------------------------------------------------------------------
(* Where the copies are ahead of the file. *)

(* The elements of path that are not what the file has in their page.      *)
Changed(i) == \/ pc \in {"split", "second", "link", "flush"} /\ i = at
              \/ pc = "left" /\ i \in {at - 1, at}

(* The root has been given two leaves, and is a leaf in the file.          *)
RootGrows == pc = "flush" /\ at = 1 /\ file[1].leaf /\ ~path[1].node.leaf

Sync ==
  /\ \A i \in DOMAIN path :
       /\ ~Changed(i) => path[i].node = file[path[i].page]
       /\ i < Len(path) => ~path[i].node.leaf
       /\ Open(i) /\ i < Len(path) =>
            path[i + 1].page = path[i].node.children[path[i].j]
  /\ pc \notin {"idle", "descend"} =>
       path[Len(path)].node.leaf \/ (RootGrows /\ Len(path) = 1)
  /\ pc = "descend" /\ ~path[Len(path)].node.leaf =>
       path[Len(path)].j = Child(path[Len(path)].node, new.key)
  /\ pc = "second" => file[Len(file)] = LeftHalf(path[1].node, 0)
  /\ pc = "link" => /\ file[Len(file) - 1] = LeftHalf(path[1].node, 0)
                    /\ file[Len(file)] = RightHalf(path[1].node, 0)

-----------------------------------------------------------------------------
(* lo[p] is below or at all that page p may hold, lvl[p] the height of p.  *)

Heights(lo, lvl) ==
  /\ lo \in [DOMAIN file -> 0..MaxKey] /\ lvl \in [DOMAIN file -> Nat]
  /\ file # <<>> => lo[1] = 0 /\ lvl[1] < Len(file)
  /\ \A p \in DOMAIN file : Low(lo, file[p], lo[p]) /\ Level(lvl, file[p], lvl[p])
  /\ \A i \in DOMAIN path :
       /\ Low(lo, path[i].node, lo[path[i].page])
       /\ \/ Level(lvl, path[i].node, lvl[path[i].page])
          \/ /\ i = 1 /\ pc = "flush" /\ at = 1 /\ lvl[1] + 1 < Len(file)
             /\ Level(lvl, path[i].node, lvl[1] + 1)
  /\ \A i, j \in DOMAIN path : i < j => lvl[path[j].page] < lvl[path[i].page]
  /\ pc = "descend" => \A i \in DOMAIN path : lo[path[i].page] < new.key
  /\ pc \in {"second", "link"} => lvl[1] + 1 < Len(file)
  /\ pc = "second" => lo[Len(file)] = 0 /\ lvl[Len(file)] = lvl[1]
  /\ pc = "link" => /\ lo[Len(file) - 1] = 0 /\ lvl[Len(file) - 1] = lvl[1]
                    /\ lo[Len(file)] = Separator(path[1].node).key
                    /\ lvl[Len(file)] = lvl[1]

-----------------------------------------------------------------------------
(* chain is the leaves in the order of a scan, live a set of pages that    *)
(* has all that a descent can reach.                                       *)

(* Children of a copy that the file does not refer to yet.                 *)
Coming(i) ==
  IF pc = "left" /\ i + 1 = at /\ at = Len(path) THEN {Len(file)}
  ELSE IF RootGrows /\ i = 1 THEN {Len(file) - 1, Len(file)}
  ELSE {}

(* chain is the leaves, one behind the other, from the only one that has   *)
(* the bound 0.                                                            *)
Chained(lo, chain) ==
  /\ chain \in Seq(DOMAIN file) /\ Len(chain) <= Len(file)
  /\ \A i \in DOMAIN chain :
       /\ file[chain[i]].leaf
       /\ file[chain[i]].next = IF i < Len(chain) THEN chain[i + 1] ELSE 0
       /\ lo[chain[i]] = 0 <=> i = 1
  /\ \A i, j \in DOMAIN chain : chain[i] = chain[j] => i = j

(* The root is live, and what can be reached from a live page.             *)
Reached(live, chain) ==
  /\ live \subseteq DOMAIN file
  /\ file # <<>> => 1 \in live /\ chain # <<>> /\ (file[1].leaf => file[1].next = 0)
  /\ \A p \in live :
       IF file[p].leaf THEN \E i \in DOMAIN chain : p = chain[i]
       ELSE \A k \in DOMAIN file[p].children : file[p].children[k] \in live

(* What a copy refers to.                                                  *)
Referred(live) ==
  \A i \in DOMAIN path :
    /\ path[i].page \in live
    /\ ~path[i].node.leaf =>
         \A k \in DOMAIN path[i].node.children :
           path[i].node.children[k] \in live \cup Coming(i)
    /\ path[i].node.leaf /\ ~(pc = "left" /\ i = at) =>
         path[i].node.next = file[path[i].page].next

(* A leaf of which only the right half is written, and a root of which     *)
(* only the halves are.                                                    *)
Halved(lo, chain) ==
  pc = "left" /\ at = Len(path) =>
    /\ path[at].node.next = Len(file) /\ file[Len(file)].leaf
    /\ file[Len(file)].next = file[path[at].page].next
    /\ (\A i \in DOMAIN chain : chain[i] # Len(file)) /\ Len(chain) < Len(file)
    /\ lo[Len(file)] # 0
Doubled(lo) ==
  RootGrows =>
    /\ Len(path) = 1 /\ path[1].node.children = <<Len(file) - 1, Len(file)>>
    /\ file[Len(file) - 1].leaf /\ file[Len(file) - 1].next = Len(file)
    /\ file[Len(file)].leaf /\ file[Len(file)].next = 0
    /\ lo[Len(file) - 1] = 0 /\ lo[Len(file)] # 0

Links(lo, live, chain) ==
  /\ Chained(lo, chain) /\ Reached(live, chain) /\ Referred(live)
  /\ Halved(lo, chain) /\ Doubled(lo)

-----------------------------------------------------------------------------
(* What the leaves hold. *)

(* The leaf in the file does not have the new block yet.                   *)
Missing == \/ pc = "descend"
           \/ pc \in {"split", "left"} /\ at = Len(path)
           \/ pc \in {"second", "link"} /\ Len(path) = 1
           \/ RootGrows
           \/ pc = "flush" /\ at = Len(path) /\ path[at].node # file[path[at].page]

(* The blocks of a leaf are in order, and each has been inserted.          *)
Fine ==
  /\ \A p \in DOMAIN file : file[p].leaf =>
       NoDouble(file[p]) /\ Sorted(file[p]) /\ \A b \in BlocksOf(file[p]) : b.id < nextId
  /\ \A i \in DOMAIN path : path[i].node.leaf => NoDouble(path[i].node) /\ Sorted(path[i].node)
  /\ pc # "idle" => new.id < nextId

(* No block is in two leaves, and all that are inserted are in one.        *)
Apart(chain) ==
  \A i, j \in DOMAIN chain : i # j =>
    BlocksOf(file[chain[i]]) \cap BlocksOf(file[chain[j]]) = {}
Held(chain) ==
  /\ \A b \in inserted : \E i \in DOMAIN chain : b \in BlocksOf(file[chain[i]])
  /\ Missing => \A i \in DOMAIN chain : new \notin BlocksOf(file[chain[i]])
  /\ pc # "idle" /\ ~Missing => \E i \in DOMAIN chain : new \in BlocksOf(file[chain[i]])

(* What the leaf will have, or it and its other half.                      *)
Ahead ==
  /\ Missing /\ pc \notin {"descend", "left"} /\ ~RootGrows =>
       BlocksOf(path[Len(path)].node) = BlocksOf(file[path[Len(path)].page]) \cup {new}
  /\ Missing /\ pc = "left" =>
       /\ BlocksOf(path[at].node) \cup BlocksOf(file[Len(file)])
            = BlocksOf(file[path[at].page]) \cup {new}
       /\ BlocksOf(path[at].node) \cap BlocksOf(file[Len(file)]) = {}
  /\ RootGrows =>
       /\ BlocksOf(file[Len(file) - 1]) \cup BlocksOf(file[Len(file)])
            = BlocksOf(file[1]) \cup {new}
       /\ BlocksOf(file[Len(file) - 1]) \cap BlocksOf(file[Len(file)]) = {}

Contents(chain) == Fine /\ Apart(chain) /\ Held(chain) /\ Ahead

-----------------------------------------------------------------------------
(* As long as no crash has cut an insertion: hi[p] is above or at all that *)
(* page p may hold, par[p] the page that has it as a child.                *)

(* Pages that have no place in the tree yet.                               *)
Pending(p) == \/ pc = "second" /\ p = Len(file)
              \/ pc = "link" /\ p \in {Len(file) - 1, Len(file)}
Own(p) == ~Pending(p) /\ \A i \in DOMAIN path : path[i].page # p

Tights(lo) ==
  /\ \A p \in DOMAIN file : Tight(lo, file[p])
  /\ \A i \in DOMAIN path : Tight(lo, path[i].node)
Highs(lo, hi, par) ==
  /\ hi \in [DOMAIN file -> 1..Inf] /\ par \in [DOMAIN file -> Nat]
  /\ file # <<>> => hi[1] = Inf
  /\ \A p \in DOMAIN file : Own(p) => High(lo, hi, par, file[p], p)
  /\ \A i \in DOMAIN path : High(lo, hi, par, path[i].node, path[i].page)

(* The key belongs where the insertion goes, the halves below the root.    *)
Aimed(hi, par) ==
  /\ pc = "descend" => \A i \in DOMAIN path : new.key <= hi[path[i].page]
  /\ pc = "second" => hi[Len(file)] = Separator(path[1].node).key /\ par[Len(file)] = 1
  /\ pc = "link" => /\ hi[Len(file) - 1] = Separator(path[1].node).key
                    /\ hi[Len(file)] = Inf
                    /\ par[Len(file) - 1] = 1 /\ par[Len(file)] = 1

Order(lo, hi, par) == Tights(lo) /\ Highs(lo, hi, par) /\ Aimed(hi, par)

(* Every lower bound but 0 is a separator.                                 *)
Known(key) ==
  \/ \E i \in DOMAIN path : ~path[i].node.leaf
       /\ \E k \in DOMAIN path[i].node.blocks : path[i].node.blocks[k].key = key
  \/ \E p \in DOMAIN file : ~file[p].leaf /\ Own(p)
       /\ \E k \in DOMAIN file[p].blocks : file[p].blocks[k].key = key
LowsKnown(lo) ==
  \A p \in DOMAIN file : ~(pc = "link" /\ p = Len(file)) => lo[p] = 0 \/ Known(lo[p])

-----------------------------------------------------------------------------
(* The inductive invariant: the tree has bounds, heights, a chain and, as  *)
(* long as it is whole, an order.                                          *)
Tree(lo, lvl, live, chain) ==
  Heights(lo, lvl) /\ Links(lo, live, chain) /\ Contents(chain)
Whole(lo, hi, par) == torn = 0 => Order(lo, hi, par) /\ LowsKnown(lo)
Ordered ==
  \E lo, lvl, live, chain, hi, par : Tree(lo, lvl, live, chain) /\ Whole(lo, hi, par)
OInv == IInv /\ Sync /\ Ordered

-----------------------------------------------------------------------------
(* What each step changes, as far as the invariant speaks of it. *)

LEMMA FileFacts ==
  ASSUME IInv, NEW p \in DOMAIN file
  PROVE  /\ file[p] \in Node /\ Sound(file, file[p]) /\ p \in Nat \ {0} /\ p <= Len(file)
         /\ file[p].leaf \in BOOLEAN
         /\ ~file[p].leaf => Len(file[p].children) = Len(file[p].blocks) + 1
  <1>1. file[p] \in Node /\ Fits(file, file[p]) /\ p \in Nat \ {0} /\ p <= Len(file)
    BY PathFacts DEF IInv, Pages
  <1>2. file[p].leaf \in BOOLEAN
    BY <1>1, NodeFacts
  <1> QED BY <1>1, <1>2 DEF Fits, Sound

LEMMA ElementFacts ==
  ASSUME IInv, NEW i \in DOMAIN path
  PROVE  /\ path[i].node \in Node /\ Sound(file, path[i].node) /\ path[i].page \in DOMAIN file
         /\ path[i].node.leaf \in BOOLEAN /\ (path[i].page = 1 <=> i = 1)
         /\ i # 1 => file[path[i].page].leaf = path[i].node.leaf
         /\ ~path[i].node.leaf => Len(path[i].node.children) = Len(path[i].node.blocks) + 1
  <1>1. path[i].node \in Node /\ CopyOf(file, path[i], i)
    BY CopyFacts DEF IInv, Copies
  <1>2. path[i].node.leaf \in BOOLEAN
    BY <1>1, NodeFacts, Zenon
  <1> QED BY <1>1, <1>2 DEF CopyOf, Sound

LEMMA Shape ==
  ASSUME IInv
  PROVE  /\ Len(path) \in Nat /\ DOMAIN path = 1..Len(path)
         /\ Len(file) \in Nat /\ DOMAIN file = 1..Len(file)
         /\ at \in Nat /\ at <= Len(path) /\ new \in Block /\ new.key \in Key
         /\ pc \in {"idle", "descend", "split", "left", "second", "link", "flush"}
         /\ pc = "idle" <=> path = <<>>
         /\ pc # "idle" => 1 \in DOMAIN path /\ Len(path) >= 1 /\ 1 \in DOMAIN file
         /\ pc \notin {"idle", "descend"} => at \in DOMAIN path
         /\ pc = "left" => at > 1
         /\ pc \in {"second", "link"} => at = 1
         /\ pc = "second" => Len(file) \in DOMAIN file /\ Len(file) # 1
         /\ pc = "link" => /\ Len(file) \in DOMAIN file /\ Len(file) - 1 \in DOMAIN file
                           /\ Len(file) - 1 # 1 /\ Len(file) # 1 /\ Len(file) - 1 # Len(file)
                           /\ file[Len(file)].leaf = path[1].node.leaf
                           /\ file[Len(file) - 1].leaf = path[1].node.leaf
  <1>1. /\ Len(path) \in Nat /\ DOMAIN path = 1..Len(path) /\ path \in Seq(Copy)
        /\ Len(file) \in Nat /\ DOMAIN file = 1..Len(file) /\ at \in 0..Len(path)
    BY PathFacts DEF IInv
  <1>2. /\ pc = "idle" <=> path = <<>>
        /\ pc \notin {"idle", "descend"} => at >= 1
        /\ pc = "left" => at > 1
        /\ pc \in {"second", "link"} => at = 1
        /\ pc = "second" => Len(file) >= 2
        /\ pc = "link" => /\ Len(file) >= 3 /\ file[Len(file)].leaf = path[1].node.leaf
                          /\ file[Len(file) - 1].leaf = path[1].node.leaf
    BY DEF IInv, Phase, Kind
  <1>3. /\ new \in Block /\ new.key \in Key
        /\ pc \in {"idle", "descend", "split", "left", "second", "link", "flush"}
    BY BlockFacts DEF IInv, TypeOK
  <1>4. path # <<>> => 1 \in DOMAIN path /\ Len(path) >= 1
    BY <1>1
  <1>5. 1 \in DOMAIN path => 1 \in DOMAIN file
    BY ElementFacts
  <1>6. pc = "second" => Len(file) \in DOMAIN file /\ Len(file) # 1
    BY <1>1, <1>2
  <1>7. pc = "link" => /\ Len(file) \in DOMAIN file /\ Len(file) - 1 \in DOMAIN file
                       /\ Len(file) - 1 # 1 /\ Len(file) # 1 /\ Len(file) - 1 # Len(file)
    <2> SUFFICES ASSUME pc = "link"
                 PROVE  /\ Len(file) \in 1..Len(file) /\ Len(file) - 1 \in 1..Len(file)
                        /\ Len(file) - 1 # 1 /\ Len(file) # 1 /\ Len(file) - 1 # Len(file)
      BY <1>1, Zenon
    <2>1. Len(file) >= 3 /\ Len(file) \in Nat
      BY <1>1, <1>2
    <2> DEFINE n == Len(file)
    <2> HIDE DEF n
    <2>2. n >= 3 /\ n \in Nat
      BY <2>1 DEF n
    <2>3. n \in 1..n /\ n - 1 \in 1..n /\ n - 1 # 1 /\ n # 1 /\ n - 1 # n
      BY <2>2
    <2> QED BY <2>3, Zenon DEF n
  <1>8. at \in Nat /\ at <= Len(path) /\ (at >= 1 => at \in DOMAIN path)
    BY <1>1
  <1> QED BY <1>1, <1>2, <1>3, <1>4, <1>5, <1>6, <1>7, <1>8, Zenon

(* The first insertion, and the start of another one.                      *)
LEMMA StartFirstEffect ==
  ASSUME IInv, NEW key \in Key, Start(key), file = <<>>
  PROVE  /\ pc = "idle" /\ pc' = "idle" /\ path = <<>> /\ path' = <<>> /\ at' = at
         /\ DOMAIN path = {} /\ DOMAIN path' = {}
         /\ Len(file') = 1 /\ DOMAIN file' = {1} /\ DOMAIN file = {}
         /\ file'[1] = Leaf(<<new'>>) /\ file'[1].leaf /\ file'[1].next = 0
         /\ DOMAIN file'[1].blocks = {1} /\ file'[1].blocks[1] = new'
         /\ inserted' = inserted \cup {new'} /\ torn' = torn
         /\ new' \in Block /\ new'.id = nextId /\ nextId' = nextId + 1 /\ nextId \in Nat
  <1>1. /\ pc = "idle" /\ pc' = pc /\ path' = path /\ at' = at /\ file' = <<Leaf(<<new'>>)>>
        /\ inserted' = inserted \cup {new'} /\ torn' = torn
        /\ new' = [key |-> key, id |-> nextId] /\ nextId' = nextId + 1
    BY DEF Start
  <1>2. path = <<>> /\ nextId \in Nat
    BY <1>1, Shape DEF IInv, TypeOK
  <1>3. nextId <= MaxInsert
    BY DEF Start
  <1>4. new' \in Block
    BY <1>1, <1>2, <1>3, BtreeAssumption DEF Block
  <1>5. new'.id = nextId
    BY <1>1
  <1> HIDE <1>1
  <1> QED BY <1>1, <1>2, <1>4, <1>5 DEF Leaf

LEMMA StartEffect ==
  ASSUME IInv, NEW key \in Key, Start(key), file # <<>>
  PROVE  /\ pc = "idle" /\ pc' = "descend" /\ path = <<>> /\ at' = at
         /\ DOMAIN path' = {1} /\ Len(path') = 1
         /\ path'[1].page = 1 /\ path'[1].node = file[1]
         /\ ~file[1].leaf => path'[1].j = Child(file[1], key)
         /\ file' = file /\ 1 \in DOMAIN file
         /\ inserted' = inserted /\ torn' = torn
         /\ new' \in Block /\ new'.id = nextId /\ nextId' = nextId + 1 /\ nextId \in Nat
         /\ new'.key = key
  <1>1. /\ pc = "idle" /\ pc' = "descend" /\ path' = <<Visit(1, key)>> /\ at' = at
        /\ file' = file /\ inserted' = inserted /\ torn' = torn
        /\ new' = [key |-> key, id |-> nextId] /\ nextId' = nextId + 1
    BY DEF Start
  <1>2. path = <<>> /\ nextId \in Nat /\ Len(file) \in Nat /\ DOMAIN file = 1..Len(file)
        /\ file \in Seq(Node)
    BY <1>1, Shape, PathFacts DEF IInv, TypeOK
  <1>3. 1 \in DOMAIN file
    BY <1>2
  <1>4. nextId <= MaxInsert
    BY DEF Start
  <1>5. new' \in Block
    BY <1>1, <1>2, <1>4, BtreeAssumption DEF Block
  <1>6. new'.id = nextId /\ new'.key = key
    BY <1>1
  <1>7. DOMAIN path' = {1} /\ Len(path') = 1 /\ path'[1] = Visit(1, key)
    BY <1>1
  <1> QED BY <1>1, <1>2, <1>3, <1>5, <1>6, <1>7 DEF Visit

(* The page below the last copy joins the path.                            *)
NextPage == path[Len(path)].node.children[path[Len(path)].j]

LEMMA DescendEffect ==
  ASSUME IInv, Descend
  PROVE  /\ pc = "descend" /\ pc' = "descend" /\ at' = at /\ file' = file
         /\ new' = new /\ nextId' = nextId /\ inserted' = inserted /\ torn' = torn
         /\ Len(path) \in DOMAIN path /\ ~path[Len(path)].node.leaf
         /\ path[Len(path)].j \in DOMAIN path[Len(path)].node.children
         /\ Len(path') = Len(path) + 1 /\ DOMAIN path' = DOMAIN path \cup {Len(path) + 1}
         /\ Len(path) + 1 \notin DOMAIN path
         /\ \A i \in DOMAIN path : path'[i] = path[i]
         /\ path'[Len(path) + 1].page = NextPage
         /\ path'[Len(path) + 1].node = file[NextPage]
         /\ ~file[NextPage].leaf => path'[Len(path) + 1].j = Child(file[NextPage], new.key)
         /\ NextPage \in DOMAIN file
  <1> DEFINE l == Len(path)
             last == path[l]
             e == Visit(NextPage, new.key)
  <1>1. /\ pc = "descend" /\ ~last.node.leaf /\ path' = Append(path, e)
        /\ file' = file /\ pc' = pc /\ new' = new /\ at' = at /\ nextId' = nextId
        /\ inserted' = inserted /\ torn' = torn
    BY DEF Descend, Last, NextPage
  <1>2. l \in DOMAIN path /\ l \in Nat /\ DOMAIN path = 1..l /\ l >= 1 /\ path \in Seq(Copy)
    BY <1>1, Shape, PathFacts DEF IInv
  <1>3. last.j \in DOMAIN last.node.children
    BY <1>1, <1>2 DEF IInv, Copies, Open, Chosen
  <1>4. NextPage \in DOMAIN file
    BY <1>1, <1>2, <1>3, ElementFacts DEF NextPage, Sound
  <1> HIDE DEF l, e
  <1>5. /\ Len(path') = l + 1 /\ DOMAIN path' = 1..(l + 1)
        /\ \A i \in DOMAIN path : path'[i] = path[i]
        /\ path'[l + 1] = e
    BY <1>1, <1>2 DEF l
  <1>6. DOMAIN path' = DOMAIN path \cup {l + 1} /\ l + 1 \notin DOMAIN path
    BY <1>2, <1>5
  <1> QED BY <1>1, <1>2, <1>3, <1>4, <1>5, <1>6 DEF Visit, l, e

LEMMA AddToLeafEffect ==
  ASSUME IInv, AddToLeaf
  PROVE  /\ pc = "descend" /\ pc' \in {"split", "flush"} /\ file' = file
         /\ new' = new /\ nextId' = nextId /\ inserted' = inserted /\ torn' = torn
         /\ at' = Len(path) /\ Len(path') = Len(path) /\ DOMAIN path' = DOMAIN path
         /\ Len(path) \in DOMAIN path /\ path[Len(path)].node.leaf
         /\ path'[Len(path)].node = AddSorted(path[Len(path)].node, new)
         /\ path'[Len(path)].page = path[Len(path)].page
         /\ path'[Len(path)].node.leaf
         /\ path'[Len(path)].node.next = path[Len(path)].node.next
         /\ \A i \in DOMAIN path \ {Len(path)} : path'[i] = path[i]
  <1> DEFINE l == Len(path)
             leaf == AddSorted(path[l].node, new)
  <1>1. /\ pc = "descend" /\ path[l].node.leaf /\ path' = [path EXCEPT ![l].node = leaf]
        /\ pc' = IF Overfull(leaf) THEN "split" ELSE "flush"
        /\ at' = l /\ file' = file /\ new' = new /\ nextId' = nextId
        /\ inserted' = inserted /\ torn' = torn
    BY DEF AddToLeaf, Last
  <1>2. l \in DOMAIN path /\ l \in 1..Len(path) /\ path \in Seq(Copy)
    BY <1>1, Shape, PathFacts DEF IInv
  <1>3. path[l].node \in Node /\ new \in Block
    BY <1>2, ElementFacts, Shape, Zenon
  <1>4. leaf \in Node
    BY <1>3, AddSortedLemma
  <1>5. leaf.leaf = path[l].node.leaf /\ leaf.next = path[l].node.next
    BY <1>3, AddSortedParts
  <1> HIDE DEF leaf
  <1>6. /\ Len(path') = Len(path) /\ DOMAIN path' = DOMAIN path
        /\ path'[l].node = leaf /\ path'[l].page = path[l].page
        /\ \A i \in DOMAIN path \ {l} : path'[i] = path[i]
    <2>1. /\ path' = [path EXCEPT ![l].node = leaf] /\ path \in Seq(Copy)
          /\ l \in 1..Len(path) /\ leaf \in Node
      BY <1>1, <1>2, <1>4
    <2> HIDE DEF l
    <2> QED BY <2>1, SetNode
  <1>7. pc' \in {"split", "flush"}
    BY <1>1
  <1>8. path'[l].node.leaf /\ path'[l].node.next = path[l].node.next
    BY <1>1, <1>5, <1>6
  <1> QED BY <1>1, <1>2, <1>6, <1>7, <1>8 DEF leaf

(* The node that balance splits, the one above it and the new page.        *)
Up == at - 1
Parted == path[at].node
Above == path[Up].node
Sep == Separator(Parted)
Fresh == Len(file) + 1
Parent == AddChild(Above, path[Up].j, Sep, Fresh)
RightNext ==
  IF Parted.leaf THEN Parted.next
  ELSE IF path[Up].j + 2 \in DOMAIN Parent.children THEN Parent.children[path[Up].j + 2]
  ELSE 0
RightPart == RightHalf(Parted, RightNext)
LeftPart == LeftHalf(Parted, Fresh)

LEMMA WriteRightEffect ==
  ASSUME IInv, WriteRight
  PROVE  /\ pc = "split" /\ pc' = "left" /\ at' = at /\ at \in DOMAIN path /\ Up \in DOMAIN path
         /\ Up + 1 = at /\ Up \in Nat /\ at \in Nat /\ Up # at /\ at # 1
         /\ new' = new /\ nextId' = nextId /\ inserted' = inserted /\ torn' = torn
         /\ Len(path') = Len(path) /\ DOMAIN path' = DOMAIN path
         /\ path'[at].node = LeftPart /\ path'[Up].node = Parent
         /\ \A i \in DOMAIN path \ {Up, at} : path'[i].node = path[i].node
         /\ \A i \in DOMAIN path : path'[i].page = path[i].page /\ path'[i].j = path[i].j
         /\ Len(file') = Fresh /\ DOMAIN file' = DOMAIN file \cup {Fresh}
         /\ Fresh \notin DOMAIN file /\ Fresh \in Nat \ {0} /\ Fresh # 1
         /\ file'[Fresh] = RightPart /\ \A p \in DOMAIN file : file'[p] = file[p]
  <1>1. /\ pc = "split" /\ at > 1
        /\ file' = Append(file, RightPart)
        /\ path' = [[path EXCEPT ![at].node = LeftPart] EXCEPT ![Up].node = Parent]
        /\ pc' = "left"
        /\ new' = new /\ at' = at /\ nextId' = nextId
        /\ inserted' = inserted /\ torn' = torn
    BY DEF WriteRight, RightPart, LeftPart, Parent, RightNext, Sep, Parted, Above, Fresh, Up
  <1>2. /\ Up \in Nat /\ Up + 1 = at /\ Up # at /\ at \in Nat /\ at # 1
        /\ at \in DOMAIN path /\ Up \in DOMAIN path
    BY <1>1, Shape DEF Up
  <1>3. path \in Seq(Copy) /\ path' \in Seq(Copy) /\ file \in Seq(Node)
    <2>1. IInv'
      BY WriteRightKeeps
    <2> QED BY <2>1, PathFacts DEF IInv, TypeOK, Copy
  <1>4. Fresh \notin DOMAIN file /\ Fresh \in Nat \ {0} /\ Fresh # 1
    BY <1>1, Shape DEF Fresh
  <1>5. /\ Len(file') = Fresh /\ DOMAIN file' = DOMAIN file \cup {Fresh}
        /\ file'[Fresh] = RightPart /\ \A p \in DOMAIN file : file'[p] = file[p]
    BY <1>1, <1>3 DEF Fresh
  <1>6. /\ Len(path') = Len(path) /\ DOMAIN path' = DOMAIN path
        /\ path'[at].node = LeftPart /\ path'[Up].node = Parent
        /\ \A i \in DOMAIN path \ {Up, at} : path'[i].node = path[i].node
        /\ \A i \in DOMAIN path : path'[i].page = path[i].page /\ path'[i].j = path[i].j
    <2> DEFINE s == [path EXCEPT ![at].node = LeftPart]
    <2>1. DOMAIN s = DOMAIN path /\ DOMAIN path' = DOMAIN s
      BY <1>1
    <2>2. \A i \in DOMAIN path : path[i] \in Copy
      BY <1>3
    <2>3. /\ s[at].node = LeftPart
          /\ \A i \in DOMAIN path \ {at} : s[i] = path[i]
          /\ s[at].page = path[at].page /\ s[at].j = path[at].j
      BY <1>2, <2>2 DEF Copy
    <2>4. path' = [s EXCEPT ![Up].node = Parent]
      BY <1>1
    <2> HIDE DEF s
    <2>5. s[Up] = path[Up] /\ s[Up] \in Copy
      BY <1>2, <2>2, <2>3
    <2>6. /\ path'[Up].node = Parent /\ \A i \in DOMAIN path \ {Up} : path'[i] = s[i]
          /\ path'[Up].page = s[Up].page /\ path'[Up].j = s[Up].j
      BY <1>2, <2>1, <2>4, <2>5 DEF Copy
    <2>7. Len(path') = Len(path)
      <3>1. DOMAIN path' = DOMAIN path
        BY <2>1
      <3> QED BY <1>3, <3>1
    <2> QED BY <1>2, <2>1, <2>3, <2>5, <2>6, <2>7
  <1> QED BY <1>1, <1>2, <1>4, <1>5, <1>6

(* What is known of the two nodes.                                         *)
LEMMA PartedFacts ==
  ASSUME IInv, pc \in {"split", "second", "link"}
  PROVE  /\ Parted \in Node /\ Len(Parted.blocks) = Capacity(Parted) + 1
         /\ Sound(file, Parted) /\ Parted.leaf \in BOOLEAN
         /\ ~Parted.leaf => Len(Parted.children) = Len(Parted.blocks) + 1
         /\ Sep \in Block /\ Sep.key \in 1..MaxKey /\ Sep.key # 0
         /\ path[at].page \in DOMAIN file /\ at \in DOMAIN path
  <1>1. at \in DOMAIN path
    BY Shape, Zenon
  <1>2. /\ Parted \in Node /\ Len(Parted.blocks) = Capacity(Parted) + 1
        /\ Sound(file, Parted) /\ path[at].page \in DOMAIN file
        /\ ~Parted.leaf => Len(Parted.children) = Len(Parted.blocks) + 1
        /\ Parted.leaf \in BOOLEAN
    <2>1. Full(path[at].node)
      BY DEF IInv, Phase
    <2> QED BY <1>1, <2>1, ElementFacts DEF Parted, Full
  <1>3. Sep \in Block
    <2>1. 0 \in Nat
      OBVIOUS
    <2> QED BY <1>2, <2>1, SplitLemma DEF Sep
  <1>4. Sep.key \in 1..MaxKey /\ Sep.key # 0
    BY <1>3, BlockFacts DEF Key
  <1> QED BY <1>1, <1>2, <1>3, <1>4, Zenon

LEMMA AboveFacts ==
  ASSUME IInv, Sync, pc = "split", at > 1
  PROVE  /\ Above \in Node /\ Sound(file, Above) /\ ~Above.leaf
         /\ Len(Above.children) = Len(Above.blocks) + 1
         /\ path[Up].j \in DOMAIN Above.children
         /\ Above.children[path[Up].j] = path[at].page
         /\ path[Up].page \in DOMAIN file /\ Up \in DOMAIN path /\ Up + 1 = at
         /\ \A k \in DOMAIN Above.children : Above.children[k] \in DOMAIN file \ {1}
         /\ Fresh \in Nat \ {0}
  <1>1. Up \in DOMAIN path /\ Up + 1 = at /\ Up < Len(path) /\ Up + 1 \in DOMAIN path /\ Open(Up)
    BY Shape DEF Up, Open
  <1>2. Chosen(path[Up]) /\ Under(file, path[Up], path[Up + 1])
    BY <1>1 DEF IInv, Copies
  <1>3. ~Above.leaf /\ path[Up].j \in DOMAIN Above.children
    BY <1>2 DEF Chosen, Under, Above
  <1>4. Above.children[path[Up].j] = path[at].page
    BY <1>1 DEF Sync, Above
  <1>5. /\ Above \in Node /\ Sound(file, Above) /\ path[Up].page \in DOMAIN file
        /\ Len(Above.children) = Len(Above.blocks) + 1
    BY <1>1, <1>3, ElementFacts DEF Above
  <1>6. Fresh \in Nat \ {0}
    BY Shape DEF Fresh
  <1>7. \A k \in DOMAIN Above.children : Above.children[k] \in DOMAIN file \ {1}
    BY <1>3, <1>5 DEF Sound
  <1> QED BY <1>1, <1>3, <1>4, <1>5, <1>6, <1>7

LEMMA WriteLeftEffect ==
  ASSUME IInv, WriteLeft
  PROVE  /\ pc = "left" /\ pc' \in {"split", "flush"} /\ at' = Up
         /\ at \in DOMAIN path /\ Up \in DOMAIN path
         /\ Up + 1 = at /\ Up \in Nat /\ at \in Nat /\ Up # at /\ at # 1
         /\ path' = path /\ new' = new /\ nextId' = nextId /\ inserted' = inserted /\ torn' = torn
         /\ Len(file') = Len(file) /\ DOMAIN file' = DOMAIN file
         /\ path[at].page \in DOMAIN file /\ path[at].page # 1
         /\ file'[path[at].page] = path[at].node
         /\ \A p \in DOMAIN file \ {path[at].page} : file'[p] = file[p]
  <1>1. /\ pc = "left" /\ file' = [file EXCEPT ![path[at].page] = path[at].node]
        /\ at' = Up /\ path' = path /\ new' = new /\ nextId' = nextId
        /\ inserted' = inserted /\ torn' = torn
    BY DEF WriteLeft, Up
  <1>2. pc' \in {"split", "flush"}
    BY DEF WriteLeft
  <1>3. /\ Up \in Nat /\ Up + 1 = at /\ Up # at /\ at \in Nat /\ at # 1
        /\ at \in DOMAIN path /\ Up \in DOMAIN path
    BY <1>1, Shape DEF Up
  <1>4. path[at].page \in DOMAIN file /\ path[at].page # 1
    BY <1>3, ElementFacts
  <1>5. file \in Seq(Node) /\ file' \in Seq(Node)
    <2>1. IInv'
      BY WriteLeftKeeps
    <2> QED BY <2>1 DEF IInv, TypeOK
  <1>6. DOMAIN file' = DOMAIN file /\ Len(file') = Len(file)
    BY <1>1, <1>5
  <1> QED BY <1>1, <1>2, <1>3, <1>4, <1>6

LEMMA WriteFirstChildEffect ==
  ASSUME IInv, WriteFirstChild
  PROVE  /\ pc = "split" /\ pc' = "second" /\ at = 1 /\ at' = 1
         /\ path' = path /\ new' = new /\ nextId' = nextId /\ inserted' = inserted /\ torn' = torn
         /\ Len(file') = Fresh /\ DOMAIN file' = DOMAIN file \cup {Fresh}
         /\ Fresh \notin DOMAIN file /\ Fresh \in Nat \ {0} /\ Fresh # 1
         /\ file'[Fresh] = LeftHalf(Parted, 0) /\ \A p \in DOMAIN file : file'[p] = file[p]
  <1>1. /\ pc = "split" /\ at = 1 /\ file' = Append(file, LeftHalf(Parted, 0)) /\ pc' = "second"
        /\ path' = path /\ at' = at
        /\ new' = new /\ nextId' = nextId /\ inserted' = inserted /\ torn' = torn
    BY DEF WriteFirstChild, Parted
  <1>2. file \in Seq(Node)
    BY PathFacts DEF IInv
  <1>3. Fresh \notin DOMAIN file /\ Fresh \in Nat \ {0} /\ Fresh # 1
    BY <1>1, Shape DEF Fresh
  <1>4. /\ Len(file') = Fresh /\ DOMAIN file' = DOMAIN file \cup {Fresh}
        /\ file'[Fresh] = LeftHalf(Parted, 0) /\ \A p \in DOMAIN file : file'[p] = file[p]
    BY <1>1, <1>2 DEF Fresh
  <1> QED BY <1>1, <1>3, <1>4

LEMMA WriteSecondChildEffect ==
  ASSUME IInv, WriteSecondChild
  PROVE  /\ pc = "second" /\ pc' = "link" /\ at = 1 /\ at' = 1
         /\ path' = path /\ new' = new /\ nextId' = nextId /\ inserted' = inserted /\ torn' = torn
         /\ Len(file') = Fresh /\ DOMAIN file' = DOMAIN file \cup {Fresh}
         /\ Fresh \notin DOMAIN file /\ Fresh \in Nat \ {0} /\ Fresh # 1
         /\ Len(file') - 1 = Len(file) /\ Len(file) \in DOMAIN file
         /\ file'[Fresh] = RightHalf(Parted, 0) /\ \A p \in DOMAIN file : file'[p] = file[p]
  <1>1. /\ pc = "second" /\ file' = Append(file, RightHalf(path[1].node, 0)) /\ pc' = "link"
        /\ path' = path /\ at' = at
        /\ new' = new /\ nextId' = nextId /\ inserted' = inserted /\ torn' = torn
    BY DEF WriteSecondChild
  <1>2. file \in Seq(Node) /\ at = 1 /\ Len(file) \in DOMAIN file
    BY <1>1, PathFacts, Shape DEF IInv
  <1>3. Fresh \notin DOMAIN file /\ Fresh \in Nat \ {0} /\ Fresh # 1
    BY <1>1, Shape DEF Fresh
  <1>4. /\ Len(file') = Fresh /\ DOMAIN file' = DOMAIN file \cup {Fresh}
        /\ file'[Fresh] = RightHalf(Parted, 0) /\ \A p \in DOMAIN file : file'[p] = file[p]
    BY <1>1, <1>2 DEF Fresh, Parted
  <1>5. Len(file') - 1 = Len(file)
    <2>1. Len(file) \in Nat /\ Len(file') = Len(file) + 1
      BY <1>4, Shape, Zenon DEF Fresh
    <2> QED BY ONLY <2>1
  <1> QED BY <1>1, <1>2, <1>3, <1>4, <1>5

(* The two new pages of a root.                                            *)
First == Len(file) - 1
Second == Len(file)

LEMMA LinkChildrenEffect ==
  ASSUME IInv, LinkChildren
  PROVE  /\ pc = "link" /\ pc' = "flush" /\ at = 1 /\ at' = 1
         /\ new' = new /\ nextId' = nextId /\ inserted' = inserted /\ torn' = torn
         /\ Len(path') = Len(path) /\ DOMAIN path' = DOMAIN path /\ 1 \in DOMAIN path
         /\ ~path'[1].node.leaf
         /\ path'[1].node.blocks = <<Sep>> /\ path'[1].node.children = <<First, Second>>
         /\ path'[1].page = 1 /\ path[1].page = 1
         /\ \A i \in DOMAIN path \ {1} : path'[i] = path[i]
         /\ Len(file') = Len(file) /\ DOMAIN file' = DOMAIN file
         /\ First \in DOMAIN file /\ Second \in DOMAIN file
         /\ First # 1 /\ Second # 1 /\ First # Second
         /\ file[First].leaf = Parted.leaf /\ file[Second].leaf = Parted.leaf
         /\ \A p \in DOMAIN file :
              /\ file'[p].leaf = file[p].leaf /\ file'[p].blocks = file[p].blocks
              /\ file'[p].children = file[p].children
         /\ \A p \in DOMAIN file \ {First, Second} : file'[p] = file[p]
         /\ file'[First].next = Second /\ file'[Second].next = Parted.next
  <1>1. /\ pc = "link" /\ pc' = "flush"
        /\ file' = [[file EXCEPT ![First].next = Second] EXCEPT ![Second].next = path[1].node.next]
        /\ path' = [path EXCEPT ![1].node.leaf = FALSE,
                                ![1].node.blocks = <<Separator(path[1].node)>>,
                                ![1].node.children = <<First, Second>>]
        /\ new' = new /\ at' = at /\ nextId' = nextId
        /\ inserted' = inserted /\ torn' = torn
    BY DEF LinkChildren, First, Second
  <1>2. /\ at = 1 /\ First \in DOMAIN file /\ Second \in DOMAIN file
        /\ First # 1 /\ Second # 1 /\ First # Second /\ 1 \in DOMAIN path
        /\ file[First].leaf = Parted.leaf /\ file[Second].leaf = Parted.leaf
    BY <1>1, Shape, Zenon DEF First, Second, Parted
  <1>3. /\ path \in Seq(Copy) /\ path' \in Seq(Copy)
        /\ file \in Seq(Node) /\ file' \in Seq(Node)
    <2>1. IInv'
      BY LinkChildrenKeeps
    <2> QED BY <2>1, PathFacts DEF IInv, TypeOK, Copy
  <1>4. /\ \A i \in DOMAIN path : path[i] \in Copy
        /\ \A p \in DOMAIN file : file[p] \in Node
    BY <1>3
  <1>5. /\ Len(path') = Len(path) /\ DOMAIN path' = DOMAIN path
        /\ path'[1].node.leaf = FALSE
        /\ path'[1].node.blocks = <<Sep>> /\ path'[1].node.children = <<First, Second>>
        /\ path'[1].page = path[1].page
        /\ \A i \in DOMAIN path \ {1} : path'[i] = path[i]
    <2>1. path[1] \in Copy /\ path[1].node \in Node
      BY <1>2, <1>4 DEF Copy
    <2>2. Sep = Separator(path[1].node)
      BY <1>2 DEF Sep, Parted
    <2>3. DOMAIN path' = DOMAIN path
      BY <1>1
    <2>4. Len(path') = Len(path)
      BY <1>3, <2>3
    <2> HIDE DEF First, Second
    <2>5. /\ path'[1].node.leaf = FALSE
          /\ path'[1].node.blocks = <<Sep>> /\ path'[1].node.children = <<First, Second>>
          /\ path'[1].page = path[1].page
      BY <1>1, <1>2, <2>1, <2>2 DEF Copy, Node
    <2>6. \A i \in DOMAIN path \ {1} : path'[i] = path[i]
      BY <1>1
    <2> QED BY <2>3, <2>4, <2>5, <2>6
  <1>6. path[1].page = 1
    BY <1>2, ElementFacts
  <1>7. /\ Len(file') = Len(file) /\ DOMAIN file' = DOMAIN file
        /\ \A p \in DOMAIN file :
             /\ file'[p].leaf = file[p].leaf /\ file'[p].blocks = file[p].blocks
             /\ file'[p].children = file[p].children
        /\ \A p \in DOMAIN file \ {First, Second} : file'[p] = file[p]
        /\ file'[First].next = Second /\ file'[Second].next = path[1].node.next
    <2> DEFINE f == [file EXCEPT ![First].next = Second]
               x == path[1].node.next
    <2>1. file' = [f EXCEPT ![Second].next = x]
      BY <1>1
    <2> HIDE DEF x
    <2>2. /\ DOMAIN f = DOMAIN file
          /\ \A p \in DOMAIN file \ {First} : f[p] = file[p]
          /\ f[First] = [file[First] EXCEPT !.next = Second]
      BY <1>2
    <2> HIDE DEF f
    <2>3. /\ DOMAIN file' = DOMAIN file
          /\ \A p \in DOMAIN file \ {Second} : file'[p] = f[p]
          /\ file'[Second] = [f[Second] EXCEPT !.next = x]
      BY <1>2, <2>1, <2>2
    <2>4. /\ file'[First] = [file[First] EXCEPT !.next = Second]
          /\ file'[Second] = [file[Second] EXCEPT !.next = x]
      BY <1>2, <2>2, <2>3
    <2>5. Len(file') = Len(file)
      BY <1>3, <2>3
    <2>6. file[First] \in Node /\ file[Second] \in Node
      BY <1>2, <1>4
    <2>7. /\ file'[First].next = Second /\ file'[First].leaf = file[First].leaf
          /\ file'[First].blocks = file[First].blocks
          /\ file'[First].children = file[First].children
      BY <2>4, <2>6 DEF Node
    <2>8. /\ file'[Second].next = x /\ file'[Second].leaf = file[Second].leaf
          /\ file'[Second].blocks = file[Second].blocks
          /\ file'[Second].children = file[Second].children
      BY <2>4, <2>6 DEF Node
    <2>9. \A p \in DOMAIN file \ {First, Second} : file'[p] = file[p]
      BY <2>2, <2>3
    <2> QED BY <2>3, <2>5, <2>7, <2>8, <2>9 DEF x
  <1>8. Parted.next = path[1].node.next
    BY <1>2 DEF Parted
  <1> QED BY <1>1, <1>2, <1>5, <1>6, <1>7, <1>8

LEMMA FlushEffect ==
  ASSUME IInv, Flush
  PROVE  /\ pc = "flush" /\ at \in DOMAIN path
         /\ new' = new /\ nextId' = nextId /\ torn' = torn
         /\ Len(file') = Len(file) /\ DOMAIN file' = DOMAIN file
         /\ path[at].page \in DOMAIN file
         /\ file'[path[at].page] = path[at].node
         /\ \A p \in DOMAIN file \ {path[at].page} : file'[p] = file[p]
         /\ at # Len(path) => /\ pc' = "flush" /\ path' = path /\ at' = at + 1
                              /\ at' \in DOMAIN path /\ inserted' = inserted /\ at < Len(path)
         /\ at = Len(path) => /\ pc' = "idle" /\ path' = <<>> /\ DOMAIN path' = {} /\ at' = 0
                              /\ inserted' = inserted \cup {new}
  <1>1. /\ pc = "flush" /\ file' = [file EXCEPT ![path[at].page] = path[at].node]
        /\ new' = new /\ nextId' = nextId /\ torn' = torn
    BY DEF Flush
  <1>2. /\ at \in DOMAIN path /\ at \in Nat /\ at <= Len(path) /\ Len(path) \in Nat
        /\ DOMAIN path = 1..Len(path)
    BY <1>1, Shape
  <1>3. path[at].page \in DOMAIN file
    BY <1>2, ElementFacts
  <1>4. file \in Seq(Node) /\ file' \in Seq(Node)
    <2>1. IInv'
      BY FlushKeeps
    <2> QED BY <2>1 DEF IInv, TypeOK
  <1>5. DOMAIN file' = DOMAIN file /\ Len(file') = Len(file)
    BY <1>1, <1>4
  <1>6. at # Len(path) => /\ pc' = "flush" /\ path' = path /\ at' = at + 1
                          /\ at' \in DOMAIN path /\ inserted' = inserted /\ at < Len(path)
    <2>1. at # Len(path) => at < Len(path) /\ at + 1 \in DOMAIN path
      BY <1>2
    <2> QED BY <1>1, <2>1 DEF Flush
  <1>7. at = Len(path) => /\ pc' = "idle" /\ path' = <<>> /\ DOMAIN path' = {} /\ at' = 0
                          /\ inserted' = inserted \cup {new}
    <2>1. at = Len(path) => ~(at < Len(path))
      BY <1>2
    <2> QED BY <2>1 DEF Flush
  <1> QED BY <1>1, <1>2, <1>3, <1>5, <1>6, <1>7

-----------------------------------------------------------------------------
(* Where the copies are ahead of the file, kept by each step. *)

LEMMA HeightFacts ==
  ASSUME IInv, NEW lo, NEW lvl, Heights(lo, lvl)
  PROVE  /\ \A i, j \in DOMAIN path : path[i].page = path[j].page => i = j
         /\ \A p \in DOMAIN file : lvl[p] \in Nat /\ lo[p] \in Nat /\ lo[p] \in 0..MaxKey
         /\ pc = "second" => \A i \in DOMAIN path : path[i].page # Len(file)
         /\ pc = "link" => \A i \in DOMAIN path : path[i].page \notin {First, Second}
         /\ pc # "flush" => \A i \in DOMAIN path :
                              /\ Level(lvl, path[i].node, lvl[path[i].page])
                              /\ path[i].node.leaf = file[path[i].page].leaf
  <1>1. /\ \A p \in DOMAIN file : lvl[p] \in Nat /\ lo[p] \in 0..MaxKey
        /\ \A i, j \in DOMAIN path : i < j => lvl[path[j].page] < lvl[path[i].page]
        /\ pc = "second" => lvl[Len(file)] = lvl[1]
        /\ pc = "link" => lvl[Len(file) - 1] = lvl[1] /\ lvl[Len(file)] = lvl[1]
    <2>1. lo \in [DOMAIN file -> 0..MaxKey] /\ lvl \in [DOMAIN file -> Nat]
      BY DEF Heights
    <2>2. \A p \in DOMAIN file : lvl[p] \in Nat /\ lo[p] \in 0..MaxKey
      BY <2>1
    <2> QED BY <2>2 DEF Heights
  <1>2. \A i \in DOMAIN path : path[i].page \in DOMAIN file /\ i \in Nat /\ i >= 1
    <2>1. DOMAIN path = 1..Len(path) /\ Len(path) \in Nat
      BY Shape, Zenon
    <2>2. \A i \in DOMAIN path : i \in Nat /\ i >= 1
      BY <2>1
    <2>3. \A i \in DOMAIN path : path[i].page \in DOMAIN file
      BY ElementFacts
    <2> QED BY <2>2, <2>3, Zenon
  <1>3. \A i, j \in DOMAIN path : path[i].page = path[j].page => i = j
    <2> SUFFICES ASSUME NEW i \in DOMAIN path, NEW j \in DOMAIN path, path[i].page = path[j].page
                 PROVE  i = j
      OBVIOUS
    <2>1. ~(i < j) /\ ~(j < i)
      BY <1>1, <1>2
    <2> QED BY <1>2, <2>1
  <1>4. ASSUME pc \in {"second", "link"}, NEW i \in DOMAIN path
        PROVE  i = 1 \/ lvl[path[i].page] # lvl[1]
    <2>1. 1 \in DOMAIN path /\ path[1].page = 1
      BY <1>4, Shape, ElementFacts, Zenon
    <2>2. i > 1 => lvl[path[i].page] < lvl[1]
      BY <1>1, <2>1
    <2>3. path[i].page \in DOMAIN file /\ 1 \in DOMAIN file
      BY <1>2, <2>1
    <2>4. lvl[path[i].page] \in Nat /\ lvl[1] \in Nat
      BY <1>1, <2>3
    <2> QED BY ONLY <1>2, <2>2, <2>4
  <1>5. pc = "second" => \A i \in DOMAIN path : path[i].page # Len(file)
    BY <1>1, <1>4, Shape, ElementFacts, Zenon
  <1>6. pc = "link" => \A i \in DOMAIN path : path[i].page \notin {First, Second}
    BY <1>1, <1>4, Shape, ElementFacts, Zenon DEF First, Second
  <1>7. ASSUME pc # "flush", NEW i \in DOMAIN path
        PROVE  /\ Level(lvl, path[i].node, lvl[path[i].page])
               /\ path[i].node.leaf = file[path[i].page].leaf
    <2>1. Level(lvl, path[i].node, lvl[path[i].page])
      BY <1>7 DEF Heights
    <2>2. Level(lvl, file[path[i].page], lvl[path[i].page])
      BY <1>2 DEF Heights
    <2>3. path[i].node.leaf \in BOOLEAN /\ file[path[i].page].leaf \in BOOLEAN
      BY <1>2, ElementFacts, FileFacts
    <2>4. path[i].node.leaf <=> file[path[i].page].leaf
      BY <2>1, <2>2 DEF Level
    <2> QED BY <2>1, <2>3, <2>4
  <1>8. \A p \in DOMAIN file : lvl[p] \in Nat /\ lo[p] \in Nat /\ lo[p] \in 0..MaxKey
    BY <1>1, BtreeAssumption
  <1> QED BY <1>3, <1>5, <1>6, <1>7, <1>8

(* The last copy is of a leaf.                                             *)
LEMMA LastIsLeaf ==
  ASSUME IInv, Sync, pc \in {"split", "left", "second", "link"}
  PROVE  /\ path[Len(path)].node.leaf /\ Len(path) \in DOMAIN path
         /\ \A i \in DOMAIN path : path[i].node.leaf <=> i = Len(path)
  <1>1. path[Len(path)].node.leaf
    BY DEF Sync, RootGrows
  <1>2. Len(path) \in DOMAIN path /\ \A i \in DOMAIN path : i = Len(path) \/ i < Len(path)
    <2>1. DOMAIN path = 1..Len(path) /\ Len(path) \in Nat /\ Len(path) >= 1
      BY Shape, Zenon
    <2> QED BY ONLY <2>1
  <1>3. \A i \in DOMAIN path : i < Len(path) => ~path[i].node.leaf
    BY DEF Sync
  <1>4. ASSUME NEW i \in DOMAIN path PROVE path[i].node.leaf <=> i = Len(path)
    <2>1. CASE i = Len(path)
      BY <1>1, <2>1
    <2>2. CASE i # Len(path)
      <3>1. i < Len(path)
        BY <1>2, <2>2
      <3> QED BY <1>3, <2>2, <3>1
    <2> QED BY <2>1, <2>2
  <1> QED BY <1>1, <1>2, <1>4

LEMMA SyncStart ==
  ASSUME IInv, NEW key \in Key, Start(key)
  PROVE  Sync'
  <1>1. CASE file = <<>>
    BY <1>1, StartFirstEffect DEF Sync
  <1>2. CASE file # <<>>
    <2>1. /\ pc' = "descend" /\ DOMAIN path' = {1} /\ Len(path') = 1
          /\ path'[1].page = 1 /\ path'[1].node = file[1] /\ file' = file
          /\ ~file[1].leaf => path'[1].j = Child(file[1], new'.key)
      BY <1>2, StartEffect
    <2> QED BY <2>1 DEF Sync
  <1> QED BY <1>1, <1>2

LEMMA SyncDescend ==
  ASSUME IInv, Sync, Descend
  PROVE  Sync'
  <1>1. /\ pc = "descend" /\ pc' = "descend" /\ file' = file
        /\ Len(path) \in DOMAIN path /\ ~path[Len(path)].node.leaf
        /\ Len(path') = Len(path) + 1 /\ DOMAIN path' = DOMAIN path \cup {Len(path) + 1}
        /\ Len(path) + 1 \notin DOMAIN path
        /\ \A i \in DOMAIN path : path'[i] = path[i]
        /\ path'[Len(path) + 1].page = NextPage
        /\ path'[Len(path) + 1].node = file[NextPage] /\ new' = new
        /\ ~file[NextPage].leaf => path'[Len(path) + 1].j = Child(file[NextPage], new.key)
    BY DescendEffect, Zenon
  <1>2. DOMAIN path = 1..Len(path) /\ Len(path) \in Nat
    BY Shape, Zenon
  <1> SUFFICES ASSUME NEW i \in DOMAIN path'
               PROVE  /\ path'[i].node = file'[path'[i].page]
                      /\ i < Len(path') =>
                           /\ ~path'[i].node.leaf
                           /\ path'[i + 1].page = path'[i].node.children[path'[i].j]
    BY <1>1 DEF Sync
  <1>3. CASE i = Len(path) + 1
    BY <1>1, <1>2, <1>3
  <1>4. CASE i = Len(path)
    <2>1. path[i].node = file[path[i].page]
      BY <1>1, <1>4 DEF Sync, Changed
    <2>2. path'[i] = path[i] /\ path'[i + 1].page = path[i].node.children[path[i].j]
      BY <1>1, <1>4 DEF NextPage
    <2> QED BY <1>1, <1>4, <2>1, <2>2
  <1>5. CASE i \in DOMAIN path /\ i # Len(path)
    <2>1. i < Len(path) /\ i + 1 \in DOMAIN path
      BY <1>2, <1>5
    <2>2. /\ path[i].node = file[path[i].page] /\ ~path[i].node.leaf
          /\ path[i + 1].page = path[i].node.children[path[i].j]
      BY <1>1, <1>5, <2>1 DEF Sync, Changed, Open
    <2>3. path'[i] = path[i] /\ path'[i + 1] = path[i + 1]
      BY <1>1, <1>5, <2>1
    <2> QED BY <1>1, <2>2, <2>3
  <1> QED BY <1>1, <1>3, <1>4, <1>5

LEMMA SyncAddToLeaf ==
  ASSUME IInv, Sync, AddToLeaf
  PROVE  Sync'
  <1>1. /\ pc = "descend" /\ pc' \in {"split", "flush"} /\ file' = file
        /\ at' = Len(path) /\ Len(path') = Len(path) /\ DOMAIN path' = DOMAIN path
        /\ Len(path) \in DOMAIN path
        /\ path'[Len(path)].page = path[Len(path)].page /\ path'[Len(path)].node.leaf
        /\ \A i \in DOMAIN path \ {Len(path)} : path'[i] = path[i]
    BY AddToLeafEffect
  <1>2. DOMAIN path = 1..Len(path) /\ Len(path) \in Nat
    BY Shape
  <1> SUFFICES ASSUME NEW i \in DOMAIN path
               PROVE  /\ ~Changed(i)' => path'[i].node = file'[path'[i].page]
                      /\ i < Len(path) => ~path'[i].node.leaf
                      /\ Open(i)' /\ i < Len(path) =>
                           path'[i + 1].page = path'[i].node.children[path'[i].j]
    BY <1>1 DEF Sync
  <1>3. CASE i = Len(path)
    BY <1>1, <1>2, <1>3 DEF Changed
  <1>4. CASE i # Len(path)
    <2>1. i < Len(path) /\ i + 1 \in DOMAIN path
      BY <1>2, <1>4
    <2>2. /\ path[i].node = file[path[i].page] /\ ~path[i].node.leaf
          /\ path[i + 1].page = path[i].node.children[path[i].j]
      BY <1>1, <2>1 DEF Sync, Changed, Open
    <2>3. path'[i] = path[i] /\ path'[i + 1].page = path[i + 1].page
      BY <1>1, <1>4, <2>1
    <2> QED BY <1>1, <2>2, <2>3
  <1> QED BY <1>3, <1>4

LEMMA SyncWriteRight ==
  ASSUME IInv, Sync, WriteRight
  PROVE  Sync'
  <1>1. /\ pc = "split" /\ pc' = "left" /\ at' = at /\ at \in DOMAIN path /\ Up \in DOMAIN path
        /\ Up + 1 = at /\ Up \in Nat /\ at \in Nat /\ Up # at
        /\ Len(path') = Len(path) /\ DOMAIN path' = DOMAIN path
        /\ path'[at].node = LeftPart /\ path'[Up].node = Parent
        /\ \A i \in DOMAIN path \ {Up, at} : path'[i].node = path[i].node
        /\ \A i \in DOMAIN path : path'[i].page = path[i].page /\ path'[i].j = path[i].j
        /\ Fresh \notin DOMAIN file /\ \A p \in DOMAIN file : file'[p] = file[p]
    BY WriteRightEffect
  <1>2. DOMAIN path = 1..Len(path) /\ Len(path) \in Nat
    BY Shape
  <1>3. at > 1
    BY DEF WriteRight
  <1>4. LeftPart.leaf = Parted.leaf
    <2>1. /\ Parted \in Node /\ Sound(file, Parted)
          /\ Len(Parted.blocks) = Capacity(Parted) + 1 /\ Fresh \in Nat
      BY <1>1, PartedFacts, AboveFacts, <1>3
    <2> QED BY <2>1, SplitLemma DEF LeftPart
  <1>5. ~Parent.leaf
    <2>1. /\ Above \in Node /\ ~Above.leaf /\ Len(Above.children) = Len(Above.blocks) + 1
          /\ path[Up].j \in DOMAIN Above.children /\ Sep \in Block /\ Fresh \in Nat \ {0}
      BY <1>1, <1>3, AboveFacts, PartedFacts
    <2>2. WithChild(Above, path[Up].j, Sep, Fresh, Parent, Len(Above.blocks))
      BY <2>1, AddChildParts DEF Parent
    <2> QED BY <2>1, <2>2 DEF WithChild
  <1>6. /\ \A i \in DOMAIN path : path[i].node.leaf <=> i = Len(path)
        /\ Len(path) \in DOMAIN path
    BY <1>1, LastIsLeaf
  <1>7. \A i \in DOMAIN path : path'[i].node.leaf <=> i = Len(path)
    <2> SUFFICES ASSUME NEW i \in DOMAIN path PROVE path'[i].node.leaf <=> i = Len(path)
      OBVIOUS
    <2>1. CASE i = at
      BY <1>1, <1>4, <1>6, <2>1 DEF Parted
    <2>2. CASE i = Up
      <3>1. i # Len(path)
        BY <1>1, <1>2, <2>2
      <3> QED BY <1>1, <1>5, <2>2, <3>1
    <2>3. CASE i \notin {Up, at}
      BY <1>1, <1>6, <2>3
    <2> QED BY <2>1, <2>2, <2>3
  <1> SUFFICES ASSUME NEW i \in DOMAIN path
               PROVE  /\ ~Changed(i)' => path'[i].node = file'[path'[i].page]
                      /\ i < Len(path) => ~path'[i].node.leaf
                      /\ Open(i)' /\ i < Len(path) =>
                           path'[i + 1].page = path'[i].node.children[path'[i].j]
    BY <1>1, <1>6, <1>7 DEF Sync
  <1>8. ASSUME ~Changed(i)' PROVE path'[i].node = file'[path'[i].page]
    <2>1. i # at /\ i # Up
      BY <1>1, <1>8 DEF Changed, Up
    <2>2. path[i].node = file[path[i].page] /\ path[i].page \in DOMAIN file
      BY <1>1, <2>1, ElementFacts DEF Sync, Changed
    <2> QED BY <1>1, <2>1, <2>2
  <1>9. i < Len(path) => ~path'[i].node.leaf
    BY <1>2, <1>7
  <1>10. ASSUME Open(i)', i < Len(path)
         PROVE  path'[i + 1].page = path'[i].node.children[path'[i].j]
    <2>1. i + 1 < at
      BY <1>1, <1>10 DEF Open
    <2>2. i # at /\ i # Up /\ i + 1 \in DOMAIN path /\ Open(i)
      BY <1>1, <1>2, <1>10, <2>1 DEF Open
    <2>3. path[i + 1].page = path[i].node.children[path[i].j]
      BY <1>10, <2>2 DEF Sync
    <2> QED BY <1>1, <2>2, <2>3
  <1> QED BY <1>8, <1>9, <1>10

LEMMA SyncWriteLeft ==
  ASSUME IInv, Sync, NEW lo, NEW lvl, Heights(lo, lvl), WriteLeft
  PROVE  Sync'
  <1>1. /\ pc = "left" /\ pc' \in {"split", "flush"} /\ at' = Up
        /\ at \in DOMAIN path /\ Up \in DOMAIN path
        /\ Up + 1 = at /\ Up \in Nat /\ at \in Nat /\ Up # at
        /\ path' = path
        /\ file'[path[at].page] = path[at].node
        /\ \A p \in DOMAIN file \ {path[at].page} : file'[p] = file[p]
    BY WriteLeftEffect, Zenon
  <1>2. DOMAIN path = 1..Len(path) /\ Len(path) \in Nat
    BY Shape, Zenon
  <1>3. /\ \A i \in DOMAIN path : path[i].node.leaf <=> i = Len(path)
        /\ Len(path) \in DOMAIN path
    BY <1>1, LastIsLeaf
  <1>4. \A i, j \in DOMAIN path : path[i].page = path[j].page => i = j
    BY HeightFacts
  <1> SUFFICES ASSUME NEW i \in DOMAIN path
               PROVE  /\ ~Changed(i)' => path[i].node = file'[path[i].page]
                      /\ i < Len(path) => ~path[i].node.leaf
                      /\ Open(i)' /\ i < Len(path) =>
                           path[i + 1].page = path[i].node.children[path[i].j]
    BY <1>1, <1>3 DEF Sync
  <1>5. ASSUME ~Changed(i)' PROVE path[i].node = file'[path[i].page]
    <2>1. i # Up
      BY <1>1, <1>5 DEF Changed
    <2>2. CASE i = at
      BY <1>1, <2>2
    <2>3. CASE i # at
      <3>1. path[i].node = file[path[i].page] /\ path[i].page \in DOMAIN file
        BY <1>1, <2>1, <2>3, ElementFacts DEF Sync, Changed, Up
      <3>2. path[i].page # path[at].page
        BY <1>1, <1>4, <2>3
      <3> QED BY <1>1, <3>1, <3>2
    <2> QED BY <2>2, <2>3
  <1>6. i < Len(path) => ~path[i].node.leaf
    BY <1>2, <1>3
  <1>7. ASSUME Open(i)', i < Len(path)
        PROVE  path[i + 1].page = path[i].node.children[path[i].j]
    <2>1. i < Up
      BY <1>1, <1>7 DEF Open
    <2>2. Open(i)
      BY <1>1, <1>2, <2>1 DEF Open
    <2> QED BY <1>7, <2>2 DEF Sync
  <1> QED BY <1>5, <1>6, <1>7

(* The two steps that append a page of the root.                           *)
LEMMA SyncAppend ==
  ASSUME IInv, Sync, WriteFirstChild \/ WriteSecondChild
  PROVE  Sync'
  <1>1. /\ pc \in {"split", "second"} /\ pc' \in {"second", "link"} /\ at = 1 /\ at' = 1
        /\ path' = path /\ \A p \in DOMAIN file : file'[p] = file[p]
    BY WriteFirstChildEffect, WriteSecondChildEffect, Zenon
  <1>2. /\ \A i \in DOMAIN path : path[i].node.leaf <=> i = Len(path)
        /\ Len(path) \in DOMAIN path /\ DOMAIN path = 1..Len(path) /\ Len(path) \in Nat
    BY <1>1, LastIsLeaf, Shape, Zenon
  <1>3. \A i \in DOMAIN path : ~Changed(i)' => path[i].node = file'[path[i].page]
    <2> SUFFICES ASSUME NEW i \in DOMAIN path, ~Changed(i)'
                 PROVE  path[i].node = file'[path[i].page]
      OBVIOUS
    <2>1. ~Changed(i)
      BY <1>1 DEF Changed
    <2> QED BY <1>1, <2>1, ElementFacts DEF Sync
  <1>4. \A i \in DOMAIN path : ~Open(i)'
    BY <1>1 DEF Open
  <1>5. \A i \in DOMAIN path : i < Len(path) => ~path[i].node.leaf
    BY <1>2
  <1>6. pc' = "second" => file'[Len(file')] = LeftHalf(path'[1].node, 0)
    <2>1. pc' = "second" => WriteFirstChild
      BY WriteSecondChildEffect
    <2> QED BY <1>1, <2>1, WriteFirstChildEffect DEF Parted
  <1>7. pc' = "link" => /\ file'[Len(file') - 1] = LeftHalf(path'[1].node, 0)
                        /\ file'[Len(file')] = RightHalf(path'[1].node, 0)
    <2> SUFFICES ASSUME pc' = "link"
                 PROVE  /\ file'[Len(file') - 1] = LeftHalf(path'[1].node, 0)
                        /\ file'[Len(file')] = RightHalf(path'[1].node, 0)
      OBVIOUS
    <2>1. WriteSecondChild
      BY WriteFirstChildEffect
    <2>2. /\ pc = "second" /\ Len(file') = Fresh /\ file'[Fresh] = RightHalf(Parted, 0)
          /\ Len(file') - 1 = Len(file) /\ Len(file) \in DOMAIN file
      BY <2>1, WriteSecondChildEffect
    <2>3. file[Len(file)] = LeftHalf(path[1].node, 0)
      BY <2>2 DEF Sync
    <2> QED BY <1>1, <2>2, <2>3 DEF Parted
  <1> QED BY <1>1, <1>2, <1>3, <1>4, <1>5, <1>6, <1>7 DEF Sync

LEMMA SyncLink ==
  ASSUME IInv, Sync, NEW lo, NEW lvl, Heights(lo, lvl), LinkChildren
  PROVE  Sync'
  <1>1. /\ pc = "link" /\ pc' = "flush" /\ at = 1 /\ at' = 1
        /\ Len(path') = Len(path) /\ DOMAIN path' = DOMAIN path /\ 1 \in DOMAIN path
        /\ ~path'[1].node.leaf
        /\ path[1].page = 1
        /\ \A i \in DOMAIN path \ {1} : path'[i] = path[i]
        /\ \A p \in DOMAIN file : file'[p].leaf = file[p].leaf
        /\ \A p \in DOMAIN file \ {First, Second} : file'[p] = file[p]
    BY LinkChildrenEffect, Zenon
  <1>2. /\ \A i \in DOMAIN path : path[i].node.leaf <=> i = Len(path)
        /\ Len(path) \in DOMAIN path /\ DOMAIN path = 1..Len(path) /\ Len(path) \in Nat
        /\ 1 \in DOMAIN file
    BY <1>1, LastIsLeaf, Shape, Zenon
  <1>3. \A i \in DOMAIN path : ~Changed(i)' => path'[i].node = file'[path'[i].page]
    <2> SUFFICES ASSUME NEW i \in DOMAIN path, ~Changed(i)'
                 PROVE  path'[i].node = file'[path'[i].page]
      OBVIOUS
    <2>1. i # 1
      BY <1>1 DEF Changed
    <2>2. ~Changed(i)
      BY <1>1, <2>1 DEF Changed
    <2>3. path[i].node = file[path[i].page] /\ path[i].page \in DOMAIN file
      BY <2>2, ElementFacts DEF Sync
    <2>4. path[i].page \notin {First, Second}
      BY <1>1, HeightFacts
    <2> QED BY <1>1, <2>1, <2>3, <2>4
  <1>4. \A i \in DOMAIN path : ~Open(i)'
    BY <1>1 DEF Open
  <1>5. \A i \in DOMAIN path : i < Len(path) => ~path'[i].node.leaf
    BY <1>1, <1>2
  <1>6. path'[Len(path)].node.leaf \/ (RootGrows' /\ Len(path) = 1)
    <2>1. CASE Len(path) = 1
      <3>1. path[1].node.leaf = file[1].leaf
        BY <1>1, HeightFacts
      <3>2. file'[1].leaf
        BY <1>1, <1>2, <2>1, <3>1
      <3> QED BY <1>1, <2>1, <3>2 DEF RootGrows
    <2>2. CASE Len(path) # 1
      BY <1>1, <1>2, <2>2
    <2> QED BY <2>1, <2>2
  <1> QED BY <1>1, <1>3, <1>4, <1>5, <1>6 DEF Sync

LEMMA SyncFlush ==
  ASSUME IInv, Sync, NEW lo, NEW lvl, Heights(lo, lvl), Flush
  PROVE  Sync'
  <1>1. /\ pc = "flush" /\ at \in DOMAIN path
        /\ file'[path[at].page] = path[at].node
        /\ \A p \in DOMAIN file \ {path[at].page} : file'[p] = file[p]
    BY FlushEffect
  <1>2. CASE at = Len(path)
    BY <1>2, FlushEffect DEF Sync
  <1>3. CASE at # Len(path)
    <2>1. pc' = "flush" /\ path' = path /\ at' = at + 1 /\ at < Len(path)
      BY <1>3, FlushEffect
    <2>2. path[Len(path)].node.leaf
      BY <1>1, <1>3 DEF Sync, RootGrows
    <2>3. \A i \in DOMAIN path : ~Changed(i)' => path[i].node = file'[path[i].page]
      <3> SUFFICES ASSUME NEW i \in DOMAIN path, ~Changed(i)'
                   PROVE  path[i].node = file'[path[i].page]
        OBVIOUS
      <3>1. CASE i = at
        BY <1>1, <3>1
      <3>2. CASE i # at
        <4>1. path[i].node = file[path[i].page] /\ path[i].page \in DOMAIN file
          BY <1>1, <3>2, ElementFacts DEF Sync, Changed
        <4>2. path[i].page # path[at].page
          BY <1>1, <3>2, HeightFacts
        <4> QED BY <1>1, <4>1, <4>2
      <3> QED BY <3>1, <3>2
    <2>4. \A i \in DOMAIN path : ~Open(i)'
      BY <2>1 DEF Open
    <2>5. \A i \in DOMAIN path : i < Len(path) => ~path[i].node.leaf
      BY DEF Sync
    <2> QED BY <2>1, <2>2, <2>3, <2>4, <2>5 DEF Sync
  <1> QED BY <1>2, <1>3

-----------------------------------------------------------------------------
(* The lower bounds and the heights, kept by each step. *)

(* A leaf that a block above its bound has joined.                         *)
LEMMA AddSortedLow ==
  ASSUME NEW n \in Node, n.leaf, NEW b \in Block, NEW lo, NEW low \in Nat, Low(lo, n, low),
         low <= b.key
  PROVE  Low(lo, AddSorted(n, b), low)
  <1> DEFINE t == AddSorted(n, b)
  <1>1. PICK i \in 1..(Len(n.blocks) + 1) : t.blocks = InsertAt(n.blocks, i, b)
    BY AddSortedParts
  <1>2. n.blocks \in Seq(Block) /\ t.leaf
    BY NodeFacts, AddSortedParts
  <1> HIDE DEF t
  <1>3. \A k \in DOMAIN t.blocks :
          t.blocks[k] = b \/ \E l \in DOMAIN n.blocks : t.blocks[k] = n.blocks[l]
    BY <1>1, <1>2, InsertLemma
  <1>4. \A l \in DOMAIN n.blocks : low <= n.blocks[l].key
    BY DEF Low
  <1>5. \A k \in DOMAIN t.blocks : low <= t.blocks[k].key
    BY <1>3, <1>4
  <1> QED BY <1>2, <1>5 DEF Low, t

LEMMA HeightsStart ==
  ASSUME IInv, NEW lo, NEW lvl, Heights(lo, lvl), NEW key \in Key, Start(key), file # <<>>
  PROVE  Heights(lo, lvl)'
  <1>1. /\ pc' = "descend" /\ DOMAIN path' = {1}
        /\ path'[1].page = 1 /\ path'[1].node = file[1]
        /\ file' = file /\ 1 \in DOMAIN file /\ new'.key = key
    BY StartEffect
  <1>2. lo[1] = 0
    BY DEF Heights
  <1>3. 0 < key
    BY BtreeAssumption DEF Key
  <1>4. Low(lo, file[1], lo[1]) /\ Level(lvl, file[1], lvl[1])
    BY <1>1 DEF Heights
  <1>5. \A i, j \in DOMAIN path' : ~(i < j)
    BY <1>1
  <1> QED BY <1>1, <1>2, <1>3, <1>4, <1>5 DEF Heights

LEMMA HeightsStartFirst ==
  ASSUME IInv, NEW key \in Key, Start(key), file = <<>>,
         NEW mo, mo = [p \in {1} |-> 0], NEW mvl, mvl = [p \in {1} |-> 0]
  PROVE  Heights(mo, mvl)'
  <1>1. /\ pc' = "idle" /\ DOMAIN path' = {} /\ Len(file') = 1 /\ DOMAIN file' = {1}
        /\ file'[1].leaf /\ DOMAIN file'[1].blocks = {1} /\ file'[1].blocks[1] = new'
        /\ new' \in Block
    BY StartFirstEffect
  <1>2. mo \in [{1} -> 0..MaxKey] /\ mvl \in [{1} -> Nat] /\ mo[1] = 0 /\ mvl[1] = 0
    BY BtreeAssumption
  <1>3. 0 <= new'.key
    BY <1>1, BlockFacts
  <1>4. Low(mo, file'[1], mo[1])
    BY <1>1, <1>2, <1>3 DEF Low
  <1>5. Level(mvl, file'[1], mvl[1])
    BY <1>1, <1>2 DEF Level
  <1>6. mvl[1] < Len(file')
    BY <1>1, <1>2
  <1> QED BY <1>1, <1>2, <1>4, <1>5, <1>6 DEF Heights

LEMMA HeightsDescend ==
  ASSUME IInv, Sync, NEW lo, NEW lvl, Heights(lo, lvl), Descend
  PROVE  Heights(lo, lvl)'
  <1> DEFINE n == Len(path)
             last == path[n].node
  <1>1. /\ pc = "descend" /\ pc' = "descend" /\ file' = file /\ new' = new
        /\ n \in DOMAIN path /\ ~last.leaf /\ path[n].j \in DOMAIN last.children
        /\ DOMAIN path' = DOMAIN path \cup {n + 1} /\ n + 1 \notin DOMAIN path
        /\ \A i \in DOMAIN path : path'[i] = path[i]
        /\ path'[n + 1].page = NextPage /\ path'[n + 1].node = file[NextPage]
        /\ NextPage \in DOMAIN file
    BY DescendEffect
  <1>2. /\ DOMAIN path = 1..n /\ n \in Nat /\ new.key \in Key
        /\ last \in Node /\ path[n].page \in DOMAIN file /\ Len(last.children) = Len(last.blocks) + 1
    BY <1>1, Shape, ElementFacts
  <1>3. path[n].j = Child(last, new.key) /\ NextPage = last.children[path[n].j]
    BY <1>1 DEF Sync, NextPage
  <1>4. /\ Low(lo, last, lo[path[n].page]) /\ Level(lvl, last, lvl[path[n].page])
        /\ lo[path[n].page] < new.key
    BY <1>1, HeightFacts DEF Heights
  <1>5. /\ Low(lo, file[NextPage], lo[NextPage]) /\ Level(lvl, file[NextPage], lvl[NextPage])
        /\ \A i, j \in DOMAIN path : i < j => lvl[path[j].page] < lvl[path[i].page]
    BY <1>1 DEF Heights
  <1>6. \A p \in DOMAIN file : lvl[p] \in Nat
    BY HeightFacts
  <1> HIDE DEF n, last
  <1>7. lvl[NextPage] + 1 = lvl[path[n].page]
    BY <1>1, <1>3, <1>4 DEF Level
  <1>8. lo[NextPage] < new.key
    <2> DEFINE c == path[n].j
    <2>1. /\ c \in 1..(Len(last.blocks) + 1)
          /\ \A k \in 1..Len(last.blocks) : k < c => last.blocks[k].key < new.key
      BY <1>2, <1>3, ChildBounds
    <2> HIDE DEF c
    <2>2. CASE c = 1
      <3>1. lo[last.children[1]] = lo[path[n].page]
        BY <1>1, <1>4 DEF Low
      <3> QED BY <1>3, <1>4, <2>2, <3>1 DEF c
    <2>3. CASE c # 1
      <3>1. c - 1 \in 1..Len(last.blocks) /\ c - 1 < c /\ (c - 1) + 1 = c
        BY <1>2, <2>1, <2>3, NodeFacts
      <3>2. DOMAIN last.blocks = 1..Len(last.blocks)
        BY <1>2, NodeFacts
      <3>3. lo[last.children[(c - 1) + 1]] = last.blocks[c - 1].key
        BY <1>1, <1>4, <3>1, <3>2 DEF Low
      <3>4. last.blocks[c - 1].key < new.key
        BY <2>1, <3>1
      <3>5. lo[last.children[c]] = last.blocks[c - 1].key
        BY <3>1, <3>3
      <3> QED BY <1>3, <3>4, <3>5 DEF c
    <2> QED BY <2>2, <2>3
  <1>9. \A i \in DOMAIN path : lvl[NextPage] < lvl[path[i].page]
    <2> SUFFICES ASSUME NEW i \in DOMAIN path PROVE lvl[NextPage] < lvl[path[i].page]
      OBVIOUS
    <2>1. i = n \/ i < n
      BY <1>2
    <2>2. path[i].page \in DOMAIN file
      BY ElementFacts
    <2>3. lvl[NextPage] \in Nat /\ lvl[path[n].page] \in Nat /\ lvl[path[i].page] \in Nat
      BY <1>1, <1>2, <1>6, <2>2
    <2>4. lvl[NextPage] < lvl[path[n].page]
      BY <1>7, <2>3
    <2>5. i < n => lvl[path[n].page] < lvl[path[i].page]
      BY <1>1, <1>5
    <2> QED BY <2>1, <2>3, <2>4, <2>5
  <1>10. \A i, j \in DOMAIN path' : i < j => lvl[path'[j].page] < lvl[path'[i].page]
    <2> SUFFICES ASSUME NEW i \in DOMAIN path', NEW j \in DOMAIN path', i < j
                 PROVE  lvl[path'[j].page] < lvl[path'[i].page]
      OBVIOUS
    <2>1. i \in DOMAIN path
      BY <1>1, <1>2
    <2>2. CASE j \in DOMAIN path
      BY <1>1, <1>5, <2>1, <2>2
    <2>3. CASE j = n + 1
      BY <1>1, <1>9, <2>1, <2>3
    <2> QED BY <1>1, <2>2, <2>3
  <1>11. \A i \in DOMAIN path' :
           /\ Low(lo, path'[i].node, lo[path'[i].page])
           /\ Level(lvl, path'[i].node, lvl[path'[i].page])
           /\ lo[path'[i].page] < new.key
    <2> SUFFICES ASSUME NEW i \in DOMAIN path'
                 PROVE  /\ Low(lo, path'[i].node, lo[path'[i].page])
                        /\ Level(lvl, path'[i].node, lvl[path'[i].page])
                        /\ lo[path'[i].page] < new.key
      OBVIOUS
    <2>1. CASE i \in DOMAIN path
      <3>1. /\ Low(lo, path[i].node, lo[path[i].page]) /\ lo[path[i].page] < new.key
            /\ Level(lvl, path[i].node, lvl[path[i].page])
        BY <1>1, <2>1, HeightFacts DEF Heights
      <3> QED BY <1>1, <2>1, <3>1
    <2>2. CASE i = n + 1
      BY <1>1, <1>5, <1>8, <2>2
    <2> QED BY <1>1, <2>1, <2>2
  <1>12. /\ lo \in [DOMAIN file' -> 0..MaxKey] /\ lvl \in [DOMAIN file' -> Nat]
         /\ file' # <<>> => lo[1] = 0 /\ lvl[1] < Len(file')
         /\ \A p \in DOMAIN file' : Low(lo, file'[p], lo[p]) /\ Level(lvl, file'[p], lvl[p])
    BY <1>1 DEF Heights
  <1> QED BY <1>1, <1>10, <1>11, <1>12 DEF Heights

LEMMA HeightsAddToLeaf ==
  ASSUME IInv, Sync, NEW lo, NEW lvl, Heights(lo, lvl), AddToLeaf
  PROVE  Heights(lo, lvl)'
  <1> DEFINE n == Len(path)
  <1>1. /\ pc = "descend" /\ pc' \in {"split", "flush"} /\ file' = file
        /\ DOMAIN path' = DOMAIN path /\ n \in DOMAIN path /\ path[n].node.leaf
        /\ path'[n].node = AddSorted(path[n].node, new) /\ path'[n].page = path[n].page
        /\ \A i \in DOMAIN path \ {n} : path'[i] = path[i]
    BY AddToLeafEffect
  <1>2. path[n].node \in Node /\ new \in Block /\ path[n].page \in DOMAIN file
    BY <1>1, Shape, ElementFacts
  <1>3. /\ Low(lo, path[n].node, lo[path[n].page]) /\ lo[path[n].page] < new.key
        /\ Level(lvl, path[n].node, lvl[path[n].page])
    BY <1>1, HeightFacts DEF Heights
  <1>4. lo[path[n].page] \in Nat /\ lo[path[n].page] <= new.key
    BY <1>2, <1>3, HeightFacts, BlockFacts
  <1>5. AddSorted(path[n].node, new).leaf
    BY <1>1, <1>2, AddSortedLemma
  <1> HIDE DEF n
  <1>6. \A i \in DOMAIN path' :
          /\ Low(lo, path'[i].node, lo[path'[i].page])
          /\ Level(lvl, path'[i].node, lvl[path'[i].page])
    <2> SUFFICES ASSUME NEW i \in DOMAIN path
                 PROVE  /\ Low(lo, path'[i].node, lo[path'[i].page])
                        /\ Level(lvl, path'[i].node, lvl[path'[i].page])
      BY <1>1
    <2>1. CASE i = n
      <3>1. Low(lo, AddSorted(path[n].node, new), lo[path[n].page])
        BY <1>1, <1>2, <1>3, <1>4, AddSortedLow
      <3>2. Level(lvl, AddSorted(path[n].node, new), lvl[path[n].page])
        BY <1>1, <1>3, <1>5 DEF Level
      <3> QED BY <1>1, <2>1, <3>1, <3>2
    <2>2. CASE i # n
      <3>1. /\ Low(lo, path[i].node, lo[path[i].page])
            /\ Level(lvl, path[i].node, lvl[path[i].page])
        BY <1>1, HeightFacts DEF Heights
      <3> QED BY <1>1, <2>2, <3>1
    <2> QED BY <2>1, <2>2
  <1>7. \A i \in DOMAIN path : path'[i].page = path[i].page
    BY <1>1
  <1>8. \A i, j \in DOMAIN path' : i < j => lvl[path'[j].page] < lvl[path'[i].page]
    BY <1>1, <1>7 DEF Heights
  <1>9. /\ lo \in [DOMAIN file' -> 0..MaxKey] /\ lvl \in [DOMAIN file' -> Nat]
        /\ file' # <<>> => lo[1] = 0 /\ lvl[1] < Len(file')
        /\ \A p \in DOMAIN file' : Low(lo, file'[p], lo[p]) /\ Level(lvl, file'[p], lvl[p])
    BY <1>1 DEF Heights
  <1> QED BY <1>1, <1>6, <1>8, <1>9 DEF Heights

(* The bounds after a page n has been appended to the file.                *)
Longer(f, x) == [p \in DOMAIN file \cup {Fresh} |-> IF p = Fresh THEN x ELSE f[p]]

Appended(lo, lvl, n, x, h, mo, mvl) ==
  /\ mo \in [DOMAIN file \cup {Fresh} -> 0..MaxKey]
  /\ mvl \in [DOMAIN file \cup {Fresh} -> Nat]
  /\ \A p \in DOMAIN file : mo[p] = lo[p] /\ mvl[p] = lvl[p]
  /\ mo[Fresh] = x /\ mvl[Fresh] = h
  /\ \A m \in Node : Sound(file, m) =>
       /\ \A y : Low(lo, m, y) => Low(mo, m, y)
       /\ \A y : Level(lvl, m, y) => Level(mvl, m, y)
  /\ Low(mo, n, x) /\ Level(mvl, n, h)
  /\ \A p \in DOMAIN file : Low(mo, file[p], mo[p]) /\ Level(mvl, file[p], mvl[p])

LEMMA AppendHeights ==
  ASSUME IInv, NEW lo, NEW lvl, Heights(lo, lvl), NEW n \in Node, Sound(file, n),
         NEW x \in 0..MaxKey, NEW h \in Nat, Low(lo, n, x), Level(lvl, n, h),
         NEW mo, mo = Longer(lo, x), NEW mvl, mvl = Longer(lvl, h)
  PROVE  Appended(lo, lvl, n, x, h, mo, mvl)
  <1>1. \A p \in DOMAIN file : lvl[p] \in Nat /\ lo[p] \in 0..MaxKey
    BY HeightFacts
  <1>2. Fresh \notin DOMAIN file
    <2>1. DOMAIN file = 1..Len(file) /\ Len(file) \in Nat
      BY Shape, Zenon
    <2> QED BY ONLY <2>1 DEF Fresh
  <1>3. /\ mo \in [DOMAIN file \cup {Fresh} -> 0..MaxKey]
        /\ mvl \in [DOMAIN file \cup {Fresh} -> Nat]
        /\ \A p \in DOMAIN file : mo[p] = lo[p] /\ mvl[p] = lvl[p]
        /\ mo[Fresh] = x /\ mvl[Fresh] = h
    BY <1>1, <1>2 DEF Longer
  <1>4. ASSUME NEW m \in Node, Sound(file, m)
        PROVE  /\ \A y : Low(lo, m, y) => Low(mo, m, y)
               /\ \A y : Level(lvl, m, y) => Level(mvl, m, y)
    <2>1. /\ \A p \in DOMAIN file \ {1} : mo[p] = lo[p]
          /\ \A p \in DOMAIN file \ {1} : mvl[p] = lvl[p]
      BY <1>3
    <2>2. \A y : Low(lo, m, y) => Low(mo, m, y)
      BY <1>4, <2>1, Agree
    <2>3. \A y : Level(lvl, m, y) => Level(mvl, m, y)
      BY <1>4, <2>1, Agree
    <2> QED BY <2>2, <2>3
  <1>5. Low(mo, n, x) /\ Level(mvl, n, h)
    BY <1>4
  <1>6. ASSUME NEW p \in DOMAIN file
        PROVE  Low(mo, file[p], mo[p]) /\ Level(mvl, file[p], mvl[p])
    <2>1. file[p] \in Node /\ Sound(file, file[p])
      BY FileFacts
    <2>2. Low(lo, file[p], lo[p]) /\ Level(lvl, file[p], lvl[p])
      BY DEF Heights
    <2>3. Low(mo, file[p], lo[p]) /\ Level(mvl, file[p], lvl[p])
      BY <1>4, <2>1, <2>2
    <2> QED BY <1>3, <2>3
  <1> QED BY <1>3, <1>4, <1>5, <1>6 DEF Appended

(* The halves of the node that balance splits.                             *)
LEMMA HalfHeights ==
  ASSUME IInv, NEW lo, NEW lvl, Heights(lo, lvl), pc \in {"split", "second", "link"},
         \A i \in DOMAIN path : path[i].node.leaf => Sorted(path[i].node),
         NEW x \in Nat, NEW y \in Nat
  PROVE  /\ LeftHalf(Parted, x) \in Node /\ Sound(file, LeftHalf(Parted, x))
         /\ RightHalf(Parted, y) \in Node /\ Sound(file, RightHalf(Parted, y))
         /\ Low(lo, LeftHalf(Parted, x), lo[path[at].page])
         /\ Level(lvl, LeftHalf(Parted, x), lvl[path[at].page])
         /\ Low(lo, RightHalf(Parted, y), Sep.key)
         /\ Level(lvl, RightHalf(Parted, y), lvl[path[at].page])
         /\ lvl[path[at].page] \in Nat /\ Sep.key \in 0..MaxKey
  <1>1. /\ Parted \in Node /\ Len(Parted.blocks) = Capacity(Parted) + 1
        /\ Sound(file, Parted)
        /\ ~Parted.leaf => Len(Parted.children) = Len(Parted.blocks) + 1
        /\ path[at].page \in DOMAIN file /\ at \in DOMAIN path /\ Sep.key \in 1..MaxKey
    BY PartedFacts
  <1>2. /\ LeftHalf(Parted, x) \in Node /\ Fits(file, LeftHalf(Parted, x))
        /\ RightHalf(Parted, y) \in Node /\ Fits(file, RightHalf(Parted, y))
    BY <1>1, SplitLemma
  <1>3. /\ Low(lo, Parted, lo[path[at].page]) /\ Level(lvl, Parted, lvl[path[at].page])
        /\ Parted.leaf => Sorted(Parted)
    BY <1>1, HeightFacts DEF Heights, Parted
  <1>4. /\ Low(lo, LeftHalf(Parted, x), lo[path[at].page])
        /\ Low(lo, RightHalf(Parted, y), Sep.key)
    BY <1>1, <1>3, SplitLow DEF Sep
  <1>5. /\ Level(lvl, LeftHalf(Parted, x), lvl[path[at].page])
        /\ Level(lvl, RightHalf(Parted, y), lvl[path[at].page])
    BY <1>1, <1>3, SplitLevel
  <1>6. lvl[path[at].page] \in Nat /\ Sep.key \in 0..MaxKey
    BY <1>1, HeightFacts, BtreeAssumption
  <1> QED BY <1>2, <1>4, <1>5, <1>6 DEF Fits

LEMMA RightNextFacts ==
  ASSUME IInv, Sync, pc = "split", at > 1
  PROVE  RightNext \in Nat /\ Fresh \in Nat
         /\ (Parted.leaf => RightNext = Parted.next)
  <1>1. Parted \in Node
    BY PartedFacts
  <1>2. Parent \in Node
    <2>1. /\ Above \in Node /\ ~Above.leaf /\ Len(Above.children) = Len(Above.blocks) + 1
          /\ path[Up].j \in DOMAIN Above.children /\ Sep \in Block /\ Fresh \in Nat \ {0}
      BY AboveFacts, PartedFacts
    <2>2. /\ InsertAt(Above.blocks, path[Up].j, Sep) \in Seq(Block)
      BY <2>1, NodeFacts, InsertLemma
    <2>3. InsertAt(Above.children, path[Up].j + 1, Fresh) \in Seq(Nat \ {0})
      <3> DEFINE S == Nat \ {0}
                 k == path[Up].j + 1
      <3>1. Above.children \in Seq(S) /\ Fresh \in S /\ k \in 1..(Len(Above.children) + 1)
        <4>1. /\ Above.children \in Seq(S) /\ Fresh \in S /\ Len(Above.children) \in Nat
              /\ path[Up].j \in 1..Len(Above.children)
          BY <2>1, NodeFacts
        <4> QED BY <4>1
      <3> HIDE DEF S, k
      <3>2. InsertAt(Above.children, k, Fresh) \in Seq(S)
        BY <3>1, InsertLemma
      <3> QED BY <3>2 DEF S, k
    <2> QED BY <2>1, <2>2, <2>3 DEF Parent, AddChild, Node
  <1>3. Parent.children \in Seq(Nat \ {0}) /\ Parted.next \in Nat
    BY <1>1, <1>2, NodeFacts
  <1>4. \A k \in DOMAIN Parent.children : Parent.children[k] \in Nat
    BY <1>3
  <1>5. Fresh \in Nat
    BY Shape DEF Fresh
  <1> QED BY <1>3, <1>4, <1>5 DEF RightNext

LEMMA HeightsWriteRight ==
  ASSUME IInv, Sync, NEW lo, NEW lvl, Heights(lo, lvl), WriteRight,
         \A i \in DOMAIN path : path[i].node.leaf => Sorted(path[i].node),
         NEW mo, mo = Longer(lo, Sep.key), NEW mvl, mvl = Longer(lvl, lvl[path[at].page])
  PROVE  Heights(mo, mvl)'
  <1>1. /\ pc = "split" /\ pc' = "left" /\ at' = at /\ at \in DOMAIN path /\ Up \in DOMAIN path
        /\ Up # at
        /\ Len(path') = Len(path) /\ DOMAIN path' = DOMAIN path
        /\ path'[at].node = LeftPart /\ path'[Up].node = Parent
        /\ \A i \in DOMAIN path \ {Up, at} : path'[i].node = path[i].node
        /\ \A i \in DOMAIN path : path'[i].page = path[i].page
        /\ Len(file') = Fresh /\ DOMAIN file' = DOMAIN file \cup {Fresh}
        /\ Fresh \notin DOMAIN file
        /\ file'[Fresh] = RightPart /\ \A p \in DOMAIN file : file'[p] = file[p]
    BY WriteRightEffect
  <1>2. at > 1
    BY DEF WriteRight
  <1> DEFINE h == lvl[path[at].page]
  <1>3. /\ LeftPart \in Node /\ Sound(file, LeftPart)
        /\ RightPart \in Node /\ Sound(file, RightPart)
        /\ Low(lo, LeftPart, lo[path[at].page]) /\ Level(lvl, LeftPart, h)
        /\ Low(lo, RightPart, Sep.key) /\ Level(lvl, RightPart, h)
        /\ h \in Nat /\ Sep.key \in 0..MaxKey
    <2>1. RightNext \in Nat /\ Fresh \in Nat
      BY <1>1, <1>2, RightNextFacts
    <2>2. pc \in {"split", "second", "link"}
      BY <1>1
    <2> QED BY <2>1, <2>2, HalfHeights DEF LeftPart, RightPart
  <1> HIDE DEF h
  <1>4. Appended(lo, lvl, RightPart, Sep.key, h, mo, mvl)
    <2> DEFINE x == Sep.key
    <2>1. /\ x \in 0..MaxKey /\ RightPart \in Node /\ Sound(file, RightPart) /\ h \in Nat
          /\ Low(lo, RightPart, x) /\ Level(lvl, RightPart, h)
          /\ mo = Longer(lo, x) /\ mvl = Longer(lvl, h)
      BY <1>3 DEF h
    <2> HIDE DEF x
    <2>2. Appended(lo, lvl, RightPart, x, h, mo, mvl)
      BY <2>1, AppendHeights
    <2> QED BY <2>2 DEF x
  <1>5. /\ mo \in [DOMAIN file \cup {Fresh} -> 0..MaxKey]
        /\ mvl \in [DOMAIN file \cup {Fresh} -> Nat]
        /\ \A p \in DOMAIN file : mo[p] = lo[p] /\ mvl[p] = lvl[p]
        /\ mo[Fresh] = Sep.key /\ mvl[Fresh] = h
        /\ \A m \in Node : Sound(file, m) =>
             /\ \A y : Low(lo, m, y) => Low(mo, m, y)
             /\ \A y : Level(lvl, m, y) => Level(mvl, m, y)
        /\ Low(mo, RightPart, Sep.key) /\ Level(mvl, RightPart, h)
        /\ \A p \in DOMAIN file : Low(mo, file[p], mo[p]) /\ Level(mvl, file[p], mvl[p])
    BY <1>4 DEF Appended
  <1>6. /\ Above \in Node /\ ~Above.leaf /\ Len(Above.children) = Len(Above.blocks) + 1
        /\ path[Up].j \in DOMAIN Above.children /\ Above.children[path[Up].j] = path[at].page
        /\ Sep \in Block /\ Fresh \in Nat \ {0} /\ path[Up].page \in DOMAIN file
        /\ \A k \in DOMAIN Above.children : Above.children[k] \in DOMAIN file \ {1}
    BY <1>1, <1>2, AboveFacts, PartedFacts
  <1>7. Low(lo, Above, lo[path[Up].page]) /\ Level(lvl, Above, lvl[path[Up].page])
    BY <1>1, HeightFacts DEF Heights, Above
  <1>8. Low(mo, Parent, lo[path[Up].page])
    <2>1. \A k \in DOMAIN Above.children : mo[Above.children[k]] = lo[Above.children[k]]
      BY <1>5, <1>6
    <2> DEFINE j == path[Up].j
    <2>2. /\ Above \in Node /\ ~Above.leaf /\ Len(Above.children) = Len(Above.blocks) + 1
          /\ j \in DOMAIN Above.children /\ Sep \in Block /\ Fresh \in Nat \ {0}
          /\ Parent = AddChild(Above, j, Sep, Fresh) /\ mo[Fresh] = Sep.key
      BY <1>5, <1>6 DEF Parent
    <2> HIDE DEF j
    <2>3. \A y : Low(lo, Above, y) => Low(mo, Parent, y)
      BY <2>1, <2>2, AddChildLow
    <2> QED BY <1>7, <2>3
  <1>9. Level(mvl, Parent, lvl[path[Up].page])
    <2>1. \A k \in DOMAIN Above.children : mvl[Above.children[k]] = lvl[Above.children[k]]
      BY <1>5, <1>6
    <2>2. mvl[Fresh] + 1 = lvl[path[Up].page]
      BY <1>5, <1>6, <1>7 DEF Level, h
    <2> DEFINE j == path[Up].j
               g == lvl[path[Up].page]
    <2>3. /\ Above \in Node /\ ~Above.leaf /\ Len(Above.children) = Len(Above.blocks) + 1
          /\ j \in DOMAIN Above.children /\ Sep \in Block /\ Fresh \in Nat \ {0}
          /\ Parent = AddChild(Above, j, Sep, Fresh)
          /\ mvl[Fresh] + 1 = g /\ Level(lvl, Above, g)
      BY <1>6, <1>7, <2>2 DEF Parent
    <2> HIDE DEF j, g
    <2>4. Level(mvl, Parent, g)
      BY <2>1, <2>3, AddChildLevel
    <2> QED BY <2>4 DEF g
  <1>10. \A i \in DOMAIN path' :
           /\ Low(mo, path'[i].node, mo[path'[i].page])
           /\ Level(mvl, path'[i].node, mvl[path'[i].page])
    <2>1. \A i \in DOMAIN path : /\ path[i].page \in DOMAIN file
                                 /\ path'[i].page = path[i].page
      BY <1>1, ElementFacts
    <2>2. \A i \in DOMAIN path : /\ mo[path'[i].page] = lo[path[i].page]
                                 /\ mvl[path'[i].page] = lvl[path[i].page]
      BY <1>5, <2>1
    <2>3. DOMAIN path' = DOMAIN path
      BY <1>1
    <2> SUFFICES ASSUME NEW i \in DOMAIN path
                 PROVE  /\ Low(mo, path'[i].node, lo[path[i].page])
                        /\ Level(mvl, path'[i].node, lvl[path[i].page])
      BY <2>2, <2>3, Zenon
    <2>4. CASE i = at
      BY <1>1, <1>3, <1>5, <2>4 DEF h
    <2>5. CASE i = Up
      BY <1>1, <1>8, <1>9, <2>5
    <2>6. CASE i \notin {Up, at}
      <3>1. path[i].node \in Node /\ Sound(file, path[i].node)
        BY ElementFacts
      <3>2. /\ Low(lo, path[i].node, lo[path[i].page])
            /\ Level(lvl, path[i].node, lvl[path[i].page])
        BY <1>1, HeightFacts DEF Heights
      <3>3. /\ Low(mo, path[i].node, lo[path[i].page])
            /\ Level(mvl, path[i].node, lvl[path[i].page])
        BY <1>5, <3>1, <3>2
      <3> QED BY <1>1, <2>6, <3>3
    <2> QED BY <2>4, <2>5, <2>6
  <1>11. \A i, j \in DOMAIN path' : i < j => mvl[path'[j].page] < mvl[path'[i].page]
    <2>1. \A i \in DOMAIN path : mvl[path'[i].page] = lvl[path[i].page]
      BY <1>1, <1>5, ElementFacts
    <2> QED BY <1>1, <2>1 DEF Heights
  <1>12. file' # <<>> => mo[1] = 0 /\ mvl[1] < Len(file')
    <2>1. 1 \in DOMAIN file /\ Len(file) \in Nat /\ file # <<>>
      BY <1>1, Shape
    <2>2. mo[1] = 0 /\ mvl[1] < Len(file) /\ mvl[1] \in Nat
      BY <1>5, <2>1 DEF Heights
    <2>3. mvl[1] < Fresh
      BY <2>1, <2>2 DEF Fresh
    <2> QED BY <1>1, <2>2, <2>3
  <1>13. \A p \in DOMAIN file' : Low(mo, file'[p], mo[p]) /\ Level(mvl, file'[p], mvl[p])
    BY <1>1, <1>5
  <1> QED BY <1>1, <1>5, <1>10, <1>11, <1>12, <1>13 DEF Heights

LEMMA HeightsWriteLeft ==
  ASSUME IInv, NEW lo, NEW lvl, Heights(lo, lvl), WriteLeft
  PROVE  Heights(lo, lvl)'
  <1>1. /\ pc = "left" /\ pc' \in {"split", "flush"} /\ at \in DOMAIN path /\ path' = path
        /\ Len(file') = Len(file) /\ DOMAIN file' = DOMAIN file
        /\ file'[path[at].page] = path[at].node
        /\ \A p \in DOMAIN file \ {path[at].page} : file'[p] = file[p]
        /\ path[at].page \in DOMAIN file
    BY WriteLeftEffect
  <1>2. \A i \in DOMAIN path : /\ Low(lo, path[i].node, lo[path[i].page])
                               /\ Level(lvl, path[i].node, lvl[path[i].page])
    BY <1>1, HeightFacts DEF Heights
  <1>3. \A p \in DOMAIN file' : Low(lo, file'[p], lo[p]) /\ Level(lvl, file'[p], lvl[p])
    <2> SUFFICES ASSUME NEW p \in DOMAIN file
                 PROVE  Low(lo, file'[p], lo[p]) /\ Level(lvl, file'[p], lvl[p])
      BY <1>1
    <2>1. CASE p = path[at].page
      BY <1>1, <1>2, <2>1
    <2>2. CASE p # path[at].page
      BY <1>1, <2>2 DEF Heights
    <2> QED BY <2>1, <2>2
  <1>4. file' # <<>> => lo[1] = 0 /\ lvl[1] < Len(file')
    BY <1>1, Shape DEF Heights
  <1> QED BY <1>1, <1>2, <1>3, <1>4 DEF Heights

(* The two steps that append a page of the root, n.                        *)
LEMMA HeightsAppend ==
  ASSUME IInv, NEW lo, NEW lvl, Heights(lo, lvl), WriteFirstChild \/ WriteSecondChild,
         NEW n \in Node, Sound(file, n), NEW x \in 0..MaxKey, Low(lo, n, x),
         Level(lvl, n, lvl[1]), file'[Fresh] = n,
         WriteFirstChild => x = 0, WriteSecondChild => x = Sep.key,
         NEW mo, mo = Longer(lo, x), NEW mvl, mvl = Longer(lvl, lvl[1])
  PROVE  Heights(mo, mvl)'
  <1>1. /\ pc \in {"split", "second"} /\ pc' \in {"second", "link"} /\ at = 1
        /\ path' = path /\ Len(file') = Fresh /\ DOMAIN file' = DOMAIN file \cup {Fresh}
        /\ Fresh \notin DOMAIN file /\ \A p \in DOMAIN file : file'[p] = file[p]
    BY WriteFirstChildEffect, WriteSecondChildEffect
  <1>2. 1 \in DOMAIN file /\ Len(file) \in Nat /\ file # <<>> /\ DOMAIN file = 1..Len(file)
    <2>1. 1 \in DOMAIN file /\ Len(file) \in Nat /\ DOMAIN file = 1..Len(file)
      BY <1>1, Shape, Zenon
    <2> QED BY ONLY <2>1
  <1>3. lvl[1] \in Nat
    BY <1>2, HeightFacts
  <1>4. Appended(lo, lvl, n, x, lvl[1], mo, mvl)
    <2> DEFINE h == lvl[1]
    <2>1. h \in Nat /\ Level(lvl, n, h) /\ mvl = Longer(lvl, h)
      BY <1>3
    <2> HIDE DEF h
    <2>2. Appended(lo, lvl, n, x, h, mo, mvl)
      BY <2>1, AppendHeights
    <2> QED BY <2>2 DEF h
  <1>5. /\ mo \in [DOMAIN file \cup {Fresh} -> 0..MaxKey]
        /\ mvl \in [DOMAIN file \cup {Fresh} -> Nat]
        /\ \A p \in DOMAIN file : mo[p] = lo[p] /\ mvl[p] = lvl[p]
        /\ mo[Fresh] = x /\ mvl[Fresh] = lvl[1]
        /\ \A m \in Node : Sound(file, m) =>
             /\ \A y : Low(lo, m, y) => Low(mo, m, y)
             /\ \A y : Level(lvl, m, y) => Level(mvl, m, y)
        /\ Low(mo, n, x) /\ Level(mvl, n, lvl[1])
        /\ \A p \in DOMAIN file : Low(mo, file[p], mo[p]) /\ Level(mvl, file[p], mvl[p])
    BY <1>4 DEF Appended
  <1>6. \A i \in DOMAIN path' :
          /\ Low(mo, path'[i].node, mo[path'[i].page])
          /\ Level(mvl, path'[i].node, mvl[path'[i].page])
    <2> SUFFICES ASSUME NEW i \in DOMAIN path
                 PROVE  /\ Low(mo, path[i].node, lo[path[i].page])
                        /\ Level(mvl, path[i].node, lvl[path[i].page])
      BY <1>1, <1>5, ElementFacts
    <2>1. path[i].node \in Node /\ Sound(file, path[i].node)
      BY ElementFacts
    <2>2. /\ Low(lo, path[i].node, lo[path[i].page])
          /\ Level(lvl, path[i].node, lvl[path[i].page])
      BY <1>1, HeightFacts DEF Heights
    <2> QED BY <1>5, <2>1, <2>2
  <1>7. \A i, j \in DOMAIN path' : i < j => mvl[path'[j].page] < mvl[path'[i].page]
    <2>1. \A i \in DOMAIN path : mvl[path'[i].page] = lvl[path[i].page]
      BY <1>1, <1>5, ElementFacts
    <2> QED BY <1>1, <2>1 DEF Heights
  <1>8. /\ mo[1] = 0 /\ mvl[1] + 1 < Len(file') /\ mvl[1] < Len(file')
        /\ mvl[1] = lvl[1]
    <2>1. mo[1] = 0 /\ mvl[1] = lvl[1] /\ lvl[1] < Len(file)
      BY <1>2, <1>5 DEF Heights
    <2> QED BY <1>1, <1>2, <1>3, <2>1 DEF Fresh
  <1>9. \A p \in DOMAIN file' : Low(mo, file'[p], mo[p]) /\ Level(mvl, file'[p], mvl[p])
    BY <1>1, <1>5
  <1>10. pc' = "second" => mo[Len(file')] = 0 /\ mvl[Len(file')] = mvl[1]
    <2>1. pc' = "second" => WriteFirstChild
      BY WriteSecondChildEffect
    <2> QED BY <1>1, <1>5, <1>8, <2>1
  <1>11. pc' = "link" => /\ mo[Len(file') - 1] = 0 /\ mvl[Len(file') - 1] = mvl[1]
                         /\ mo[Len(file')] = Separator(path'[1].node).key
                         /\ mvl[Len(file')] = mvl[1]
    <2> SUFFICES ASSUME pc' = "link"
                 PROVE  /\ mo[Len(file') - 1] = 0 /\ mvl[Len(file') - 1] = mvl[1]
                        /\ mo[Len(file')] = Separator(path'[1].node).key
                        /\ mvl[Len(file')] = mvl[1]
      OBVIOUS
    <2>1. WriteSecondChild
      BY WriteFirstChildEffect
    <2>2. pc = "second" /\ Len(file') - 1 = Len(file) /\ Len(file) \in DOMAIN file
      BY <2>1, WriteSecondChildEffect
    <2>3. lo[Len(file)] = 0 /\ lvl[Len(file)] = lvl[1]
      BY <2>2 DEF Heights
    <2>4. x = Separator(path[1].node).key
      BY <1>1, <2>1 DEF Sep, Parted
    <2> QED BY <1>1, <1>5, <1>8, <2>2, <2>3, <2>4
  <1> QED BY <1>1, <1>5, <1>6, <1>7, <1>8, <1>9, <1>10, <1>11 DEF Heights

LEMMA HeightsWriteFirstChild ==
  ASSUME IInv, NEW lo, NEW lvl, Heights(lo, lvl), WriteFirstChild,
         \A i \in DOMAIN path : path[i].node.leaf => Sorted(path[i].node),
         NEW mo, mo = Longer(lo, 0), NEW mvl, mvl = Longer(lvl, lvl[1])
  PROVE  Heights(mo, mvl)'
  <1>1. pc = "split" /\ at = 1 /\ file'[Fresh] = LeftHalf(Parted, 0)
    BY WriteFirstChildEffect
  <1>2. path[1].page = 1 /\ lo[1] = 0
    BY <1>1, Shape, ElementFacts DEF Heights
  <1>3. /\ LeftHalf(Parted, 0) \in Node /\ Sound(file, LeftHalf(Parted, 0))
        /\ Low(lo, LeftHalf(Parted, 0), lo[path[at].page])
        /\ Level(lvl, LeftHalf(Parted, 0), lvl[path[at].page])
    BY <1>1, HalfHeights
  <1>4. /\ Low(lo, LeftHalf(Parted, 0), 0) /\ Level(lvl, LeftHalf(Parted, 0), lvl[1])
        /\ 0 \in 0..MaxKey
    BY <1>1, <1>2, <1>3, BtreeAssumption
  <1>5. WriteSecondChild => 0 = Sep.key
    BY <1>1, WriteSecondChildEffect
  <1> QED BY <1>1, <1>3, <1>4, <1>5, HeightsAppend

LEMMA HeightsWriteSecondChild ==
  ASSUME IInv, NEW lo, NEW lvl, Heights(lo, lvl), WriteSecondChild,
         \A i \in DOMAIN path : path[i].node.leaf => Sorted(path[i].node),
         NEW mo, mo = Longer(lo, Sep.key), NEW mvl, mvl = Longer(lvl, lvl[1])
  PROVE  Heights(mo, mvl)'
  <1>1. pc = "second" /\ at = 1 /\ file'[Fresh] = RightHalf(Parted, 0)
    BY WriteSecondChildEffect
  <1>2. path[1].page = 1
    BY <1>1, Shape, ElementFacts
  <1>3. /\ RightHalf(Parted, 0) \in Node /\ Sound(file, RightHalf(Parted, 0))
        /\ Low(lo, RightHalf(Parted, 0), Sep.key)
        /\ Level(lvl, RightHalf(Parted, 0), lvl[1]) /\ Sep.key \in 0..MaxKey
    BY <1>1, <1>2, HalfHeights
  <1>4. WriteFirstChild => Sep.key = 0
    BY <1>1, WriteFirstChildEffect
  <1> DEFINE x == Sep.key
  <1>5. /\ x \in 0..MaxKey /\ Low(lo, RightHalf(Parted, 0), x) /\ mo = Longer(lo, x)
        /\ WriteFirstChild => x = 0
        /\ WriteSecondChild => x = Sep.key
    BY <1>3, <1>4
  <1> HIDE DEF x
  <1> QED BY <1>1, <1>3, <1>5, HeightsAppend

LEMMA HeightsLink ==
  ASSUME IInv, NEW lo, NEW lvl, Heights(lo, lvl), LinkChildren
  PROVE  Heights(lo, lvl)'
  <1>1. /\ pc = "link" /\ pc' = "flush" /\ at = 1 /\ at' = 1
        /\ DOMAIN path' = DOMAIN path /\ 1 \in DOMAIN path
        /\ ~path'[1].node.leaf
        /\ path'[1].node.blocks = <<Sep>> /\ path'[1].node.children = <<First, Second>>
        /\ path'[1].page = 1 /\ path[1].page = 1
        /\ \A i \in DOMAIN path \ {1} : path'[i] = path[i]
        /\ Len(file') = Len(file) /\ DOMAIN file' = DOMAIN file
        /\ \A p \in DOMAIN file :
             /\ file'[p].leaf = file[p].leaf /\ file'[p].blocks = file[p].blocks
             /\ file'[p].children = file[p].children
    BY LinkChildrenEffect
  <1>2. /\ lo \in [DOMAIN file -> 0..MaxKey] /\ lvl \in [DOMAIN file -> Nat]
        /\ file # <<>> => lo[1] = 0 /\ lvl[1] < Len(file)
        /\ lvl[1] + 1 < Len(file)
        /\ lo[First] = 0 /\ lvl[First] = lvl[1]
        /\ lo[Second] = Sep.key /\ lvl[Second] = lvl[1]
    <2>1. Sep.key = Separator(path[1].node).key
      BY <1>1 DEF Sep, Parted
    <2>2. /\ lo \in [DOMAIN file -> 0..MaxKey] /\ lvl \in [DOMAIN file -> Nat]
          /\ file # <<>> => lo[1] = 0 /\ lvl[1] < Len(file)
          /\ pc = "link" => lvl[1] + 1 < Len(file)
          /\ pc = "link" => lo[Len(file) - 1] = 0 /\ lvl[Len(file) - 1] = lvl[1]
          /\ pc = "link" => lo[Len(file)] = Separator(path[1].node).key
          /\ pc = "link" => lvl[Len(file)] = lvl[1]
      BY DEF Heights
    <2> QED BY <1>1, <2>1, <2>2 DEF First, Second
  <1>3. 1 \in DOMAIN file /\ Len(file) \in Nat /\ file # <<>>
    <2>1. 1 \in DOMAIN file /\ Len(file) \in Nat
      BY <1>1, Shape, Zenon
    <2> QED BY ONLY <2>1
  <1>4. lvl[1] \in Nat /\ lo[1] = 0
    BY <1>2, <1>3
  <1>5. Low(lo, path'[1].node, lo[1])
    BY <1>1, <1>2, <1>4 DEF Low
  <1>6. Level(lvl, path'[1].node, lvl[1] + 1)
    BY <1>1, <1>2, <1>4 DEF Level
  <1>7. \A p \in DOMAIN file' : Low(lo, file'[p], lo[p]) /\ Level(lvl, file'[p], lvl[p])
    <2> SUFFICES ASSUME NEW p \in DOMAIN file
                 PROVE  Low(lo, file'[p], lo[p]) /\ Level(lvl, file'[p], lvl[p])
      BY <1>1
    <2>1. Low(lo, file[p], lo[p]) /\ Level(lvl, file[p], lvl[p])
      BY DEF Heights
    <2>2. Low(lo, file'[p], lo[p])
      BY <1>1, <2>1 DEF Low
    <2>3. Level(lvl, file'[p], lvl[p])
      BY <1>1, <2>1 DEF Level
    <2> QED BY <2>2, <2>3
  <1>8. \A i \in DOMAIN path' :
          /\ Low(lo, path'[i].node, lo[path'[i].page])
          /\ \/ Level(lvl, path'[i].node, lvl[path'[i].page])
             \/ i = 1 /\ Level(lvl, path'[i].node, lvl[1] + 1)
    <2> SUFFICES ASSUME NEW i \in DOMAIN path, i # 1
                 PROVE  /\ Low(lo, path'[i].node, lo[path'[i].page])
                        /\ Level(lvl, path'[i].node, lvl[path'[i].page])
      BY <1>1, <1>5, <1>6
    <2>1. Low(lo, path[i].node, lo[path[i].page]) /\ Level(lvl, path[i].node, lvl[path[i].page])
      BY <1>1, HeightFacts DEF Heights
    <2> QED BY <1>1, <2>1
  <1>9. \A i, j \in DOMAIN path' : i < j => lvl[path'[j].page] < lvl[path'[i].page]
    <2>1. \A i \in DOMAIN path : path'[i].page = path[i].page
      BY <1>1
    <2> QED BY <1>1, <2>1 DEF Heights
  <1> QED BY <1>1, <1>2, <1>4, <1>7, <1>8, <1>9 DEF Heights

LEMMA HeightsFlush ==
  ASSUME IInv, NEW lo, NEW lvl, Heights(lo, lvl), Flush,
         Level(lvl, path[at].node, lvl[path[at].page])
  PROVE  Heights(lo, lvl)'
  <1>1. /\ pc = "flush" /\ at \in DOMAIN path
        /\ Len(file') = Len(file) /\ DOMAIN file' = DOMAIN file
        /\ path[at].page \in DOMAIN file /\ file'[path[at].page] = path[at].node
        /\ \A p \in DOMAIN file \ {path[at].page} : file'[p] = file[p]
    BY FlushEffect
  <1>2. Len(file) \in Nat /\ 1 \in DOMAIN file /\ DOMAIN path = 1..Len(path) /\ Len(path) \in Nat
        /\ file # <<>>
    BY <1>1, Shape
  <1>3. Low(lo, path[at].node, lo[path[at].page])
    BY <1>1 DEF Heights
  <1>4. \A p \in DOMAIN file' : Low(lo, file'[p], lo[p]) /\ Level(lvl, file'[p], lvl[p])
    <2> SUFFICES ASSUME NEW p \in DOMAIN file
                 PROVE  Low(lo, file'[p], lo[p]) /\ Level(lvl, file'[p], lvl[p])
      BY <1>1
    <2>1. CASE p = path[at].page
      BY <1>1, <1>3, <2>1
    <2>2. CASE p # path[at].page
      BY <1>1, <2>2 DEF Heights
    <2> QED BY <2>1, <2>2
  <1>5. /\ lo \in [DOMAIN file' -> 0..MaxKey] /\ lvl \in [DOMAIN file' -> Nat]
        /\ lo[1] = 0 /\ lvl[1] < Len(file')
    BY <1>1, <1>2 DEF Heights
  <1>6. CASE at = Len(path)
    <2>1. pc' = "idle" /\ DOMAIN path' = {}
      BY <1>6, FlushEffect
    <2> QED BY <1>4, <1>5, <2>1 DEF Heights
  <1>7. CASE at # Len(path)
    <2>1. pc' = "flush" /\ path' = path
      BY <1>7, FlushEffect
    <2>2. \A i \in DOMAIN path : Low(lo, path[i].node, lo[path[i].page])
      BY DEF Heights
    <2>3. \A i \in DOMAIN path : Level(lvl, path[i].node, lvl[path[i].page])
      <3> SUFFICES ASSUME NEW i \in DOMAIN path
                   PROVE  Level(lvl, path[i].node, lvl[path[i].page])
        OBVIOUS
      <3>1. \A q \in DOMAIN path :
              \/ Level(lvl, path[q].node, lvl[path[q].page])
              \/ /\ q = 1 /\ pc = "flush" /\ at = 1 /\ lvl[1] + 1 < Len(file)
                 /\ Level(lvl, path[q].node, lvl[1] + 1)
        BY DEF Heights
      <3> QED BY <3>1
    <2>4. \A i, j \in DOMAIN path : i < j => lvl[path[j].page] < lvl[path[i].page]
      BY DEF Heights
    <2> QED BY <1>4, <1>5, <2>1, <2>2, <2>3, <2>4 DEF Heights
  <1> QED BY <1>6, <1>7

(* The root that grows: the whole tree is one higher.                      *)
LEMMA HeightsFlushRoot ==
  ASSUME IInv, NEW lo, NEW lvl, Heights(lo, lvl), Flush,
         ~Level(lvl, path[at].node, lvl[path[at].page]),
         NEW mvl, mvl = [lvl EXCEPT ![1] = lvl[1] + 1]
  PROVE  Heights(lo, mvl)'
  <1>1. /\ pc = "flush" /\ at \in DOMAIN path
        /\ Len(file') = Len(file) /\ DOMAIN file' = DOMAIN file
        /\ path[at].page \in DOMAIN file /\ file'[path[at].page] = path[at].node
        /\ \A p \in DOMAIN file \ {path[at].page} : file'[p] = file[p]
    BY FlushEffect
  <1>2. Len(file) \in Nat /\ 1 \in DOMAIN file /\ DOMAIN path = 1..Len(path) /\ Len(path) \in Nat
        /\ file # <<>>
    <2>1. Len(file) \in Nat /\ 1 \in DOMAIN file /\ DOMAIN path = 1..Len(path) /\ Len(path) \in Nat
      BY <1>1, Shape
    <2> QED BY <2>1
  <1>3. /\ at = 1 /\ lvl[1] + 1 < Len(file) /\ Level(lvl, path[1].node, lvl[1] + 1)
    BY <1>1 DEF Heights
  <1>4. lvl \in [DOMAIN file -> Nat] /\ lvl[1] \in Nat
    BY <1>2 DEF Heights
  <1>5. /\ mvl \in [DOMAIN file -> Nat] /\ mvl[1] = lvl[1] + 1
        /\ \A p \in DOMAIN file \ {1} : mvl[p] = lvl[p]
    <2>1. lvl[1] + 1 \in Nat /\ 1 \in DOMAIN file
      BY <1>2, <1>4
    <2> DEFINE h == lvl[1] + 1
    <2>2. h \in Nat /\ mvl = [lvl EXCEPT ![1] = h]
      BY <2>1
    <2> HIDE DEF h
    <2>3. mvl \in [DOMAIN file -> Nat] /\ mvl[1] = h /\ \A p \in DOMAIN file \ {1} : mvl[p] = lvl[p]
      BY <1>4, <2>1, <2>2
    <2> QED BY <2>3 DEF h
  <1>6. \A m \in Node : Sound(file, m) => \A y : Level(lvl, m, y) => Level(mvl, m, y)
    <2> SUFFICES ASSUME NEW m \in Node, Sound(file, m)
                 PROVE  \A y : Level(lvl, m, y) => Level(mvl, m, y)
      OBVIOUS
    <2>1. /\ m \in Node /\ Sound(file, m)
          /\ \A p \in DOMAIN file \ {1} : mvl[p] = lvl[p]
      BY <1>5
    <2> QED BY ONLY <2>1, Agree
  <1>7. path[1].page = 1 /\ path[1].node \in Node /\ Sound(file, path[1].node)
    BY <1>1, <1>3, ElementFacts
  <1>8. Low(lo, path[1].node, lo[1]) /\ Level(mvl, path[1].node, mvl[1])
    <2>1. Low(lo, path[1].node, lo[1])
      BY <1>1, <1>3, <1>7 DEF Heights
    <2>2. Level(mvl, path[1].node, lvl[1] + 1)
      BY <1>3, <1>6, <1>7
    <2> QED BY <1>5, <2>1, <2>2
  <1>9. \A p \in DOMAIN file' : Low(lo, file'[p], lo[p]) /\ Level(mvl, file'[p], mvl[p])
    <2> SUFFICES ASSUME NEW p \in DOMAIN file
                 PROVE  Low(lo, file'[p], lo[p]) /\ Level(mvl, file'[p], mvl[p])
      BY <1>1
    <2>1. CASE p = 1
      BY <1>1, <1>3, <1>7, <1>8, <2>1
    <2>2. CASE p # 1
      <3>1. file[p] \in Node /\ Sound(file, file[p])
        BY FileFacts
      <3>2. Low(lo, file[p], lo[p]) /\ Level(lvl, file[p], lvl[p])
        BY DEF Heights
      <3>3. Level(mvl, file[p], lvl[p])
        BY <1>6, <3>1, <3>2
      <3> QED BY <1>1, <1>3, <1>5, <1>7, <2>2, <3>2, <3>3
    <2> QED BY <2>1, <2>2
  <1>10. /\ lo \in [DOMAIN file' -> 0..MaxKey] /\ mvl \in [DOMAIN file' -> Nat]
         /\ lo[1] = 0 /\ mvl[1] < Len(file')
    BY <1>1, <1>2, <1>3, <1>5 DEF Heights
  <1>11. CASE at = Len(path)
    <2>1. pc' = "idle" /\ DOMAIN path' = {}
      BY <1>11, FlushEffect
    <2> QED BY <1>9, <1>10, <2>1 DEF Heights
  <1>12. CASE at # Len(path)
    <2>1. pc' = "flush" /\ path' = path
      BY <1>12, FlushEffect
    <2>2. \A i \in DOMAIN path : Low(lo, path[i].node, lo[path[i].page])
      BY DEF Heights
    <2>3. \A i \in DOMAIN path : Level(mvl, path[i].node, mvl[path[i].page])
      <3> SUFFICES ASSUME NEW i \in DOMAIN path, i # 1
                   PROVE  Level(mvl, path[i].node, mvl[path[i].page])
        BY <1>7, <1>8
      <3>1. Level(lvl, path[i].node, lvl[path[i].page])
        BY DEF Heights
      <3>2. /\ path[i].page \in DOMAIN file \ {1} /\ path[i].node \in Node
            /\ Sound(file, path[i].node)
        BY ElementFacts
      <3>3. Level(mvl, path[i].node, lvl[path[i].page])
        BY <1>6, <3>1, <3>2
      <3> QED BY <1>5, <3>2, <3>3
    <2>4. \A i, j \in DOMAIN path : i < j => mvl[path[j].page] < mvl[path[i].page]
      <3> SUFFICES ASSUME NEW i \in DOMAIN path, NEW j \in DOMAIN path, i < j
                   PROVE  mvl[path[j].page] < mvl[path[i].page]
        OBVIOUS
      <3>1. lvl[path[j].page] < lvl[path[i].page]
        BY DEF Heights
      <3>2. j # 1
        BY <1>2
      <3>3. path[j].page \in DOMAIN file \ {1} /\ path[i].page \in DOMAIN file
        BY <3>2, ElementFacts
      <3>4. mvl[path[j].page] = lvl[path[j].page]
        BY <1>5, <3>3
      <3>5. mvl[path[i].page] = lvl[path[i].page] \/ mvl[path[i].page] = lvl[path[i].page] + 1
        BY <1>5, <3>3
      <3>6. lvl[path[i].page] \in Nat /\ lvl[path[j].page] \in Nat
        BY <1>4, <3>3
      <3> QED BY <3>1, <3>4, <3>5, <3>6
    <2> QED BY <1>9, <1>10, <2>1, <2>2, <2>3, <2>4 DEF Heights
  <1> QED BY <1>11, <1>12

LEMMA HeightsCrash ==
  ASSUME NEW lo, NEW lvl, Heights(lo, lvl), Crash
  PROVE  Heights(lo, lvl)'
  BY DEF Crash, Heights

-----------------------------------------------------------------------------
(* The chain of the leaves and what a descent can reach, kept by each step. *)

LEMMA ChainFacts ==
  ASSUME IInv, NEW lo, NEW chain, Chained(lo, chain)
  PROVE  /\ DOMAIN chain = 1..Len(chain) /\ Len(chain) \in Nat
         /\ \A i \in DOMAIN chain : chain[i] \in DOMAIN file /\ chain[i] \in Nat \ {0}
  <1>1. chain \in Seq(DOMAIN file)
    BY DEF Chained
  <1>2. \A p \in DOMAIN file : p \in Nat \ {0}
    BY FileFacts
  <1> QED BY <1>1, <1>2

(* The chain is as it was if the pages of it still have the same sibling.  *)
LEMMA ChainedSame ==
  ASSUME IInv, NEW lo, NEW chain, Chained(lo, chain), NEW mo,
         DOMAIN file \subseteq DOMAIN file', Len(file) <= Len(file'), Len(file') \in Nat,
         \A i \in DOMAIN chain : /\ file'[chain[i]].leaf
                                 /\ file'[chain[i]].next = file[chain[i]].next
                                 /\ mo[chain[i]] = lo[chain[i]]
  PROVE  Chained(mo, chain)'
  <1>1. /\ DOMAIN chain = 1..Len(chain) /\ Len(chain) \in Nat /\ Len(file) \in Nat
        /\ \A i \in DOMAIN chain : chain[i] \in DOMAIN file'
        /\ chain \in Seq(DOMAIN file)
    <2>1. chain \in Seq(DOMAIN file)
      BY Zenon DEF Chained
    <2>2. Len(file) \in Nat
      BY Shape, Zenon
    <2>3. DOMAIN chain = 1..Len(chain) /\ Len(chain) \in Nat /\ \A i \in DOMAIN chain : chain[i] \in DOMAIN file
      BY <2>1
    <2> QED BY <2>1, <2>2, <2>3
  <1>2. chain \in Seq(DOMAIN file')
    BY <1>1
  <1>3. Len(chain) <= Len(file')
    BY <1>1 DEF Chained
  <1>4. \A i \in DOMAIN chain :
          /\ file'[chain[i]].leaf
          /\ file'[chain[i]].next = IF i < Len(chain) THEN chain[i + 1] ELSE 0
          /\ mo[chain[i]] = 0 <=> i = 1
    <2> SUFFICES ASSUME NEW i \in DOMAIN chain
                 PROVE  /\ file'[chain[i]].leaf
                        /\ file'[chain[i]].next = IF i < Len(chain) THEN chain[i + 1] ELSE 0
                        /\ mo[chain[i]] = 0 <=> i = 1
      OBVIOUS
    <2>1. /\ file[chain[i]].next = IF i < Len(chain) THEN chain[i + 1] ELSE 0
          /\ lo[chain[i]] = 0 <=> i = 1
      BY DEF Chained
    <2>2. /\ file'[chain[i]].leaf /\ file'[chain[i]].next = file[chain[i]].next
          /\ mo[chain[i]] = lo[chain[i]]
      OBVIOUS
    <2> QED BY ONLY <2>1, <2>2
  <1>5. \A i, j \in DOMAIN chain : chain[i] = chain[j] => i = j
    BY DEF Chained
  <1> QED BY <1>2, <1>3, <1>4, <1>5 DEF Chained

(* Only the write of a half, or of both, leaves children to come.          *)
LEMMA NoComing ==
  ASSUME pc # "left", ~RootGrows
  PROVE  \A i : Coming(i) = {}
  BY DEF Coming

LEMMA NoRootGrows ==
  ASSUME pc # "flush" \/ at # 1
  PROVE  ~RootGrows
  BY DEF RootGrows

LEMMA LinksStart ==
  ASSUME IInv, NEW lo, NEW live, NEW chain, Links(lo, live, chain),
         NEW key \in Key, Start(key), file # <<>>
  PROVE  Links(lo, live, chain)'
  <1>1. /\ pc' = "descend" /\ DOMAIN path' = {1} /\ path'[1].page = 1 /\ path'[1].node = file[1]
        /\ file' = file
    BY StartEffect
  <1>2. Chained(lo, chain)' /\ Reached(live, chain)'
    BY <1>1 DEF Links, Chained, Reached
  <1>3. 1 \in live
    BY DEF Links, Reached
  <1>4. Referred(live)'
    BY <1>1, <1>3 DEF Links, Reached, Referred
  <1> QED BY <1>1, <1>2, <1>4 DEF Links, Halved, Doubled, RootGrows

LEMMA LinksStartFirst ==
  ASSUME IInv, NEW key \in Key, Start(key), file = <<>>,
         NEW mo, mo = [p \in {1} |-> 0]
  PROVE  Links(mo, {1}, <<1>>)'
  <1>1. /\ pc' = "idle" /\ DOMAIN path' = {} /\ Len(file') = 1 /\ DOMAIN file' = {1}
        /\ file'[1].leaf /\ file'[1].next = 0
    BY StartFirstEffect
  <1>2. mo[1] = 0
    OBVIOUS
  <1>3. Chained(mo, <<1>>)'
    BY <1>1, <1>2 DEF Chained
  <1>4. Reached({1}, <<1>>)'
    BY <1>1 DEF Reached
  <1> QED BY <1>1, <1>3, <1>4 DEF Links, Referred, Halved, Doubled, RootGrows

LEMMA LinksDescend ==
  ASSUME IInv, NEW lo, NEW live, NEW chain, Links(lo, live, chain), Descend
  PROVE  Links(lo, live, chain)'
  <1> DEFINE n == Len(path)
  <1>1. /\ pc = "descend" /\ pc' = "descend" /\ file' = file
        /\ n \in DOMAIN path /\ ~path[n].node.leaf /\ path[n].j \in DOMAIN path[n].node.children
        /\ DOMAIN path' = DOMAIN path \cup {n + 1} /\ n + 1 \notin DOMAIN path
        /\ \A i \in DOMAIN path : path'[i] = path[i]
        /\ path'[n + 1].page = NextPage /\ path'[n + 1].node = file[NextPage]
        /\ NextPage = path[n].node.children[path[n].j]
    BY DescendEffect DEF NextPage
  <1>2. \A i : Coming(i) = {}
    BY <1>1 DEF Coming, RootGrows
  <1>3. \A i : Coming(i)' = {}
    BY <1>1 DEF Coming, RootGrows
  <1>4. Chained(lo, chain)' /\ Reached(live, chain)'
    BY <1>1 DEF Links, Chained, Reached
  <1>5. NextPage \in live
    BY <1>1, <1>2 DEF Links, Referred
  <1> HIDE DEF n
  <1>6. Referred(live)'
    <2> SUFFICES ASSUME NEW i \in DOMAIN path'
                 PROVE  /\ path'[i].page \in live
                        /\ ~path'[i].node.leaf =>
                             \A k \in DOMAIN path'[i].node.children :
                               path'[i].node.children[k] \in live
                        /\ path'[i].node.leaf => path'[i].node.next = file'[path'[i].page].next
      BY DEF Referred
    <2>1. CASE i \in DOMAIN path
      BY <1>1, <1>2, <2>1, Zenon DEF Links, Referred
    <2>2. CASE i = n + 1
      <3>1. /\ path'[i].page = NextPage /\ path'[i].node = file[NextPage]
        BY <1>1, <2>2
      <3>2. ~file[NextPage].leaf =>
              \A k \in DOMAIN file[NextPage].children : file[NextPage].children[k] \in live
        BY <1>5 DEF Links, Reached
      <3> QED BY <1>1, <1>5, <3>1, <3>2, Zenon
    <2> QED BY <1>1, <2>1, <2>2
  <1> QED BY <1>1, <1>4, <1>6 DEF Links, Halved, Doubled, RootGrows

LEMMA LinksAddToLeaf ==
  ASSUME IInv, NEW lo, NEW live, NEW chain, Links(lo, live, chain), AddToLeaf
  PROVE  Links(lo, live, chain)'
  <1> DEFINE n == Len(path)
  <1>1. /\ pc = "descend" /\ pc' \in {"split", "flush"} /\ file' = file /\ at' = n
        /\ DOMAIN path' = DOMAIN path /\ n \in DOMAIN path /\ path[n].node.leaf
        /\ path'[n].page = path[n].page /\ path'[n].node.leaf
        /\ path'[n].node.next = path[n].node.next
        /\ \A i \in DOMAIN path \ {n} : path'[i] = path[i]
    BY AddToLeafEffect
  <1> HIDE DEF n
  <1>2. \A i : Coming(i) = {}
    BY <1>1 DEF Coming, RootGrows
  <1>3. ~RootGrows' /\ \A i : Coming(i)' = {}
    BY <1>1 DEF Coming, RootGrows
  <1>4. Chained(lo, chain)' /\ Reached(live, chain)'
    BY <1>1 DEF Links, Chained, Reached
  <1>5. Referred(live)'
    <2> SUFFICES ASSUME NEW i \in DOMAIN path
                 PROVE  /\ path'[i].page \in live
                        /\ ~path'[i].node.leaf =>
                             \A k \in DOMAIN path'[i].node.children :
                               path'[i].node.children[k] \in live
                        /\ path'[i].node.leaf => path'[i].node.next = file'[path'[i].page].next
      BY <1>1 DEF Referred
    <2>1. CASE i # n
      BY <1>1, <1>2, <2>1 DEF Links, Referred
    <2>2. CASE i = n
      <3>1. path[n].page \in live /\ path[n].node.next = file[path[n].page].next
        BY <1>1 DEF Links, Referred
      <3> QED BY <1>1, <2>2, <3>1
    <2> QED BY <2>1, <2>2
  <1> QED BY <1>1, <1>3, <1>4, <1>5 DEF Links, Halved, Doubled

LEMMA LinksCrash ==
  ASSUME NEW lo, NEW live, NEW chain, Links(lo, live, chain), Crash
  PROVE  Links(lo, live, chain)'
  <1>1. pc' = "idle" /\ path' = <<>> /\ file' = file
    BY DEF Crash
  <1>2. Chained(lo, chain)' /\ Reached(live, chain)'
    BY <1>1 DEF Links, Chained, Reached
  <1>3. Referred(live)'
    BY <1>1 DEF Referred
  <1> QED BY <1>1, <1>2, <1>3 DEF Links, Halved, Doubled, RootGrows

(* The steps that append a page: an inner half is live at once.            *)
LEMMA LinksWriteRight ==
  ASSUME IInv, Sync, NEW lo, NEW lvl, Heights(lo, lvl),
         NEW live, NEW chain, Links(lo, live, chain), WriteRight,
         NEW mo, mo = Longer(lo, Sep.key),
         NEW more, more = IF Parted.leaf THEN live ELSE live \cup {Fresh}
  PROVE  Links(mo, more, chain)'
  <1>1. /\ pc = "split" /\ pc' = "left" /\ at' = at /\ at \in DOMAIN path /\ Up \in DOMAIN path
        /\ Up + 1 = at /\ Up # at
        /\ Len(path') = Len(path) /\ DOMAIN path' = DOMAIN path
        /\ path'[at].node = LeftPart /\ path'[Up].node = Parent
        /\ \A i \in DOMAIN path \ {Up, at} : path'[i].node = path[i].node
        /\ \A i \in DOMAIN path : path'[i].page = path[i].page
        /\ Len(file') = Fresh /\ DOMAIN file' = DOMAIN file \cup {Fresh}
        /\ Fresh \notin DOMAIN file
        /\ file'[Fresh] = RightPart /\ \A p \in DOMAIN file : file'[p] = file[p]
    BY WriteRightEffect
  <1>2. at > 1 /\ 1 \in DOMAIN file /\ Len(file) \in Nat /\ Fresh = Len(file) + 1
    BY <1>1, Shape DEF WriteRight, Fresh
  <1>3. ~RootGrows /\ ~RootGrows' /\ \A i : Coming(i) = {}
    BY <1>1 DEF RootGrows, Coming
  <1>4. /\ \A i \in DOMAIN path : path[i].node.leaf <=> i = Len(path)
        /\ Len(path) \in DOMAIN path
    BY <1>1, LastIsLeaf
  <1>5. /\ Parted \in Node /\ Len(Parted.blocks) = Capacity(Parted) + 1
        /\ Sound(file, Parted) /\ Parted.leaf \in BOOLEAN
        /\ ~Parted.leaf => Len(Parted.children) = Len(Parted.blocks) + 1
        /\ Sep.key # 0
    BY <1>1, PartedFacts
  <1>6. RightNext \in Nat /\ Fresh \in Nat /\ (Parted.leaf => RightNext = Parted.next)
    BY <1>1, <1>2, RightNextFacts
  <1>7. /\ LeftPart.leaf = Parted.leaf /\ RightPart.leaf = Parted.leaf
        /\ LeftPart.next = Fresh /\ RightPart.next = RightNext
    BY <1>5, <1>6, SplitLemma, Zenon DEF LeftPart, RightPart, LeftHalf, RightHalf, Node
  <1>8. ASSUME ~Parted.leaf
        PROVE  /\ \A k \in DOMAIN LeftPart.children : LeftPart.children[k] \in live
               /\ \A k \in DOMAIN RightPart.children : RightPart.children[k] \in live
    <2>1. \A k \in DOMAIN Parted.children : Parted.children[k] \in live
      BY <1>1, <1>3, <1>8 DEF Links, Referred, Parted
    <2>2. /\ \A k \in DOMAIN LeftPart.children :
               k \in DOMAIN Parted.children /\ LeftPart.children[k] = Parted.children[k]
          /\ \A k \in DOMAIN RightPart.children :
               \E q \in DOMAIN Parted.children : RightPart.children[k] = Parted.children[q]
      <3>1. /\ Parted \in Node /\ ~Parted.leaf /\ Len(Parted.blocks) = Capacity(Parted) + 1
            /\ Len(Parted.children) = Len(Parted.blocks) + 1
            /\ LeftPart = LeftHalf(Parted, Fresh) /\ RightPart = RightHalf(Parted, RightNext)
        BY <1>5, <1>8 DEF LeftPart, RightPart
      <3> QED BY <3>1, SplitChildren
    <2> QED BY <2>1, <2>2
  <1>9. live \subseteq more /\ (~Parted.leaf => Fresh \in more)
    OBVIOUS
  <1>10. ~Parent.leaf /\ \A k \in DOMAIN Parent.children :
           Parent.children[k] = Fresh \/ Parent.children[k] \in live
    <2>1. /\ Above \in Node /\ ~Above.leaf /\ Len(Above.children) = Len(Above.blocks) + 1
          /\ path[Up].j \in DOMAIN Above.children /\ Sep \in Block /\ Fresh \in Nat \ {0}
          /\ Sound(file, Above)
      BY <1>1, <1>2, AboveFacts, PartedFacts
    <2>2. WithChild(Above, path[Up].j, Sep, Fresh, Parent, Len(Above.blocks))
      BY <2>1, AddChildParts DEF Parent
    <2>3. \A k \in DOMAIN Above.children : Above.children[k] \in live
      BY <1>1, <1>3, <2>1 DEF Links, Referred, Above
    <2>4. \A k \in DOMAIN Parent.children :
            Parent.children[k] = Fresh
              \/ \E q \in DOMAIN Above.children : Parent.children[k] = Above.children[q]
      <3> DEFINE N == Len(Above.blocks)
                 j == path[Up].j
      <3>1. /\ DOMAIN Parent.children = 1..(N + 2) /\ Parent.children[j + 1] = Fresh
            /\ \A k \in 1..j : Parent.children[k] = Above.children[k]
            /\ \A k \in (j + 1)..(N + 1) : Parent.children[k + 1] = Above.children[k]
            /\ N \in Nat /\ j \in 1..(N + 1)
        BY <2>2 DEF WithChild
      <3>2. DOMAIN Above.children = 1..(N + 1)
        BY <2>1, NodeFacts
      <3> HIDE DEF N, j
      <3> SUFFICES ASSUME NEW k \in DOMAIN Parent.children
                   PROVE  Parent.children[k] = Fresh
                            \/ \E q \in DOMAIN Above.children : Parent.children[k] = Above.children[q]
        OBVIOUS
      <3>3. CASE k <= j
        <4>1. k \in 1..j /\ k \in 1..(N + 1)
          BY <3>1, <3>3
        <4> QED BY <3>1, <3>2, <4>1
      <3>4. CASE k = j + 1
        BY <3>1, <3>4
      <3>5. CASE k > j + 1
        <4>1. k - 1 \in (j + 1)..(N + 1) /\ (k - 1) + 1 = k /\ k - 1 \in 1..(N + 1)
          BY <3>1, <3>5
        <4>2. Parent.children[(k - 1) + 1] = Above.children[k - 1]
          BY <3>1, <4>1
        <4> QED BY <3>2, <4>1, <4>2
      <3>6. k <= j \/ k = j + 1 \/ k > j + 1
        BY <3>1
      <3> QED BY <3>3, <3>4, <3>5, <3>6
    <2>5. ~Parent.leaf
      BY <2>1, <2>2 DEF WithChild
    <2> QED BY <2>3, <2>4, <2>5
  <1>11. Chained(mo, chain)'
    <2>1. Chained(lo, chain)
      BY DEF Links
    <2>2. \A i \in DOMAIN chain : chain[i] \in DOMAIN file /\ file[chain[i]].leaf
      BY <2>1, ChainFacts DEF Chained
    <2>3. \A i \in DOMAIN chain : mo[chain[i]] = lo[chain[i]]
      BY <1>1, <2>2 DEF Longer
    <2>4. \A i \in DOMAIN chain : /\ file'[chain[i]].leaf
                                  /\ file'[chain[i]].next = file[chain[i]].next
                                  /\ mo[chain[i]] = lo[chain[i]]
      BY <1>1, <2>2, <2>3
    <2>5. DOMAIN file \subseteq DOMAIN file' /\ Len(file) <= Len(file') /\ Len(file') \in Nat
      BY <1>1, <1>2
    <2> QED BY <2>1, <2>4, <2>5, ChainedSame
  <1>12. Reached(more, chain)'
    <2>1. more \subseteq DOMAIN file'
      BY <1>1 DEF Links, Reached
    <2>2. file' # <<>> => 1 \in more /\ chain # <<>> /\ (file'[1].leaf => file'[1].next = 0)
      <3>1. file # <<>>
        BY <1>2
      <3> QED BY <1>1, <1>2, <1>9, <3>1 DEF Links, Reached
    <2>3. \A p \in more :
            IF file'[p].leaf THEN \E i \in DOMAIN chain : p = chain[i]
            ELSE \A k \in DOMAIN file'[p].children : file'[p].children[k] \in more
      <3> SUFFICES ASSUME NEW p \in more
                   PROVE  IF file'[p].leaf THEN \E i \in DOMAIN chain : p = chain[i]
                          ELSE \A k \in DOMAIN file'[p].children : file'[p].children[k] \in more
        OBVIOUS
      <3>1. CASE p \in live
        <4>1. p \in DOMAIN file /\ file'[p] = file[p]
          BY <1>1, <3>1 DEF Links, Reached
        <4> QED BY <1>9, <3>1, <4>1 DEF Links, Reached
      <3>2. CASE p \notin live
        <4>1. p = Fresh /\ ~Parted.leaf
          BY <3>2
        <4> QED BY <1>1, <1>7, <1>8, <1>9, <4>1
      <3> QED BY <3>1, <3>2
    <2> QED BY <2>1, <2>2, <2>3 DEF Reached
  <1>13. Referred(more)'
    <2> SUFFICES ASSUME NEW i \in DOMAIN path
                 PROVE  /\ path'[i].page \in more
                        /\ ~path'[i].node.leaf =>
                             \A k \in DOMAIN path'[i].node.children :
                               path'[i].node.children[k] \in more \cup Coming(i)'
                        /\ path'[i].node.leaf /\ i # at =>
                             path'[i].node.next = file'[path'[i].page].next
      BY <1>1 DEF Referred
    <2>1. path'[i].page \in more /\ path[i].page \in DOMAIN file
      BY <1>1, <1>9, ElementFacts DEF Links, Referred
    <2>2. CASE i = at
      BY <1>1, <1>7, <1>8, <1>9, <2>1, <2>2
    <2>3. CASE i = Up
      <3>1. Fresh \in more \cup Coming(i)'
        <4>1. CASE Parted.leaf
          <5>1. at = Len(path)
            BY <1>1, <1>4, <4>1 DEF Parted
          <5> QED BY <1>1, <2>3, <5>1 DEF Coming
        <4>2. CASE ~Parted.leaf
          BY <1>9, <4>2
        <4> QED BY <4>1, <4>2
      <3> QED BY <1>1, <1>9, <1>10, <2>1, <2>3, <3>1
    <2>4. CASE i \notin {Up, at}
      <3>1. /\ ~path[i].node.leaf =>
                 \A k \in DOMAIN path[i].node.children : path[i].node.children[k] \in live
            /\ path[i].node.leaf => path[i].node.next = file[path[i].page].next
        BY <1>1, <1>3 DEF Links, Referred
      <3> QED BY <1>1, <1>9, <2>1, <2>4, <3>1
    <2> QED BY <2>2, <2>3, <2>4
  <1>14. Halved(mo, chain)'
    <2> SUFFICES ASSUME at = Len(path)
                 PROVE  /\ path'[at].node.next = Len(file') /\ file'[Len(file')].leaf
                        /\ file'[Len(file')].next = file'[path'[at].page].next
                        /\ (\A i \in DOMAIN chain : chain[i] # Len(file')) /\ Len(chain) < Len(file')
                        /\ mo[Len(file')] # 0
      BY <1>1 DEF Halved
    <2>1. Parted.leaf /\ path[at].page \in DOMAIN file
      BY <1>1, <1>4, ElementFacts DEF Parted
    <2>2. Parted.next = file[path[at].page].next
      BY <1>1, <2>1 DEF Links, Referred, Parted
    <2>3. \A i \in DOMAIN chain : chain[i] # Fresh
      BY <1>1, ChainFacts DEF Links
    <2>4. Len(chain) < Fresh
      <3>1. Len(chain) <= Len(file) /\ Len(chain) \in Nat
        BY ChainFacts DEF Links, Chained
      <3> QED BY <1>2, <3>1
    <2>5. mo[Fresh] = Sep.key
      BY DEF Longer
    <2> QED BY <1>1, <1>5, <1>6, <1>7, <2>1, <2>2, <2>3, <2>4, <2>5
  <1> QED BY <1>3, <1>11, <1>12, <1>13, <1>14 DEF Links, Doubled

LEMMA LinksAppend ==
  ASSUME IInv, NEW lo, NEW lvl, Heights(lo, lvl),
         NEW live, NEW chain, Links(lo, live, chain), WriteFirstChild \/ WriteSecondChild,
         NEW x, NEW mo, mo = Longer(lo, x)
  PROVE  Links(mo, live, chain)'
  <1>1. /\ pc \in {"split", "second"} /\ pc' \in {"second", "link"} /\ at = 1
        /\ path' = path /\ Len(file') = Fresh /\ DOMAIN file' = DOMAIN file \cup {Fresh}
        /\ Fresh \notin DOMAIN file /\ \A p \in DOMAIN file : file'[p] = file[p]
    BY WriteFirstChildEffect, WriteSecondChildEffect, Zenon
  <1>2. 1 \in DOMAIN file /\ Len(file) \in Nat /\ Fresh = Len(file) + 1
    BY <1>1, Shape, Zenon DEF Fresh
  <1>3. ~RootGrows /\ ~RootGrows' /\ \A i : Coming(i) = {}
    BY <1>1 DEF RootGrows, Coming
  <1>4. \A i : Coming(i)' = {}
    BY <1>1, <1>3 DEF Coming
  <1>5. Chained(mo, chain)'
    <2>1. Chained(lo, chain)
      BY DEF Links
    <2>2. \A i \in DOMAIN chain : chain[i] \in DOMAIN file /\ file[chain[i]].leaf
      BY <2>1, ChainFacts DEF Chained
    <2>3. \A i \in DOMAIN chain : mo[chain[i]] = lo[chain[i]]
      BY <1>1, <2>2 DEF Longer
    <2>4. \A i \in DOMAIN chain : /\ file'[chain[i]].leaf
                                  /\ file'[chain[i]].next = file[chain[i]].next
                                  /\ mo[chain[i]] = lo[chain[i]]
      BY <1>1, <2>2, <2>3
    <2>5. DOMAIN file \subseteq DOMAIN file' /\ Len(file) <= Len(file') /\ Len(file') \in Nat
      BY <1>1, <1>2
    <2> QED BY <2>1, <2>4, <2>5, ChainedSame
  <1>6. Reached(live, chain)'
    <2>1. file # <<>>
      BY <1>2
    <2>2. live \subseteq DOMAIN file /\ 1 \in live /\ chain # <<>> /\ (file[1].leaf => file[1].next = 0)
      BY <2>1 DEF Links, Reached
    <2>3. \A p \in live : file'[p] = file[p]
      BY <1>1, <2>2
    <2> QED BY <1>1, <1>2, <2>2, <2>3 DEF Links, Reached
  <1>7. Referred(live)'
    <2> SUFFICES ASSUME NEW i \in DOMAIN path
                 PROVE  /\ path[i].page \in live
                        /\ ~path[i].node.leaf =>
                             \A k \in DOMAIN path[i].node.children :
                               path[i].node.children[k] \in live
                        /\ path[i].node.leaf => path[i].node.next = file'[path[i].page].next
      BY <1>1 DEF Referred
    <2>1. path[i].page \in DOMAIN file
      BY ElementFacts
    <2> QED BY <1>1, <1>3, <2>1 DEF Links, Referred
  <1> QED BY <1>1, <1>3, <1>5, <1>6, <1>7 DEF Links, Halved, Doubled

(* Where the elements of a list come from that has been given one more.    *)
From(s, i, e, t) ==
  /\ DOMAIN t = 1..(Len(s) + 1) /\ Len(t) = Len(s) + 1
  /\ \A k \in DOMAIN t :
       \/ k < i /\ k \in DOMAIN s /\ t[k] = s[k]
       \/ k = i /\ t[k] = e
       \/ k > i /\ k - 1 >= i /\ k - 1 \in DOMAIN s /\ t[k] = s[k - 1]
  /\ t[i] = e /\ i \in DOMAIN t
  /\ \A k \in DOMAIN s : \/ k < i /\ t[k] = s[k] /\ k \in DOMAIN t
                         \/ k >= i /\ t[k + 1] = s[k] /\ k + 1 \in DOMAIN t

LEMMA InsertFrom ==
  ASSUME NEW T, NEW s \in Seq(T), NEW i \in 1..(Len(s) + 1), NEW e \in T,
         NEW t, t = InsertAt(s, i, e)
  PROVE  t \in Seq(T) /\ From(s, i, e, t)
  <1> DEFINE N == Len(s)
  <1>1. N \in Nat /\ i \in 1..(N + 1) /\ DOMAIN s = 1..N
    OBVIOUS
  <1>2. /\ t \in Seq(T) /\ Len(t) = N + 1 /\ DOMAIN t = 1..(N + 1)
        /\ t[i] = e
        /\ \A k \in 1..(i - 1) : t[k] = s[k]
        /\ \A k \in i..N : t[k + 1] = s[k]
    BY InsertParts
  <1> HIDE DEF N
  <1>3. ASSUME NEW k \in 1..(N + 1)
        PROVE  \/ k < i /\ k \in 1..N /\ t[k] = s[k]
               \/ k = i /\ t[k] = e
               \/ k > i /\ k - 1 >= i /\ k - 1 \in 1..N /\ t[k] = s[k - 1]
    <2>1. CASE k < i
      <3>1. k \in 1..(i - 1) /\ k \in 1..N
        BY <1>1, <2>1
      <3> QED BY <1>2, <2>1, <3>1
    <2>2. CASE k = i
      BY <1>2, <2>2
    <2>3. CASE k > i
      <3>1. k - 1 \in i..N /\ k - 1 \in 1..N /\ k - 1 >= i /\ (k - 1) + 1 = k
        BY <1>1, <2>3
      <3>2. t[(k - 1) + 1] = s[k - 1]
        BY <1>2, <3>1
      <3> QED BY <2>3, <3>1, <3>2
    <2>4. k < i \/ k = i \/ k > i
      BY <1>1
    <2> QED BY <2>1, <2>2, <2>3, <2>4
  <1>4. ASSUME NEW k \in 1..N
        PROVE  \/ k < i /\ t[k] = s[k] /\ k \in 1..(N + 1)
               \/ k >= i /\ t[k + 1] = s[k] /\ k + 1 \in 1..(N + 1)
    <2>1. CASE k < i
      <3>1. k \in 1..(i - 1) /\ k \in 1..(N + 1)
        BY <1>1, <2>1
      <3> QED BY <1>2, <2>1, <3>1
    <2>2. CASE k >= i
      <3>1. k \in i..N /\ k + 1 \in 1..(N + 1)
        BY <1>1, <2>2
      <3> QED BY <1>2, <2>2, <3>1
    <2> QED BY <1>1, <2>1, <2>2
  <1>5. From(s, i, e, t)
    BY <1>1, <1>2, <1>3, <1>4 DEF From, N
  <1> QED BY <1>2, <1>5

LEMMA FromInjective ==
  ASSUME NEW s, NEW i, NEW e, NEW t, From(s, i, e, t), i \in Int, DOMAIN s \subseteq Int,
         \A k, l \in DOMAIN s : s[k] = s[l] => k = l,
         \A k \in DOMAIN s : s[k] # e,
         NEW k \in DOMAIN t, NEW l \in DOMAIN t, t[k] = t[l], Len(s) \in Nat
  PROVE  k = l
  <1>1. /\ \/ k < i /\ k \in DOMAIN s /\ t[k] = s[k]
           \/ k = i /\ t[k] = e
           \/ k > i /\ k - 1 >= i /\ k - 1 \in DOMAIN s /\ t[k] = s[k - 1]
        /\ \/ l < i /\ l \in DOMAIN s /\ t[l] = s[l]
           \/ l = i /\ t[l] = e
           \/ l > i /\ l - 1 >= i /\ l - 1 \in DOMAIN s /\ t[l] = s[l - 1]
    BY DEF From
  <1>2. k \in Int /\ l \in Int
    BY DEF From
  <1>3. CASE k < i /\ k \in DOMAIN s /\ t[k] = s[k]
    <2>1. ~(l > i /\ l - 1 >= i /\ l - 1 \in DOMAIN s /\ t[l] = s[l - 1])
      <3> SUFFICES ASSUME l - 1 >= i, l - 1 \in DOMAIN s, t[l] = s[l - 1] PROVE FALSE
        OBVIOUS
      <3>1. k = l - 1
        BY <1>3
      <3> QED BY <1>2, <1>3, <3>1
    <2> QED BY <1>1, <1>3, <2>1
  <1>4. CASE k = i /\ t[k] = e
    BY <1>1, <1>4
  <1>5. CASE k > i /\ k - 1 >= i /\ k - 1 \in DOMAIN s /\ t[k] = s[k - 1]
    <2>1. ~(l < i /\ l \in DOMAIN s /\ t[l] = s[l])
      <3> SUFFICES ASSUME l < i, l \in DOMAIN s, t[l] = s[l] PROVE FALSE
        OBVIOUS
      <3>1. l = k - 1
        BY <1>5
      <3> QED BY <1>2, <1>5, <3>1
    <2>2. CASE l = i /\ t[l] = e
      BY <1>5, <2>2
    <2>3. CASE l > i /\ l - 1 >= i /\ l - 1 \in DOMAIN s /\ t[l] = s[l - 1]
      <3>1. l - 1 = k - 1
        BY <1>5, <2>3
      <3> QED BY <1>2, <3>1
    <2> QED BY <1>1, <2>1, <2>2, <2>3
  <1> QED BY <1>1, <1>3, <1>4, <1>5

(* A leaf gets its half back: the other half, r, follows it in the chain.  *)
LEMMA ChainedInsert ==
  ASSUME IInv, NEW lo, NEW chain, Chained(lo, chain), NEW m \in DOMAIN chain,
         NEW r \in DOMAIN file, file[r].leaf, file[r].next = file[chain[m]].next, lo[r] # 0,
         \A i \in DOMAIN chain : chain[i] # r, Len(chain) < Len(file),
         DOMAIN file' = DOMAIN file, Len(file') = Len(file),
         file'[chain[m]].leaf, file'[chain[m]].next = r,
         \A p \in DOMAIN file \ {chain[m]} : file'[p] = file[p],
         NEW longer, longer = InsertAt(chain, m + 1, r)
  PROVE  /\ Chained(lo, longer)'
         /\ \A i \in DOMAIN chain : \E k \in DOMAIN longer : longer[k] = chain[i]
         /\ \E k \in DOMAIN longer : longer[k] = r
         /\ \A k \in DOMAIN longer : longer[k] = r \/ \E i \in DOMAIN chain : longer[k] = chain[i]
  <1> DEFINE N == Len(chain)
  <1>1. /\ DOMAIN chain = 1..N /\ N \in Nat /\ m \in 1..N /\ m \in Nat
        /\ \A i \in 1..N : chain[i] \in DOMAIN file
        /\ Len(file) \in Nat
    <2>1. Len(file) \in Nat
      BY Shape, Zenon
    <2> QED BY <2>1, ChainFacts
  <1>2. m + 1 \in 1..(N + 1)
    BY <1>1
  <1>3. longer \in Seq(DOMAIN file) /\ From(chain, m + 1, r, longer)
    <2> DEFINE a == m + 1
               D == DOMAIN file
    <2>1. /\ a \in 1..(Len(chain) + 1) /\ longer = InsertAt(chain, a, r)
          /\ chain \in Seq(D) /\ r \in D
      BY <1>2 DEF Chained
    <2> HIDE DEF a, D
    <2>2. longer \in Seq(D) /\ From(chain, a, r, longer)
      BY ONLY <2>1, InsertFrom
    <2> QED BY <2>2 DEF a, D
  <1>4. /\ DOMAIN longer = 1..(N + 1) /\ Len(longer) = N + 1
        /\ \A k \in 1..(N + 1) :
             \/ k < m + 1 /\ k \in 1..N /\ longer[k] = chain[k]
             \/ k = m + 1 /\ longer[k] = r
             \/ k > m + 1 /\ k - 1 >= m + 1 /\ k - 1 \in 1..N /\ longer[k] = chain[k - 1]
        /\ longer[m + 1] = r
        /\ \A k \in 1..N : \/ k < m + 1 /\ longer[k] = chain[k] /\ k \in 1..(N + 1)
                           \/ k >= m + 1 /\ longer[k + 1] = chain[k] /\ k + 1 \in 1..(N + 1)
    BY <1>1, <1>3 DEF From
  <1>5. /\ \A i \in 1..N :
             /\ file[chain[i]].leaf
             /\ file[chain[i]].next = IF i < N THEN chain[i + 1] ELSE 0
             /\ lo[chain[i]] = 0 <=> i = 1
        /\ \A i, j \in 1..N : chain[i] = chain[j] => i = j
    BY <1>1 DEF Chained
  <1> HIDE DEF N
  <1>7. ASSUME NEW k \in 1..(N + 1)
        PROVE  /\ file'[longer[k]].leaf
               /\ file'[longer[k]].next = IF k < N + 1 THEN longer[k + 1] ELSE 0
               /\ lo[longer[k]] = 0 <=> k = 1
    <2>1. CASE k < m
      <3>1. k \in 1..N /\ k + 1 \in 1..N /\ k < m + 1 /\ k + 1 < m + 1 /\ k < N /\ k < N + 1
        BY <1>1, <2>1
      <3>2. longer[k] = chain[k]
        BY <1>1, <1>4, <3>1
      <3>3. longer[k + 1] = chain[k + 1]
        <4>1. ~(k + 1 >= m + 1)
          BY <1>1, <2>1
        <4> QED BY <1>4, <3>1, <4>1
      <3>4. chain[k] # chain[m]
        BY <1>1, <1>5, <2>1, <3>1
      <3>5. file'[chain[k]] = file[chain[k]]
        BY <1>1, <3>1, <3>4
      <3> QED BY <1>5, <3>1, <3>2, <3>3, <3>5
    <2>2. CASE k = m
      <3>1. m \in 1..N /\ m < m + 1 /\ m < N + 1 /\ ~(m >= m + 1)
        BY <1>1
      <3>2. longer[m] = chain[m]
        BY <1>4, <3>1
      <3> QED BY <1>4, <1>5, <2>2, <3>1, <3>2
    <2>3. CASE k = m + 1
      <3>1. longer[k] = r /\ file'[r] = file[r]
        BY <1>1, <1>4, <2>3
      <3>2. file'[r].next = IF m < N THEN chain[m + 1] ELSE 0
        BY <1>1, <1>5, <3>1
      <3>3. CASE m < N
        <4>1. m + 1 \in 1..N /\ k < N + 1 /\ k # 1 /\ ~(m + 1 < m + 1)
          BY <1>1, <2>3, <3>3
        <4>2. longer[(m + 1) + 1] = chain[m + 1]
          BY <1>4, <4>1
        <4> QED BY <2>3, <3>1, <3>2, <3>3, <4>1, <4>2
      <3>4. CASE ~(m < N)
        <4>1. ~(k < N + 1) /\ k # 1
          BY <1>1, <2>3, <3>4
        <4> QED BY <3>1, <3>2, <3>4, <4>1
      <3> QED BY <3>3, <3>4
    <2>4. CASE k > m + 1
      <3> DEFINE q == k - 1
      <3>1. longer[k] = chain[q] /\ q \in 1..N
        <4>1. ~(k < m + 1) /\ k # m + 1
          BY <1>1, <2>4
        <4> QED BY <1>4, <4>1
      <3>2. q # 1 /\ k # 1 /\ q # m /\ q + 1 = k
        BY <1>1, <2>4
      <3>3. file'[chain[q]] = file[chain[q]]
        BY <1>1, <1>5, <3>1, <3>2
      <3>4. file[chain[q]].next = IF q < N THEN chain[q + 1] ELSE 0
        BY <1>5, <3>1
      <3>5. q < N <=> k < N + 1
        BY <1>1
      <3>6. k < N + 1 => k \in 1..N /\ ~(k < m + 1)
        BY <1>1, <2>4
      <3>7. k < N + 1 => longer[k + 1] = chain[k]
        BY <1>4, <3>6
      <3> HIDE DEF q
      <3> QED BY <1>5, <3>1, <3>2, <3>3, <3>4, <3>5, <3>7
    <2>5. k < m \/ k = m \/ k = m + 1 \/ k > m + 1
      BY <1>1
    <2> QED BY <2>1, <2>2, <2>3, <2>4, <2>5
  <1>8. ASSUME NEW k \in DOMAIN longer, NEW l \in DOMAIN longer, longer[k] = longer[l]
        PROVE  k = l
    <2> DEFINE a == m + 1
    <2>1. a \in Int /\ DOMAIN chain \subseteq Int /\ From(chain, a, r, longer)
      BY <1>1, <1>3
    <2>2. /\ \A i, j \in DOMAIN chain : chain[i] = chain[j] => i = j
          /\ \A i \in DOMAIN chain : chain[i] # r
          /\ k \in DOMAIN longer /\ l \in DOMAIN longer /\ longer[k] = longer[l]
          /\ Len(chain) \in Nat
      BY <1>1, <1>5, <1>8 DEF N
    <2> HIDE DEF a
    <2> QED BY ONLY <2>1, <2>2, FromInjective
  <1>9. Chained(lo, longer)'
    <2>1. Len(longer) <= Len(file')
      BY <1>1, <1>4 DEF N
    <2>2. longer \in Seq(DOMAIN file')
      BY <1>3
    <2>3. \A k \in DOMAIN longer :
            /\ file'[longer[k]].leaf
            /\ file'[longer[k]].next = IF k < Len(longer) THEN longer[k + 1] ELSE 0
            /\ lo[longer[k]] = 0 <=> k = 1
      BY <1>4, <1>7
    <2>4. \A k, l \in DOMAIN longer : longer[k] = longer[l] => k = l
      BY <1>8
    <2> QED BY <2>1, <2>2, <2>3, <2>4 DEF Chained
  <1>10. \A i \in DOMAIN chain : \E k \in DOMAIN longer : longer[k] = chain[i]
    BY <1>1, <1>4
  <1>11. \E k \in DOMAIN longer : longer[k] = r
    BY <1>2, <1>4
  <1>12. ASSUME NEW k \in DOMAIN longer
         PROVE  longer[k] = r \/ \E i \in DOMAIN chain : longer[k] = chain[i]
    <2>1. longer[k] = r \/ (k \in 1..N /\ longer[k] = chain[k])
            \/ (k - 1 \in 1..N /\ longer[k] = chain[k - 1])
      BY <1>4
    <2> QED BY <1>1, <2>1
  <1> QED BY <1>9, <1>10, <1>11, <1>12

(* Writing a node over the page of its copy leaves the chain as it is,     *)
(* unless the sibling is a new one.                                        *)
LEMMA ChainedWrite ==
  ASSUME IInv, NEW lo, NEW chain, Chained(lo, chain), NEW p \in DOMAIN file, NEW n \in Node,
         DOMAIN file' = DOMAIN file, Len(file') = Len(file),
         file'[p] = n, \A q \in DOMAIN file \ {p} : file'[q] = file[q],
         n.leaf = file[p].leaf, n.leaf => n.next = file[p].next
  PROVE  Chained(lo, chain)'
  <1>1. \A i \in DOMAIN chain : chain[i] \in DOMAIN file /\ file[chain[i]].leaf
    BY ChainFacts DEF Chained
  <1>2. \A i \in DOMAIN chain : /\ file'[chain[i]].leaf
                                /\ file'[chain[i]].next = file[chain[i]].next
                                /\ lo[chain[i]] = lo[chain[i]]
    BY <1>1
  <1>3. DOMAIN file \subseteq DOMAIN file' /\ Len(file) <= Len(file') /\ Len(file') \in Nat
    <2>1. Len(file) \in Nat
      BY Shape, Zenon
    <2> QED BY <2>1, SMTT(30)
  <1> QED BY <1>2, <1>3, ChainedSame

(* A leaf is written that has been split.                                  *)
LEMMA LinksWriteLeftLeaf ==
  ASSUME IInv, Sync, NEW lo, NEW lvl, Heights(lo, lvl),
         NEW live, NEW chain, Links(lo, live, chain), WriteLeft, path[at].node.leaf,
         NEW m \in DOMAIN chain, chain[m] = path[at].page,
         NEW r, r = Len(file), NEW more, more = live \cup {r},
         NEW longer, longer = InsertAt(chain, m + 1, r)
  PROVE  Links(lo, more, longer)'
  <1> DEFINE p == path[at].page
  <1>1. /\ pc = "left" /\ pc' \in {"split", "flush"} /\ at' = Up
        /\ at \in DOMAIN path /\ Up \in DOMAIN path /\ Up + 1 = at
        /\ path' = path
        /\ Len(file') = Len(file) /\ DOMAIN file' = DOMAIN file
        /\ p \in DOMAIN file /\ p # 1
        /\ file'[p] = path[at].node
        /\ \A q \in DOMAIN file \ {p} : file'[q] = file[q]
    BY WriteLeftEffect
  <1>2. /\ \A i \in DOMAIN path : path[i].node.leaf <=> i = Len(path)
        /\ 1 \in DOMAIN file /\ r \in DOMAIN file
    <2>1. 1 \in DOMAIN file /\ DOMAIN file = 1..Len(file) /\ Len(file) \in Nat
      BY <1>1, Shape
    <2> QED BY <1>1, <2>1, LastIsLeaf
  <1>3. at = Len(path)
    BY <1>1, <1>2
  <1>4. /\ path[at].node.next = r /\ file[r].leaf /\ file[r].next = file[p].next
        /\ (\A i \in DOMAIN chain : chain[i] # r) /\ Len(chain) < Len(file)
        /\ lo[r] # 0
    BY <1>1, <1>3 DEF Links, Halved
  <1> HIDE DEF p
  <1>5. /\ Chained(lo, longer)'
        /\ \A i \in DOMAIN chain : \E k \in DOMAIN longer : longer[k] = chain[i]
        /\ \E k \in DOMAIN longer : longer[k] = r
    <2>1. /\ Chained(lo, chain) /\ r \in DOMAIN file /\ file[r].leaf
          /\ file[r].next = file[chain[m]].next /\ lo[r] # 0
          /\ \A i \in DOMAIN chain : chain[i] # r
          /\ Len(chain) < Len(file)
          /\ file'[chain[m]].leaf /\ file'[chain[m]].next = r
          /\ \A q \in DOMAIN file \ {chain[m]} : file'[q] = file[q]
          /\ longer = InsertAt(chain, m + 1, r)
      BY <1>1, <1>2, <1>4 DEF Links, p
    <2> QED BY <1>1, <2>1, ChainedInsert
  <1>6. Reached(more, longer)'
    <2>1. more \subseteq DOMAIN file'
      BY <1>1, <1>2 DEF Links, Reached
    <2>2. file' # <<>> => 1 \in more /\ longer # <<>> /\ (file'[1].leaf => file'[1].next = 0)
      <3>1. longer # <<>>
        BY <1>5
      <3>2. file # <<>>
        BY <1>2
      <3> QED BY <1>1, <1>2, <3>1, <3>2 DEF Links, Reached
    <2>3. ASSUME NEW q \in more
          PROVE  IF file'[q].leaf THEN \E i \in DOMAIN longer : q = longer[i]
                 ELSE \A k \in DOMAIN file'[q].children : file'[q].children[k] \in more
      <3>1. CASE q = p
        <4>1. file'[q].leaf
          BY <1>1, <3>1
        <4>2. \E i \in DOMAIN longer : longer[i] = chain[m]
          BY <1>5
        <4> QED BY <3>1, <4>1, <4>2 DEF p
      <3>2. CASE q = r
        BY <1>1, <1>2, <1>4, <1>5, <3>1, <3>2
      <3>3. CASE q # p /\ q # r
        <4>1. q \in live /\ q \in DOMAIN file /\ file'[q] = file[q]
          BY <1>1, <3>3 DEF Links, Reached
        <4>2. CASE file[q].leaf
          <5>1. PICK i \in DOMAIN chain : q = chain[i]
            BY <4>1, <4>2 DEF Links, Reached
          <5>2. \E k \in DOMAIN longer : longer[k] = chain[i]
            BY <1>5
          <5> QED BY <4>1, <4>2, <5>1, <5>2
        <4>3. CASE ~file[q].leaf
          BY <4>1, <4>3 DEF Links, Reached
        <4> QED BY <4>2, <4>3
      <3> QED BY <3>1, <3>2, <3>3
    <2> QED BY <2>1, <2>2, <2>3 DEF Reached
  <1>7. ~RootGrows /\ ~RootGrows'
    <2>1. path[1].node.leaf = file[1].leaf
      <3>1. 1 \in DOMAIN path /\ path[1].page = 1
        BY <1>1, Shape, ElementFacts
      <3> QED BY <1>1, <3>1, HeightFacts
    <2> QED BY <1>1, <1>2, <2>1 DEF RootGrows
  <1>8. Referred(more)'
    <2>1. r \in more /\ \A q \in live : q \in more
      OBVIOUS
    <2> SUFFICES ASSUME NEW i \in DOMAIN path
                 PROVE  /\ path[i].page \in more
                        /\ ~path[i].node.leaf =>
                             \A k \in DOMAIN path[i].node.children :
                               path[i].node.children[k] \in more
                        /\ path[i].node.leaf => path[i].node.next = file'[path[i].page].next
      BY <1>1 DEF Referred
    <2>2. \A q \in Coming(i) : q = r
      BY <1>1, <1>7 DEF Coming
    <2>3. /\ path[i].page \in more
          /\ ~path[i].node.leaf =>
               \A k \in DOMAIN path[i].node.children : path[i].node.children[k] \in more
      <3>1. /\ path[i].page \in live
            /\ ~path[i].node.leaf =>
                 \A k \in DOMAIN path[i].node.children :
                   path[i].node.children[k] \in live \cup Coming(i)
        BY DEF Links, Referred
      <3> QED BY <2>1, <2>2, <3>1
    <2>4. path[i].node.leaf => path[i].node.next = file'[path[i].page].next
      BY <1>1, <1>2, <1>3 DEF p
    <2> QED BY <2>3, <2>4
  <1> QED BY <1>1, <1>5, <1>6, <1>7, <1>8 DEF Links, Halved, Doubled

LEMMA LinksWriteLeftInner ==
  ASSUME IInv, Sync, NEW lo, NEW lvl, Heights(lo, lvl),
         NEW live, NEW chain, Links(lo, live, chain), WriteLeft, ~path[at].node.leaf
  PROVE  Links(lo, live, chain)'
  <1> DEFINE p == path[at].page
  <1>1. /\ pc = "left" /\ pc' \in {"split", "flush"} /\ at' = Up
        /\ at \in DOMAIN path /\ Up \in DOMAIN path /\ Up + 1 = at
        /\ path' = path
        /\ Len(file') = Len(file) /\ DOMAIN file' = DOMAIN file
        /\ p \in DOMAIN file /\ p # 1
        /\ file'[p] = path[at].node
        /\ \A q \in DOMAIN file \ {p} : file'[q] = file[q]
    BY WriteLeftEffect
  <1>2. /\ \A i \in DOMAIN path : path[i].node.leaf <=> i = Len(path)
        /\ \A i \in DOMAIN path : path[i].node.leaf = file[path[i].page].leaf
        /\ \A i, j \in DOMAIN path : path[i].page = path[j].page => i = j
        /\ 1 \in DOMAIN path /\ path[1].page = 1 /\ path[at].node \in Node
    <2>1. 1 \in DOMAIN path /\ path[1].page = 1 /\ path[at].node \in Node
      BY <1>1, Shape, ElementFacts
    <2>2. \A i \in DOMAIN path : path[i].node.leaf = file[path[i].page].leaf
      BY <1>1, HeightFacts
    <2> QED BY <1>1, <2>1, <2>2, LastIsLeaf, HeightFacts
  <1>3. at # Len(path) /\ ~file[p].leaf
    BY <1>1, <1>2
  <1>4. ~RootGrows /\ ~RootGrows'
    BY <1>1, <1>2 DEF RootGrows
  <1>5. \A i : Coming(i) = {} /\ Coming(i)' = {}
    BY <1>1, <1>3, <1>4 DEF Coming
  <1> HIDE DEF p
  <1>6. Chained(lo, chain)'
    <2>1. Chained(lo, chain) /\ path[at].node.leaf = file[p].leaf
      BY <1>1, <1>2 DEF Links, p
    <2> DEFINE n == path[at].node
    <2>2. n \in Node /\ n.leaf = file[p].leaf /\ file'[p] = n /\ (n.leaf => n.next = file[p].next)
      BY <1>1, <1>2, <2>1
    <2> HIDE DEF n
    <2> QED BY <1>1, <2>1, <2>2, ChainedWrite
  <1>7. \A k \in DOMAIN path[at].node.children : path[at].node.children[k] \in live
    BY <1>1, <1>5 DEF Links, Referred
  <1>8. Reached(live, chain)'
    <2>1. ASSUME NEW q \in live
          PROVE  IF file'[q].leaf THEN \E i \in DOMAIN chain : q = chain[i]
                 ELSE \A k \in DOMAIN file'[q].children : file'[q].children[k] \in live
      <3>1. CASE q = p
        BY <1>1, <1>7, <3>1
      <3>2. CASE q # p
        <4>1. q \in DOMAIN file /\ file'[q] = file[q]
          BY <1>1, <3>2 DEF Links, Reached
        <4> QED BY <4>1 DEF Links, Reached
      <3> QED BY <3>1, <3>2
    <2>2. live \subseteq DOMAIN file'
      BY <1>1 DEF Links, Reached
    <2>3. 1 \in live /\ chain # <<>> /\ (file'[1].leaf => file'[1].next = 0)
      <3>1. 1 \in DOMAIN file /\ file # <<>>
        <4>1. 1 \in DOMAIN file
          BY <1>1, Shape
        <4> QED BY <4>1
      <3> QED BY <1>1, <3>1 DEF Links, Reached
    <2> QED BY <2>1, <2>2, <2>3 DEF Reached
  <1>9. Referred(live)'
    <2> SUFFICES ASSUME NEW i \in DOMAIN path
                 PROVE  /\ path[i].page \in live
                        /\ ~path[i].node.leaf =>
                             \A k \in DOMAIN path[i].node.children :
                               path[i].node.children[k] \in live
                        /\ path[i].node.leaf => path[i].node.next = file'[path[i].page].next
      BY <1>1 DEF Referred
    <2>1. /\ path[i].page \in live
          /\ ~path[i].node.leaf =>
               \A k \in DOMAIN path[i].node.children : path[i].node.children[k] \in live
      BY <1>5 DEF Links, Referred
    <2>2. ASSUME path[i].node.leaf PROVE path[i].node.next = file'[path[i].page].next
      <3>1. i # at
        BY <2>2
      <3>2. path[i].node.next = file[path[i].page].next
        BY <2>2, <3>1 DEF Links, Referred
      <3>3. path[i].page \in DOMAIN file /\ path[i].page # p
        BY <1>1, <1>2, <3>1, ElementFacts DEF p
      <3> QED BY <1>1, <3>2, <3>3
    <2> QED BY <2>1, <2>2
  <1> QED BY <1>1, <1>4, <1>6, <1>8, <1>9 DEF Links, Halved, Doubled

(* The two new pages of a root are not in the chain, even if they are      *)
(* leaves: then the root is the whole chain.                               *)
LEMMA NewPagesUnlinked ==
  ASSUME IInv, Sync, NEW lo, NEW lvl, Heights(lo, lvl),
         NEW live, NEW chain, Links(lo, live, chain), pc = "link"
  PROVE  /\ \A i \in DOMAIN chain : chain[i] # First /\ chain[i] # Second
         /\ Parted.leaf => /\ Len(path) = 1 /\ Parted.next = 0
                           /\ \A i \in DOMAIN chain : chain[i] = 1
  <1>1. /\ at = 1 /\ 1 \in DOMAIN path /\ path[1].page = 1 /\ 1 \in DOMAIN file
        /\ First \in DOMAIN file /\ Second \in DOMAIN file /\ First # 1 /\ Second # 1
        /\ file[First].leaf = Parted.leaf /\ file[Second].leaf = Parted.leaf
    BY Shape, ElementFacts, Zenon DEF First, Second, Parted
  <1>2. /\ \A i \in DOMAIN path : path[i].node.leaf <=> i = Len(path)
        /\ file[1].leaf = Parted.leaf
    BY <1>1, LastIsLeaf, HeightFacts DEF Parted
  <1>3. DOMAIN chain = 1..Len(chain) /\ Len(chain) \in Nat
        /\ \A i \in DOMAIN chain : chain[i] \in DOMAIN file /\ file[chain[i]].leaf /\ chain[i] # 0
    BY ChainFacts DEF Links, Chained
  <1>4. ASSUME Parted.leaf
        PROVE  /\ Len(path) = 1 /\ Parted.next = 0 /\ \A i \in DOMAIN chain : chain[i] = 1
    <2>1. Len(path) = 1
      BY <1>1, <1>2, <1>4 DEF Parted
    <2>2. 1 \in live /\ file[1].next = 0
      <3>1. file # <<>>
        BY <1>1
      <3> QED BY <1>2, <1>4, <3>1 DEF Links, Reached
    <2>3. PICK i \in DOMAIN chain : 1 = chain[i]
      BY <1>2, <1>4, <2>2 DEF Links, Reached
    <2>4. lo[1] = 0
      <3>1. file # <<>>
        BY <1>1
      <3> QED BY <3>1 DEF Heights
    <2>5. i = 1
      BY <2>3, <2>4 DEF Links, Chained
    <2>6. ~(1 < Len(chain))
      <3> SUFFICES ASSUME 1 < Len(chain) PROVE FALSE
        OBVIOUS
      <3>1. file[chain[1]].next = chain[1 + 1] /\ 1 + 1 \in DOMAIN chain
        BY <1>3, <2>3, <2>5 DEF Links, Chained
      <3> QED BY <1>3, <2>2, <2>3, <2>5, <3>1
    <2>7. \A k \in DOMAIN chain : k = 1
      BY <1>3, <2>6
    <2>8. Parted.next = file[1].next
      BY <1>1, <1>4 DEF Links, Referred, Parted
    <2> QED BY <2>1, <2>2, <2>3, <2>5, <2>7, <2>8
  <1>5. \A i \in DOMAIN chain : chain[i] # First /\ chain[i] # Second
    <2>1. CASE Parted.leaf
      BY <1>1, <1>4, <2>1
    <2>2. CASE ~Parted.leaf
      BY <1>1, <1>3, <2>2
    <2> QED BY <2>1, <2>2
  <1> QED BY <1>4, <1>5, Zenon

LEMMA LinksLink ==
  ASSUME IInv, Sync, NEW lo, NEW lvl, Heights(lo, lvl),
         NEW live, NEW chain, Links(lo, live, chain), LinkChildren,
         NEW more, more = IF Parted.leaf THEN live ELSE live \cup {First, Second}
  PROVE  Links(lo, more, chain)'
  <1>1. /\ pc = "link" /\ pc' = "flush" /\ at = 1 /\ at' = 1
        /\ Len(path') = Len(path) /\ DOMAIN path' = DOMAIN path /\ 1 \in DOMAIN path
        /\ ~path'[1].node.leaf
        /\ path'[1].node.children = <<First, Second>>
        /\ path'[1].page = 1 /\ path[1].page = 1
        /\ \A i \in DOMAIN path \ {1} : path'[i] = path[i]
        /\ Len(file') = Len(file) /\ DOMAIN file' = DOMAIN file
        /\ First \in DOMAIN file /\ Second \in DOMAIN file
        /\ First # 1 /\ Second # 1 /\ First # Second
        /\ file[First].leaf = Parted.leaf /\ file[Second].leaf = Parted.leaf
        /\ \A p \in DOMAIN file :
             /\ file'[p].leaf = file[p].leaf /\ file'[p].blocks = file[p].blocks
             /\ file'[p].children = file[p].children
        /\ \A p \in DOMAIN file \ {First, Second} : file'[p] = file[p]
        /\ file'[First].next = Second /\ file'[Second].next = Parted.next
    BY LinkChildrenEffect
  <1>2. 1 \in DOMAIN file /\ file # <<>>
    <2>1. 1 \in DOMAIN file
      BY <1>1, Shape, Zenon
    <2> QED BY ONLY <2>1
  <1>3. /\ \A i \in DOMAIN chain : chain[i] # First /\ chain[i] # Second
        /\ Parted.leaf => Len(path) = 1 /\ Parted.next = 0
    BY <1>1, NewPagesUnlinked
  <1>4. file[1].leaf = Parted.leaf /\ \A i : Coming(i) = {}
    BY <1>1, HeightFacts, Zenon DEF Parted, Coming, RootGrows
  <1>5. RootGrows' <=> Parted.leaf
    BY <1>1, <1>2, <1>4 DEF RootGrows
  <1>6. \A p \in live : p \in more
    OBVIOUS
  <1>7. Chained(lo, chain)'
    <2>1. Chained(lo, chain)
      BY DEF Links
    <2>2. \A i \in DOMAIN chain : chain[i] \in DOMAIN file /\ file[chain[i]].leaf
      BY <2>1, ChainFacts DEF Chained
    <2>3. \A i \in DOMAIN chain : /\ file'[chain[i]].leaf
                                  /\ file'[chain[i]].next = file[chain[i]].next
                                  /\ lo[chain[i]] = lo[chain[i]]
      BY <1>1, <1>3, <2>2
    <2>4. DOMAIN file \subseteq DOMAIN file' /\ Len(file) <= Len(file') /\ Len(file') \in Nat
      <3>1. Len(file) \in Nat
        BY Shape, Zenon
      <3> QED BY ONLY <1>1, <3>1
    <2> QED BY <2>1, <2>3, <2>4, ChainedSame
  <1>8. ASSUME ~Parted.leaf
        PROVE  /\ \A k \in DOMAIN file[First].children : file[First].children[k] \in live
               /\ \A k \in DOMAIN file[Second].children : file[Second].children[k] \in live
    <2>1. /\ file[First] = LeftHalf(Parted, 0) /\ file[Second] = RightHalf(Parted, 0)
      BY <1>1 DEF Sync, First, Second, Parted
    <2>2. \A k \in DOMAIN Parted.children : Parted.children[k] \in live
      <3>1. ~path[1].node.leaf /\ Parted = path[1].node
        BY <1>1, <1>8 DEF Parted
      <3> QED BY <1>1, <1>4, <3>1 DEF Links, Referred
    <2>3. /\ Parted \in Node /\ ~Parted.leaf /\ Len(Parted.blocks) = Capacity(Parted) + 1
          /\ Len(Parted.children) = Len(Parted.blocks) + 1
      BY <1>1, <1>8, PartedFacts
    <2>4. /\ \A k \in DOMAIN file[First].children :
               k \in DOMAIN Parted.children /\ file[First].children[k] = Parted.children[k]
          /\ \A k \in DOMAIN file[Second].children :
               \E q \in DOMAIN Parted.children : file[Second].children[k] = Parted.children[q]
      BY <2>1, <2>3, SplitChildren
    <2> QED BY <2>2, <2>4
  <1>9. Reached(more, chain)'
    <2>1. more \subseteq DOMAIN file'
      BY <1>1 DEF Links, Reached
    <2>2. 1 \in more /\ chain # <<>> /\ (file'[1].leaf => file'[1].next = 0)
      BY <1>1, <1>2, <1>6 DEF Links, Reached
    <2>3. ASSUME NEW p \in more
          PROVE  IF file'[p].leaf THEN \E i \in DOMAIN chain : p = chain[i]
                 ELSE \A k \in DOMAIN file'[p].children : file'[p].children[k] \in more
      <3>1. CASE p \in live
        <4>1. p \in DOMAIN file
          BY <3>1 DEF Links, Reached
        <4> QED BY <1>1, <1>6, <3>1, <4>1 DEF Links, Reached
      <3>2. CASE p \notin live
        <4>1. ~Parted.leaf /\ (p = First \/ p = Second)
          BY <3>2
        <4> QED BY <1>1, <1>6, <1>8, <4>1
      <3> QED BY <3>1, <3>2
    <2> QED BY <2>1, <2>2, <2>3 DEF Reached
  <1>10. Referred(more)'
    <2> SUFFICES ASSUME NEW i \in DOMAIN path
                 PROVE  /\ path'[i].page \in more
                        /\ ~path'[i].node.leaf =>
                             \A k \in DOMAIN path'[i].node.children :
                               path'[i].node.children[k] \in more \cup Coming(i)'
                        /\ path'[i].node.leaf => path'[i].node.next = file'[path'[i].page].next
      BY <1>1 DEF Referred
    <2>1. CASE i = 1
      <3>1. First \in more \cup Coming(1)' /\ Second \in more \cup Coming(1)'
        <4>1. CASE Parted.leaf
          BY <1>1, <1>5, <4>1 DEF Coming, First, Second
        <4>2. CASE ~Parted.leaf
          BY <4>2
        <4> QED BY <4>1, <4>2
      <3>2. path[1].page \in live
        BY <1>1 DEF Links, Referred
      <3> QED BY <1>1, <1>6, <2>1, <3>1, <3>2
    <2>2. CASE i # 1
      <3>1. /\ path[i].page \in live
            /\ ~path[i].node.leaf =>
                 \A k \in DOMAIN path[i].node.children : path[i].node.children[k] \in live
            /\ path[i].node.leaf => path[i].node.next = file[path[i].page].next
        BY <1>1, <1>4 DEF Links, Referred
      <3>2. path[i].page \in DOMAIN file /\ path[i].page \notin {First, Second}
        BY <1>1, ElementFacts, HeightFacts
      <3> QED BY <1>1, <1>6, <2>2, <3>1, <3>2
    <2> QED BY <2>1, <2>2
  <1>11. Doubled(lo)'
    <2> SUFFICES ASSUME Parted.leaf
                 PROVE  /\ Len(path) = 1 /\ path'[1].node.children = <<First, Second>>
                        /\ file'[First].leaf /\ file'[First].next = Second
                        /\ file'[Second].leaf /\ file'[Second].next = 0
                        /\ lo[First] = 0 /\ lo[Second] # 0
      BY <1>1, <1>5 DEF Doubled, First, Second
    <2>1. lo[First] = 0 /\ lo[Second] = Sep.key
      BY <1>1 DEF Heights, First, Second, Sep, Parted
    <2>2. Sep.key # 0
      BY <1>1, PartedFacts
    <2> QED BY <1>1, <1>3, <2>1, <2>2
  <1>12. Halved(lo, chain)'
    BY <1>1 DEF Halved
  <1> QED BY <1>7, <1>9, <1>10, <1>11, <1>12 DEF Links

(* A copy that is written is of the kind of its page, unless the root has  *)
(* been given its first children.                                          *)
LEMMA FlushKind ==
  ASSUME IInv, NEW lo, NEW lvl, Heights(lo, lvl), pc = "flush", ~RootGrows
  PROVE  path[at].node.leaf = file[path[at].page].leaf
  <1>1. /\ at \in DOMAIN path /\ path[at].page \in DOMAIN file /\ 1 \in DOMAIN file
        /\ path[at].node.leaf \in BOOLEAN /\ (path[at].page = 1 <=> at = 1)
        /\ at # 1 => file[path[at].page].leaf = path[at].node.leaf
    BY Shape, ElementFacts
  <1>2. CASE at = 1
    <2>1. file[1].leaf \in BOOLEAN /\ lvl[1] \in Nat
      BY <1>1, FileFacts, HeightFacts
    <2>2. file[1].leaf => path[1].node.leaf
      BY <1>1, <1>2 DEF RootGrows
    <2>3. path[1].node.leaf => file[1].leaf
      <3>1. Level(lvl, file[1], lvl[1])
        BY <1>1 DEF Heights
      <3>2. Level(lvl, path[1].node, lvl[1]) \/ Level(lvl, path[1].node, lvl[1] + 1)
        BY <1>1, <1>2 DEF Heights
      <3>3. lvl[1] + 1 # 0
        BY <2>1
      <3> QED BY <3>1, <3>2, <3>3 DEF Level
    <2> QED BY <1>1, <1>2, <2>1, <2>2, <2>3
  <1>3. CASE at # 1
    BY <1>1, <1>3
  <1> QED BY <1>2, <1>3

LEMMA LinksFlush ==
  ASSUME IInv, Sync, NEW lo, NEW lvl, Heights(lo, lvl),
         NEW live, NEW chain, Links(lo, live, chain), Flush, ~RootGrows
  PROVE  Links(lo, live, chain)'
  <1> DEFINE p == path[at].page
             n == path[at].node
  <1>1. /\ pc = "flush" /\ at \in DOMAIN path
        /\ Len(file') = Len(file) /\ DOMAIN file' = DOMAIN file
        /\ p \in DOMAIN file /\ file'[p] = n
        /\ \A q \in DOMAIN file \ {p} : file'[q] = file[q]
        /\ at # Len(path) => pc' = "flush" /\ path' = path /\ at' = at + 1
        /\ at = Len(path) => pc' = "idle" /\ path' = <<>> /\ DOMAIN path' = {}
    BY FlushEffect
  <1>2. n \in Node /\ n.leaf = file[p].leaf /\ 1 \in DOMAIN file /\ file # <<>>
    <2>1. 1 \in DOMAIN file
      BY <1>1, Shape
    <2> QED BY <1>1, <2>1, ElementFacts, FlushKind
  <1>3. \A i : Coming(i) = {}
    BY <1>1 DEF Coming
  <1>4. /\ p \in live
        /\ ~n.leaf => \A k \in DOMAIN n.children : n.children[k] \in live
        /\ n.leaf => n.next = file[p].next
    BY <1>1, <1>3 DEF Links, Referred
  <1>5. ~RootGrows'
    <2>1. at + 1 # 1
      BY <1>1, Shape
    <2> QED BY <1>1, <2>1 DEF RootGrows
  <1>6. \A i, j \in DOMAIN path : path[i].page = path[j].page => i = j
    BY HeightFacts
  <1>7. \A i \in DOMAIN path : path[i].page = p => path[i].node = n
    BY <1>1, <1>6
  <1> HIDE DEF p, n
  <1>8. Chained(lo, chain)'
    BY <1>1, <1>2, <1>4, ChainedWrite DEF Links
  <1>9. Reached(live, chain)'
    <2>1. ASSUME NEW q \in live
          PROVE  IF file'[q].leaf THEN \E i \in DOMAIN chain : q = chain[i]
                 ELSE \A k \in DOMAIN file'[q].children : file'[q].children[k] \in live
      <3>1. CASE q = p
        BY <1>1, <1>2, <1>4, <3>1 DEF Links, Reached
      <3>2. CASE q # p
        <4>1. q \in DOMAIN file /\ file'[q] = file[q]
          BY <1>1, <3>2 DEF Links, Reached
        <4> QED BY <4>1 DEF Links, Reached
      <3> QED BY <3>1, <3>2
    <2>2. live \subseteq DOMAIN file'
      BY <1>1 DEF Links, Reached
    <2>3. 1 \in live /\ chain # <<>> /\ (file'[1].leaf => file'[1].next = 0)
      <3>1. 1 \in live /\ chain # <<>> /\ (file[1].leaf => file[1].next = 0)
        BY <1>2 DEF Links, Reached
      <3> QED BY <1>1, <1>2, <1>4, <3>1
    <2> QED BY <2>1, <2>2, <2>3 DEF Reached
  <1>10. Referred(live)'
    <2>1. CASE at = Len(path)
      BY <1>1, <2>1 DEF Referred
    <2>2. CASE at # Len(path)
      <3> SUFFICES ASSUME NEW i \in DOMAIN path
                   PROVE  /\ path[i].page \in live
                          /\ ~path[i].node.leaf =>
                               \A k \in DOMAIN path[i].node.children :
                                 path[i].node.children[k] \in live
                          /\ path[i].node.leaf => path[i].node.next = file'[path[i].page].next
        BY <1>1, <2>2 DEF Referred
      <3>1. /\ path[i].page \in live
            /\ ~path[i].node.leaf =>
                 \A k \in DOMAIN path[i].node.children : path[i].node.children[k] \in live
            /\ path[i].node.leaf => path[i].node.next = file[path[i].page].next
        BY <1>1, <1>3 DEF Links, Referred
      <3>2. path[i].page \in DOMAIN file
        BY ElementFacts
      <3> QED BY <1>1, <1>7, <3>1, <3>2
    <2> QED BY <2>1, <2>2
  <1>11. Halved(lo, chain)'
    BY <1>1 DEF Halved
  <1> QED BY <1>5, <1>8, <1>9, <1>10, <1>11 DEF Links, Doubled

(* The root that has been given two leaves.                                *)
LEMMA LinksFlushRoot ==
  ASSUME IInv, Sync, NEW lo, NEW live, NEW chain, Links(lo, live, chain), Flush, RootGrows,
         NEW a, a = First, NEW b, b = Second
  PROVE  Links(lo, {1, a, b}, <<a, b>>)'
  <1>1. /\ pc = "flush" /\ at = 1 /\ 1 \in DOMAIN path /\ path[1].page = 1
        /\ Len(file') = Len(file) /\ DOMAIN file' = DOMAIN file /\ 1 \in DOMAIN file
        /\ file'[1] = path[1].node /\ \A q \in DOMAIN file \ {1} : file'[q] = file[q]
        /\ ~path[1].node.leaf
    <2>1. pc = "flush" /\ at = 1 /\ ~path[1].node.leaf
      BY DEF RootGrows
    <2> QED BY <2>1, FlushEffect, Shape, ElementFacts
  <1>2. /\ Len(path) = 1 /\ path[1].node.children = <<a, b>>
        /\ file[a].leaf /\ file[a].next = b /\ file[b].leaf /\ file[b].next = 0
        /\ lo[a] = 0 /\ lo[b] # 0
    BY DEF Links, Doubled, First, Second
  <1>3. pc' = "idle" /\ path' = <<>> /\ DOMAIN path' = {}
    BY <1>1, <1>2, FlushEffect
  <1>4. a \in DOMAIN file \ {1} /\ b \in DOMAIN file \ {1} /\ a # b /\ Len(file) >= 2
    <2>1. Sound(file, path[1].node)
      BY <1>1, ElementFacts
    <2>2. \A k \in {1, 2} : path[1].node.children[k] \in DOMAIN file \ {1}
      BY <1>1, <1>2, <2>1 DEF Sound
    <2>3. a \in DOMAIN file \ {1} /\ b \in DOMAIN file \ {1}
      BY <1>2, <2>2
    <2>4. DOMAIN file = 1..Len(file) /\ Len(file) \in Nat
      BY Shape, Zenon
    <2> QED BY <1>2, <2>3, <2>4
  <1>5. /\ file'[a].leaf /\ file'[a].next = b /\ file'[b].leaf /\ file'[b].next = 0
        /\ ~file'[1].leaf /\ file'[1].children = <<a, b>>
    BY <1>1, <1>2, <1>4
  <1> DEFINE c == <<a, b>>
  <1>6. /\ c \in Seq(DOMAIN file') /\ Len(c) = 2 /\ DOMAIN c = {1, 2} /\ c[1] = a /\ c[2] = b
    BY <1>1, <1>4
  <1> HIDE DEF c
  <1>7. Chained(lo, c)'
    <2>1. \A i \in DOMAIN c :
            /\ file'[c[i]].leaf
            /\ file'[c[i]].next = IF i < Len(c) THEN c[i + 1] ELSE 0
            /\ lo[c[i]] = 0 <=> i = 1
      BY <1>2, <1>5, <1>6
    <2>2. \A i, j \in DOMAIN c : c[i] = c[j] => i = j
      BY <1>4, <1>6
    <2>3. Len(c) <= Len(file')
      BY <1>1, <1>4, <1>6
    <2> QED BY <1>6, <2>1, <2>2, <2>3 DEF Chained
  <1>8. Reached({1, a, b}, c)'
    <2>1. c # <<>>
      BY DEF c
    <2>2. {1, a, b} \subseteq DOMAIN file'
      BY <1>1, <1>4
    <2>3. \A p \in {1, a, b} :
            IF file'[p].leaf THEN \E i \in DOMAIN c : p = c[i]
            ELSE \A k \in DOMAIN file'[p].children : file'[p].children[k] \in {1, a, b}
      <3>1. (\E i \in DOMAIN c : a = c[i]) /\ (\E i \in DOMAIN c : b = c[i])
        BY <1>6
      <3>2. DOMAIN <<a, b>> = {1, 2} /\ <<a, b>>[1] = a /\ <<a, b>>[2] = b
        OBVIOUS
      <3>3. \A k \in DOMAIN file'[1].children : file'[1].children[k] \in {1, a, b}
        BY <1>5, <3>2
      <3> QED BY <1>5, <3>1, <3>3
    <2> QED BY <1>5, <2>1, <2>2, <2>3 DEF Reached
  <1>9. Referred({1, a, b})' /\ Halved(lo, c)' /\ Doubled(lo)'
    BY <1>3 DEF Referred, Halved, Doubled, RootGrows
  <1> QED BY <1>7, <1>8, <1>9 DEF Links, c

-----------------------------------------------------------------------------
(* What the leaves hold, kept by each step. *)

(* The chain holds what it did if its leaves have the same blocks.         *)
LEMMA SameLeaves ==
  ASSUME IInv, NEW lo, NEW chain, Chained(lo, chain), Apart(chain), Held(chain),
         \A i \in DOMAIN chain : BlocksOf(file'[chain[i]]) = BlocksOf(file[chain[i]])
  PROVE  /\ Apart(chain)'
         /\ inserted' = inserted =>
              \A b \in inserted' : \E i \in DOMAIN chain : b \in BlocksOf(file'[chain[i]])
         /\ inserted' = inserted /\ new' = new /\ Missing' = Missing /\ pc # "idle" => Held(chain)'
  <1>1. Apart(chain)'
    BY DEF Apart
  <1>2. \A b \in inserted : \E i \in DOMAIN chain : b \in BlocksOf(file'[chain[i]])
    BY DEF Held
  <1>3. ASSUME inserted' = inserted, new' = new, Missing' = Missing, pc # "idle"
        PROVE  Held(chain)'
    <2>1. CASE Missing
      BY <1>2, <1>3, <2>1 DEF Held
    <2>2. CASE ~Missing
      BY <1>2, <1>3, <2>2 DEF Held
    <2> QED BY <2>1, <2>2
  <1> QED BY <1>1, <1>2, <1>3

(* A root that is a leaf is the whole chain.                               *)
LEMMA RootAlone ==
  ASSUME IInv, NEW lo, NEW lvl, Heights(lo, lvl), NEW live, NEW chain, Links(lo, live, chain),
         file # <<>>, file[1].leaf
  PROVE  DOMAIN chain = {1} /\ chain[1] = 1
  <1>1. lo[1] = 0
    BY DEF Heights
  <1>2. /\ DOMAIN chain = 1..Len(chain) /\ Len(chain) \in Nat
        /\ \A i \in DOMAIN chain : chain[i] # 0
    BY ChainFacts DEF Links
  <1>3. 1 \in live /\ file[1].next = 0
    BY DEF Links, Reached
  <1>4. PICK i \in DOMAIN chain : chain[i] = 1
    BY <1>3 DEF Links, Reached
  <1>5. i = 1
    BY <1>1, <1>4 DEF Links, Chained
  <1>6. i = Len(chain)
    <2>1. file[chain[i]].next = IF i < Len(chain) THEN chain[i + 1] ELSE 0
      BY DEF Links, Chained
    <2>2. ASSUME i < Len(chain) PROVE FALSE
      <3>1. i + 1 \in DOMAIN chain
        BY <1>2, <2>2
      <3>2. chain[i + 1] # 0
        BY <1>2, <3>1
      <3>3. file[chain[i]].next = chain[i + 1]
        BY <2>1, <2>2
      <3> QED BY <1>3, <1>4, <3>2, <3>3
    <2>3. i \in 1..Len(chain)
      BY <1>2, <1>4
    <2> QED BY <1>2, <2>2, <2>3
  <1>7. 1..1 = {1}
    OBVIOUS
  <1>8. DOMAIN chain = 1..1
    BY <1>2, <1>5, <1>6
  <1>9. chain[1] = 1
    BY <1>4, <1>5
  <1> QED BY <1>7, <1>8, <1>9

(* The first leaf has the first block.                                     *)
LEMMA ContentsStartFirst ==
  ASSUME IInv, NEW key \in Key, Start(key), file = <<>>, NEW lo, NEW live, NEW chain,
         Contents(chain), Links(lo, live, chain), NEW c, c = << 1 >>
  PROVE  Contents(c)'
  <1>1. /\ pc' = "idle" /\ path' = <<>> /\ DOMAIN path' = {}
        /\ Len(file') = 1 /\ DOMAIN file' = {1} /\ DOMAIN file = {}
        /\ DOMAIN file'[1].blocks = {1} /\ file'[1].blocks[1] = new'
        /\ inserted' = inserted \cup {new'}
        /\ new'.id = nextId /\ nextId' = nextId + 1 /\ nextId \in Nat
    BY StartFirstEffect
  <1>2. inserted = {}
    <2>1. ASSUME NEW b \in inserted PROVE FALSE
      <3>1. PICK i \in DOMAIN chain : b \in BlocksOf(file[chain[i]])
        BY DEF Contents, Held
      <3>2. chain[i] \in DOMAIN file
        BY ChainFacts DEF Links
      <3>3. DOMAIN file = {}
        BY <1>1
      <3> QED BY ONLY <3>2, <3>3
    <2> QED BY <2>1
  <1>3. BlocksOf(file'[1]) = {new'}
    BY <1>1 DEF BlocksOf
  <1>4. DOMAIN c = {1} /\ c[1] = 1
    OBVIOUS
  <1>5. nextId < nextId + 1
    BY <1>1
  <1>6. Fine'
    <2>1. NoDouble(file'[1]) /\ Sorted(file'[1])
      BY <1>1 DEF NoDouble, Sorted
    <2>2. \A b \in BlocksOf(file'[1]) : b.id < nextId'
      BY <1>1, <1>3, <1>5
    <2> QED BY <1>1, <2>1, <2>2 DEF Fine
  <1>7. Apart(c)'
    BY <1>4 DEF Apart
  <1>8. ~Missing' /\ ~RootGrows'
    BY <1>1 DEF Missing, RootGrows
  <1>9. Held(c)'
    BY <1>1, <1>2, <1>3, <1>4, <1>8 DEF Held
  <1>10. Ahead'
    BY <1>8 DEF Ahead
  <1> QED BY <1>6, <1>7, <1>9, <1>10 DEF Contents

LEMMA ContentsStart ==
  ASSUME IInv, NEW lo, NEW live, NEW chain, Contents(chain), Links(lo, live, chain),
         NEW key \in Key, Start(key), file # <<>>
  PROVE  Contents(chain)'
  <1>1. /\ pc' = "descend" /\ DOMAIN path' = {1}
        /\ path'[1].node = file[1] /\ file' = file /\ 1 \in DOMAIN file
        /\ inserted' = inserted
        /\ new'.id = nextId /\ nextId' = nextId + 1 /\ nextId \in Nat
    BY StartEffect
  <1>2. ~RootGrows' /\ Missing'
    BY <1>1 DEF RootGrows, Missing
  <1>3. \A i \in DOMAIN chain : chain[i] \in DOMAIN file /\ file[chain[i]].leaf
    BY ChainFacts DEF Links, Chained
  <1>4. Fine'
    <2>1. ASSUME NEW p \in DOMAIN file, file[p].leaf, NEW b \in BlocksOf(file[p])
          PROVE  b.id < nextId + 1
      <3>1. b.id < nextId
        BY <2>1 DEF Contents, Fine
      <3>2. b.id \in Nat
        <4>1. file[p] \in Node
          BY FileFacts
        <4>2. b \in Block
          BY <4>1, KeyFacts DEF BlocksOf
        <4> QED BY <4>2, BlockFacts
      <3> QED BY <1>1, <3>1, <3>2
    <2>2. \A p \in DOMAIN file : file[p].leaf => NoDouble(file[p]) /\ Sorted(file[p])
      BY DEF Contents, Fine
    <2>3. new'.id < nextId'
      BY <1>1
    <2> QED BY <1>1, <2>1, <2>2, <2>3 DEF Fine
  <1>5. Apart(chain)'
    BY <1>1 DEF Apart, Contents
  <1>6. Held(chain)'
    <2>1. ASSUME NEW i \in DOMAIN chain PROVE new' \notin BlocksOf(file[chain[i]])
      <3>1. \A b \in BlocksOf(file[chain[i]]) : b.id < nextId
        BY <1>3 DEF Contents, Fine
      <3>2. ~(nextId < nextId)
        BY <1>1
      <3> QED BY <1>1, <3>1, <3>2
    <2> QED BY <1>1, <1>2, <2>1 DEF Held, Contents
  <1>7. Ahead'
    BY <1>1, <1>2 DEF Ahead
  <1> QED BY <1>4, <1>5, <1>6, <1>7 DEF Contents

LEMMA ContentsDescend ==
  ASSUME IInv, NEW chain, Contents(chain), Descend
  PROVE  Contents(chain)'
  <1>1. /\ pc = "descend" /\ pc' = "descend" /\ file' = file
        /\ new' = new /\ nextId' = nextId /\ inserted' = inserted
        /\ DOMAIN path' = DOMAIN path \cup {Len(path) + 1}
        /\ \A i \in DOMAIN path : path'[i] = path[i]
        /\ path'[Len(path) + 1].node = file[NextPage] /\ NextPage \in DOMAIN file
    BY DescendEffect
  <1>2. ~RootGrows' /\ ~RootGrows /\ Missing' /\ Missing
    BY <1>1 DEF RootGrows, Missing
  <1>3. Fine'
    <2>1. ASSUME NEW i \in DOMAIN path', path'[i].node.leaf
          PROVE  NoDouble(path'[i].node) /\ Sorted(path'[i].node)
      <3>1. CASE i \in DOMAIN path
        BY <1>1, <2>1, <3>1 DEF Contents, Fine
      <3>2. CASE i = Len(path) + 1
        BY <1>1, <2>1, <3>2 DEF Contents, Fine
      <3> QED BY <1>1, <3>1, <3>2
    <2> QED BY <1>1, <2>1 DEF Contents, Fine
  <1>4. Apart(chain)'
    BY <1>1 DEF Apart, Contents
  <1>5. Held(chain)'
    BY <1>1, <1>2 DEF Held, Contents
  <1>6. Ahead'
    BY <1>1, <1>2 DEF Ahead
  <1> QED BY <1>3, <1>4, <1>5, <1>6 DEF Contents

LEMMA ContentsAddToLeaf ==
  ASSUME IInv, Sync, NEW lo, NEW live, NEW chain, Contents(chain), Links(lo, live, chain),
         AddToLeaf
  PROVE  Contents(chain)'
  <1> DEFINE L == Len(path)
  <1> DEFINE n == path[L].node
  <1> DEFINE p == path[L].page
  <1>1. /\ pc = "descend" /\ pc' \in {"split", "flush"} /\ file' = file
        /\ new' = new /\ nextId' = nextId /\ inserted' = inserted
        /\ at' = L /\ Len(path') = L /\ DOMAIN path' = DOMAIN path
        /\ L \in DOMAIN path /\ n.leaf /\ path'[L].page = p
        /\ path'[L].node = AddSorted(n, new) /\ path'[L].node.leaf
        /\ \A i \in DOMAIN path \ {L} : path'[i] = path[i]
    BY AddToLeafEffect
  <1>2. n \in Node /\ p \in DOMAIN file /\ new \in Block
    BY <1>1, ElementFacts, Shape
  <1>3. n = file[p]
    BY <1>1 DEF Sync, Changed
  <1>4. PICK i \in DOMAIN chain : p = chain[i]
    BY <1>1, <1>3 DEF Links, Reached, Referred
  <1>5. Missing /\ new \notin BlocksOf(n)
    BY <1>1, <1>3, <1>4 DEF Missing, Contents, Held
  <1>6. Sorted(n) /\ NoDouble(n)
    BY <1>1 DEF Contents, Fine
  <1> HIDE DEF n
  <1>7. /\ BlocksOf(path'[L].node) = BlocksOf(n) \cup {new}
        /\ Sorted(path'[L].node) /\ NoDouble(path'[L].node)
    BY <1>1, <1>2, <1>5, <1>6, AddSortedBlocks
  <1> HIDE DEF p
  <1>8. path'[L].node # file[p]
    BY <1>3, <1>5, <1>7
  <1> HIDE DEF L
  <1>9. Missing'
    BY <1>1, <1>8 DEF Missing
  <1>10. ~RootGrows'
    BY <1>1 DEF RootGrows
  <1>11. Fine'
    <2>1. ASSUME NEW k \in DOMAIN path, path'[k].node.leaf
          PROVE  NoDouble(path'[k].node) /\ Sorted(path'[k].node)
      <3>1. CASE k = L
        BY <1>7, <3>1
      <3>2. CASE k # L
        BY <1>1, <2>1, <3>2 DEF Contents, Fine
      <3> QED BY <3>1, <3>2
    <2> QED BY <1>1, <2>1 DEF Contents, Fine
  <1>12. Apart(chain)'
    BY <1>1 DEF Apart, Contents
  <1>13. Held(chain)'
    BY <1>1, <1>5, <1>9 DEF Held, Contents
  <1>14. Ahead'
    <2>1. pc' # "left"
      BY <1>1
    <2>2. BlocksOf(path'[L].node) = BlocksOf(file[p]) \cup {new}
      BY <1>3, <1>7
    <2> QED BY <1>1, <1>10, <2>1, <2>2 DEF Ahead
  <1> QED BY <1>11, <1>12, <1>13, <1>14 DEF Contents

(* The halves of a leaf that balance splits: the leaf has the new block.   *)
LEMMA HalfBlocks ==
  ASSUME IInv, Sync, NEW lo, NEW lvl, Heights(lo, lvl), NEW chain, Contents(chain),
         pc \in {"split", "second", "link"}, Parted.leaf, NEW x, NEW y,
         NEW l, l = LeftHalf(Parted, x), NEW r, r = RightHalf(Parted, y)
  PROVE  /\ at = Len(path) /\ Missing
         /\ BlocksOf(Parted) = BlocksOf(file[path[at].page]) \cup {new}
         /\ BlocksOf(l) \cup BlocksOf(r) = BlocksOf(Parted)
         /\ BlocksOf(l) \cap BlocksOf(r) = {}
         /\ NoDouble(l) /\ Sorted(l) /\ \A b \in BlocksOf(l) : b.id < nextId
         /\ NoDouble(r) /\ Sorted(r) /\ \A b \in BlocksOf(r) : b.id < nextId
  <1>1. /\ Parted \in Node /\ Len(Parted.blocks) = Capacity(Parted) + 1
        /\ path[at].page \in DOMAIN file /\ at \in DOMAIN path
    BY PartedFacts
  <1>2. at = Len(path)
    BY <1>1, LastIsLeaf DEF Parted
  <1>3. Missing /\ ~RootGrows
    <2>1. pc \in {"second", "link"} => at = 1
      BY Shape, Zenon
    <2> QED BY <1>2, <2>1, Zenon DEF Missing, RootGrows
  <1>4. BlocksOf(Parted) = BlocksOf(file[path[at].page]) \cup {new}
    BY <1>2, <1>3 DEF Contents, Ahead, Parted
  <1>5. NoDouble(Parted) /\ Sorted(Parted)
    BY <1>1 DEF Contents, Fine, Parted
  <1>6. /\ BlocksOf(l) \cup BlocksOf(r) = BlocksOf(Parted)
        /\ BlocksOf(l) \cap BlocksOf(r) = {}
        /\ NoDouble(l) /\ NoDouble(r) /\ Sorted(l) /\ Sorted(r)
    BY <1>1, <1>5, SplitBlocks
  <1>7. file[path[at].page].leaf
    BY <1>1, HeightFacts DEF Parted
  <1>8. \A b \in BlocksOf(Parted) : b.id < nextId
    BY <1>1, <1>4, <1>7 DEF Contents, Fine
  <1> QED BY <1>2, <1>3, <1>4, <1>6, <1>8

(* A page that is appended to the file, n, the half of a node.             *)
LEMMA FineAppend ==
  ASSUME IInv, NEW chain, Contents(chain), NEW n,
         n.leaf => NoDouble(n) /\ Sorted(n) /\ \A b \in BlocksOf(n) : b.id < nextId,
         DOMAIN file' = DOMAIN file \cup {Fresh}, file'[Fresh] = n,
         \A p \in DOMAIN file : file'[p] = file[p],
         nextId' = nextId, new' = new, pc # "idle", DOMAIN path' = DOMAIN path,
         \A i \in DOMAIN path : path'[i].node.leaf =>
           NoDouble(path'[i].node) /\ Sorted(path'[i].node)
  PROVE  Fine'
  <1>1. new.id < nextId
    BY DEF Contents, Fine
  <1>2. ASSUME NEW p \in DOMAIN file', file'[p].leaf
        PROVE  NoDouble(file'[p]) /\ Sorted(file'[p]) /\ \A b \in BlocksOf(file'[p]) : b.id < nextId
    <2>1. CASE p \in DOMAIN file
      BY <1>2, <2>1 DEF Contents, Fine
    <2>2. CASE p = Fresh
      BY <1>2, <2>2
    <2> QED BY <2>1, <2>2
  <1> QED BY <1>1, <1>2 DEF Fine

LEMMA ContentsWriteRight ==
  ASSUME IInv, Sync, NEW lo, NEW lvl, Heights(lo, lvl), NEW live, NEW chain,
         Links(lo, live, chain), Contents(chain), WriteRight
  PROVE  Contents(chain)'
  <1>1. /\ pc = "split" /\ pc' = "left" /\ at' = at /\ at \in DOMAIN path /\ Up \in DOMAIN path
        /\ Up # at /\ at # 1 /\ at > 1
        /\ new' = new /\ nextId' = nextId /\ inserted' = inserted
        /\ Len(path') = Len(path) /\ DOMAIN path' = DOMAIN path
        /\ path'[at].node = LeftPart /\ path'[Up].node = Parent
        /\ \A i \in DOMAIN path \ {Up, at} : path'[i].node = path[i].node
        /\ \A i \in DOMAIN path : path'[i].page = path[i].page
        /\ Len(file') = Fresh /\ DOMAIN file' = DOMAIN file \cup {Fresh}
        /\ file'[Fresh] = RightPart /\ \A p \in DOMAIN file : file'[p] = file[p]
    BY WriteRightEffect, Zenon DEF WriteRight
  <1>2. ~Above.leaf /\ ~Parent.leaf
    <2>1. ~Above.leaf
      BY <1>1, AboveFacts
    <2> QED BY <2>1 DEF Parent, AddChild
  <1>3. LeftPart.leaf = Parted.leaf /\ RightPart.leaf = Parted.leaf
    <2>1. Parted \in Node
      BY <1>1, PartedFacts
    <2> QED BY <2>1 DEF LeftPart, RightPart, LeftHalf, RightHalf, Node
  <1>4. Parted.leaf =>
          /\ at = Len(path) /\ Missing
          /\ BlocksOf(Parted) = BlocksOf(file[path[at].page]) \cup {new}
          /\ BlocksOf(LeftPart) \cup BlocksOf(RightPart) = BlocksOf(Parted)
          /\ BlocksOf(LeftPart) \cap BlocksOf(RightPart) = {}
          /\ NoDouble(LeftPart) /\ Sorted(LeftPart)
          /\ NoDouble(RightPart) /\ Sorted(RightPart) /\ \A b \in BlocksOf(RightPart) : b.id < nextId
    BY <1>1, HalfBlocks DEF LeftPart, RightPart
  <1>5. path[at].page \in DOMAIN file /\ Len(path) \in DOMAIN path
    BY <1>1, ElementFacts, LastIsLeaf
  <1>6. ~RootGrows /\ ~RootGrows' /\ Missing' = Missing
    BY <1>1 DEF RootGrows, Missing
  <1>7. Fine'
    <2>1. ASSUME NEW i \in DOMAIN path, path'[i].node.leaf
          PROVE  NoDouble(path'[i].node) /\ Sorted(path'[i].node)
      <3>1. CASE i = at
        BY <1>1, <1>3, <1>4, <2>1, <3>1
      <3>2. CASE i = Up
        BY <1>1, <1>2, <2>1, <3>2
      <3>3. CASE i \notin {Up, at}
        BY <1>1, <2>1, <3>3 DEF Contents, Fine
      <3> QED BY <3>1, <3>2, <3>3
    <2>2. RightPart.leaf =>
            NoDouble(RightPart) /\ Sorted(RightPart) /\ \A b \in BlocksOf(RightPart) : b.id < nextId
      BY <1>3, <1>4
    <2>3. pc # "idle"
      BY <1>1
    <2> QED BY <1>1, <2>1, <2>2, <2>3, FineAppend
  <1>8. Apart(chain)' /\ Held(chain)'
    <2>1. \A i \in DOMAIN chain : BlocksOf(file'[chain[i]]) = BlocksOf(file[chain[i]])
      <3>1. \A i \in DOMAIN chain : chain[i] \in DOMAIN file
        BY ChainFacts DEF Links
      <3> QED BY <1>1, <3>1
    <2> QED BY <1>1, <1>6, <2>1, SameLeaves DEF Contents, Links
  <1>9. Ahead'
    <2>1. ASSUME Missing
          PROVE  /\ BlocksOf(path'[at].node) \cup BlocksOf(file'[Fresh])
                      = BlocksOf(file'[path'[at].page]) \cup {new}
                 /\ BlocksOf(path'[at].node) \cap BlocksOf(file'[Fresh]) = {}
      <3>1. at = Len(path)
        BY <1>1, <1>6, <2>1 DEF Missing
      <3>2. Parted.leaf
        BY <1>1, <3>1, LastIsLeaf DEF Parted
      <3> QED BY <1>1, <1>4, <1>5, <3>2
    <2> QED BY <1>1, <1>6, <2>1 DEF Ahead
  <1> QED BY <1>7, <1>8, <1>9, Zenon DEF Contents

LEMMA ContentsAppend ==
  ASSUME IInv, Sync, NEW lo, NEW lvl, Heights(lo, lvl), NEW live, NEW chain,
         Links(lo, live, chain), Contents(chain), WriteFirstChild \/ WriteSecondChild
  PROVE  Contents(chain)'
  <1>1. /\ pc \in {"split", "second"} /\ pc' \in {"second", "link"} /\ at = 1 /\ at' = 1
        /\ path' = path /\ new' = new /\ nextId' = nextId /\ inserted' = inserted
        /\ Len(file') = Fresh /\ DOMAIN file' = DOMAIN file \cup {Fresh}
        /\ file'[Fresh] = LeftHalf(Parted, 0) \/ file'[Fresh] = RightHalf(Parted, 0)
        /\ \A p \in DOMAIN file : file'[p] = file[p]
    BY WriteFirstChildEffect, WriteSecondChildEffect
  <1>2. file'[Fresh].leaf = Parted.leaf
    <2>1. Parted \in Node
      BY <1>1, PartedFacts
    <2> QED BY <1>1, <2>1 DEF LeftHalf, RightHalf, Node
  <1>3. Len(path) \in DOMAIN path /\ path[Len(path)].page \in DOMAIN file
    <2>1. Len(path) \in DOMAIN path
      BY <1>1, LastIsLeaf
    <2> QED BY <2>1, ElementFacts
  <1>4. file'[Fresh].leaf =>
          /\ NoDouble(file'[Fresh]) /\ Sorted(file'[Fresh])
          /\ \A b \in BlocksOf(file'[Fresh]) : b.id < nextId
    <2>1. ASSUME Parted.leaf, NEW l, l = LeftHalf(Parted, 0), NEW r, r = RightHalf(Parted, 0)
          PROVE  /\ NoDouble(l) /\ Sorted(l) /\ \A b \in BlocksOf(l) : b.id < nextId
                 /\ NoDouble(r) /\ Sorted(r) /\ \A b \in BlocksOf(r) : b.id < nextId
      BY <1>1, <2>1, HalfBlocks
    <2> QED BY <1>1, <1>2, <2>1
  <1>5. ~RootGrows /\ ~RootGrows' /\ Missing' = Missing
    BY <1>1 DEF RootGrows, Missing
  <1>6. Fine'
    <2>1. \A i \in DOMAIN path : path'[i].node.leaf =>
            NoDouble(path'[i].node) /\ Sorted(path'[i].node)
      BY <1>1 DEF Contents, Fine
    <2>2. pc # "idle" /\ DOMAIN path' = DOMAIN path
      BY <1>1
    <2> QED BY <1>1, <1>4, <2>1, <2>2, FineAppend
  <1>7. Apart(chain)' /\ Held(chain)'
    <2>1. \A i \in DOMAIN chain : BlocksOf(file'[chain[i]]) = BlocksOf(file[chain[i]])
      <3>1. \A i \in DOMAIN chain : chain[i] \in DOMAIN file
        BY ChainFacts DEF Links
      <3> QED BY <1>1, <3>1
    <2>2. pc # "idle"
      BY <1>1
    <2> QED BY <1>1, <1>5, <2>1, <2>2, SameLeaves DEF Contents, Links
  <1>8. Ahead'
    <2>1. ASSUME Missing
          PROVE  BlocksOf(path[Len(path)].node) = BlocksOf(file'[path[Len(path)].page]) \cup {new}
      BY <1>1, <1>3, <1>5, <2>1 DEF Contents, Ahead
    <2>2. pc' # "left"
      BY <1>1
    <2> QED BY <1>1, <1>5, <2>1, <2>2 DEF Ahead
  <1> QED BY <1>6, <1>7, <1>8 DEF Contents

LEMMA ContentsLink ==
  ASSUME IInv, Sync, NEW lo, NEW lvl, Heights(lo, lvl), NEW live, NEW chain,
         Links(lo, live, chain), Contents(chain), LinkChildren
  PROVE  Contents(chain)'
  <1>1. /\ pc = "link" /\ pc' = "flush" /\ at = 1 /\ at' = 1
        /\ new' = new /\ nextId' = nextId /\ inserted' = inserted
        /\ Len(path') = Len(path) /\ DOMAIN path' = DOMAIN path /\ 1 \in DOMAIN path
        /\ ~path'[1].node.leaf /\ path'[1].page = 1 /\ path[1].page = 1
        /\ \A i \in DOMAIN path \ {1} : path'[i] = path[i]
        /\ Len(file') = Len(file) /\ DOMAIN file' = DOMAIN file
        /\ First \in DOMAIN file /\ Second \in DOMAIN file
        /\ \A p \in DOMAIN file :
             file'[p].leaf = file[p].leaf /\ file'[p].blocks = file[p].blocks
    BY LinkChildrenEffect
  <1>2. \A p \in DOMAIN file : /\ BlocksOf(file'[p]) = BlocksOf(file[p])
                               /\ NoDouble(file'[p]) <=> NoDouble(file[p])
                               /\ Sorted(file'[p]) <=> Sorted(file[p])
    BY <1>1 DEF BlocksOf, NoDouble, Sorted
  <1>3. Parted.leaf <=> 1 = Len(path)
    BY <1>1, LastIsLeaf DEF Parted
  <1>4. 1 \in DOMAIN file /\ file'[1].leaf = Parted.leaf
    <2>1. 1 \in DOMAIN file
      BY <1>1, Shape, Zenon
    <2>2. Parted.leaf = file[1].leaf
      BY <1>1, HeightFacts DEF Parted
    <2> QED BY <1>1, <2>1, <2>2, Zenon
  <1>5. /\ ~RootGrows /\ (RootGrows' <=> Parted.leaf) /\ (Missing' <=> Missing)
        /\ Missing <=> Parted.leaf
    <2>1. ~RootGrows /\ (RootGrows' <=> Parted.leaf)
      BY <1>1, <1>4 DEF RootGrows
    <2>2. Missing <=> Parted.leaf
      BY <1>1, <1>3, <2>1 DEF Missing
    <2>3. Missing' <=> Parted.leaf
      BY <1>1, <1>3, <2>1 DEF Missing
    <2> QED BY <2>1, <2>2, <2>3
  <1>6. Fine'
    <2>1. ASSUME NEW p \in DOMAIN file', file'[p].leaf
          PROVE  NoDouble(file'[p]) /\ Sorted(file'[p]) /\ \A b \in BlocksOf(file'[p]) : b.id < nextId
      BY <1>1, <1>2, <2>1 DEF Contents, Fine
    <2>2. ASSUME NEW i \in DOMAIN path, path'[i].node.leaf
          PROVE  NoDouble(path'[i].node) /\ Sorted(path'[i].node)
      BY <1>1, <2>2 DEF Contents, Fine
    <2>3. new.id < nextId
      BY <1>1 DEF Contents, Fine
    <2> QED BY <1>1, <2>1, <2>2, <2>3 DEF Fine
  <1>7. Apart(chain)' /\ Held(chain)'
    <2>1. \A i \in DOMAIN chain : BlocksOf(file'[chain[i]]) = BlocksOf(file[chain[i]])
      <3>1. \A i \in DOMAIN chain : chain[i] \in DOMAIN file
        BY ChainFacts DEF Links
      <3> QED BY <1>2, <3>1
    <2>2. Missing' = Missing
      BY <1>5 DEF Missing
    <2>3. pc # "idle"
      BY <1>1
    <2> QED BY <1>1, <2>1, <2>2, <2>3, SameLeaves DEF Contents, Links
  <1>8. Ahead'
    <2>1. Missing' => RootGrows'
      BY <1>5
    <2>2. ASSUME Parted.leaf
          PROVE  /\ BlocksOf(file'[Second - 1]) \cup BlocksOf(file'[Second])
                      = BlocksOf(file'[1]) \cup {new}
                 /\ BlocksOf(file'[Second - 1]) \cap BlocksOf(file'[Second]) = {}
      <3> DEFINE l == LeftHalf(Parted, 0)
      <3> DEFINE r == RightHalf(Parted, 0)
      <3>1. file[First] = l /\ file[Second] = r /\ Second - 1 = First
        BY <1>1 DEF Sync, First, Second, Parted
      <3> HIDE DEF l, r
      <3>2. /\ BlocksOf(Parted) = BlocksOf(file[path[at].page]) \cup {new}
            /\ BlocksOf(l) \cup BlocksOf(r) = BlocksOf(Parted)
            /\ BlocksOf(l) \cap BlocksOf(r) = {}
        BY <1>1, <2>2, HalfBlocks DEF l, r
      <3> QED BY <1>1, <1>2, <1>4, <3>1, <3>2
    <2>3. pc' # "left"
      BY <1>1
    <2>4. Len(file') = Second /\ new' = new
      BY <1>1 DEF Second
    <2>5. RootGrows' <=> Parted.leaf
      BY <1>5
    <2> QED BY <2>1, <2>2, <2>3, <2>4, <2>5 DEF Ahead
  <1> QED BY <1>6, <1>7, <1>8 DEF Contents

(* The file after the left half of a leaf, or of an inner node.            *)
LEMMA FineWriteLeft ==
  ASSUME IInv, NEW chain, Contents(chain), WriteLeft,
         path[at].node.leaf => \A b \in BlocksOf(path[at].node) : b.id < nextId
  PROVE  Fine'
  <1>1. /\ at \in DOMAIN path /\ path' = path /\ new' = new /\ nextId' = nextId
        /\ DOMAIN file' = DOMAIN file /\ pc # "idle"
        /\ file'[path[at].page] = path[at].node
        /\ \A p \in DOMAIN file \ {path[at].page} : file'[p] = file[p]
    BY WriteLeftEffect
  <1>2. ASSUME NEW p \in DOMAIN file', file'[p].leaf
        PROVE  NoDouble(file'[p]) /\ Sorted(file'[p]) /\ \A b \in BlocksOf(file'[p]) : b.id < nextId
    <2>1. CASE p = path[at].page
      BY <1>1, <1>2, <2>1 DEF Contents, Fine
    <2>2. CASE p # path[at].page
      BY <1>1, <1>2, <2>2 DEF Contents, Fine
    <2> QED BY <2>1, <2>2
  <1>3. new.id < nextId
    BY <1>1 DEF Contents, Fine
  <1>4. \A i \in DOMAIN path : path[i].node.leaf => NoDouble(path[i].node) /\ Sorted(path[i].node)
    BY DEF Contents, Fine
  <1> QED BY <1>1, <1>2, <1>3, <1>4 DEF Fine

(* No leaf is ahead of the file after the left half has been written.      *)
LEMMA WriteLeftEnds ==
  ASSUME IInv, Sync, NEW lo, NEW lvl, Heights(lo, lvl), WriteLeft
  PROVE  ~RootGrows' /\ ~RootGrows /\ ~Missing' /\ (Missing <=> path[at].node.leaf)
  <1>1. /\ pc = "left" /\ pc' \in {"split", "flush"} /\ at' = Up
        /\ at \in DOMAIN path /\ Up \in DOMAIN path /\ Up # at /\ Up + 1 = at
        /\ path' = path /\ path[at].page # 1
        /\ \A p \in DOMAIN file \ {path[at].page} : file'[p] = file[p]
    BY WriteLeftEffect
  <1>2. ~RootGrows'
    <2>1. CASE Up = 1
      <3>1. path[1].node.leaf = file[1].leaf /\ 1 \in DOMAIN file /\ path[1].page = 1
        <4>1. path[1].page = 1 /\ 1 \in DOMAIN file
          BY <1>1, <2>1, ElementFacts, Shape
        <4> QED BY <1>1, <2>1, <4>1, HeightFacts
      <3> QED BY <1>1, <3>1 DEF RootGrows
    <2>2. CASE Up # 1
      BY <1>1, <2>2 DEF RootGrows
    <2> QED BY <2>1, <2>2
  <1>3. ~RootGrows
    BY <1>1 DEF RootGrows
  <1>4. Up # Len(path)
    <2>1. DOMAIN path = 1..Len(path) /\ Len(path) \in Nat
      BY Shape, Zenon
    <2> QED BY ONLY <1>1, <2>1
  <1>5. path[at].node.leaf <=> at = Len(path)
    BY <1>1, LastIsLeaf
  <1> QED BY <1>1, <1>2, <1>3, <1>4, <1>5 DEF Missing

LEMMA ContentsWriteLeftInner ==
  ASSUME IInv, Sync, NEW lo, NEW lvl, Heights(lo, lvl), NEW live, NEW chain,
         Links(lo, live, chain), Contents(chain), WriteLeft, ~path[at].node.leaf
  PROVE  Contents(chain)'
  <1>1. /\ pc = "left" /\ pc' \in {"split", "flush"} /\ at \in DOMAIN path
        /\ new' = new /\ inserted' = inserted
        /\ \A p \in DOMAIN file \ {path[at].page} : file'[p] = file[p]
    BY WriteLeftEffect
  <1>2. ~RootGrows' /\ ~Missing' /\ ~Missing
    BY WriteLeftEnds
  <1>3. Fine'
    BY FineWriteLeft
  <1>4. ~file[path[at].page].leaf
    BY <1>1, HeightFacts
  <1>5. Apart(chain)' /\ Held(chain)'
    <2>1. \A i \in DOMAIN chain : BlocksOf(file'[chain[i]]) = BlocksOf(file[chain[i]])
      <3>1. \A i \in DOMAIN chain : chain[i] \in DOMAIN file /\ file[chain[i]].leaf
        BY ChainFacts DEF Links, Chained
      <3> QED BY <1>1, <1>4, <3>1
    <2>2. Missing' = Missing
      BY <1>2 DEF Missing
    <2>3. pc # "idle"
      BY <1>1
    <2> QED BY <1>1, <2>1, <2>2, <2>3, SameLeaves DEF Contents, Links
  <1>6. Ahead'
    BY <1>2 DEF Ahead
  <1> QED BY <1>3, <1>5, <1>6 DEF Contents

LEMMA ContentsCrash ==
  ASSUME NEW chain, Contents(chain), Crash
  PROVE  Contents(chain)'
  <1>1. pc' = "idle" /\ path' = <<>> /\ DOMAIN path' = {}
        /\ file' = file /\ nextId' = nextId /\ inserted' = inserted
    BY DEF Crash
  <1>2. ~Missing' /\ ~RootGrows'
    BY <1>1 DEF Missing, RootGrows
  <1>3. Fine'
    BY <1>1 DEF Contents, Fine
  <1>4. Apart(chain)' /\ Held(chain)'
    BY <1>1, <1>2 DEF Contents, Apart, Held
  <1>5. Ahead'
    BY <1>2 DEF Ahead
  <1> QED BY <1>3, <1>4, <1>5 DEF Contents

(* A leaf and its new half are written: the new block is in one of them.   *)
LEMMA ContentsWriteLeftLeaf ==
  ASSUME IInv, Sync, NEW lo, NEW lvl, Heights(lo, lvl), NEW live, NEW chain,
         Links(lo, live, chain), Contents(chain), WriteLeft, path[at].node.leaf,
         NEW m \in DOMAIN chain, chain[m] = path[at].page,
         NEW r, r = Len(file), NEW longer, longer = InsertAt(chain, m + 1, r),
         Chained(lo, longer)'
  PROVE  Contents(longer)'
  <1> DEFINE p == path[at].page
  <1>1. /\ pc = "left" /\ pc' \in {"split", "flush"} /\ at \in DOMAIN path
        /\ new' = new /\ inserted' = inserted
        /\ p \in DOMAIN file /\ file'[p] = path[at].node
        /\ \A q \in DOMAIN file \ {p} : file'[q] = file[q]
    BY WriteLeftEffect
  <1>2. ~RootGrows' /\ ~Missing' /\ Missing
    BY WriteLeftEnds
  <1>3. at = Len(path)
    BY <1>1, LastIsLeaf
  <1>4. /\ DOMAIN chain = 1..Len(chain) /\ Len(chain) \in Nat
        /\ \A i \in DOMAIN chain : chain[i] \in DOMAIN file
    BY ChainFacts DEF Links
  <1>5. r \in DOMAIN file /\ \A i \in DOMAIN chain : chain[i] # r
    <2>1. r \in DOMAIN file
      <3>1. DOMAIN file = 1..Len(file) /\ Len(file) \in Nat /\ 1 \in DOMAIN file
        BY <1>1, Shape
      <3> QED BY <3>1
    <2> QED BY <1>1, <1>3, <2>1 DEF Links, Halved
  <1>6. /\ \A k \in DOMAIN longer : longer[k] = r \/ \E i \in DOMAIN chain : longer[k] = chain[i]
        /\ \A i \in DOMAIN chain : \E k \in DOMAIN longer : longer[k] = chain[i]
        /\ \E k \in DOMAIN longer : longer[k] = r
    <2>1. m + 1 \in 1..(Len(chain) + 1)
      BY <1>4
    <2>2. chain \in Seq(DOMAIN file)
      BY DEF Links, Chained
    <2>3. From(chain, m + 1, r, longer)
      BY <1>5, <2>1, <2>2, InsertFrom
    <2> QED BY <2>3 DEF From
  <1>7. \A k, l \in DOMAIN longer : longer[k] = longer[l] => k = l
    BY DEF Chained
  <1>8. /\ BlocksOf(file'[p]) \cup BlocksOf(file'[r]) = BlocksOf(file[p]) \cup {new}
        /\ BlocksOf(file'[p]) \cap BlocksOf(file'[r]) = {}
        /\ p # r
    <2>1. p # r
      BY <1>5
    <2> QED BY <1>1, <1>2, <1>5, <2>1 DEF Contents, Ahead
  <1>9. \A i \in DOMAIN chain : new \notin BlocksOf(file[chain[i]])
    BY <1>2 DEF Contents, Held
  <1>10. \A i, j \in DOMAIN chain : chain[i] # chain[j] =>
           BlocksOf(file[chain[i]]) \cap BlocksOf(file[chain[j]]) = {}
    BY DEF Contents, Apart
  <1>11. \A i \in DOMAIN chain : chain[i] # p =>
           BlocksOf(file'[chain[i]]) = BlocksOf(file[chain[i]])
    BY <1>1, <1>4
  <1>12. Fine'
    <2>1. \A b \in BlocksOf(file[p]) \cup {new} : b.id < nextId
      <3>1. file[p].leaf
        BY DEF Links, Chained
      <3> QED BY <1>1, <3>1 DEF Contents, Fine
    <2>2. \A b \in BlocksOf(path[at].node) : b.id < nextId
      BY <1>1, <1>8, <2>1
    <2> QED BY <2>2, FineWriteLeft
  <1> HIDE DEF p
  <1>13. Apart(longer)'
    <2> SUFFICES ASSUME NEW k \in DOMAIN longer, NEW l \in DOMAIN longer, longer[k] # longer[l]
                 PROVE  BlocksOf(file'[longer[k]]) \cap BlocksOf(file'[longer[l]]) = {}
      BY <1>7 DEF Apart
    <2>1. ASSUME NEW i \in DOMAIN chain, chain[i] # p
          PROVE  /\ BlocksOf(file'[chain[i]]) \cap BlocksOf(file'[p]) = {}
                 /\ BlocksOf(file'[chain[i]]) \cap BlocksOf(file'[r]) = {}
      <3>1. BlocksOf(file[chain[i]]) \cap BlocksOf(file[p]) = {}
        <4>1. p = chain[m]
          BY DEF p
        <4> QED BY <1>10, <2>1, <4>1
      <3>2. BlocksOf(file'[chain[i]]) = BlocksOf(file[chain[i]])
        BY <1>11, <2>1
      <3>3. new \notin BlocksOf(file[chain[i]])
        BY <1>9
      <3> QED BY <1>8, <3>1, <3>2, <3>3
    <2>2. ASSUME NEW i \in DOMAIN chain, NEW j \in DOMAIN chain, chain[i] # p, chain[j] # p,
                 chain[i] # chain[j]
          PROVE  BlocksOf(file'[chain[i]]) \cap BlocksOf(file'[chain[j]]) = {}
      BY <1>10, <1>11, <2>2
    <2>3. \A k1 \in DOMAIN longer :
            \/ longer[k1] = r \/ longer[k1] = p
            \/ \E i \in DOMAIN chain : longer[k1] = chain[i] /\ chain[i] # p
      BY <1>6
    <2>4. CASE (longer[k] = r \/ longer[k] = p) /\ (longer[l] = r \/ longer[l] = p)
      BY <1>8, <2>4
    <2>5. CASE (longer[k] = r \/ longer[k] = p) /\ longer[l] # r /\ longer[l] # p
      <3>1. PICK j \in DOMAIN chain : longer[l] = chain[j] /\ chain[j] # p
        BY <2>3, <2>5
      <3> QED BY <2>1, <2>5, <3>1
    <2>6. CASE longer[k] # r /\ longer[k] # p /\ (longer[l] = r \/ longer[l] = p)
      <3>1. PICK i \in DOMAIN chain : longer[k] = chain[i] /\ chain[i] # p
        BY <2>3, <2>6
      <3> QED BY <2>1, <2>6, <3>1
    <2>7. CASE longer[k] # r /\ longer[k] # p /\ longer[l] # r /\ longer[l] # p
      <3>1. PICK i \in DOMAIN chain : longer[k] = chain[i] /\ chain[i] # p
        BY <2>3, <2>7
      <3>2. PICK j \in DOMAIN chain : longer[l] = chain[j] /\ chain[j] # p
        BY <2>3, <2>7
      <3> QED BY <2>2, <3>1, <3>2
    <2> QED BY <2>4, <2>5, <2>6, <2>7
  <1>14. Held(longer)'
    <2>1. ASSUME NEW b \in inserted PROVE \E k \in DOMAIN longer : b \in BlocksOf(file'[longer[k]])
      <3>1. PICK i \in DOMAIN chain : b \in BlocksOf(file[chain[i]])
        BY DEF Contents, Held
      <3>2. CASE chain[i] = p
        <4>1. b \in BlocksOf(file'[p]) \/ b \in BlocksOf(file'[r])
          BY <1>8, <3>1, <3>2
        <4> QED BY <1>6, <3>2, <4>1
      <3>3. CASE chain[i] # p
        BY <1>6, <1>11, <3>1, <3>3
      <3> QED BY <3>2, <3>3
    <2>2. \E k \in DOMAIN longer : new \in BlocksOf(file'[longer[k]])
      <3>1. \E i \in DOMAIN chain : chain[i] = p
        BY DEF p
      <3>2. new \in BlocksOf(file'[p]) \/ new \in BlocksOf(file'[r])
        BY <1>8
      <3> QED BY <1>6, <3>1, <3>2
    <2> QED BY <1>1, <1>2, <2>1, <2>2 DEF Held
  <1>15. Ahead'
    BY <1>2 DEF Ahead
  <1> QED BY <1>12, <1>13, <1>14, <1>15 DEF Contents

(* The copy of the leaf that is written last has the new block.            *)
LEMMA FlushEnds ==
  ASSUME IInv, Sync, NEW lo, NEW lvl, Heights(lo, lvl), Flush, ~RootGrows
  PROVE  /\ ~RootGrows' /\ ~Missing' /\ (at # Len(path) => ~Missing)
         /\ Missing <=> at = Len(path) /\ path[at].node # file[path[at].page]
         /\ path[at].node.leaf <=> at = Len(path)
  <1>1. /\ pc = "flush" /\ at \in DOMAIN path
        /\ \A p \in DOMAIN file \ {path[at].page} : file'[p] = file[p]
        /\ at # Len(path) => /\ pc' = "flush" /\ path' = path /\ at' = at + 1
                             /\ at' \in DOMAIN path /\ at < Len(path)
        /\ at = Len(path) => pc' = "idle"
    BY FlushEffect
  <1>2. at' # 1 \/ pc' = "idle"
    <2>1. at \in Nat /\ DOMAIN path = 1..Len(path)
      BY Shape, Zenon
    <2> QED BY <1>1, <2>1
  <1>3. ~RootGrows'
    BY <1>2 DEF RootGrows
  <1>4. ~Missing'
    <2>1. CASE at = Len(path)
      BY <1>1, <1>3, <2>1 DEF Missing
    <2>2. CASE at # Len(path)
      <3>1. CASE at + 1 = Len(path)
        <4>1. path[Len(path)].node = file[path[Len(path)].page]
          BY <1>1, <2>2, <3>1 DEF Sync, Changed
        <4>2. path[Len(path)].page # path[at].page /\ path[Len(path)].page \in DOMAIN file
          BY <1>1, <2>2, <3>1, HeightFacts, ElementFacts
        <4> QED BY <1>1, <1>3, <2>2, <3>1, <4>1, <4>2 DEF Missing
      <3>2. CASE at + 1 # Len(path)
        BY <1>1, <1>3, <2>2, <3>2 DEF Missing
      <3> QED BY <3>1, <3>2
    <2> QED BY <2>1, <2>2
  <1>5. path[at].node.leaf <=> at = Len(path)
    BY <1>1 DEF Sync
  <1> QED BY <1>1, <1>3, <1>4, <1>5 DEF Missing

LEMMA FlushNextId ==
  ASSUME Flush
  PROVE  nextId' = nextId
  BY DEF Flush

LEMMA ContentsFlush ==
  ASSUME IInv, Sync, NEW lo, NEW lvl, Heights(lo, lvl), NEW live, NEW chain,
         Links(lo, live, chain), Contents(chain), Flush, ~RootGrows
  PROVE  Contents(chain)'
  <1> DEFINE p == path[at].page
  <1> DEFINE n == path[at].node
  <1>1. /\ pc = "flush" /\ at \in DOMAIN path
        /\ new' = new /\ nextId' = nextId
        /\ DOMAIN file' = DOMAIN file /\ p \in DOMAIN file /\ file'[p] = n
        /\ \A q \in DOMAIN file \ {p} : file'[q] = file[q]
        /\ at # Len(path) => pc' = "flush" /\ path' = path /\ inserted' = inserted
        /\ at = Len(path) => /\ pc' = "idle" /\ path' = <<>> /\ DOMAIN path' = {}
                             /\ inserted' = inserted \cup {new}
    BY FlushEffect, FlushNextId
  <1>2. /\ ~RootGrows' /\ ~Missing' /\ (at # Len(path) => ~Missing)
        /\ Missing <=> at = Len(path) /\ n # file[p]
        /\ n.leaf <=> at = Len(path)
    BY FlushEnds
  <1>3. n.leaf = file[p].leaf
    BY <1>1, FlushKind
  <1>4. Missing => BlocksOf(n) = BlocksOf(file[p]) \cup {new}
    BY <1>1, <1>2 DEF Contents, Ahead
  <1>5. Fine'
    <2>1. \A b \in BlocksOf(file[p]) \cup {new} : file[p].leaf => b.id < nextId
      BY <1>1 DEF Contents, Fine
    <2>2. n.leaf => \A b \in BlocksOf(n) : b.id < nextId
      <3>1. n # file[p] => (n.leaf => Missing)
        BY <1>2
      <3> QED BY <1>3, <1>4, <2>1, <3>1
    <2>3. ASSUME NEW q \in DOMAIN file', file'[q].leaf
          PROVE  NoDouble(file'[q]) /\ Sorted(file'[q]) /\ \A b \in BlocksOf(file'[q]) : b.id < nextId
      <3>1. CASE q = p
        BY <1>1, <2>2, <2>3, <3>1 DEF Contents, Fine
      <3>2. CASE q # p
        BY <1>1, <2>3, <3>2 DEF Contents, Fine
      <3> QED BY <3>1, <3>2
    <2>4. new.id < nextId
      BY <1>1 DEF Contents, Fine
    <2>5. \A i \in DOMAIN path' : path'[i].node.leaf => NoDouble(path'[i].node) /\ Sorted(path'[i].node)
      BY <1>1 DEF Contents, Fine
    <2> QED BY <1>1, <2>3, <2>4, <2>5 DEF Fine
  <1>6. \A i \in DOMAIN chain : chain[i] \in DOMAIN file /\ file[chain[i]].leaf
    BY ChainFacts DEF Links, Chained
  <1>7. \A i, j \in DOMAIN chain : chain[i] = chain[j] => i = j
    BY DEF Links, Chained
  <1>8. Ahead'
    BY <1>2 DEF Ahead
  <1>9. CASE Missing
    <2>1. PICK m \in DOMAIN chain : chain[m] = p
      <3>1. file[p].leaf /\ p \in live
        BY <1>1, <1>2, <1>3, <1>9 DEF Links, Referred
      <3> QED BY <3>1 DEF Links, Reached
    <2>2. /\ BlocksOf(file'[p]) = BlocksOf(file[p]) \cup {new}
          /\ \A i \in DOMAIN chain : i # m => BlocksOf(file'[chain[i]]) = BlocksOf(file[chain[i]])
      BY <1>1, <1>4, <1>6, <1>7, <1>9, <2>1
    <2>3. \A i \in DOMAIN chain : new \notin BlocksOf(file[chain[i]])
      BY <1>9 DEF Contents, Held
    <2>4. Apart(chain)'
      BY <2>1, <2>2, <2>3 DEF Contents, Apart
    <2>5. \A b \in inserted \cup {new} : \E i \in DOMAIN chain : b \in BlocksOf(file'[chain[i]])
      <3>1. \A b \in inserted : \E i \in DOMAIN chain : b \in BlocksOf(file[chain[i]])
        BY DEF Contents, Held
      <3>2. \A i \in DOMAIN chain : BlocksOf(file[chain[i]]) \subseteq BlocksOf(file'[chain[i]])
        BY <2>1, <2>2
      <3>3. new \in BlocksOf(file'[chain[m]])
        BY <2>1, <2>2
      <3> QED BY <3>1, <3>2, <3>3
    <2>6. Held(chain)'
      BY <1>1, <1>2, <1>9, <2>5 DEF Held
    <2> QED BY <1>5, <1>8, <2>4, <2>6 DEF Contents
  <1>10. CASE ~Missing
    <2>1. \A i \in DOMAIN chain : BlocksOf(file'[chain[i]]) = BlocksOf(file[chain[i]])
      <3>1. n.leaf => n = file[p]
        BY <1>2, <1>10
      <3> QED BY <1>1, <1>3, <1>6, <3>1
    <2>2. Apart(chain)'
      BY <2>1 DEF Contents, Apart
    <2>3. \E i \in DOMAIN chain : new \in BlocksOf(file'[chain[i]])
      BY <1>1, <1>10, <2>1 DEF Contents, Held
    <2>4. \A b \in inserted : \E i \in DOMAIN chain : b \in BlocksOf(file'[chain[i]])
      BY <2>1 DEF Contents, Held
    <2>5. inserted' = inserted \/ inserted' = inserted \cup {new}
      BY <1>1
    <2>6. Held(chain)'
      BY <1>1, <1>2, <2>3, <2>4, <2>5 DEF Held
    <2> QED BY <1>5, <1>8, <2>2, <2>6 DEF Contents
  <1> QED BY <1>9, <1>10

LEMMA ContentsFlushRoot ==
  ASSUME IInv, Sync, NEW lo, NEW lvl, Heights(lo, lvl), NEW live, NEW chain,
         Links(lo, live, chain), Contents(chain), Flush, RootGrows,
         NEW a, a = First, NEW b, b = Second, NEW c, c = <<a, b>>
  PROVE  Contents(c)'
  <1>1. /\ pc = "flush" /\ at = 1 /\ Len(path) = 1 /\ path[1].page = 1 /\ 1 \in DOMAIN path
        /\ file[1].leaf /\ ~path[1].node.leaf
    <2>1. Len(path) = 1
      BY DEF Links, Doubled
    <2>2. 1 \in DOMAIN path
      BY Shape DEF RootGrows
    <2> QED BY <2>1, <2>2, ElementFacts DEF RootGrows
  <1>2. /\ new' = new /\ nextId' = nextId
        /\ DOMAIN file' = DOMAIN file /\ 1 \in DOMAIN file /\ file'[1] = path[1].node
        /\ \A q \in DOMAIN file \ {1} : file'[q] = file[q]
        /\ pc' = "idle" /\ path' = <<>> /\ DOMAIN path' = {}
        /\ inserted' = inserted \cup {new}
    BY <1>1, FlushEffect, FlushNextId
  <1>3. a \in DOMAIN file \ {1} /\ b \in DOMAIN file \ {1} /\ a # b
    <2>1. Sound(file, path[1].node) /\ path[1].node.children = <<a, b>>
      BY <1>1, ElementFacts DEF Links, Doubled, First, Second
    <2>2. \A k \in {1, 2} : path[1].node.children[k] \in DOMAIN file \ {1}
      BY <1>1, <2>1 DEF Sound
    <2>3. DOMAIN file = 1..Len(file) /\ Len(file) \in Nat
      BY Shape, Zenon
    <2>4. a # b
      BY <2>3 DEF First, Second
    <2> QED BY <2>1, <2>2, <2>4
  <1>4. DOMAIN chain = {1} /\ chain[1] = 1
    <2>1. file # <<>>
      BY <1>2
    <2> QED BY <1>1, <2>1, RootAlone
  <1>5. /\ BlocksOf(file'[a]) \cup BlocksOf(file'[b]) = BlocksOf(file[1]) \cup {new}
        /\ BlocksOf(file'[a]) \cap BlocksOf(file'[b]) = {}
    <2>1. /\ BlocksOf(file[a]) \cup BlocksOf(file[b]) = BlocksOf(file[1]) \cup {new}
          /\ BlocksOf(file[a]) \cap BlocksOf(file[b]) = {}
      BY DEF Contents, Ahead, First, Second
    <2> QED BY <1>2, <1>3, <2>1
  <1>6. DOMAIN c = {1, 2} /\ c[1] = a /\ c[2] = b
    OBVIOUS
  <1>7. ~RootGrows' /\ ~Missing'
    BY <1>2 DEF RootGrows, Missing
  <1>8. Fine'
    <2>1. ASSUME NEW q \in DOMAIN file', file'[q].leaf
          PROVE  NoDouble(file'[q]) /\ Sorted(file'[q]) /\ \A x \in BlocksOf(file'[q]) : x.id < nextId
      <3>1. q # 1
        BY <1>1, <1>2, <2>1
      <3> QED BY <1>2, <2>1, <3>1 DEF Contents, Fine
    <2> QED BY <1>2, <2>1 DEF Fine
  <1>9. Apart(c)'
    BY <1>5, <1>6 DEF Apart
  <1>10. Held(c)'
    <2>1. \A x \in inserted : x \in BlocksOf(file[1])
      BY <1>4 DEF Contents, Held
    <2>2. \A x \in inserted \cup {new} : \E i \in DOMAIN c : x \in BlocksOf(file'[c[i]])
      BY <1>5, <1>6, <2>1
    <2> QED BY <1>2, <1>7, <2>2 DEF Held
  <1>11. Ahead'
    BY <1>7 DEF Ahead
  <1> QED BY <1>8, <1>9, <1>10, <1>11 DEF Contents

-----------------------------------------------------------------------------
(* The order of the tree, kept by each step as long as there is no crash. *)

LEMMA OrderStartFirst ==
  ASSUME IInv, NEW key \in Key, Start(key), file = <<>>,
         NEW mo, mo = [p \in {1} |-> 0], NEW mhi, mhi = [p \in {1} |-> Inf],
         NEW mpar, mpar = [p \in {1} |-> 0]
  PROVE  Order(mo, mhi, mpar)' /\ LowsKnown(mo)'
  <1>1. /\ pc' = "idle" /\ DOMAIN path' = {} /\ DOMAIN file' = {1} /\ Len(file') = 1
        /\ file'[1].leaf /\ file'[1].next = 0
        /\ DOMAIN file'[1].blocks = {1} /\ file'[1].blocks[1] = new' /\ new' \in Block
    BY StartFirstEffect
  <1>2. Inf \in 1..Inf /\ Inf \in Nat /\ \A x \in Key : x <= Inf
    BY BtreeAssumption DEF Inf, Key
  <1>3. Bound(mo, 0) = Inf
    BY DEF Bound
  <1>4. Tights(mo)'
    <2>1. file'[1].blocks[1].key <= Inf
      BY <1>1, <1>2, BlockFacts
    <2>2. 0 \in 0..Len(file')
      BY <1>1
    <2> QED BY <1>1, <1>3, <2>1, <2>2 DEF Tights, Tight
  <1>5. Highs(mo, mhi, mpar)'
    <2>1. mhi \in [DOMAIN file' -> 1..Inf] /\ mpar \in [DOMAIN file' -> Nat] /\ mhi[1] = Inf
      BY <1>1, <1>2
    <2>2. High(mo, mhi, mpar, file'[1], 1)
      BY <1>1, <1>3, <2>1 DEF High
    <2> QED BY <1>1, <2>1, <2>2 DEF Highs
  <1>6. Aimed(mhi, mpar)'
    BY <1>1 DEF Aimed
  <1>7. LowsKnown(mo)'
    BY <1>1 DEF LowsKnown
  <1> QED BY <1>4, <1>5, <1>6, <1>7 DEF Order

LEMMA OrderStart ==
  ASSUME IInv, NEW key \in Key, Start(key), file # <<>>,
         NEW lo, NEW hi, NEW par, Order(lo, hi, par), LowsKnown(lo)
  PROVE  Order(lo, hi, par)' /\ LowsKnown(lo)'
  <1>1. /\ pc = "idle" /\ pc' = "descend" /\ path = <<>> /\ DOMAIN path' = {1}
        /\ path'[1].page = 1 /\ path'[1].node = file[1]
        /\ file' = file /\ 1 \in DOMAIN file /\ new'.key = key
    BY StartEffect
  <1>2. /\ \A p \in DOMAIN file : Own(p)
        /\ \A p \in DOMAIN file : Own(p)' <=> p # 1
    <2>1. DOMAIN path = {}
      BY <1>1
    <2>2. \A p \in DOMAIN file : Own(p)
      BY <1>1, <2>1 DEF Own, Pending
    <2>3. \A p \in DOMAIN file : Own(p)' <=> p # 1
      BY <1>1 DEF Own, Pending
    <2> QED BY <2>2, <2>3
  <1>3. Tights(lo)'
    BY <1>1 DEF Order, Tights, Tight
  <1>4. High(lo, hi, par, file[1], 1)
    BY <1>1, <1>2 DEF Order, Highs
  <1>5. Highs(lo, hi, par)'
    <2>1. \A p \in DOMAIN file' : Own(p)' => High(lo, hi, par, file'[p], p)
      BY <1>1, <1>2 DEF Order, Highs
    <2>2. \A i \in DOMAIN path' : High(lo, hi, par, path'[i].node, path'[i].page)
      BY <1>1, <1>4
    <2> QED BY <1>1, <2>1, <2>2 DEF Order, Highs
  <1>6. Aimed(hi, par)'
    <2>1. hi[1] = Inf /\ key <= Inf
      BY BtreeAssumption DEF Order, Highs, Inf, Key
    <2> QED BY <1>1, <2>1 DEF Aimed
  <1>7. LowsKnown(lo)'
    <2>1. ASSUME NEW x, Known(x) PROVE Known(x)'
      <3>1. PICK p \in DOMAIN file : ~file[p].leaf
                     /\ \E k \in DOMAIN file[p].blocks : file[p].blocks[k].key = x
        <4>1. DOMAIN path = {}
          BY <1>1
        <4> QED BY <2>1, <4>1 DEF Known
      <3>2. CASE p = 1
        BY <1>1, <3>1, <3>2 DEF Known
      <3>3. CASE p # 1
        BY <1>1, <1>2, <3>1, <3>3 DEF Known
      <3> QED BY <3>2, <3>3
    <2> QED BY <1>1, <2>1 DEF LowsKnown
  <1> QED BY <1>3, <1>5, <1>6, <1>7 DEF Order

LEMMA OrderDescend ==
  ASSUME IInv, Sync, NEW lo, NEW lvl, Heights(lo, lvl), Descend,
         NEW hi, NEW par, Order(lo, hi, par), LowsKnown(lo)
  PROVE  Order(lo, hi, par)' /\ LowsKnown(lo)'
  <1> DEFINE L == Len(path)
  <1> DEFINE M == L + 1
  <1> DEFINE n == path[L].node
  <1> DEFINE p == NextPage
  <1>1. /\ pc = "descend" /\ pc' = "descend" /\ file' = file /\ new' = new
        /\ L \in DOMAIN path /\ ~n.leaf /\ path[L].j \in DOMAIN n.children
        /\ DOMAIN path' = DOMAIN path \cup {M} /\ M \notin DOMAIN path
        /\ \A i \in DOMAIN path : path'[i] = path[i]
        /\ path'[M].page = p /\ path'[M].node = file[p] /\ p \in DOMAIN file
    BY DescendEffect
  <1>2. n \in Node /\ Len(n.children) = Len(n.blocks) + 1 /\ path[L].page \in DOMAIN file
    BY <1>1, ElementFacts
  <1>3. ASSUME NEW i \in DOMAIN path PROVE path[i].page # p
    <2>1. Level(lvl, n, lvl[path[L].page])
      BY <1>1, HeightFacts
    <2>2. lvl[p] + 1 = lvl[path[L].page]
      BY <1>1, <2>1 DEF Level, NextPage
    <2>3. lvl[path[i].page] \in Nat /\ lvl[path[L].page] \in Nat /\ lvl[p] \in Nat
      BY <1>1, <1>2, ElementFacts, HeightFacts
    <2>4. i = L \/ lvl[path[L].page] < lvl[path[i].page]
      <3>1. i < L \/ i = L
        <4>1. DOMAIN path = 1..L /\ L \in Nat
          BY Shape, Zenon
        <4> QED BY ONLY <4>1
      <3> QED BY <1>1, <3>1 DEF Heights
    <2> QED BY <2>2, <2>3, <2>4
  <1>4. Own(p) /\ \A q \in DOMAIN file : Own(q)' <=> Own(q) /\ q # p
    <2>1. Own(p)
      BY <1>1, <1>3 DEF Own, Pending
    <2>2. \A q \in DOMAIN file : Own(q)' <=> Own(q) /\ q # p
      BY <1>1 DEF Own, Pending
    <2> QED BY <2>1, <2>2
  <1>5. High(lo, hi, par, file[p], p) /\ High(lo, hi, par, n, path[L].page)
    BY <1>1, <1>4 DEF Order, Highs
  <1>6. new.key <= hi[p]
    <2> DEFINE c == path[L].j
    <2> DEFINE N == Len(n.blocks)
    <2>1. c = Child(n, new.key) /\ new.key \in Key
      BY <1>1, Shape DEF Sync
    <2>2. c \in 1..(N + 1) /\ (c \in 1..N => new.key <= n.blocks[c].key)
      BY <1>2, <2>1, ChildBounds
    <2>3. DOMAIN n.blocks = 1..N /\ N \in Nat
      BY <1>2 DEF Node
    <2>4. new.key <= hi[path[L].page]
      BY <1>1, Zenon DEF Order, Aimed
    <2>5. CASE c \in 1..N
      <3>1. c \in DOMAIN n.blocks /\ new.key <= n.blocks[c].key
        BY <2>2, <2>3, <2>5
      <3>2. hi[n.children[c]] = n.blocks[c].key
        BY <1>1, <1>5, <3>1, Zenon DEF High
      <3>3. n.children[c] = p
        BY <1>1 DEF NextPage
      <3> QED BY <3>1, <3>2, <3>3
    <2>6. CASE c = N + 1
      BY <1>1, <1>2, <1>5, <2>4, <2>6, Zenon DEF High, NextPage
    <2>7. c \in 1..N \/ c = N + 1
      <3> HIDE DEF c, N
      <3>1. N \in Nat /\ c \in 1..(N + 1)
        BY <2>2, <2>3
      <3> QED BY ONLY <3>1
    <2> QED BY <2>5, <2>6, <2>7
  <1> HIDE DEF L, M, n, p
  <1>7. Tights(lo)'
    <2>1. \A i \in DOMAIN path' : Tight(lo, path'[i].node)
      BY <1>1 DEF Order, Tights
    <2> QED BY <1>1, <2>1 DEF Order, Tights, Tight
  <1>8. Highs(lo, hi, par)'
    <2>1. \A i \in DOMAIN path' : High(lo, hi, par, path'[i].node, path'[i].page)
      BY <1>1, <1>5 DEF Order, Highs
    <2> QED BY <1>1, <1>4, <2>1 DEF Order, Highs
  <1>9. Aimed(hi, par)'
    BY <1>1, <1>6 DEF Order, Aimed
  <1>10. LowsKnown(lo)'
    <2>1. ASSUME NEW x, Known(x) PROVE Known(x)'
      <3>1. CASE \E i \in DOMAIN path : ~path[i].node.leaf
                   /\ \E k \in DOMAIN path[i].node.blocks : path[i].node.blocks[k].key = x
        BY <1>1, <3>1 DEF Known
      <3>2. CASE \E q \in DOMAIN file : ~file[q].leaf /\ Own(q)
                   /\ \E k \in DOMAIN file[q].blocks : file[q].blocks[k].key = x
        <4>1. PICK q \in DOMAIN file : ~file[q].leaf /\ Own(q)
                   /\ \E k \in DOMAIN file[q].blocks : file[q].blocks[k].key = x
          BY <3>2
        <4>2. CASE q = p
          BY <1>1, <4>1, <4>2 DEF Known
        <4>3. CASE q # p
          BY <1>1, <1>4, <4>1, <4>3 DEF Known
        <4> QED BY <4>2, <4>3
      <3> QED BY <2>1, <3>1, <3>2 DEF Known
    <2> QED BY <1>1, <2>1 DEF LowsKnown
  <1> QED BY <1>7, <1>8, <1>9, <1>10 DEF Order

LEMMA OrderAddToLeaf ==
  ASSUME IInv, Sync, NEW live, NEW chain, NEW lo, Links(lo, live, chain), Contents(chain),
         AddToLeaf, NEW hi, NEW par, Order(lo, hi, par), LowsKnown(lo)
  PROVE  Order(lo, hi, par)' /\ LowsKnown(lo)'
  <1> DEFINE L == Len(path)
  <1> DEFINE n == path[L].node
  <1> DEFINE p == path[L].page
  <1>1. /\ pc = "descend" /\ pc' \in {"split", "flush"} /\ file' = file /\ new' = new
        /\ Len(path') = L /\ DOMAIN path' = DOMAIN path
        /\ L \in DOMAIN path /\ n.leaf /\ path'[L].page = p
        /\ path'[L].node = AddSorted(n, new) /\ path'[L].node.leaf
        /\ path'[L].node.next = n.next
        /\ \A i \in DOMAIN path \ {L} : path'[i] = path[i]
    BY AddToLeafEffect
  <1>2. n \in Node /\ p \in DOMAIN file /\ new \in Block
    BY <1>1, ElementFacts, Shape
  <1>3. n = file[p]
    BY <1>1 DEF Sync, Changed
  <1>4. PICK i \in DOMAIN chain : p = chain[i]
    BY <1>1, <1>3 DEF Links, Reached, Referred
  <1>5. new \notin BlocksOf(n)
    BY <1>1, <1>3, <1>4 DEF Missing, Contents, Held
  <1>6. Sorted(n) /\ NoDouble(n)
    BY <1>1 DEF Contents, Fine
  <1>7. High(lo, hi, par, n, p) /\ Tight(lo, n) /\ new.key <= hi[p]
    BY <1>1 DEF Order, Highs, Tights, Aimed
  <1> HIDE DEF n
  <1>8. BlocksOf(path'[L].node) = BlocksOf(n) \cup {new}
    BY <1>1, <1>2, <1>5, <1>6, AddSortedBlocks
  <1>9. Tight(lo, path'[L].node)
    <2>1. new.key <= Bound(lo, n.next)
      BY <1>1, <1>7 DEF High
    <2>2. n.next \in 0..Len(file) /\ \A k \in DOMAIN n.blocks : n.blocks[k].key <= Bound(lo, n.next)
      BY <1>1, <1>7 DEF Tight
    <2>3. \A b \in BlocksOf(path'[L].node) : b.key <= Bound(lo, n.next)
      BY <1>8, <2>1, <2>2 DEF BlocksOf
    <2> QED BY <1>1, <2>2, <2>3 DEF Tight, BlocksOf
  <1>10. High(lo, hi, par, path'[L].node, p)
    BY <1>1, <1>7 DEF High
  <1>11. \A q \in DOMAIN file : Own(q)' <=> Own(q)
    <2>1. \A k \in DOMAIN path : path'[k].page = path[k].page
      BY <1>1
    <2> QED BY <1>1, <2>1 DEF Own, Pending
  <1> HIDE DEF p, L
  <1>12. Tights(lo)'
    <2>1. ASSUME NEW k \in DOMAIN path PROVE Tight(lo, path'[k].node)
      BY <1>1, <1>9 DEF Order, Tights
    <2> QED BY <1>1, <2>1 DEF Order, Tights, Tight
  <1>13. Highs(lo, hi, par)'
    <2>1. ASSUME NEW k \in DOMAIN path PROVE High(lo, hi, par, path'[k].node, path'[k].page)
      BY <1>1, <1>10 DEF Order, Highs
    <2> QED BY <1>1, <1>11, <2>1 DEF Order, Highs
  <1>14. Aimed(hi, par)'
    BY <1>1 DEF Aimed
  <1>15. LowsKnown(lo)'
    <2>1. \A k \in DOMAIN path : ~path[k].node.leaf => path'[k] = path[k]
      BY <1>1 DEF n
    <2>2. ASSUME NEW x, Known(x) PROVE Known(x)'
      BY <1>1, <1>11, <2>1, <2>2 DEF Known
    <2> QED BY <1>1, <2>2 DEF LowsKnown
  <1> QED BY <1>12, <1>13, <1>14, <1>15 DEF Order

(* A copy is written to its page, and stays in the path.                   *)
LEMMA OrderWrite ==
  ASSUME IInv, NEW lo, NEW hi, NEW par, Order(lo, hi, par), LowsKnown(lo),
         (WriteLeft \/ Flush), path' = path
  PROVE  Order(lo, hi, par)' /\ LowsKnown(lo)'
  <1> DEFINE p == path[at].page
  <1>1. /\ pc \in {"left", "flush"} /\ pc' \in {"split", "flush"} /\ at \in DOMAIN path
        /\ Len(file') = Len(file) /\ DOMAIN file' = DOMAIN file /\ p \in DOMAIN file
        /\ file'[p] = path[at].node /\ \A q \in DOMAIN file \ {p} : file'[q] = file[q]
    <2>1. CASE WriteLeft
      BY <2>1, WriteLeftEffect
    <2>2. CASE Flush
      <3>1. path # <<>>
        BY <2>2, FlushEffect
      <3> QED BY <2>2, <3>1, FlushEffect
    <2> QED BY <2>1, <2>2
  <1>2. \A q \in DOMAIN file : (Own(q)' <=> Own(q)) /\ (Own(q) => file'[q] = file[q])
    BY <1>1 DEF Own, Pending
  <1> HIDE DEF p
  <1>3. Tights(lo)'
    <2>1. \A q \in DOMAIN file : Tight(lo, file'[q])
      BY <1>1 DEF Order, Tights
    <2>2. \A i \in DOMAIN path : Tight(lo, path[i].node)
      BY DEF Order, Tights
    <2> QED BY <1>1, <2>1, <2>2 DEF Tights, Tight
  <1>4. Highs(lo, hi, par)'
    <2>1. file # <<>> /\ 1 \in DOMAIN file
      <3>1. 1 \in DOMAIN file
        BY <1>1, Shape, Zenon
      <3> QED BY ONLY <3>1
    <2> QED BY <1>1, <1>2, <2>1 DEF Order, Highs
  <1>5. Aimed(hi, par)'
    BY <1>1 DEF Aimed
  <1>6. LowsKnown(lo)'
    <2>1. ASSUME NEW x, Known(x) PROVE Known(x)'
      BY <1>1, <1>2, <2>1 DEF Known
    <2> QED BY <1>1, <2>1 DEF LowsKnown
  <1> QED BY <1>3, <1>4, <1>5, <1>6 DEF Order

(* The last copy is written: the file is the whole tree again.             *)
LEMMA OrderFlush ==
  ASSUME IInv, Sync, NEW lo, NEW lvl, Heights(lo, lvl), Flush,
         NEW hi, NEW par, Order(lo, hi, par), LowsKnown(lo)
  PROVE  Order(lo, hi, par)' /\ LowsKnown(lo)'
  <1>1. CASE at # Len(path)
    BY <1>1, FlushEffect, OrderWrite
  <1>2. CASE at = Len(path)
    <2> DEFINE p == path[at].page
    <2>1. /\ pc = "flush" /\ pc' = "idle" /\ at \in DOMAIN path /\ DOMAIN path' = {}
          /\ Len(file') = Len(file) /\ DOMAIN file' = DOMAIN file /\ p \in DOMAIN file
          /\ file'[p] = path[at].node /\ \A q \in DOMAIN file \ {p} : file'[q] = file[q]
      BY <1>2, FlushEffect
    <2>2. ASSUME NEW i \in DOMAIN path
          PROVE  path[i].page \in DOMAIN file /\ (path[i].page # p => file'[path[i].page] = path[i].node)
      <3>1. path[i].page \in DOMAIN file
        BY ElementFacts
      <3> QED BY <2>1, <3>1 DEF Sync, Changed
    <2>3. \A i \in DOMAIN path : path[i].page = p => i = at
      BY <2>1, HeightFacts
    <2>4. \A i \in DOMAIN path : file'[path[i].page] = path[i].node
      BY <2>1, <2>2, <2>3
    <2>5. \A q \in DOMAIN file : Own(q) => file'[q] = file[q]
      BY <2>1 DEF Own
    <2>6. \A q \in DOMAIN file : Own(q)'
      BY <2>1 DEF Own, Pending
    <2>7. \A q \in DOMAIN file : Own(q) \/ \E i \in DOMAIN path : path[i].page = q
      BY <2>1 DEF Own, Pending
    <2> HIDE DEF p
    <2>8. Tights(lo)'
      <3>1. \A q \in DOMAIN file : Tight(lo, file'[q])
        BY <2>1 DEF Order, Tights, p
      <3> QED BY <2>1, <3>1 DEF Tights, Tight
    <2>9. Highs(lo, hi, par)'
      <3>1. ASSUME NEW q \in DOMAIN file PROVE High(lo, hi, par, file'[q], q)
        <4>1. CASE Own(q)
          BY <2>5, <4>1 DEF Order, Highs
        <4>2. CASE \E i \in DOMAIN path : path[i].page = q
          BY <2>4, <4>2 DEF Order, Highs
        <4> QED BY <2>7, <4>1, <4>2
      <3>2. file # <<>>
        BY <2>1
      <3> QED BY <2>1, <3>1, <3>2 DEF Order, Highs
    <2>10. Aimed(hi, par)'
      BY <2>1 DEF Aimed
    <2>11. LowsKnown(lo)'
      <3>1. ASSUME NEW x, Known(x) PROVE Known(x)'
        <4>1. CASE \E i \in DOMAIN path : ~path[i].node.leaf
                     /\ \E k \in DOMAIN path[i].node.blocks : path[i].node.blocks[k].key = x
          BY <2>1, <2>2, <2>4, <2>6, <4>1 DEF Known
        <4>2. CASE \E q \in DOMAIN file : ~file[q].leaf /\ Own(q)
                     /\ \E k \in DOMAIN file[q].blocks : file[q].blocks[k].key = x
          BY <2>1, <2>5, <2>6, <4>2 DEF Known
        <4> QED BY <3>1, <4>1, <4>2 DEF Known
      <3> QED BY <2>1, <3>1 DEF LowsKnown
    <2> QED BY <2>8, <2>9, <2>10, <2>11 DEF Order
  <1> QED BY <1>1, <1>2

(* A page is appended: the bounds of the pages are what they were.         *)
LEMMA BoundAppend ==
  ASSUME IInv, NEW lo, NEW x, NEW mo, mo = Longer(lo, x), Len(file') = Fresh
  PROVE  /\ \A q \in 0..Len(file) : Bound(mo, q) = Bound(lo, q)
         /\ \A n : Tight(lo, n) => Tight(mo, n)'
         /\ Bound(mo, Fresh) = x
  <1>1. Len(file) \in Nat /\ DOMAIN file = 1..Len(file)
    BY Shape, Zenon
  <1>2. \A q \in 0..Len(file) : q # 0 => q \in DOMAIN file /\ q # Fresh
    BY <1>1 DEF Fresh
  <1>3. \A q \in DOMAIN file : q # Fresh => mo[q] = lo[q]
    BY DEF Longer
  <1>4. \A q \in 0..Len(file) : Bound(mo, q) = Bound(lo, q)
    BY <1>2, <1>3 DEF Bound
  <1>5. \A q \in 0..Len(file) : q \in 0..Fresh
    BY <1>1 DEF Fresh
  <1>6. Bound(mo, Fresh) = x
    <2>1. Fresh # 0
      BY <1>1 DEF Fresh
    <2> QED BY <2>1 DEF Bound, Longer
  <1> QED BY <1>4, <1>5, <1>6, Zenon DEF Tight

(* The bounds above a page are what they were if its children's are.       *)
LEMMA HighAppend ==
  ASSUME IInv, NEW lo, NEW hi, NEW par, NEW n \in Node, Sound(file, n), Tight(lo, n),
         n.leaf \/ Len(n.children) = Len(n.blocks) + 1,
         NEW p, High(lo, hi, par, n, p),
         NEW x, NEW mo, mo = Longer(lo, x), Len(file') = Fresh, NEW mhi, NEW mpar,
         mhi[p] = hi[p],
         ~n.leaf => \A k \in DOMAIN n.children : /\ mhi[n.children[k]] = hi[n.children[k]]
                                                 /\ mpar[n.children[k]] = par[n.children[k]]
  PROVE  High(mo, mhi, mpar, n, p)
  <1>1. n.leaf => Bound(mo, n.next) = Bound(lo, n.next)
    BY BoundAppend DEF Tight
  <1> QED BY <1>1, HighAgree

(* The two steps that append a page of the root, without a place yet.      *)
LEMMA OrderAppend ==
  ASSUME IInv, NEW lo, NEW lvl, Heights(lo, lvl), NEW chain, Contents(chain),
         WriteFirstChild \/ WriteSecondChild,
         NEW hi, NEW par, Order(lo, hi, par), LowsKnown(lo),
         NEW x, NEW mo, mo = Longer(lo, x), WriteFirstChild => x = 0,
         NEW y, NEW mhi, mhi = Longer(hi, y), y = IF WriteFirstChild THEN Sep.key ELSE Inf,
         NEW mpar, mpar = Longer(par, 1), NEW r, r = Fresh
  PROVE  Order(mo, mhi, mpar)' /\ LowsKnown(mo)'
  <1>1. /\ pc \in {"split", "second"} /\ at = 1 /\ path' = path
        /\ pc = "split" => pc' = "second" /\ WriteFirstChild
        /\ pc = "second" => pc' = "link" /\ ~WriteFirstChild /\ Len(file) \in DOMAIN file
        /\ Len(file') = Fresh /\ DOMAIN file' = DOMAIN file \cup {Fresh}
        /\ Fresh \notin DOMAIN file /\ Fresh \in Nat \ {0} /\ Fresh # 1 /\ Fresh - 1 = Len(file)
        /\ file'[Fresh] = LeftHalf(Parted, 0) \/ file'[Fresh] = RightHalf(Parted, 0)
        /\ \A p \in DOMAIN file : file'[p] = file[p]
    <2>1. Fresh - 1 = Len(file) /\ Len(file) \in Nat
      <3>1. Len(file) \in Nat
        BY Shape, Zenon
      <3> QED BY ONLY <3>1 DEF Fresh
    <2>2. WriteFirstChild => pc = "split"
      BY DEF WriteFirstChild
    <2>3. CASE WriteFirstChild
      BY <2>1, <2>2, <2>3, WriteFirstChildEffect
    <2>4. CASE WriteSecondChild
      <3>1. pc = "second"
        BY <2>4, WriteSecondChildEffect
      <3> QED BY <2>1, <2>2, <2>4, <3>1, WriteSecondChildEffect
    <2> QED BY <2>3, <2>4
  <1>2. Sep.key \in 1..Inf /\ Inf \in 1..Inf /\ y \in 1..Inf
    <2>1. Sep.key \in 1..MaxKey
      BY <1>1, PartedFacts
    <2> QED BY <2>1, BtreeAssumption DEF Inf
  <1>3. /\ \A p \in DOMAIN file : mo[p] = lo[p] /\ mhi[p] = hi[p] /\ mpar[p] = par[p]
        /\ mhi[Fresh] = y /\ mpar[Fresh] = 1 /\ mo[Fresh] = x
        /\ mhi \in [DOMAIN file' -> 1..Inf] /\ mpar \in [DOMAIN file' -> Nat]
    BY <1>1, <1>2 DEF Longer, Order, Highs
  <1>4. file # <<>> /\ 1 \in DOMAIN file
    <2>1. 1 \in DOMAIN file
      BY <1>1, Shape
    <2> QED BY <2>1
  <1>5. ASSUME NEW p \in DOMAIN file, NEW n \in Node, Sound(file, n), Tight(lo, n),
               n.leaf \/ Len(n.children) = Len(n.blocks) + 1, High(lo, hi, par, n, p)
        PROVE  High(mo, mhi, mpar, n, p)
    <2>1. ~n.leaf => \A k \in DOMAIN n.children : n.children[k] \in DOMAIN file
      BY <1>5 DEF Sound
    <2>2. ~n.leaf => \A k \in DOMAIN n.children :
            /\ mhi[n.children[k]] = hi[n.children[k]] /\ mpar[n.children[k]] = par[n.children[k]]
      BY <1>3, <2>1
    <2>3. mhi[p] = hi[p] /\ Len(file') = Fresh
      BY <1>1, <1>3
    <2> QED BY <1>5, <2>2, <2>3, HighAppend
  <1>6. Tights(mo)'
    <2>1. ASSUME NEW n, n = file'[r] PROVE Tight(mo, n)'
      <3>1. /\ LeftHalf(Parted, 0) \in Node /\ RightHalf(Parted, 0) \in Node
            /\ LeftHalf(Parted, 0).next = 0 /\ RightHalf(Parted, 0).next = 0
        <4>1. Parted \in Node
          BY <1>1, PartedFacts
        <4>2. \A i \in DOMAIN path : path[i].node.leaf => Sorted(path[i].node)
          BY DEF Contents, Fine
        <4>3. LeftHalf(Parted, 0) \in Node /\ RightHalf(Parted, 0) \in Node
          BY <1>1, <4>2, HalfHeights
        <4> QED BY <4>1, <4>3 DEF LeftHalf, RightHalf, Node
      <3>2. n \in Node /\ n.next = 0
        BY <1>1, <2>1, <3>1
      <3>3. \A k \in DOMAIN n.blocks : n.blocks[k].key <= Inf
        <4>1. \A k \in DOMAIN n.blocks : n.blocks[k].key \in 1..MaxKey
          BY <3>2, KeyFacts
        <4>2. \A z \in 1..MaxKey : z <= Inf
          BY BtreeAssumption DEF Inf
        <4> QED BY <4>1, <4>2
      <3>4. Bound(mo, 0) = Inf /\ 0 \in 0..Len(file')
        BY <1>1 DEF Bound
      <3> QED BY <3>2, <3>3, <3>4 DEF Tight
    <2>2. ASSUME NEW p \in DOMAIN file, NEW n, n = file[p] PROVE Tight(mo, n)'
      <3>1. Tight(lo, n)
        BY <2>2 DEF Order, Tights
      <3> QED BY <1>1, <3>1, BoundAppend
    <2>3. ASSUME NEW i \in DOMAIN path, NEW n, n = path[i].node PROVE Tight(mo, n)'
      <3>1. Tight(lo, n)
        BY <2>3 DEF Order, Tights
      <3> QED BY <1>1, <3>1, BoundAppend
    <2> QED BY <1>1, <2>1, <2>2, <2>3 DEF Tights
  <1>7. /\ ~Own(r)'
        /\ \A p \in DOMAIN file : Own(p)' <=> Own(p)
    <2>1. Pending(r)'
      BY <1>1 DEF Pending
    <2>2. ASSUME NEW p \in DOMAIN file PROVE Pending(p)' <=> Pending(p)
      <3>1. p # Fresh
        BY <1>1
      <3> QED BY <1>1, <3>1 DEF Pending
    <2> QED BY <1>1, <2>1, <2>2 DEF Own
  <1>8. Highs(mo, mhi, mpar)'
    <2>1. ASSUME NEW p \in DOMAIN file', Own(p)' PROVE High(mo, mhi, mpar, file'[p], p)
      <3>1. p \in DOMAIN file /\ Own(p) /\ file'[p] = file[p]
        BY <1>1, <1>7, <2>1
      <3>2. /\ file[p] \in Node /\ Sound(file, file[p])
            /\ file[p].leaf \/ Len(file[p].children) = Len(file[p].blocks) + 1
        BY <3>1, FileFacts
      <3>3. Tight(lo, file[p]) /\ High(lo, hi, par, file[p], p)
        BY <3>1 DEF Order, Tights, Highs
      <3> QED BY <1>5, <3>1, <3>2, <3>3
    <2>2. ASSUME NEW i \in DOMAIN path PROVE High(mo, mhi, mpar, path[i].node, path[i].page)
      <3>1. /\ path[i].node \in Node /\ Sound(file, path[i].node) /\ path[i].page \in DOMAIN file
            /\ path[i].node.leaf \/ Len(path[i].node.children) = Len(path[i].node.blocks) + 1
        BY ElementFacts
      <3>2. Tight(lo, path[i].node) /\ High(lo, hi, par, path[i].node, path[i].page)
        BY DEF Order, Tights, Highs
      <3> QED BY <1>5, <3>1, <3>2
    <2>3. mhi[1] = Inf
      BY <1>3, <1>4 DEF Order, Highs
    <2> QED BY <1>1, <1>3, <2>1, <2>2, <2>3 DEF Highs
  <1>9. Aimed(mhi, mpar)'
    <2>1. Separator(path'[1].node) = Sep
      BY <1>1 DEF Sep, Parted
    <2>2. CASE pc = "split"
      BY <1>1, <1>3, <2>1, <2>2 DEF Aimed
    <2>3. CASE pc = "second"
      <3>1. hi[Len(file)] = Sep.key /\ par[Len(file)] = 1
        BY <1>1, <2>3 DEF Order, Aimed, Sep, Parted
      <3> QED BY <1>1, <1>3, <2>1, <2>3, <3>1 DEF Aimed
    <2> QED BY <1>1, <2>2, <2>3
  <1>10. LowsKnown(mo)'
    <2>1. ASSUME NEW z, Known(z) PROVE Known(z)'
      <3>1. \A p \in DOMAIN file : Own(p) => Own(p)'
        BY <1>1, <1>7
      <3> QED BY <1>1, <2>1, <3>1 DEF Known
    <2>2. \A p \in DOMAIN file : lo[p] = 0 \/ Known(lo[p])
      BY <1>1 DEF LowsKnown
    <2>3. \A p \in DOMAIN file : mo[p] = 0 \/ Known(mo[p])'
      BY <1>3, <2>1, <2>2
    <2>4. pc' = "link" \/ mo[Fresh] = 0
      BY <1>1, <1>3
    <2> QED BY <1>1, <2>3, <2>4 DEF LowsKnown
  <1> QED BY <1>6, <1>8, <1>9, <1>10 DEF Order

(* The root gets its two halves as children.                               *)
LEMMA OrderLink ==
  ASSUME IInv, Sync, NEW lo, NEW lvl, Heights(lo, lvl), NEW chain, Contents(chain),
         LinkChildren, NEW hi, NEW par, Order(lo, hi, par), LowsKnown(lo),
         NEW n, n = Parted, NEW l, l = LeftHalf(n, 0), NEW r, r = RightHalf(n, 0),
         NEW a, a = First, NEW b, b = Second, NEW s, s = Separator(n).key, NEW mpar,
         mpar = [p \in DOMAIN file |->
                   IF ~n.leaf /\ \E k \in DOMAIN l.children : l.children[k] = p THEN a
                   ELSE IF ~n.leaf /\ \E k \in DOMAIN r.children : r.children[k] = p THEN b
                   ELSE par[p]]
  PROVE  Order(lo, hi, mpar)' /\ LowsKnown(lo)'
  <1>1. /\ pc = "link" /\ pc' = "flush" /\ at = 1
        /\ DOMAIN path' = DOMAIN path /\ 1 \in DOMAIN path
        /\ ~path'[1].node.leaf
        /\ path'[1].node.blocks = <<Sep>> /\ Sep.key = s /\ path'[1].node.children = <<a, b>>
        /\ path'[1].page = 1 /\ path[1].page = 1 /\ path[1].node = n
        /\ \A i \in DOMAIN path \ {1} : path'[i] = path[i]
        /\ Len(file') = Len(file) /\ DOMAIN file' = DOMAIN file
        /\ a \in DOMAIN file /\ b \in DOMAIN file /\ a # 1 /\ b # 1 /\ a # b
        /\ \A p \in DOMAIN file :
             /\ file'[p].leaf = file[p].leaf /\ file'[p].blocks = file[p].blocks
             /\ file'[p].children = file[p].children
        /\ \A p \in DOMAIN file \ {a, b} : file'[p] = file[p]
        /\ file'[a].next = b /\ file'[b].next = n.next
    BY LinkChildrenEffect DEF First, Second, Parted, Sep
  <1>2. /\ n \in Node /\ Len(n.blocks) = Capacity(n) + 1 /\ Sound(file, n)
        /\ ~n.leaf => Len(n.children) = Len(n.blocks) + 1
        /\ Sep.key \in 1..MaxKey /\ n.leaf \in BOOLEAN
    BY <1>1, PartedFacts
  <1>3. file[a] = l /\ file[b] = r /\ l.leaf = n.leaf /\ r.leaf = n.leaf
    <2>1. file[a] = l /\ file[b] = r
      BY <1>1 DEF Sync, First, Second, Parted
    <2> QED BY <1>2, <2>1 DEF LeftHalf, RightHalf, Node
  <1>4. /\ hi[a] = s /\ hi[b] = Inf /\ hi[1] = Inf /\ par[a] = 1 /\ par[b] = 1 /\ lo[b] = s
        /\ High(lo, hi, par, n, 1) /\ Tight(lo, n)
    <2>1. file # <<>>
      BY <1>1
    <2>2. hi[a] = s /\ hi[b] = Inf /\ par[a] = 1 /\ par[b] = 1
      BY <1>1 DEF Order, Aimed, First, Second, Sep, Parted
    <2>3. lo[b] = s
      BY <1>1 DEF Heights, Second, Sep, Parted
    <2>4. High(lo, hi, par, n, 1) /\ Tight(lo, n) /\ hi[1] = Inf
      BY <1>1, <2>1 DEF Order, Highs, Tights
    <2> QED BY <2>2, <2>3, <2>4
  <1>5. ~n.leaf => \A k \in DOMAIN n.children :
                     /\ n.children[k] \in DOMAIN file /\ n.children[k] # a /\ n.children[k] # b
                     /\ par[n.children[k]] = 1
    <2> SUFFICES ASSUME ~n.leaf, NEW k \in DOMAIN n.children
                 PROVE  /\ n.children[k] \in DOMAIN file /\ n.children[k] # a /\ n.children[k] # b
                        /\ par[n.children[k]] = 1
      OBVIOUS
    <2>1. n.children[k] \in DOMAIN file
      BY <1>2 DEF Sound
    <2>2. Level(lvl, n, lvl[1])
      BY <1>1, HeightFacts
    <2>3. lvl[n.children[k]] + 1 = lvl[1] /\ lvl[a] = lvl[1] /\ lvl[b] = lvl[1]
      BY <1>1, <2>2 DEF Level, Heights, First, Second
    <2>4. lvl[n.children[k]] \in Nat
      BY <2>1, HeightFacts
    <2>5. n.children[k] # a /\ n.children[k] # b
      BY <2>3, <2>4
    <2> QED BY <1>4, <2>1, <2>5 DEF High
  <1>6. ~n.leaf =>
          /\ \A k \in DOMAIN l.children : k \in DOMAIN n.children /\ l.children[k] = n.children[k]
          /\ \A k \in DOMAIN r.children : \E q \in DOMAIN n.children : r.children[k] = n.children[q]
          /\ \A k \in DOMAIN l.children, q \in DOMAIN r.children : l.children[k] # r.children[q]
          /\ \A k \in DOMAIN n.blocks :
               \/ \E q \in DOMAIN l.blocks : l.blocks[q].key = n.blocks[k].key
               \/ \E q \in DOMAIN r.blocks : r.blocks[q].key = n.blocks[k].key
               \/ Separator(n).key = n.blocks[k].key
    <2>1. ~n.leaf => \A k, q \in DOMAIN n.children : n.children[k] = n.children[q] => k = q
      BY <1>4 DEF High
    <2>2. /\ n \in Node /\ Len(n.blocks) = Capacity(n) + 1
          /\ ~n.leaf => Len(n.children) = Len(n.blocks) + 1
          /\ l = LeftHalf(n, 0) /\ r = RightHalf(n, 0)
      BY <1>2
    <2> QED BY ONLY <2>1, <2>2, SplitChildren
  <1>7. /\ \A p \in DOMAIN file : par[p] # 1 => mpar[p] = par[p]
        /\ mpar[a] = 1 /\ mpar[b] = 1
        /\ ~n.leaf => /\ \A k \in DOMAIN l.children : mpar[l.children[k]] = a
                      /\ \A k \in DOMAIN r.children : mpar[r.children[k]] = b
        /\ mpar \in [DOMAIN file -> Nat]
    <2>1. \A p \in DOMAIN file : mpar[p] =
            IF ~n.leaf /\ \E k \in DOMAIN l.children : l.children[k] = p THEN a
            ELSE IF ~n.leaf /\ \E k \in DOMAIN r.children : r.children[k] = p THEN b
            ELSE par[p]
      OBVIOUS
    <2>2. ~n.leaf => /\ \A k \in DOMAIN l.children : l.children[k] \in DOMAIN file
                                 /\ l.children[k] # a /\ l.children[k] # b /\ par[l.children[k]] = 1
                     /\ \A k \in DOMAIN r.children : r.children[k] \in DOMAIN file
                                 /\ r.children[k] # a /\ r.children[k] # b /\ par[r.children[k]] = 1
      BY <1>5, <1>6
    <2>3. \A p \in DOMAIN file : par[p] # 1 => mpar[p] = par[p]
      BY <2>1, <2>2
    <2>4. mpar[a] = 1 /\ mpar[b] = 1
      BY <1>1, <1>4, <2>1, <2>2
    <2>5. ~n.leaf => /\ \A k \in DOMAIN l.children : mpar[l.children[k]] = a
                     /\ \A k \in DOMAIN r.children : mpar[r.children[k]] = b
      BY <1>6, <2>1, <2>2
    <2>6. a \in Nat /\ b \in Nat /\ par \in [DOMAIN file -> Nat]
      BY <1>1, FileFacts DEF Order, Highs
    <2>7. mpar \in [DOMAIN file -> Nat]
      BY <2>6
    <2> QED BY <2>3, <2>4, <2>5, <2>7
  <1>8. ASSUME NEW m \in Node, m.leaf \/ Len(m.children) = Len(m.blocks) + 1, Sound(file, m),
               NEW p \in DOMAIN file, p # 1, High(lo, hi, par, m, p)
        PROVE  High(lo, hi, mpar, m, p)
    <2>1. ~m.leaf => \A k \in DOMAIN m.children : m.children[k] \in DOMAIN file
      BY <1>8 DEF Sound
    <2>2. ~m.leaf => \A k \in DOMAIN m.children :
            hi[m.children[k]] = hi[m.children[k]] /\ mpar[m.children[k]] = par[m.children[k]]
      BY <1>7, <1>8, <2>1 DEF High
    <2> QED BY <1>8, <2>2, HighAgree
  <1>9. High(lo, hi, mpar, file'[a], a) /\ High(lo, hi, mpar, file'[b], b)
    <2>1. CASE n.leaf
      <3>1. a # 0 /\ b # 0
        BY <1>1, FileFacts
      <3>2. hi[a] = Bound(lo, b)
        BY <1>4, <3>1 DEF Bound
      <3>3. hi[b] = Bound(lo, n.next)
        BY <1>4, <2>1 DEF High
      <3>4. file'[a].leaf /\ file'[b].leaf
        BY <1>1, <1>3, <2>1
      <3> QED BY <1>1, <3>2, <3>3, <3>4 DEF High
    <2>2. CASE ~n.leaf
      <3>1. hi[a] = Separator(n).key /\ hi[b] = hi[1]
        BY <1>4
      <3>2. High(lo, hi, mpar, l, a) /\ High(lo, hi, mpar, r, b)
        <4>1. Tops(n, l, r, lo, hi, par, 1, hi, mpar, a, b)
          BY <1>2, <1>4, <1>7, <2>2, <3>1 DEF Tops
        <4> QED BY <1>2, <4>1, SplitHigh
      <3>3. /\ file'[a].leaf = l.leaf /\ file'[a].blocks = l.blocks /\ file'[a].children = l.children
            /\ file'[b].leaf = r.leaf /\ file'[b].blocks = r.blocks /\ file'[b].children = r.children
            /\ ~l.leaf /\ ~r.leaf
        BY <1>1, <1>3, <2>2
      <3>4. High(lo, hi, mpar, file'[a], a)
        BY ONLY <3>2, <3>3 DEF High
      <3>5. High(lo, hi, mpar, file'[b], b)
        BY ONLY <3>2, <3>3 DEF High
      <3> QED BY <3>4, <3>5
    <2> QED BY <2>1, <2>2
  <1>10. High(lo, hi, mpar, path'[1].node, 1)
    <2>1. /\ DOMAIN <<Sep>> = {1} /\ <<Sep>>[1] = Sep
          /\ DOMAIN <<a, b>> = {1, 2} /\ <<a, b>>[1] = a /\ <<a, b>>[2] = b /\ Len(<<a, b>>) = 2
      OBVIOUS
    <2> QED BY <1>1, <1>4, <1>7, <2>1 DEF High
  <1>11. \A p \in DOMAIN file : (Own(p)' <=> Own(p) \/ p = a \/ p = b) /\ (Own(p) => p # a /\ p # b)
    <2>1. \A i \in DOMAIN path : path'[i].page = path[i].page
      BY <1>1
    <2>2. \A i \in DOMAIN path : path[i].page # a /\ path[i].page # b
      BY <1>1, HeightFacts
    <2>3. \A p \in DOMAIN file : ~Pending(p)' /\ (Pending(p) <=> p = a \/ p = b)
      BY <1>1 DEF Pending, First, Second
    <2> QED BY <1>1, <2>1, <2>2, <2>3 DEF Own
  <1>12. Tights(lo)'
    <2>1. /\ n.leaf => Tight(lo, file'[a]) /\ Tight(lo, file'[b])
          /\ ~n.leaf => Tight(lo, file'[a]) /\ Tight(lo, file'[b])
      <3>1. ASSUME ~n.leaf PROVE ~file'[a].leaf /\ ~file'[b].leaf
        BY <1>1, <1>3, <3>1
      <3>2. ASSUME n.leaf PROVE Tight(lo, file'[a]) /\ Tight(lo, file'[b])
        <4>1. NoDouble(n) /\ Sorted(n)
          BY <1>1, <3>2 DEF Contents, Fine
        <4>2. /\ BlocksOf(l) \cup BlocksOf(r) = BlocksOf(n)
              /\ \A k \in DOMAIN l.blocks : l.blocks[k].key <= Separator(n).key
          BY <1>2, <3>2, <4>1, SplitBlocks
        <4>3. /\ n.next \in 0..Len(file)
              /\ \A x \in BlocksOf(n) : x.key <= Bound(lo, n.next)
          BY <1>4, <3>2 DEF Tight, BlocksOf
        <4>4. \A k \in DOMAIN r.blocks : r.blocks[k].key <= Bound(lo, n.next)
          BY <4>2, <4>3 DEF BlocksOf
        <4>5. Bound(lo, b) = s /\ b \in 0..Len(file)
          <5>1. b \in Nat \ {0} /\ b <= Len(file) /\ Len(file) \in Nat
            BY <1>1, FileFacts, Shape, Zenon
          <5> QED BY <1>4, <5>1 DEF Bound
        <4>6. \A k \in DOMAIN l.blocks : l.blocks[k].key <= s
          BY <4>2
        <4> QED BY <1>1, <1>3, <4>3, <4>4, <4>5, <4>6 DEF Tight
      <3> QED BY <3>1, <3>2 DEF Tight
    <2>2. ASSUME NEW p \in DOMAIN file PROVE Tight(lo, file'[p])
      <3>1. CASE p = a \/ p = b
        BY <1>2, <2>1, <3>1
      <3>2. CASE p # a /\ p # b
        BY <1>1, <3>2 DEF Order, Tights
      <3> QED BY <3>1, <3>2
    <2>3. ASSUME NEW i \in DOMAIN path PROVE Tight(lo, path'[i].node)
      <3>1. CASE i = 1
        BY <1>1, <3>1 DEF Tight
      <3>2. CASE i # 1
        BY <1>1, <3>2 DEF Order, Tights
      <3> QED BY <3>1, <3>2
    <2> QED BY <1>1, <2>2, <2>3 DEF Tights, Tight
  <1>13. Highs(lo, hi, mpar)'
    <2>1. ASSUME NEW p \in DOMAIN file, Own(p)' PROVE High(lo, hi, mpar, file'[p], p)
      <3>1. CASE p = a \/ p = b
        BY <1>9, <3>1
      <3>2. CASE p # a /\ p # b
        <4>1. Own(p) /\ file'[p] = file[p] /\ p # 1
          <5>1. Own(p) /\ file'[p] = file[p]
            BY <1>1, <1>11, <2>1, <3>2
          <5> QED BY <1>1, <5>1 DEF Own
        <4>2. /\ file[p] \in Node /\ Sound(file, file[p])
              /\ file[p].leaf \/ Len(file[p].children) = Len(file[p].blocks) + 1
          BY FileFacts
        <4>3. High(lo, hi, par, file[p], p)
          BY <4>1 DEF Order, Highs
        <4> QED BY <1>8, <4>1, <4>2, <4>3
      <3> QED BY <3>1, <3>2
    <2>2. ASSUME NEW i \in DOMAIN path PROVE High(lo, hi, mpar, path'[i].node, path'[i].page)
      <3>1. CASE i = 1
        BY <1>1, <1>10, <3>1
      <3>2. CASE i # 1
        <4>1. /\ path[i].node \in Node /\ Sound(file, path[i].node) /\ path[i].page \in DOMAIN file
              /\ path[i].node.leaf \/ Len(path[i].node.children) = Len(path[i].node.blocks) + 1
              /\ path[i].page # 1
          BY <3>2, ElementFacts
        <4>2. High(lo, hi, par, path[i].node, path[i].page)
          BY DEF Order, Highs
        <4> QED BY <1>1, <1>8, <3>2, <4>1, <4>2
      <3> QED BY <3>1, <3>2
    <2>3. hi \in [DOMAIN file -> 1..Inf]
      BY DEF Order, Highs
    <2> QED BY <1>1, <1>4, <1>7, <2>1, <2>2, <2>3 DEF Highs
  <1>14. Aimed(hi, mpar)'
    BY <1>1 DEF Aimed
  <1>15. LowsKnown(lo)'
    <2>1. Known(s)'
      <3>1. DOMAIN <<Sep>> = {1} /\ <<Sep>>[1] = Sep
        OBVIOUS
      <3>2. \E k \in DOMAIN path'[1].node.blocks : path'[1].node.blocks[k].key = s
        BY <1>1, <3>1
      <3> QED BY <1>1, <3>2 DEF Known
    <2>2. ASSUME NEW x, Known(x) PROVE Known(x)'
      <3>1. CASE \E i \in DOMAIN path : ~path[i].node.leaf
                   /\ \E k \in DOMAIN path[i].node.blocks : path[i].node.blocks[k].key = x
        <4>1. PICK i \in DOMAIN path : ~path[i].node.leaf
                   /\ \E k \in DOMAIN path[i].node.blocks : path[i].node.blocks[k].key = x
          BY <3>1
        <4>2. CASE i # 1
          BY <1>1, <4>1, <4>2 DEF Known
        <4>3. CASE i = 1
          <5>1. ~n.leaf /\ \E k \in DOMAIN n.blocks : n.blocks[k].key = x
            BY <1>1, <4>1, <4>3
          <5>2. \/ \E q \in DOMAIN l.blocks : l.blocks[q].key = x
                \/ \E q \in DOMAIN r.blocks : r.blocks[q].key = x
                \/ Separator(n).key = x
            BY <1>6, <5>1
          <5>3. CASE \E q \in DOMAIN l.blocks : l.blocks[q].key = x
            BY <1>1, <1>3, <1>11, <5>1, <5>3 DEF Known
          <5>4. CASE \E q \in DOMAIN r.blocks : r.blocks[q].key = x
            BY <1>1, <1>3, <1>11, <5>1, <5>4 DEF Known
          <5>5. CASE Separator(n).key = x
            BY <2>1, <5>5
          <5> QED BY <5>2, <5>3, <5>4, <5>5
        <4> QED BY <4>2, <4>3
      <3>2. CASE \E p \in DOMAIN file : ~file[p].leaf /\ Own(p)
                   /\ \E k \in DOMAIN file[p].blocks : file[p].blocks[k].key = x
        BY <1>1, <1>11, <3>2 DEF Known
      <3> QED BY <2>2, <3>1, <3>2 DEF Known
    <2>3. \A p \in DOMAIN file : p # b => lo[p] = 0 \/ Known(lo[p])
      BY <1>1 DEF LowsKnown, Second
    <2> QED BY <1>1, <1>4, <2>1, <2>2, <2>3 DEF LowsKnown
  <1> QED BY <1>12, <1>13, <1>14, <1>15 DEF Order

(* A node below the root is split: u is the page of its right half, p its  *)
(* own and q the one of its parent.                                        *)
SplitHi(hi, p, u, s) ==
  [x \in DOMAIN file \cup {u} |-> IF x = u THEN hi[p] ELSE IF x = p THEN s ELSE hi[x]]
SplitPar(par, r, q, u) ==
  [x \in DOMAIN file \cup {u} |->
     IF x = u THEN q
     ELSE IF ~r.leaf /\ \E k \in DOMAIN r.children : r.children[k] = x THEN u
     ELSE par[x]]

(* What the proof for this step is about.                                  *)
Splitting(lo, hi, par, n, l, r, u, w, p, q, s, mo, mhi, mpar) ==
  /\ n = Parted /\ l = LeftHalf(n, u) /\ r = RightHalf(n, w) /\ u = Fresh /\ w = RightNext
  /\ p = path[at].page /\ q = path[Up].page /\ s = Separator(n).key
  /\ mo = Longer(lo, s) /\ mhi = SplitHi(hi, p, u, s) /\ mpar = SplitPar(par, r, q, u)

SplitNode(lo, hi, par, n, l, r, u, p, q) ==
  /\ n \in Node /\ Len(n.blocks) = Capacity(n) + 1 /\ Sound(file, n)
  /\ ~n.leaf => Len(n.children) = Len(n.blocks) + 1
  /\ l.leaf = n.leaf /\ r.leaf = n.leaf
  /\ High(lo, hi, par, n, p) /\ Tight(lo, n)
  /\ p \in DOMAIN file /\ q \in DOMAIN file /\ p # q /\ p # 1 /\ par[p] = q
  /\ u \notin DOMAIN file /\ u \in Nat \ {0} /\ u # 1
  /\ ~n.leaf => \A k \in DOMAIN n.children :
       n.children[k] \in DOMAIN file /\ n.children[k] # p /\ par[n.children[k]] = p
  /\ ~n.leaf =>
       /\ \A k \in DOMAIN l.children : k \in DOMAIN n.children /\ l.children[k] = n.children[k]
       /\ \A k \in DOMAIN r.children : \E j \in DOMAIN n.children : r.children[k] = n.children[j]
       /\ \A k \in DOMAIN l.children, j \in DOMAIN r.children : l.children[k] # r.children[j]
       /\ \A k \in DOMAIN n.blocks :
            \/ \E j \in DOMAIN l.blocks : l.blocks[j].key = n.blocks[k].key
            \/ \E j \in DOMAIN r.blocks : r.blocks[j].key = n.blocks[k].key
            \/ Separator(n).key = n.blocks[k].key

LEMMA SplitNodeFacts ==
  ASSUME IInv, Sync, NEW lo, NEW lvl, Heights(lo, lvl), WriteRight,
         NEW hi, NEW par, Order(lo, hi, par),
         NEW n, NEW l, NEW r, NEW u, NEW w, NEW p, NEW q, NEW s, NEW mo, NEW mhi, NEW mpar,
         Splitting(lo, hi, par, n, l, r, u, w, p, q, s, mo, mhi, mpar)
  PROVE  SplitNode(lo, hi, par, n, l, r, u, p, q)
  <1>1. /\ n = Parted /\ l = LeftHalf(n, u) /\ r = RightHalf(n, w) /\ u = Fresh
        /\ p = path[at].page /\ q = path[Up].page
    BY Zenon DEF Splitting
  <1>2. /\ pc = "split" /\ at > 1 /\ at \in DOMAIN path /\ Up \in DOMAIN path /\ Up # at /\ at # 1
        /\ u \notin DOMAIN file /\ u \in Nat \ {0} /\ u # 1
    BY <1>1, WriteRightEffect, Zenon DEF WriteRight
  <1>3. /\ n \in Node /\ Len(n.blocks) = Capacity(n) + 1 /\ Sound(file, n)
        /\ ~n.leaf => Len(n.children) = Len(n.blocks) + 1
        /\ n.leaf \in BOOLEAN /\ p \in DOMAIN file
    BY <1>1, <1>2, PartedFacts
  <1>4. l.leaf = n.leaf /\ r.leaf = n.leaf
    BY <1>1, <1>3 DEF LeftHalf, RightHalf, Node
  <1>5. High(lo, hi, par, n, p) /\ Tight(lo, n) /\ High(lo, hi, par, Above, q)
    BY <1>1, <1>2 DEF Order, Highs, Tights, Parted, Above
  <1>6. q \in DOMAIN file /\ p # q /\ p # 1
    <2>1. q \in DOMAIN file /\ p # 1
      BY <1>1, <1>2, ElementFacts
    <2>2. p # q
      BY <1>1, <1>2, HeightFacts
    <2> QED BY <2>1, <2>2
  <1>7. par[p] = q
    <2>1. /\ ~Above.leaf /\ path[Up].j \in DOMAIN Above.children
          /\ Above.children[path[Up].j] = p
      BY <1>1, <1>2, AboveFacts
    <2> QED BY <1>5, <2>1 DEF High
  <1>8. ~n.leaf => \A k \in DOMAIN n.children :
          n.children[k] \in DOMAIN file /\ n.children[k] # p /\ par[n.children[k]] = p
    <2> SUFFICES ASSUME ~n.leaf, NEW k \in DOMAIN n.children
                 PROVE  n.children[k] \in DOMAIN file /\ n.children[k] # p /\ par[n.children[k]] = p
      OBVIOUS
    <2>1. n.children[k] \in DOMAIN file
      BY <1>3 DEF Sound
    <2>2. Level(lvl, n, lvl[p])
      BY <1>1, <1>2, HeightFacts DEF Parted
    <2>3. lvl[n.children[k]] + 1 = lvl[p]
      BY <2>2 DEF Level
    <2>4. lvl[n.children[k]] \in Nat
      BY <2>1, HeightFacts
    <2> QED BY <1>5, <2>1, <2>3, <2>4 DEF High
  <1>9. ~n.leaf =>
          /\ \A k \in DOMAIN l.children : k \in DOMAIN n.children /\ l.children[k] = n.children[k]
          /\ \A k \in DOMAIN r.children : \E j \in DOMAIN n.children : r.children[k] = n.children[j]
          /\ \A k \in DOMAIN l.children, j \in DOMAIN r.children : l.children[k] # r.children[j]
          /\ \A k \in DOMAIN n.blocks :
               \/ \E j \in DOMAIN l.blocks : l.blocks[j].key = n.blocks[k].key
               \/ \E j \in DOMAIN r.blocks : r.blocks[j].key = n.blocks[k].key
               \/ Separator(n).key = n.blocks[k].key
    <2>1. ~n.leaf => \A k, j \in DOMAIN n.children : n.children[k] = n.children[j] => k = j
      BY <1>5 DEF High
    <2>2. /\ n \in Node /\ Len(n.blocks) = Capacity(n) + 1
          /\ ~n.leaf => Len(n.children) = Len(n.blocks) + 1
          /\ l = LeftHalf(n, u) /\ r = RightHalf(n, w)
      BY <1>1, <1>3
    <2> QED BY ONLY <2>1, <2>2, SplitChildren
  <1> QED BY <1>2, <1>3, <1>4, <1>5, <1>6, <1>7, <1>8, <1>9 DEF SplitNode

(* The bounds of the pages after the split.                                *)
SplitMaps(lo, hi, par, n, l, r, u, p, q, s, mo, mhi, mpar) ==
  /\ \A x \in DOMAIN file : mo[x] = lo[x] /\ (x # p => mhi[x] = hi[x])
                            /\ (par[x] # p => mpar[x] = par[x])
  /\ mo[u] = s /\ mhi[p] = s /\ mhi[u] = hi[p] /\ mpar[u] = q
  /\ mhi \in [DOMAIN file \cup {u} -> 1..Inf] /\ mpar \in [DOMAIN file \cup {u} -> Nat]
  /\ ~n.leaf => /\ \A k \in DOMAIN l.children : mpar[l.children[k]] = p
                /\ \A k \in DOMAIN r.children : mpar[r.children[k]] = u
                /\ \A k \in DOMAIN n.children : mhi[n.children[k]] = hi[n.children[k]]

LEMMA SplitMapsFacts ==
  ASSUME IInv, NEW lo, NEW hi, NEW par, Order(lo, hi, par),
         NEW n, NEW l, NEW r, NEW u, NEW w, NEW p, NEW q, NEW s, NEW mo, NEW mhi, NEW mpar,
         Splitting(lo, hi, par, n, l, r, u, w, p, q, s, mo, mhi, mpar),
         SplitNode(lo, hi, par, n, l, r, u, p, q), s \in 1..Inf
  PROVE  SplitMaps(lo, hi, par, n, l, r, u, p, q, s, mo, mhi, mpar)
  <1>1. u = Fresh /\ mo = Longer(lo, s) /\ mhi = SplitHi(hi, p, u, s) /\ mpar = SplitPar(par, r, q, u)
    BY DEF Splitting
  <1>2. /\ p \in DOMAIN file /\ q \in DOMAIN file /\ p # q /\ par[p] = q
        /\ u \notin DOMAIN file /\ u \in Nat /\ r.leaf = n.leaf /\ l.leaf = n.leaf
    BY DEF SplitNode
  <1>3. /\ \A x \in DOMAIN file : x # u
        /\ \A x \in DOMAIN file : mo[x] = lo[x]
        /\ mo[u] = s
    BY <1>1, <1>2 DEF Longer
  <1>4. /\ \A x \in DOMAIN file : mhi[x] = IF x = p THEN s ELSE hi[x]
        /\ mhi[u] = hi[p]
        /\ \A x \in DOMAIN file :
             mpar[x] = IF ~r.leaf /\ \E k \in DOMAIN r.children : r.children[k] = x THEN u ELSE par[x]
        /\ mpar[u] = q
    BY <1>1, <1>2 DEF SplitHi, SplitPar
  <1>5. hi \in [DOMAIN file -> 1..Inf] /\ par \in [DOMAIN file -> Nat]
    BY DEF Order, Highs
  <1>6. mhi \in [DOMAIN file \cup {u} -> 1..Inf]
    BY <1>1, <1>2, <1>5 DEF SplitHi
  <1>7. mpar \in [DOMAIN file \cup {u} -> Nat]
    <2>1. q \in Nat
      BY <1>2, FileFacts
    <2> QED BY <1>1, <1>2, <1>5, <2>1 DEF SplitPar
  <1>8. ~n.leaf =>
          /\ \A k \in DOMAIN n.children :
               n.children[k] \in DOMAIN file /\ n.children[k] # p /\ par[n.children[k]] = p
          /\ \A k \in DOMAIN l.children : k \in DOMAIN n.children /\ l.children[k] = n.children[k]
          /\ \A k \in DOMAIN r.children : \E j \in DOMAIN n.children : r.children[k] = n.children[j]
          /\ \A k \in DOMAIN l.children, j \in DOMAIN r.children : l.children[k] # r.children[j]
    BY DEF SplitNode
  <1>9. \A x \in DOMAIN file : par[x] # p => mpar[x] = par[x]
    BY <1>2, <1>4, <1>8
  <1>10. ~n.leaf => /\ \A k \in DOMAIN l.children : mpar[l.children[k]] = p
                    /\ \A k \in DOMAIN r.children : mpar[r.children[k]] = u
                    /\ \A k \in DOMAIN n.children : mhi[n.children[k]] = hi[n.children[k]]
    BY <1>2, <1>4, <1>8
  <1> QED BY <1>3, <1>4, <1>2, <1>6, <1>7, <1>9, <1>10 DEF SplitMaps

(* The bounds above a page that the split leaves alone, of the page of the *)
(* node, of the new one and of the parent.                                 *)
LEMMA SplitHighs ==
  ASSUME IInv, Sync, WriteRight, NEW lo, NEW hi, NEW par, Order(lo, hi, par),
         NEW n, NEW l, NEW r, NEW u, NEW w, NEW p, NEW q, NEW s, NEW mo, NEW mhi, NEW mpar,
         Splitting(lo, hi, par, n, l, r, u, w, p, q, s, mo, mhi, mpar),
         SplitNode(lo, hi, par, n, l, r, u, p, q),
         SplitMaps(lo, hi, par, n, l, r, u, p, q, s, mo, mhi, mpar)
  PROVE  /\ \A m \in Node : Sound(file, m) /\ Tight(lo, m)
                            /\ (m.leaf \/ Len(m.children) = Len(m.blocks) + 1) =>
              \A x \in DOMAIN file \ {p, q} : High(lo, hi, par, m, x) => High(mo, mhi, mpar, m, x)
         /\ High(mo, mhi, mpar, l, p) /\ High(mo, mhi, mpar, r, u)
         /\ High(mo, mhi, mpar, Parent, q)
  <1>1. /\ n = Parted /\ l = LeftHalf(n, u) /\ r = RightHalf(n, w) /\ u = Fresh /\ w = RightNext
        /\ s = Separator(n).key /\ mo = Longer(lo, s)
    BY DEF Splitting
  <1>2. /\ n \in Node /\ Len(n.blocks) = Capacity(n) + 1
        /\ ~n.leaf => Len(n.children) = Len(n.blocks) + 1
        /\ l.leaf = n.leaf /\ r.leaf = n.leaf
        /\ High(lo, hi, par, n, p) /\ Tight(lo, n)
        /\ p \in DOMAIN file /\ q \in DOMAIN file /\ p # q /\ par[p] = q
        /\ u \notin DOMAIN file /\ u \in Nat \ {0}
        /\ ~n.leaf => \A k \in DOMAIN n.children : par[n.children[k]] = p
    BY DEF SplitNode
  <1>3. /\ \A x \in DOMAIN file : (x # p => mhi[x] = hi[x]) /\ (par[x] # p => mpar[x] = par[x])
        /\ mhi[p] = s /\ mhi[u] = hi[p] /\ mpar[u] = q
        /\ ~n.leaf => /\ \A k \in DOMAIN l.children : mpar[l.children[k]] = p
                      /\ \A k \in DOMAIN r.children : mpar[r.children[k]] = u
                      /\ \A k \in DOMAIN n.children : mhi[n.children[k]] = hi[n.children[k]]
    BY Zenon DEF SplitMaps
  <1>4. pc = "split" /\ at > 1 /\ Len(file') = Fresh /\ at \in DOMAIN path
    BY WriteRightEffect, Zenon DEF WriteRight
  <1>5. ASSUME NEW m \in Node, Sound(file, m), Tight(lo, m),
               m.leaf \/ Len(m.children) = Len(m.blocks) + 1,
               NEW x \in DOMAIN file \ {p, q}, High(lo, hi, par, m, x)
        PROVE  High(mo, mhi, mpar, m, x)
    <2>1. ASSUME ~m.leaf, NEW k \in DOMAIN m.children
          PROVE  /\ mhi[m.children[k]] = hi[m.children[k]]
                 /\ mpar[m.children[k]] = par[m.children[k]]
      <3>1. m.children[k] \in DOMAIN file /\ par[m.children[k]] = x
        BY <1>5, <2>1 DEF Sound, High
      <3>2. x # p /\ x # q
        BY <1>5
      <3> QED BY <1>2, <1>3, <3>1, <3>2
    <2>2. mhi[x] = hi[x]
      BY <1>3
    <2> QED BY <1>1, <1>4, <1>5, <2>1, <2>2, HighAppend
  <1>6. High(mo, mhi, mpar, l, p) /\ High(mo, mhi, mpar, r, u)
    <2>1. CASE n.leaf
      <3>1. Bound(mo, u) = s /\ w = n.next /\ \A y \in 0..Len(file) : Bound(mo, y) = Bound(lo, y)
        <4>1. w = n.next
          BY <1>1, <1>4, <2>1, RightNextFacts
        <4>2. Bound(mo, u) = s /\ \A y \in 0..Len(file) : Bound(mo, y) = Bound(lo, y)
          BY <1>1, <1>4, BoundAppend
        <4> QED BY <4>1, <4>2
      <3>2. l.next = u /\ r.next = w
        BY <1>1, <1>2 DEF LeftHalf, RightHalf, Node
      <3>3. n.next \in 0..Len(file) /\ hi[p] = Bound(lo, n.next)
        BY <1>2, <2>1 DEF High, Tight
      <3> QED BY <1>2, <1>3, <2>1, <3>1, <3>2, <3>3 DEF High
    <2>2. CASE ~n.leaf
      <3>1. Tops(n, l, r, lo, hi, par, p, mhi, mpar, p, u)
        BY <1>1, <1>2, <1>3, <2>2 DEF Tops
      <3> QED BY <1>1, <1>2, <3>1, SplitHigh
    <2> QED BY <2>1, <2>2
  <1>7. High(mo, mhi, mpar, Parent, q)
    <2> DEFINE j == path[Up].j
    <2> DEFINE a == Above
    <2> DEFINE b == Sep
    <2>1. /\ a \in Node /\ ~a.leaf /\ Len(a.children) = Len(a.blocks) + 1
          /\ j \in DOMAIN a.children /\ a.children[j] = p
          /\ \A k \in DOMAIN a.children : a.children[k] \in DOMAIN file
      BY <1>4, AboveFacts DEF Splitting
    <2>2. High(lo, hi, par, a, q)
      BY <1>4, AboveFacts DEF Order, Highs, Above, Splitting
    <2>3. b \in Block /\ b.key = s /\ Parent = AddChild(a, j, b, u)
      BY <1>1, <1>4, PartedFacts DEF Parent, Sep
    <2> HIDE DEF a, b, j
    <2>4. \A k \in DOMAIN a.children \ {j} : a.children[k] # p
      BY <2>1, <2>2 DEF High
    <2>5. \A k \in DOMAIN a.children \ {j} : mhi[a.children[k]] = hi[a.children[k]]
      BY <1>3, <2>1, <2>4
    <2>6. \A k \in DOMAIN a.children : par[a.children[k]] = q
      BY <2>1, <2>2 DEF High
    <2>7. \A k \in DOMAIN a.children : mpar[a.children[k]] = q /\ a.children[k] # u
      BY <1>2, <1>3, <2>1, <2>6
    <2>8. mhi[a.children[j]] = b.key /\ mhi[u] = hi[a.children[j]] /\ mhi[q] = hi[q] /\ mpar[u] = q
      BY <1>2, <1>3, <2>1, <2>3
    <2> QED BY <1>2, <2>1, <2>2, <2>3, <2>5, <2>7, <2>8, AddChildHigh
  <1> QED BY <1>5, <1>6, <1>7

(* The order of the blocks across the two halves.                          *)
LEMMA SplitTights ==
  ASSUME IInv, Sync, WriteRight, NEW chain, Contents(chain),
         NEW lo, NEW hi, NEW par, Order(lo, hi, par),
         NEW n, NEW l, NEW r, NEW u, NEW w, NEW p, NEW q, NEW s, NEW mo, NEW mhi, NEW mpar,
         Splitting(lo, hi, par, n, l, r, u, w, p, q, s, mo, mhi, mpar),
         SplitNode(lo, hi, par, n, l, r, u, p, q)
  PROVE  /\ Tight(mo, l)' /\ Tight(mo, r)'
         /\ \A m : Tight(lo, m) => Tight(mo, m)'
  <1>1. /\ n = Parted /\ l = LeftHalf(n, u) /\ r = RightHalf(n, w) /\ u = Fresh /\ w = RightNext
        /\ s = Separator(n).key /\ mo = Longer(lo, s)
    BY DEF Splitting
  <1>2. /\ n \in Node /\ Len(n.blocks) = Capacity(n) + 1 /\ Tight(lo, n)
        /\ l.leaf = n.leaf /\ r.leaf = n.leaf /\ u \in Nat \ {0}
    BY Zenon DEF SplitNode
  <1>3. /\ pc = "split" /\ at > 1 /\ Len(file') = u /\ at \in DOMAIN path
    BY <1>1, WriteRightEffect, Zenon DEF WriteRight
  <1>4. /\ \A y \in 0..Len(file) : Bound(mo, y) = Bound(lo, y)
        /\ \A m : Tight(lo, m) => Tight(mo, m)'
        /\ Bound(mo, u) = s
    BY <1>1, <1>3, BoundAppend
  <1>5. CASE ~n.leaf
    BY <1>2, <1>4, <1>5 DEF Tight
  <1>6. CASE n.leaf
    <2>1. NoDouble(n) /\ Sorted(n)
      BY <1>1, <1>3, <1>6 DEF Contents, Fine, Parted
    <2>2. /\ BlocksOf(l) \cup BlocksOf(r) = BlocksOf(n)
          /\ \A k \in DOMAIN l.blocks : l.blocks[k].key <= Separator(n).key
          /\ l.next = u /\ r.next = w
      BY <1>1, <1>2, <1>6, <2>1, SplitBlocks
    <2>3. /\ n.next \in 0..Len(file) /\ w = n.next
          /\ \A x \in BlocksOf(n) : x.key <= Bound(lo, n.next)
      <3>1. w = n.next
        BY <1>1, <1>3, <1>6, RightNextFacts
      <3> QED BY <1>2, <1>6, <3>1 DEF Tight, BlocksOf
    <2>4. Tight(mo, l)'
      <3>1. \A k \in DOMAIN l.blocks : l.blocks[k].key <= Bound(mo, l.next)
        BY <1>1, <1>4, <2>2
      <3>2. u \in 0..u
        BY <1>2
      <3> QED BY <1>3, <2>2, <3>1, <3>2 DEF Tight
    <2>5. Tight(mo, r)'
      <3>1. \A k \in DOMAIN r.blocks : r.blocks[k].key <= Bound(mo, r.next)
        BY <1>4, <2>2, <2>3 DEF BlocksOf
      <3>2. \A y \in 0..Len(file) : y \in 0..u
        <4>1. Len(file) \in Nat
          BY Shape, Zenon
        <4> QED BY <1>1, <4>1 DEF Fresh
      <3> QED BY <1>3, <2>2, <2>3, <3>1, <3>2 DEF Tight
    <2> QED BY <1>4, <2>4, <2>5
  <1> QED BY <1>5, <1>6

LEMMA OrderWriteRight ==
  ASSUME IInv, Sync, NEW lo, NEW lvl, Heights(lo, lvl), NEW chain, Contents(chain), WriteRight,
         NEW hi, NEW par, Order(lo, hi, par), LowsKnown(lo),
         NEW n, NEW l, NEW r, NEW u, NEW w, NEW p, NEW q, NEW s, NEW mo, NEW mhi, NEW mpar,
         Splitting(lo, hi, par, n, l, r, u, w, p, q, s, mo, mhi, mpar)
  PROVE  Order(mo, mhi, mpar)' /\ LowsKnown(mo)'
  <1>1. /\ pc = "split" /\ pc' = "left" /\ at \in DOMAIN path /\ Up \in DOMAIN path
        /\ Up # at /\ at > 1
        /\ DOMAIN path' = DOMAIN path
        /\ path'[at].node = l /\ path'[Up].node = Parent
        /\ \A i \in DOMAIN path \ {Up, at} : path'[i].node = path[i].node
        /\ \A i \in DOMAIN path : path'[i].page = path[i].page
        /\ DOMAIN file' = DOMAIN file \cup {u}
        /\ file'[u] = r /\ \A x \in DOMAIN file : file'[x] = file[x]
        /\ path[at].page = p /\ path[Up].page = q /\ path[at].node = n
    BY WriteRightEffect, Zenon DEF WriteRight, Splitting, LeftPart, RightPart, Parted
  <1>2. Sep.key = s /\ s \in 1..Inf
    <2>1. Sep.key = s /\ Sep.key \in 1..MaxKey
      BY <1>1, PartedFacts DEF Splitting, Sep
    <2> QED BY <2>1, BtreeAssumption DEF Inf
  <1>3. SplitNode(lo, hi, par, n, l, r, u, p, q)
    BY SplitNodeFacts
  <1>4. SplitMaps(lo, hi, par, n, l, r, u, p, q, s, mo, mhi, mpar)
    BY <1>2, <1>3, SplitMapsFacts
  <1>5. /\ \A m \in Node : Sound(file, m) /\ Tight(lo, m)
                           /\ (m.leaf \/ Len(m.children) = Len(m.blocks) + 1) =>
             \A x \in DOMAIN file \ {p, q} : High(lo, hi, par, m, x) => High(mo, mhi, mpar, m, x)
        /\ High(mo, mhi, mpar, l, p) /\ High(mo, mhi, mpar, r, u)
        /\ High(mo, mhi, mpar, Parent, q)
    BY <1>3, <1>4, SplitHighs
  <1>6. /\ Tight(mo, l)' /\ Tight(mo, r)'
        /\ \A m : Tight(lo, m) => Tight(mo, m)'
    BY <1>3, SplitTights
  <1>7. ~Above.leaf /\ ~Parent.leaf
    <2>1. ~Above.leaf
      BY <1>1, AboveFacts
    <2> QED BY <2>1 DEF Parent, AddChild
  <1>8. /\ p \in DOMAIN file /\ p # 1 /\ u \notin DOMAIN file /\ l.leaf = n.leaf /\ r.leaf = n.leaf
        /\ ~n.leaf => \A k \in DOMAIN n.blocks :
             \/ \E j \in DOMAIN l.blocks : l.blocks[j].key = n.blocks[k].key
             \/ \E j \in DOMAIN r.blocks : r.blocks[j].key = n.blocks[k].key
             \/ Separator(n).key = n.blocks[k].key
    BY <1>3 DEF SplitNode
  <1>9. /\ \A x \in DOMAIN file : mo[x] = lo[x] /\ (x # p => mhi[x] = hi[x])
        /\ mo[u] = s
        /\ mhi \in [DOMAIN file \cup {u} -> 1..Inf] /\ mpar \in [DOMAIN file \cup {u} -> Nat]
    BY <1>4 DEF SplitMaps
  <1>10. /\ \A x \in DOMAIN file : Own(x)' <=> Own(x)
         /\ Own(u)' /\ \A x \in DOMAIN file : Own(x) => x # p /\ x # q
    <2>1. \A i \in DOMAIN path : path[i].page \in DOMAIN file
      BY ElementFacts
    <2>2. ~Pending(u)' /\ \A x \in DOMAIN file : ~Pending(x)' /\ ~Pending(x)
      BY <1>1 DEF Pending
    <2>3. Own(u)'
      BY <1>1, <1>8, <2>1, <2>2 DEF Own
    <2> QED BY <1>1, <2>2, <2>3 DEF Own
  <1>11. Tights(mo)'
    <2>1. ASSUME NEW x \in DOMAIN file', NEW m, m = file'[x] PROVE Tight(mo, m)'
      <3>1. CASE x = u
        BY <1>1, <1>6, <2>1, <3>1
      <3>2. CASE x # u
        <4>1. Tight(lo, m)
          BY <1>1, <2>1, <3>2 DEF Order, Tights
        <4> QED BY <1>6, <4>1
      <3> QED BY <3>1, <3>2
    <2>2. ASSUME NEW i \in DOMAIN path, NEW m, m = path'[i].node PROVE Tight(mo, m)'
      <3>1. CASE i = at
        BY <1>1, <1>6, <2>2, <3>1
      <3>2. CASE i = Up
        BY <1>1, <1>7, <2>2, <3>2 DEF Tight
      <3>3. CASE i # at /\ i # Up
        <4>1. Tight(lo, m)
          BY <1>1, <2>2, <3>3 DEF Order, Tights
        <4> QED BY <1>6, <4>1
      <3> QED BY <3>1, <3>2, <3>3
    <2> QED BY <1>1, <2>1, <2>2 DEF Tights
  <1>12. Highs(mo, mhi, mpar)'
    <2>1. ASSUME NEW x \in DOMAIN file', Own(x)' PROVE High(mo, mhi, mpar, file'[x], x)
      <3>1. CASE x = u
        BY <1>1, <1>5, <3>1
      <3>2. CASE x # u
        <4>1. x \in DOMAIN file \ {p, q} /\ Own(x) /\ file'[x] = file[x]
          BY <1>1, <1>10, <2>1, <3>2
        <4>2. /\ file[x] \in Node /\ Sound(file, file[x])
              /\ file[x].leaf \/ Len(file[x].children) = Len(file[x].blocks) + 1
          BY <4>1, FileFacts
        <4>3. High(lo, hi, par, file[x], x) /\ Tight(lo, file[x])
          BY <4>1 DEF Order, Highs, Tights
        <4> QED BY <1>5, <4>1, <4>2, <4>3
      <3> QED BY <3>1, <3>2
    <2>2. ASSUME NEW i \in DOMAIN path PROVE High(mo, mhi, mpar, path'[i].node, path'[i].page)
      <3>1. CASE i = at \/ i = Up
        BY <1>1, <1>5, <3>1
      <3>2. CASE i # at /\ i # Up
        <4>1. path[i].page # p /\ path[i].page # q
          <5>1. \A k, j \in DOMAIN path : path[k].page = path[j].page => k = j
            BY HeightFacts
          <5> QED BY <1>1, <3>2, <5>1
        <4>2. /\ path[i].node \in Node /\ Sound(file, path[i].node) /\ path[i].page \in DOMAIN file
              /\ path[i].node.leaf \/ Len(path[i].node.children) = Len(path[i].node.blocks) + 1
          BY ElementFacts
        <4>3. High(lo, hi, par, path[i].node, path[i].page) /\ Tight(lo, path[i].node)
          BY DEF Order, Highs, Tights
        <4> QED BY <1>1, <1>5, <3>2, <4>1, <4>2, <4>3
      <3> QED BY <3>1, <3>2
    <2>3. 1 \in DOMAIN file /\ file # <<>>
      <3>1. 1 \in DOMAIN file
        BY <1>1, Shape
      <3> QED BY <3>1
    <2>4. mhi[1] = Inf
      BY <1>8, <1>9, <2>3 DEF Order, Highs
    <2> QED BY <1>1, <1>9, <2>1, <2>2, <2>4 DEF Highs
  <1>13. Aimed(mhi, mpar)'
    BY <1>1 DEF Aimed
  <1>14. LowsKnown(mo)'
    <2> DEFINE a == Above
    <2> DEFINE g == Parent
    <2>1. /\ \E k \in DOMAIN g.blocks : g.blocks[k].key = s
          /\ \A k \in DOMAIN a.blocks : \E j \in DOMAIN g.blocks : g.blocks[j].key = a.blocks[k].key
      <3> DEFINE j == path[Up].j
      <3> DEFINE b == Sep
      <3>1. a \in Node /\ Len(a.children) = Len(a.blocks) + 1 /\ j \in DOMAIN a.children
        BY <1>1, AboveFacts
      <3>2. b \in Block /\ b.key = s /\ g = AddChild(a, j, b, u) /\ u \in Nat \ {0}
        BY <1>1, <1>2, <1>3, PartedFacts DEF Parent, Splitting, SplitNode
      <3> HIDE DEF a, g, j, b
      <3> DEFINE N == Len(a.blocks)
      <3>3. WithChild(a, j, b, u, g, N)
        BY <3>1, <3>2, AddChildParts
      <3>4. DOMAIN a.blocks = 1..N
        BY <3>1 DEF Node
      <3> HIDE DEF N
      <3>5. /\ DOMAIN g.blocks = 1..(N + 1) /\ g.blocks[j] = b
            /\ \A k \in 1..(j - 1) : g.blocks[k] = a.blocks[k]
            /\ \A k \in j..N : g.blocks[k + 1] = a.blocks[k]
            /\ N \in Nat /\ j \in 1..(N + 1)
        BY <3>3 DEF WithChild
      <3>6. \E k \in DOMAIN g.blocks : g.blocks[k].key = s
        BY <3>2, <3>5
      <3>7. ASSUME NEW k \in DOMAIN a.blocks PROVE \E i \in DOMAIN g.blocks : g.blocks[i].key = a.blocks[k].key
        <4>1. CASE k < j
          <5>1. k \in 1..(j - 1) /\ k \in 1..(N + 1)
            BY <3>4, <3>5, <4>1
          <5> QED BY <3>5, <5>1
        <4>2. CASE ~(k < j)
          <5>1. k \in j..N /\ k + 1 \in 1..(N + 1)
            BY <3>4, <3>5, <4>2
          <5> QED BY <3>5, <5>1
        <4> QED BY <4>1, <4>2
      <3> QED BY <3>6, <3>7
    <2> HIDE DEF a, g
    <2>2. /\ path'[Up].node = g /\ ~g.leaf /\ path[Up].node = a
      BY <1>1, <1>7 DEF a, g, Above
    <2>3. Known(s)'
      BY <1>1, <2>1, <2>2 DEF Known
    <2>4. ASSUME NEW x, Known(x) PROVE Known(x)'
      <3>1. CASE \E i \in DOMAIN path : ~path[i].node.leaf
                   /\ \E k \in DOMAIN path[i].node.blocks : path[i].node.blocks[k].key = x
        <4>1. PICK i \in DOMAIN path : ~path[i].node.leaf
                   /\ \E k \in DOMAIN path[i].node.blocks : path[i].node.blocks[k].key = x
          BY <3>1
        <4>2. CASE i # at /\ i # Up
          BY <1>1, <4>1, <4>2 DEF Known
        <4>3. CASE i = Up
          <5>1. \E k \in DOMAIN g.blocks : g.blocks[k].key = x
            BY <2>1, <2>2, <4>1, <4>3
          <5> QED BY <1>1, <2>2, <5>1 DEF Known
        <4>4. CASE i = at
          <5>1. ~n.leaf /\ \E k \in DOMAIN n.blocks : n.blocks[k].key = x
            BY <1>1, <4>1, <4>4
          <5>2. \/ \E j \in DOMAIN l.blocks : l.blocks[j].key = x
                \/ \E j \in DOMAIN r.blocks : r.blocks[j].key = x
                \/ Separator(n).key = x
            BY <1>8, <5>1
          <5>3. CASE \E j \in DOMAIN l.blocks : l.blocks[j].key = x
            BY <1>1, <1>8, <5>1, <5>3 DEF Known
          <5>4. CASE \E j \in DOMAIN r.blocks : r.blocks[j].key = x
            BY <1>1, <1>8, <1>10, <5>1, <5>4 DEF Known
          <5>5. CASE Separator(n).key = x
            BY <2>3, <5>5 DEF Splitting
          <5> QED BY <5>2, <5>3, <5>4, <5>5
        <4> QED BY <4>2, <4>3, <4>4
      <3>2. CASE \E y \in DOMAIN file : ~file[y].leaf /\ Own(y)
                   /\ \E k \in DOMAIN file[y].blocks : file[y].blocks[k].key = x
        BY <1>1, <1>10, <3>2 DEF Known
      <3> QED BY <2>4, <3>1, <3>2 DEF Known
    <2>5. \A x \in DOMAIN file : lo[x] = 0 \/ Known(lo[x])
      BY <1>1 DEF LowsKnown
    <2> QED BY <1>1, <1>9, <2>3, <2>4, <2>5 DEF LowsKnown
  <1> QED BY <1>11, <1>12, <1>13, <1>14, Zenon DEF Order

-----------------------------------------------------------------------------
(* The invariant is kept by each step. *)

LEMMA OrderedInit == Init => OInv
  <1> SUFFICES ASSUME Init PROVE OInv
    OBVIOUS
  <1>1. /\ file = <<>> /\ pc = "idle" /\ path = <<>> /\ inserted = {}
        /\ DOMAIN file = {} /\ DOMAIN path = {} /\ Len(file) = 0
    BY DEF Init
  <1>2. ~RootGrows /\ ~Missing /\ \A i : Coming(i) = {}
    BY <1>1 DEF RootGrows, Missing, Coming
  <1>3. Sync
    BY <1>1, <1>2 DEF Sync
  <1>4. PICK e : e = <<>>
    OBVIOUS
  <1>5. e \in Seq(DOMAIN file) /\ Len(e) = 0 /\ DOMAIN e = {} /\ \A S : e \in [{} -> S]
    BY <1>4
  <1>6. Heights(e, e)
    BY <1>1, <1>5 DEF Heights
  <1>7. Links(e, {}, e)
    BY <1>1, <1>2, <1>5 DEF Links, Chained, Reached, Referred, Halved, Doubled
  <1>8. Contents(e)
    BY <1>1, <1>2, <1>5 DEF Contents, Fine, Apart, Held, Ahead
  <1>9. Order(e, e, e) /\ LowsKnown(e)
    BY <1>1, <1>5 DEF Order, Tights, Highs, Aimed, LowsKnown
  <1>10. Ordered
    BY <1>6, <1>7, <1>8, <1>9 DEF Ordered, Tree, Whole
  <1> QED BY <1>3, <1>10, InitKeeps DEF OInv

LEMMA OrderedStart ==
  ASSUME OInv, NEW key \in Key, Start(key)
  PROVE  Sync' /\ Ordered'
  <1>1. IInv
    BY DEF OInv
  <1>2. Sync'
    BY <1>1, SyncStart
  <1>3. PICK lo, lvl, live, chain, hi, par : Tree(lo, lvl, live, chain) /\ Whole(lo, hi, par)
    BY DEF OInv, Ordered
  <1>4. Heights(lo, lvl) /\ Links(lo, live, chain) /\ Contents(chain)
    BY <1>3 DEF Tree
  <1>5. torn' = torn
    BY DEF Start
  <1>6. CASE file = <<>>
    <2>1. PICK mo : mo = [p \in {1} |-> 0]
      OBVIOUS
    <2>2. PICK mhi : mhi = [p \in {1} |-> Inf]
      OBVIOUS
    <2>3. PICK c : c = <<1>>
      OBVIOUS
    <2>4. Heights(mo, mo)'
      BY <1>1, <1>6, <2>1, HeightsStartFirst
    <2>5. Links(mo, {1}, c)'
      <3>1. Links(mo, {1}, <<1>>)'
        BY <1>1, <1>6, <2>1, LinksStartFirst
      <3> QED BY <2>3, <3>1
    <2>6. Contents(c)'
      BY <1>1, <1>4, <1>6, <2>3, ContentsStartFirst
    <2>7. Order(mo, mhi, mo)' /\ LowsKnown(mo)'
      BY <1>1, <1>6, <2>1, <2>2, OrderStartFirst
    <2>8. Tree(mo, mo, {1}, c)' /\ Whole(mo, mhi, mo)'
      BY <2>4, <2>5, <2>6, <2>7 DEF Tree, Whole
    <2> QED BY <1>2, <2>8 DEF Ordered
  <1>7. CASE file # <<>>
    <2>1. Tree(lo, lvl, live, chain)'
      BY <1>1, <1>4, <1>7, HeightsStart, LinksStart, ContentsStart DEF Tree
    <2>2. Whole(lo, hi, par)'
      BY <1>1, <1>3, <1>5, <1>7, OrderStart DEF Whole
    <2> QED BY <1>2, <2>1, <2>2 DEF Ordered
  <1> QED BY <1>6, <1>7

LEMMA OrderedDescend ==
  ASSUME OInv, Descend
  PROVE  Sync' /\ Ordered'
  <1>1. IInv /\ Sync
    BY DEF OInv
  <1>2. Sync'
    BY <1>1, SyncDescend
  <1>3. PICK lo, lvl, live, chain, hi, par : Tree(lo, lvl, live, chain) /\ Whole(lo, hi, par)
    BY DEF OInv, Ordered
  <1>4. Heights(lo, lvl) /\ Links(lo, live, chain) /\ Contents(chain)
    BY <1>3 DEF Tree
  <1>5. torn' = torn
    BY DEF Descend
  <1>6. Tree(lo, lvl, live, chain)'
    BY <1>1, <1>4, HeightsDescend, LinksDescend, ContentsDescend DEF Tree
  <1>7. Whole(lo, hi, par)'
    BY <1>1, <1>3, <1>4, <1>5, OrderDescend DEF Whole
  <1> QED BY <1>2, <1>6, <1>7 DEF Ordered

LEMMA OrderedAddToLeaf ==
  ASSUME OInv, AddToLeaf
  PROVE  Sync' /\ Ordered'
  <1>1. IInv /\ Sync
    BY DEF OInv
  <1>2. Sync'
    BY <1>1, SyncAddToLeaf
  <1>3. PICK lo, lvl, live, chain, hi, par : Tree(lo, lvl, live, chain) /\ Whole(lo, hi, par)
    BY DEF OInv, Ordered
  <1>4. Heights(lo, lvl) /\ Links(lo, live, chain) /\ Contents(chain)
    BY <1>3 DEF Tree
  <1>5. torn' = torn
    BY DEF AddToLeaf
  <1>6. Tree(lo, lvl, live, chain)'
    BY <1>1, <1>4, HeightsAddToLeaf, LinksAddToLeaf, ContentsAddToLeaf DEF Tree
  <1>7. Whole(lo, hi, par)'
    BY <1>1, <1>3, <1>4, <1>5, OrderAddToLeaf DEF Whole
  <1> QED BY <1>2, <1>6, <1>7 DEF Ordered

LEMMA OrderedWriteRight ==
  ASSUME OInv, WriteRight
  PROVE  Sync' /\ Ordered'
  <1>1. IInv /\ Sync
    BY DEF OInv
  <1>2. Sync'
    BY <1>1, SyncWriteRight
  <1>3. PICK lo, lvl, live, chain, hi, par : Tree(lo, lvl, live, chain) /\ Whole(lo, hi, par)
    BY DEF OInv, Ordered
  <1>4. Heights(lo, lvl) /\ Links(lo, live, chain) /\ Contents(chain)
    BY <1>3 DEF Tree
  <1>5. torn' = torn
    BY DEF WriteRight
  <1>6. \A i \in DOMAIN path : path[i].node.leaf => Sorted(path[i].node)
    BY <1>4 DEF Contents, Fine
  <1>7. PICK n, l, r, u, w, p, q, s :
          /\ n = Parted /\ l = LeftHalf(n, u) /\ r = RightHalf(n, w) /\ u = Fresh /\ w = RightNext
          /\ p = path[at].page /\ q = path[Up].page /\ s = Separator(n).key
    OBVIOUS
  <1>8. PICK mo, mhi, mpar :
          mo = Longer(lo, s) /\ mhi = SplitHi(hi, p, u, s) /\ mpar = SplitPar(par, r, q, u)
    OBVIOUS
  <1>9. Splitting(lo, hi, par, n, l, r, u, w, p, q, s, mo, mhi, mpar)
    BY <1>7, <1>8 DEF Splitting
  <1>10. mo = Longer(lo, Sep.key)
    BY <1>7, <1>8 DEF Sep
  <1>11. PICK mvl : mvl = Longer(lvl, lvl[path[at].page])
    OBVIOUS
  <1>12. PICK more : more = IF Parted.leaf THEN live ELSE live \cup {Fresh}
    OBVIOUS
  <1>13. Heights(mo, mvl)'
    BY <1>1, <1>4, <1>6, <1>10, <1>11, HeightsWriteRight
  <1>14. Links(mo, more, chain)'
    BY <1>1, <1>4, <1>10, <1>12, LinksWriteRight
  <1>15. Contents(chain)'
    BY <1>1, <1>4, ContentsWriteRight
  <1>16. Whole(mo, mhi, mpar)'
    <2> SUFFICES ASSUME torn = 0 PROVE Order(mo, mhi, mpar)' /\ LowsKnown(mo)'
      BY <1>5 DEF Whole
    <2>1. Order(lo, hi, par) /\ LowsKnown(lo)
      BY <1>3 DEF Whole
    <2> QED BY <1>1, <1>4, <1>9, <2>1, OrderWriteRight
  <1>17. Tree(mo, mvl, more, chain)'
    BY <1>13, <1>14, <1>15 DEF Tree
  <1> QED BY <1>2, <1>16, <1>17 DEF Ordered

LEMMA OrderedWriteLeft ==
  ASSUME OInv, WriteLeft
  PROVE  Sync' /\ Ordered'
  <1>1. IInv /\ Sync
    BY DEF OInv
  <1>2. PICK lo, lvl, live, chain, hi, par : Tree(lo, lvl, live, chain) /\ Whole(lo, hi, par)
    BY DEF OInv, Ordered
  <1>3. Heights(lo, lvl) /\ Links(lo, live, chain) /\ Contents(chain)
    BY <1>2 DEF Tree
  <1>4. Sync' /\ Heights(lo, lvl)'
    BY <1>1, <1>3, SyncWriteLeft, HeightsWriteLeft
  <1>5. torn' = torn /\ path' = path
    BY DEF WriteLeft
  <1>6. Whole(lo, hi, par)'
    BY <1>1, <1>2, <1>5, OrderWrite DEF Whole
  <1>7. CASE ~path[at].node.leaf
    <2>1. Tree(lo, lvl, live, chain)'
      BY <1>1, <1>3, <1>4, <1>7, LinksWriteLeftInner, ContentsWriteLeftInner DEF Tree
    <2> QED BY <1>4, <1>6, <2>1 DEF Ordered
  <1>8. CASE path[at].node.leaf
    <2>1. PICK m \in DOMAIN chain : chain[m] = path[at].page
      <3>1. pc = "left" /\ at \in DOMAIN path
        BY <1>1, WriteLeftEffect
      <3>2. path[at].page \in live /\ file[path[at].page].leaf
        BY <1>1, <1>3, <1>8, <3>1, HeightFacts DEF Links, Referred
      <3> QED BY <1>3, <3>2 DEF Links, Reached
    <2>2. PICK r, more, longer : r = Len(file) /\ more = live \cup {r} /\ longer = InsertAt(chain, m + 1, r)
      OBVIOUS
    <2>3. Links(lo, more, longer)'
      BY <1>1, <1>3, <1>8, <2>1, <2>2, LinksWriteLeftLeaf
    <2>4. Chained(lo, longer)'
      BY <2>3 DEF Links
    <2>5. Contents(longer)'
      BY <1>1, <1>3, <1>8, <2>1, <2>2, <2>4, ContentsWriteLeftLeaf
    <2>6. Tree(lo, lvl, more, longer)'
      BY <1>4, <2>3, <2>5 DEF Tree
    <2> QED BY <1>4, <1>6, <2>6 DEF Ordered
  <1> QED BY <1>7, <1>8

LEMMA OrderedAppend ==
  ASSUME OInv, WriteFirstChild \/ WriteSecondChild
  PROVE  Sync' /\ Ordered'
  <1>1. IInv /\ Sync
    BY DEF OInv
  <1>2. Sync'
    BY <1>1, SyncAppend
  <1>3. PICK lo, lvl, live, chain, hi, par : Tree(lo, lvl, live, chain) /\ Whole(lo, hi, par)
    BY DEF OInv, Ordered
  <1>4. Heights(lo, lvl) /\ Links(lo, live, chain) /\ Contents(chain)
    BY <1>3 DEF Tree
  <1>5. torn' = torn
    BY DEF WriteFirstChild, WriteSecondChild
  <1>6. \A i \in DOMAIN path : path[i].node.leaf => Sorted(path[i].node)
    BY <1>4 DEF Contents, Fine
  <1>7. ~(WriteFirstChild /\ WriteSecondChild)
    BY DEF WriteFirstChild, WriteSecondChild
  <1>8. PICK x, y : /\ x = IF WriteFirstChild THEN 0 ELSE Sep.key
                    /\ y = IF WriteFirstChild THEN Sep.key ELSE Inf
    OBVIOUS
  <1>9. PICK mo, mvl, mhi, mpar : /\ mo = Longer(lo, x) /\ mvl = Longer(lvl, lvl[1])
                                  /\ mhi = Longer(hi, y) /\ mpar = Longer(par, 1)
    OBVIOUS
  <1>10. Heights(mo, mvl)'
    <2>1. CASE WriteFirstChild
      <3>1. mo = Longer(lo, 0)
        BY <1>8, <1>9, <2>1
      <3> QED BY <1>1, <1>4, <1>6, <1>9, <2>1, <3>1, HeightsWriteFirstChild
    <2>2. CASE WriteSecondChild
      <3>1. mo = Longer(lo, Sep.key)
        BY <1>7, <1>8, <1>9, <2>2
      <3> QED BY <1>1, <1>4, <1>6, <1>9, <2>2, <3>1, HeightsWriteSecondChild
    <2> QED BY <2>1, <2>2
  <1>11. Links(mo, live, chain)'
    BY <1>1, <1>4, <1>9, LinksAppend
  <1>12. Contents(chain)'
    BY <1>1, <1>4, ContentsAppend
  <1>13. Whole(mo, mhi, mpar)'
    <2> SUFFICES ASSUME torn = 0 PROVE Order(mo, mhi, mpar)' /\ LowsKnown(mo)'
      BY <1>5 DEF Whole
    <2>1. Order(lo, hi, par) /\ LowsKnown(lo)
      BY <1>3 DEF Whole
    <2>2. WriteFirstChild => x = 0
      BY <1>8
    <2>3. PICK r : r = Fresh
      OBVIOUS
    <2> QED BY <1>1, <1>4, <1>8, <1>9, <2>1, <2>2, <2>3, OrderAppend
  <1>14. Tree(mo, mvl, live, chain)'
    BY <1>10, <1>11, <1>12 DEF Tree
  <1> QED BY <1>2, <1>13, <1>14 DEF Ordered

LEMMA OrderedLink ==
  ASSUME OInv, LinkChildren
  PROVE  Sync' /\ Ordered'
  <1>1. IInv /\ Sync
    BY DEF OInv
  <1>2. PICK lo, lvl, live, chain, hi, par : Tree(lo, lvl, live, chain) /\ Whole(lo, hi, par)
    BY DEF OInv, Ordered
  <1>3. Heights(lo, lvl) /\ Links(lo, live, chain) /\ Contents(chain)
    BY <1>2 DEF Tree
  <1>4. Sync'
    BY <1>1, <1>3, SyncLink
  <1>5. torn' = torn
    BY DEF LinkChildren
  <1>6. PICK more : more = IF Parted.leaf THEN live ELSE live \cup {First, Second}
    OBVIOUS
  <1>7. PICK n, l, r, a, b, s :
          /\ n = Parted /\ l = LeftHalf(n, 0) /\ r = RightHalf(n, 0)
          /\ a = First /\ b = Second /\ s = Separator(n).key
    OBVIOUS
  <1>8. PICK mpar :
          mpar = [p \in DOMAIN file |->
                    IF ~n.leaf /\ \E k \in DOMAIN l.children : l.children[k] = p THEN a
                    ELSE IF ~n.leaf /\ \E k \in DOMAIN r.children : r.children[k] = p THEN b
                    ELSE par[p]]
    OBVIOUS
  <1>9. Tree(lo, lvl, more, chain)'
    BY <1>1, <1>3, <1>6, HeightsLink, LinksLink, ContentsLink DEF Tree
  <1>10. Whole(lo, hi, mpar)'
    <2> SUFFICES ASSUME torn = 0 PROVE Order(lo, hi, mpar)' /\ LowsKnown(lo)'
      BY <1>5 DEF Whole
    <2>1. Order(lo, hi, par) /\ LowsKnown(lo)
      BY <1>2 DEF Whole
    <2> QED BY <1>1, <1>3, <1>7, <1>8, <2>1, OrderLink
  <1> QED BY <1>4, <1>9, <1>10 DEF Ordered

LEMMA OrderedFlush ==
  ASSUME OInv, Flush
  PROVE  Sync' /\ Ordered'
  <1>1. IInv /\ Sync
    BY DEF OInv
  <1>2. PICK lo, lvl, live, chain, hi, par : Tree(lo, lvl, live, chain) /\ Whole(lo, hi, par)
    BY DEF OInv, Ordered
  <1>3. Heights(lo, lvl) /\ Links(lo, live, chain) /\ Contents(chain)
    BY <1>2 DEF Tree
  <1>4. Sync'
    BY <1>1, <1>3, SyncFlush
  <1>5. torn' = torn
    BY DEF Flush
  <1>6. Whole(lo, hi, par)'
    BY <1>1, <1>2, <1>3, <1>5, OrderFlush DEF Whole
  <1>7. PICK mvl : Heights(lo, mvl)'
    <2>1. PICK mvl : mvl = [lvl EXCEPT ![1] = lvl[1] + 1]
      OBVIOUS
    <2> QED BY <1>1, <1>3, <2>1, HeightsFlush, HeightsFlushRoot
  <1>8. PICK more, longer : Links(lo, more, longer)' /\ Contents(longer)'
    <2>1. CASE ~RootGrows
      BY <1>1, <1>3, <2>1, LinksFlush, ContentsFlush
    <2>2. CASE RootGrows
      <3>1. PICK a, b : a = First /\ b = Second
        OBVIOUS
      <3>2. PICK c : c = <<a, b>>
        OBVIOUS
      <3>3. Links(lo, {1, a, b}, <<a, b>>)'
        BY <1>1, <1>3, <2>2, <3>1, LinksFlushRoot
      <3>4. Links(lo, {1, a, b}, c)'
        BY <3>2, <3>3
      <3>5. Contents(c)'
        BY <1>1, <1>3, <2>2, <3>1, <3>2, ContentsFlushRoot
      <3> QED BY <3>4, <3>5
    <2> QED BY <2>1, <2>2
  <1>9. Tree(lo, mvl, more, longer)'
    BY <1>7, <1>8 DEF Tree
  <1> QED BY <1>4, <1>6, <1>9 DEF Ordered

LEMMA OrderedCrash ==
  ASSUME OInv, Crash
  PROVE  Sync' /\ Ordered'
  <1>1. PICK lo, lvl, live, chain, hi, par : Tree(lo, lvl, live, chain) /\ Whole(lo, hi, par)
    BY DEF OInv, Ordered
  <1>2. Tree(lo, lvl, live, chain)'
    BY <1>1, HeightsCrash, LinksCrash, ContentsCrash DEF Tree
  <1>3. Whole(lo, hi, par)'
    <2>1. torn \in Nat /\ torn' = torn + 1
      BY DEF OInv, IInv, TypeOK, Crash
    <2> QED BY <2>1 DEF Whole
  <1>4. Sync'
    BY DEF Crash, Sync, RootGrows
  <1> QED BY <1>2, <1>3, <1>4 DEF Ordered

LEMMA OrderedStutter ==
  ASSUME OInv, UNCHANGED vars
  PROVE  Sync' /\ Ordered'
  <1>1. Sync'
    BY DEF OInv, vars, Sync, Changed, Open, RootGrows
  <1>2. PICK lo, lvl, live, chain, hi, par : Tree(lo, lvl, live, chain) /\ Whole(lo, hi, par)
    BY DEF OInv, Ordered
  <1>3. Heights(lo, lvl)'
    BY <1>2 DEF Tree, vars, Heights
  <1>4. Links(lo, live, chain)'
    BY <1>2 DEF Tree, vars, Links, Chained, Reached, Referred, Halved, Doubled, Coming, RootGrows
  <1>5. Contents(chain)'
    BY <1>2 DEF Tree, vars, Contents, Fine, Apart, Held, Ahead, Missing, RootGrows
  <1>6. Whole(lo, hi, par)'
    <2>1. UNCHANGED vars
      OBVIOUS
    <2>2. Order(lo, hi, par) => Order(lo, hi, par)'
      BY <2>1 DEF vars, Order, Tights, Highs, Aimed, Tight, High, Bound, Own, Pending
    <2>3. LowsKnown(lo) => LowsKnown(lo)'
      BY <2>1 DEF vars, LowsKnown, Known, Own, Pending
    <2> QED BY <1>2, <2>1, <2>2, <2>3 DEF Whole, vars
  <1>7. Tree(lo, lvl, live, chain)'
    BY <1>3, <1>4, <1>5 DEF Tree
  <1> QED BY <1>1, <1>6, <1>7 DEF Ordered

LEMMA OrderedNext == OInv /\ [Next]_vars => OInv'
  <1> SUFFICES ASSUME OInv, [Next]_vars PROVE OInv'
    OBVIOUS
  <1>1. IInv'
    BY NextKeeps DEF OInv
  <1>2. Sync' /\ Ordered'
    <2>1. ASSUME NEW key \in Key, Start(key) PROVE Sync' /\ Ordered'
      BY <2>1, OrderedStart
    <2> QED BY <2>1, OrderedDescend, OrderedAddToLeaf, OrderedWriteRight, OrderedWriteLeft,
               OrderedAppend, OrderedLink, OrderedFlush, OrderedCrash, OrderedStutter DEF Next
  <1> QED BY <1>1, <1>2 DEF OInv

LEMMA OrderedHolds == Spec => []OInv
  BY OrderedInit, OrderedNext, PTL DEF Spec

-----------------------------------------------------------------------------
(* What the readers compute. *)

(* Induction up to a bound, over the numbers that have the property.       *)
LEMMA UpTo ==
  ASSUME NEW N \in Nat, NEW S, 0 \in S, \A d \in 0..N : d # N /\ d \in S => d + 1 \in S
  PROVE  \A d \in 0..N : d \in S
  <1> DEFINE Bad == {d \in 0..N : d \notin S}
  <1> SUFFICES ASSUME Bad # {} PROVE FALSE
    OBVIOUS
  <1>1. Bad \in SUBSET Nat
    OBVIOUS
  <1>2. PICK m \in Bad : \A y \in Bad : m <= y
    <2> HIDE DEF Bad
    <2> QED BY <1>1, LeastLemma
  <1>3. m \in 1..N /\ m \notin S
    BY <1>2
  <1>4. m - 1 \in 0..N /\ m - 1 # N /\ ~(m <= m - 1) /\ m - 1 + 1 = m
    BY <1>3
  <1>5. m - 1 \in S
    BY <1>2, <1>4
  <1> QED BY <1>3, <1>4, <1>5

(* Repeating a step from a member of a set on.                             *)
Repeats(f, a, G, N) == f[0] = a /\ \A d \in 1..N : f[d] = G[f[d - 1]]

LEMMA Repeated ==
  ASSUME NEW S, NEW a \in S, NEW G \in [S -> S], NEW N \in Nat
  PROVE  \E f \in [0..N -> S] : Repeats(f, a, G, N)
  <1> DEFINE Good == {n \in Nat : \E f \in [0..n -> S] :
                        f[0] = a /\ \A d \in 1..n : f[d] = G[f[d - 1]]}
  <1>1. 0 \in Good
    <2>1. PICK f : f = [d \in 0..0 |-> a]
      OBVIOUS
    <2>2. f \in [0..0 -> S] /\ f[0] = a /\ \A d \in 1..0 : FALSE
      BY <2>1
    <2> QED BY <2>2
  <1>2. ASSUME NEW n \in Nat, n \in Good PROVE n + 1 \in Good
    <2>1. PICK f \in [0..n -> S] : f[0] = a /\ \A d \in 1..n : f[d] = G[f[d - 1]]
      BY <1>2
    <2>2. PICK g : g = [d \in 0..(n + 1) |-> IF d = n + 1 THEN G[f[n]] ELSE f[d]]
      OBVIOUS
    <2>3. \A d \in 0..(n + 1) : d # n + 1 => d \in 0..n
      OBVIOUS
    <2>4. n \in 0..n /\ 0 \in 0..(n + 1) /\ 0 # n + 1
      OBVIOUS
    <2>5. g \in [0..(n + 1) -> S] /\ g[0] = a
      BY <2>1, <2>2, <2>3, <2>4
    <2>6. ASSUME NEW d \in 1..(n + 1) PROVE g[d] = G[g[d - 1]]
      <3>1. d \in 0..(n + 1) /\ d - 1 \in 0..(n + 1) /\ d - 1 # n + 1
        OBVIOUS
      <3>2. g[d - 1] = f[d - 1]
        BY <2>2, <3>1
      <3>3. CASE d = n + 1
        <4>1. d - 1 = n
          BY <3>3
        <4> QED BY <2>2, <3>1, <3>2, <3>3, <4>1
      <3>4. CASE d # n + 1
        <4>1. d \in 1..n
          BY <3>4
        <4> QED BY <2>1, <2>2, <3>1, <3>2, <3>4, <4>1
      <3> QED BY <3>3, <3>4
    <2> QED BY <2>5, <2>6
  <1>3. \A d \in 0..N : d \in Good
    <2>1. \A d \in 0..N : d # N /\ d \in Good => d + 1 \in Good
      <3> HIDE DEF Good
      <3> QED BY <1>2
    <2> HIDE DEF Good
    <2> QED BY <1>1, <2>1, UpTo
  <1> QED BY <1>3 DEF Repeats

(* The page at each depth of a descent for a key, or for the first leaf.   *)
Turn(p, key) == IF key = 0 THEN 1 ELSE Child(file[p], key)
Descent(page, key) ==
  /\ page = [d \in 0..Len(file) |-> page[d]] /\ page[0] = 1
  /\ \A d \in 0..Len(file) : d # 0 =>
       page[d] = IF file[page[d - 1]].leaf THEN page[d - 1]
                 ELSE file[page[d - 1]].children[Turn(page[d - 1], key)]

LEMMA TurnFacts ==
  ASSUME IInv, NEW key \in 0..MaxKey, NEW p \in DOMAIN file, ~file[p].leaf
  PROVE  /\ Turn(p, key) \in DOMAIN file[p].children
         /\ Turn(p, key) \in 1..(Len(file[p].blocks) + 1)
         /\ DOMAIN file[p].children = 1..(Len(file[p].blocks) + 1)
         /\ DOMAIN file[p].blocks = 1..Len(file[p].blocks) /\ Len(file[p].blocks) \in Nat
         /\ key # 0 => key \in Key
  <1>1. file[p] \in Node /\ Len(file[p].children) = Len(file[p].blocks) + 1
    BY FileFacts
  <1>2. /\ Len(file[p].blocks) \in Nat /\ DOMAIN file[p].children = 1..Len(file[p].children)
        /\ DOMAIN file[p].blocks = 1..Len(file[p].blocks)
    BY <1>1 DEF Node
  <1>3. key # 0 => key \in Key
    BY BtreeAssumption DEF Key
  <1>4. key # 0 => Child(file[p], key) \in 1..(Len(file[p].blocks) + 1)
    BY <1>1, <1>3, ChildBounds
  <1> QED BY <1>1, <1>2, <1>3, <1>4 DEF Turn

LEMMA Descends ==
  ASSUME IInv, file # <<>>, NEW live, NEW chain, Reached(live, chain), NEW key \in 0..MaxKey
  PROVE  \E page : Descent(page, key)
  <1>1. PICK G : G = [p \in live |-> IF file[p].leaf THEN p ELSE file[p].children[Turn(p, key)]]
    OBVIOUS
  <1>2. G \in [live -> live]
    <2>1. \A p \in live : ~file[p].leaf => Turn(p, key) \in DOMAIN file[p].children
      BY TurnFacts, Zenon DEF Reached
    <2> QED BY <1>1, <2>1 DEF Reached
  <1>3. 1 \in live /\ Len(file) \in Nat
    BY Shape, Zenon DEF Reached
  <1>4. PICK page \in [0..Len(file) -> live] : Repeats(page, 1, G, Len(file))
    BY ONLY <1>2, <1>3, Repeated
  <1>5. \A d \in 0..Len(file) : d # 0 => d \in 1..Len(file) /\ d - 1 \in 0..Len(file)
    BY <1>3
  <1>6. \A d \in 0..Len(file) : d # 0 =>
          page[d] = IF file[page[d - 1]].leaf THEN page[d - 1]
                    ELSE file[page[d - 1]].children[Turn(page[d - 1], key)]
    BY <1>1, <1>4, <1>5 DEF Repeats
  <1> QED BY <1>4, <1>6 DEF Descent, Repeats

(* What a descent meets: live pages, lower and lower, to a leaf; the key   *)
(* is above what is left of them.                                          *)
Beyond(lo, p, key) == IF key = 0 THEN lo[p] = 0 ELSE lo[p] < key

LEMMA DescentLive ==
  ASSUME IInv, file # <<>>, NEW lo, NEW lvl, Heights(lo, lvl),
         NEW live, NEW chain, Reached(live, chain), NEW key \in 0..MaxKey,
         NEW page, Descent(page, key)
  PROVE  \A d \in 0..Len(file) :
           /\ page[d] \in live /\ page[d] \in DOMAIN file
           /\ Beyond(lo, page[d], key)
           /\ file[page[d]].leaf \/ lvl[page[d]] + d <= lvl[1]
  <1> DEFINE S == {d \in 0..Len(file) : /\ page[d] \in live
                                        /\ Beyond(lo, page[d], key)
                                        /\ file[page[d]].leaf \/ lvl[page[d]] + d <= lvl[1]}
  <1>1. Len(file) \in Nat /\ 1 \in live /\ 1 \in DOMAIN file /\ live \subseteq DOMAIN file
    BY Shape, Zenon DEF Reached
  <1>2. 0 \in S
    <2>1. page[0] = 1 /\ 0 \in 0..Len(file) /\ lvl[1] \in Nat
      BY <1>1, HeightFacts DEF Descent
    <2>2. Beyond(lo, 1, key) /\ lvl[1] + 0 <= lvl[1]
      BY <2>1 DEF Heights, Beyond
    <2> QED BY <1>1, <2>1, <2>2
  <1>3. ASSUME NEW d \in 0..Len(file), d # Len(file), d \in S PROVE d + 1 \in S
    <2>1. d + 1 \in 0..Len(file) /\ d + 1 # 0 /\ (d + 1) - 1 = d
      BY <1>1, <1>3
    <2>2. PICK p : p = page[d]
      OBVIOUS
    <2>3. /\ p \in live /\ p \in DOMAIN file /\ Beyond(lo, p, key)
          /\ file[p].leaf \/ lvl[p] + d <= lvl[1]
      BY <1>1, <1>3, <2>2
    <2>4. page[d + 1] = IF file[p].leaf THEN p ELSE file[p].children[Turn(p, key)]
      BY <2>1, <2>2 DEF Descent
    <2>5. CASE file[p].leaf
      BY <2>1, <2>3, <2>4, <2>5
    <2>6. CASE ~file[p].leaf
      <3>1. PICK k : k = Turn(p, key)
        OBVIOUS
      <3>2. /\ k \in DOMAIN file[p].children /\ k \in 1..(Len(file[p].blocks) + 1)
            /\ DOMAIN file[p].blocks = 1..Len(file[p].blocks) /\ Len(file[p].blocks) \in Nat
            /\ key # 0 => key \in Key
        BY <2>3, <2>6, <3>1, TurnFacts
      <3>3. PICK c : c = file[p].children[k]
        OBVIOUS
      <3>4. c \in live
        BY <2>3, <2>6, <3>2, <3>3 DEF Reached
      <3>5. c \in DOMAIN file /\ lvl[c] \in Nat /\ lvl[p] \in Nat /\ lvl[1] \in Nat
        BY <1>1, <2>3, <3>4, HeightFacts
      <3>6. lvl[c] + 1 = lvl[p]
        BY <2>3, <2>6, <3>2, <3>3 DEF Heights, Level
      <3>7. lvl[c] + (d + 1) <= lvl[1]
        BY ONLY <1>1, <2>3, <2>6, <3>5, <3>6
      <3>8. Low(lo, file[p], lo[p])
        BY <2>3 DEF Heights
      <3>9. Beyond(lo, c, key)
        <4>1. CASE k = 1
          <5>1. lo[c] = lo[p]
            BY <2>6, <3>3, <3>8, <4>1 DEF Low
          <5> QED BY <2>3, <5>1 DEF Beyond
        <4>2. CASE k # 1
          <5>1. key # 0 /\ key \in Key /\ k = Child(file[p], key)
            BY <3>1, <3>2, <4>2 DEF Turn
          <5>2. k - 1 \in 1..Len(file[p].blocks) /\ k - 1 < k /\ (k - 1) + 1 = k
            BY <3>2, <4>2
          <5>3. file[p].blocks[k - 1].key < key
            BY <2>3, <5>1, <5>2, FileFacts, ChildBounds
          <5>4. lo[c] = file[p].blocks[k - 1].key
            BY <2>6, <3>2, <3>3, <3>8, <5>2 DEF Low
          <5> QED BY <5>1, <5>3, <5>4 DEF Beyond
        <4> QED BY <4>1, <4>2
      <3> QED BY <2>1, <2>4, <2>6, <3>1, <3>3, <3>4, <3>7, <3>9
    <2> QED BY <2>5, <2>6
  <1>4. \A d \in 0..Len(file) : d \in S
    <2> HIDE DEF S
    <2>1. \A d \in 0..Len(file) : d # Len(file) /\ d \in S => d + 1 \in S
      BY <1>3
    <2> QED BY ONLY <1>1, <1>2, <2>1, UpTo
  <1> QED BY <1>1, <1>4

LEMMA DescentEnds ==
  ASSUME IInv, file # <<>>, NEW lo, NEW lvl, Heights(lo, lvl),
         NEW live, NEW chain, Reached(live, chain), NEW key \in 0..MaxKey,
         NEW page, Descent(page, key)
  PROVE  LET p == page[Len(file)]
         IN  p \in live /\ p \in DOMAIN file /\ file[p].leaf /\ Beyond(lo, p, key)
  <1>1. PICK p : p = page[Len(file)]
    OBVIOUS
  <1>2. Len(file) \in 0..Len(file) /\ 1 \in DOMAIN file /\ Len(file) \in Nat
    <2>1. Len(file) \in Nat /\ 1 \in DOMAIN file
      BY Shape, Zenon DEF Reached
    <2> QED BY ONLY <2>1
  <1>3. /\ p \in live /\ p \in DOMAIN file /\ Beyond(lo, p, key)
        /\ file[p].leaf \/ lvl[p] + Len(file) <= lvl[1]
    BY <1>1, <1>2, DescentLive
  <1>4. lvl[p] \in Nat /\ lvl[1] \in Nat /\ lvl[1] < Len(file)
    BY <1>2, <1>3, HeightFacts DEF Heights
  <1>5. file[p].leaf
    BY <1>2, <1>3, <1>4
  <1> QED BY <1>1, <1>3, <1>5

LEMMA LeafForPages ==
  ASSUME IInv, file # <<>>, NEW live, NEW chain, Reached(live, chain), NEW key \in Key
  PROVE  \E page : Descent(page, key) /\ LeafFor(key) = page[Len(file)]
  <1> DEFINE G(page) == [d \in 0..Len(file) |->
        IF d = 0 THEN 1
        ELSE LET node == file[page[d - 1]]
             IN  IF node.leaf THEN page[d - 1] ELSE node.children[Child(node, key)]]
  <1> DEFINE page == CHOOSE page : page = G(page)
  <1>1. LeafFor(key) = page[Len(file)]
    BY DEF LeafFor
  <1>2. key \in 0..MaxKey /\ \A p : Turn(p, key) = Child(file[p], key)
    BY BtreeAssumption DEF Key, Turn
  <1>3. Len(file) \in Nat /\ 0 \in 0..Len(file)
    <2>1. Len(file) \in Nat
      BY Shape, Zenon
    <2> QED BY ONLY <2>1
  <1>4. PICK f : Descent(f, key)
    BY <1>2, Descends
  <1>5. f = [d \in 0..Len(file) |-> f[d]]
    BY <1>4 DEF Descent
  <1>6. f = G(f)
    <2>1. \A d \in 0..Len(file) : f[d] = G(f)[d]
      BY <1>2, <1>4, Zenon DEF Descent
    <2> QED BY <1>5, <2>1
  <1>7. page = G(page)
    BY <1>6, Zenon
  <1> HIDE DEF page
  <1>8. page = [d \in 0..Len(file) |-> page[d]]
    BY <1>7
  <1>9. page[0] = 1
    BY <1>3, <1>7, Zenon
  <1>10. ASSUME NEW d \in 0..Len(file), d # 0
         PROVE  page[d] = IF file[page[d - 1]].leaf THEN page[d - 1]
                          ELSE file[page[d - 1]].children[Turn(page[d - 1], key)]
    BY <1>2, <1>7, <1>10, Zenon
  <1>11. Descent(page, key)
    BY <1>8, <1>9, <1>10 DEF Descent
  <1> QED BY <1>1, <1>11

LEMMA BegPages ==
  ASSUME IInv, file # <<>>, NEW live, NEW chain, Reached(live, chain)
  PROVE  \E page : Descent(page, 0) /\ Beg = page[Len(file)]
  <1> DEFINE G(page) == [d \in 0..Len(file) |->
        IF d = 0 THEN 1
        ELSE LET node == file[page[d - 1]]
             IN  IF node.leaf THEN page[d - 1] ELSE node.children[1]]
  <1> DEFINE page == CHOOSE page : page = G(page)
  <1>1. Beg = page[Len(file)]
    BY DEF Beg
  <1>2. 0 \in 0..MaxKey /\ \A p : Turn(p, 0) = 1
    BY BtreeAssumption DEF Turn
  <1>3. Len(file) \in Nat /\ 0 \in 0..Len(file)
    <2>1. Len(file) \in Nat
      BY Shape, Zenon
    <2> QED BY ONLY <2>1
  <1>4. PICK f : Descent(f, 0)
    BY <1>2, Descends
  <1>5. f = [d \in 0..Len(file) |-> f[d]]
    BY <1>4 DEF Descent
  <1>6. f = G(f)
    <2>1. \A d \in 0..Len(file) : f[d] = G(f)[d]
      BY <1>2, <1>4 DEF Descent
    <2> QED BY <1>5, <2>1
  <1>7. page = G(page)
    BY <1>6, Zenon
  <1> HIDE DEF page
  <1>8. page = [d \in 0..Len(file) |-> page[d]]
    BY <1>7
  <1>9. page[0] = 1
    BY <1>3, <1>7, Zenon
  <1>10. ASSUME NEW d \in 0..Len(file), d # 0
         PROVE  page[d] = IF file[page[d - 1]].leaf THEN page[d - 1]
                          ELSE file[page[d - 1]].children[Turn(page[d - 1], 0)]
    BY <1>2, <1>7, <1>10, Zenon
  <1>11. Descent(page, 0)
    BY <1>8, <1>9, <1>10 DEF Descent
  <1> QED BY <1>1, <1>11

(* Where search ends for a key, and where a scan begins.                   *)
LEMMA LeafForEnds ==
  ASSUME IInv, file # <<>>, NEW lo, NEW lvl, Heights(lo, lvl),
         NEW live, NEW chain, Links(lo, live, chain), NEW key \in Key
  PROVE  \E m \in DOMAIN chain : LeafFor(key) = chain[m] /\ lo[chain[m]] < key
  <1>1. Reached(live, chain)
    BY DEF Links
  <1>2. PICK page : Descent(page, key) /\ LeafFor(key) = page[Len(file)]
    BY <1>1, LeafForPages
  <1>3. key \in 0..MaxKey /\ key # 0
    BY BtreeAssumption DEF Key
  <1>4. PICK p : p = page[Len(file)]
    OBVIOUS
  <1>5. p \in live /\ file[p].leaf /\ lo[p] < key
    BY <1>1, <1>2, <1>3, <1>4, DescentEnds DEF Beyond
  <1> QED BY <1>1, <1>2, <1>4, <1>5 DEF Reached

LEMMA BegEnds ==
  ASSUME IInv, file # <<>>, NEW lo, NEW lvl, Heights(lo, lvl),
         NEW live, NEW chain, Links(lo, live, chain)
  PROVE  1 \in DOMAIN chain /\ Beg = chain[1]
  <1>1. Reached(live, chain) /\ Chained(lo, chain)
    BY DEF Links
  <1>2. PICK page : Descent(page, 0) /\ Beg = page[Len(file)]
    BY <1>1, BegPages
  <1>3. 0 \in 0..MaxKey
    BY BtreeAssumption
  <1>4. PICK p : p = page[Len(file)]
    OBVIOUS
  <1>5. p \in live /\ file[p].leaf /\ lo[p] = 0
    BY <1>1, <1>2, <1>3, <1>4, DescentEnds DEF Beyond
  <1>6. PICK i \in DOMAIN chain : p = chain[i]
    BY <1>1, <1>5 DEF Reached
  <1>7. i = 1
    BY <1>1, <1>5, <1>6 DEF Chained
  <1> QED BY <1>2, <1>4, <1>6, <1>7

-----------------------------------------------------------------------------
(* The blocks of a scan: those of ss, one list behind the other, the i-th  *)
(* of them behind the first off[i - 1].                                    *)
Laid(ss, flat, off) ==
  /\ off \in [0..Len(ss) -> Nat] /\ off[0] = 0
  /\ flat \in Seq(Block) /\ Len(flat) = off[Len(ss)]
  /\ \A i \in 1..Len(ss) :
       /\ off[i] = off[i - 1] + Len(ss[i])
       /\ \A k \in 1..Len(ss[i]) : flat[off[i - 1] + k] = ss[i][k]

(* The lists that have been put together so far.                           *)
Joins(f, ss, n) ==
  \A i \in 1..n : f[i] = IF i = 1 THEN ss[i] ELSE f[i - 1] \o ss[i]

LEMMA JoinsExist ==
  ASSUME NEW ss \in Seq(Seq(Block))
  PROVE  \E f \in [1..Len(ss) -> Seq(Block)] : Joins(f, ss, Len(ss))
  <1> DEFINE S == {n \in 0..Len(ss) : \E f \in [1..n -> Seq(Block)] : Joins(f, ss, n)}
  <1>1. Len(ss) \in Nat /\ \A i \in 1..Len(ss) : ss[i] \in Seq(Block)
    OBVIOUS
  <1>2. 0 \in S
    <2>1. PICK f : f = [i \in 1..0 |-> <<>>]
      OBVIOUS
    <2>2. f \in [1..0 -> Seq(Block)] /\ Joins(f, ss, 0)
      BY <2>1 DEF Joins
    <2>3. 0 \in 0..Len(ss)
      BY <1>1
    <2> QED BY <2>2, <2>3
  <1>3. ASSUME NEW n \in 0..Len(ss), n # Len(ss), n \in S PROVE n + 1 \in S
    <2>1. PICK f \in [1..n -> Seq(Block)] : Joins(f, ss, n)
      BY <1>3
    <2>2. PICK e : e = IF n = 0 THEN ss[1] ELSE f[n] \o ss[n + 1]
      OBVIOUS
    <2>3. n \in Nat /\ n + 1 \in 1..Len(ss) /\ n + 1 \in 0..Len(ss) /\ (n # 0 => n \in 1..n)
      BY <1>1, <1>3
    <2>4. e \in Seq(Block)
      <3>1. n = 0 => 1 = n + 1
        BY <2>3
      <3> QED BY <1>1, <2>2, <2>3, <3>1
    <2>5. PICK g : g = [i \in 1..(n + 1) |-> IF i = n + 1 THEN e ELSE f[i]]
      OBVIOUS
    <2>6. \A i \in 1..(n + 1) : i # n + 1 => i \in 1..n /\ (i # 1 => i - 1 \in 1..n)
      BY <2>3
    <2>7. g \in [1..(n + 1) -> Seq(Block)]
      BY <2>4, <2>5, <2>6
    <2>8. ASSUME NEW i \in 1..(n + 1)
          PROVE  g[i] = IF i = 1 THEN ss[i] ELSE g[i - 1] \o ss[i]
      <3>1. CASE i = n + 1
        <4>1. g[i] = e
          BY <2>5, <3>1
        <4>2. CASE n = 0
          BY <2>2, <3>1, <4>1, <4>2
        <4>3. CASE n # 0
          <5>1. i # 1 /\ i - 1 = n /\ n \in 1..(n + 1) /\ n # n + 1
            BY <2>3, <3>1, <4>3
          <5>2. g[i - 1] = f[n]
            BY <2>5, <5>1
          <5> QED BY <2>2, <3>1, <4>1, <4>3, <5>1, <5>2
        <4> QED BY <4>2, <4>3
      <3>2. CASE i # n + 1
        <4>1. i \in 1..n /\ g[i] = f[i]
          BY <2>5, <2>6, <3>2
        <4>2. f[i] = IF i = 1 THEN ss[i] ELSE f[i - 1] \o ss[i]
          BY <2>1, <4>1 DEF Joins
        <4>3. i # 1 => i - 1 \in 1..(n + 1) /\ i - 1 # n + 1
          BY <2>3, <2>6, <3>2
        <4>4. i # 1 => g[i - 1] = f[i - 1]
          BY <2>5, <4>3
        <4> QED BY <4>1, <4>2, <4>4
      <3> QED BY <3>1, <3>2
    <2>9. Joins(g, ss, n + 1)
      BY <2>8 DEF Joins
    <2> QED BY <2>3, <2>7, <2>9
  <1>4. \A n \in 0..Len(ss) : n \in S
    <2> HIDE DEF S
    <2>1. \A n \in 0..Len(ss) : n # Len(ss) /\ n \in S => n + 1 \in S
      BY <1>3
    <2> QED BY ONLY <1>1, <1>2, <2>1, UpTo
  <1>5. Len(ss) \in 0..Len(ss)
    BY <1>1
  <1> QED BY <1>4, <1>5

LEMMA Flattened ==
  ASSUME NEW ss \in Seq(Seq(Block)), Len(ss) # 0
  PROVE  \E f : f = [i \in 1..Len(ss) |-> f[i]] /\ Joins(f, ss, Len(ss)) /\ FlattenSeq(ss) = f[Len(ss)]
  <1> DEFINE G(f) == [i \in 1..Len(ss) |-> IF i = 1 THEN ss[i] ELSE f[i - 1] \o ss[i]]
             f == CHOOSE f : f = G(f)
  <1>1. FlattenSeq(ss) = f[Len(ss)]
    BY DEF FlattenSeq
  <1>2. PICK g \in [1..Len(ss) -> Seq(Block)] : Joins(g, ss, Len(ss))
    BY JoinsExist
  <1>3. g = G(g)
    <2>1. \A i \in 1..Len(ss) : g[i] = G(g)[i]
      BY <1>2 DEF Joins
    <2>2. g = [i \in 1..Len(ss) |-> g[i]]
      BY <1>2
    <2> QED BY <2>1, <2>2
  <1>4. f = G(f)
    BY <1>3, Zenon
  <1> HIDE DEF f
  <1>5. f = [i \in 1..Len(ss) |-> f[i]] /\ Joins(f, ss, Len(ss))
    BY <1>4 DEF Joins
  <1> QED BY <1>1, <1>5

LEMMA FlattenLaid ==
  ASSUME NEW ss \in Seq(Seq(Block)), Len(ss) # 0
  PROVE  \E off : Laid(ss, FlattenSeq(ss), off)
  <1>1. PICK f : Joins(f, ss, Len(ss)) /\ FlattenSeq(ss) = f[Len(ss)]
    BY Flattened
  <1>2. PICK off : off = [i \in 0..Len(ss) |-> IF i = 0 THEN 0 ELSE Len(f[i])]
    OBVIOUS
  <1>3. PICK N : N = Len(ss)
    OBVIOUS
  <1>4. N \in Nat /\ N # 0 /\ \A i \in 1..N : ss[i] \in Seq(Block) /\ Len(ss[i]) \in Nat
    BY <1>3
  <1>5. \A i \in 1..N : f[i] = IF i = 1 THEN ss[i] ELSE f[i - 1] \o ss[i]
    BY <1>1, <1>3 DEF Joins
  <1>6. /\ off[0] = 0 /\ \A i \in 1..N : off[i] = Len(f[i])
        /\ off = [i \in 0..N |-> off[i]]
    <2>1. 0 \in 0..N /\ \A i \in 1..N : i \in 0..N /\ i # 0
      BY <1>4
    <2> QED BY <1>2, <1>3, <2>1
  <1> DEFINE Put(i, j) == \A k \in 1..Len(ss[j]) : off[j - 1] + k <= off[i] /\ f[i][off[j - 1] + k] = ss[j][k]
             S == {i \in 0..N : \A j \in 1..i : /\ f[j] \in Seq(Block) /\ off[j - 1] \in Nat
                                                /\ off[j] = off[j - 1] + Len(ss[j])
                                                /\ Put(i, j)}
  <1>7. 0 \in S
    BY <1>4
  <1>8. ASSUME NEW d \in 0..N, d # N, d \in S PROVE d + 1 \in S
    <2>1. d \in Nat /\ d + 1 \in 1..N /\ d + 1 \in 0..N /\ (d + 1) - 1 = d
      BY <1>4, <1>8
    <2>2. PICK s : s = ss[d + 1]
      OBVIOUS
    <2>3. s \in Seq(Block) /\ Len(s) \in Nat
      BY <1>4, <2>1, <2>2
    <2>4. CASE d = 0
      <3>1. f[1] = s /\ off[1] = Len(s) /\ ss[1] = s
        <4>1. 1 \in 1..N /\ d + 1 = 1
          BY <2>1, <2>4
        <4>2. ss[1] = s /\ f[1] = ss[1]
          BY <1>5, <2>2, <4>1
        <4>3. off[1] = Len(f[1])
          BY <1>6, <4>1
        <4> QED BY <4>2, <4>3
      <3>2. Put(1, 1)
        <4> SUFFICES ASSUME NEW k \in 1..Len(ss[1])
                     PROVE  off[1 - 1] + k <= off[1] /\ f[1][off[1 - 1] + k] = ss[1][k]
          OBVIOUS
        <4>1. off[1 - 1] = 0 /\ 0 + k = k /\ k <= Len(s)
          BY <1>6, <2>3, <3>1
        <4> QED BY <3>1, <4>1
      <3>3. off[1 - 1] = 0 /\ off[1] = off[1 - 1] + Len(ss[1])
        BY <1>6, <2>3, <3>1
      <3>4. \A j \in 1..(d + 1) : j = 1
        BY <2>4
      <3> HIDE DEF Put
      <3> QED BY <2>1, <2>3, <2>4, <3>1, <3>2, <3>3, <3>4
    <2>5. CASE d # 0
      <3>1. d \in 1..d /\ d \in 1..N /\ d + 1 # 1
        BY <2>1, <2>5
      <3>2. f[d] \in Seq(Block) /\ off[d] = Len(f[d]) /\ Len(f[d]) \in Nat
        <4>1. f[d] \in Seq(Block)
          <5> HIDE DEF Put
          <5> QED BY <1>8, <3>1
        <4>2. off[d] = Len(f[d])
          BY <1>6, <3>1
        <4> QED BY <4>1, <4>2
      <3>3. f[d + 1] = f[d] \o s /\ off[d + 1] = Len(f[d + 1])
        BY <1>5, <1>6, <2>1, <2>2, <3>1
      <3>4. PICK a : a = f[d]
        OBVIOUS
      <3>5. /\ a \o s \in Seq(Block) /\ Len(a \o s) = Len(a) + Len(s)
            /\ \A k \in 1..(Len(a) + Len(s)) :
                 (a \o s)[k] = IF k <= Len(a) THEN a[k] ELSE s[k - Len(a)]
        <4>1. a \in Seq(Block)
          BY <3>2, <3>4
        <4> QED BY ONLY <2>3, <4>1, ConcatProperties
      <3>6. Len(a) \in Nat /\ off[d] = Len(a) /\ off[d + 1] = Len(a) + Len(s) /\ f[d + 1] = a \o s
        BY <3>2, <3>3, <3>4, <3>5
      <3>7. ASSUME NEW j \in 1..(d + 1)
            PROVE  /\ f[j] \in Seq(Block) /\ off[j - 1] \in Nat
                   /\ off[j] = off[j - 1] + Len(ss[j]) /\ Put(d + 1, j)
        <4>1. CASE j = d + 1
          <5>1. j - 1 = d /\ ss[j] = s /\ f[j] = a \o s
            BY <2>1, <2>2, <3>6, <4>1
          <5>2. ASSUME NEW k \in 1..Len(s)
                PROVE  off[d] + k <= off[d + 1] /\ f[d + 1][off[d] + k] = s[k]
            <6>1. /\ Len(a) + k \in 1..(Len(a) + Len(s)) /\ ~(Len(a) + k <= Len(a))
                  /\ Len(a) + k - Len(a) = k /\ Len(a) + k <= Len(a) + Len(s)
              BY ONLY <2>3, <3>6, <5>2
            <6>2. (a \o s)[Len(a) + k] = s[k]
              BY ONLY <3>5, <6>1
            <6> QED BY <3>6, <6>1, <6>2
          <5> QED BY <3>2, <3>5, <3>6, <4>1, <5>1, <5>2
        <4>2. CASE j # d + 1
          <5>1. j \in 1..d
            BY <2>1, <4>2
          <5>2. /\ f[j] \in Seq(Block) /\ off[j - 1] \in Nat
                /\ off[j] = off[j - 1] + Len(ss[j]) /\ Put(d, j)
            BY <1>8, <5>1
          <5>3. Len(ss[j]) \in Nat
            BY <1>4, <2>1, <5>1
          <5>4. ASSUME NEW k \in 1..Len(ss[j])
                PROVE  off[j - 1] + k <= off[d + 1] /\ f[d + 1][off[j - 1] + k] = ss[j][k]
            <6>1. PICK x : x = off[j - 1] + k
              OBVIOUS
            <6>2. x <= off[d] /\ f[d][x] = ss[j][k]
              BY <5>2, <6>1
            <6>3. x \in Nat /\ x >= 1
              BY ONLY <5>2, <5>3, <6>1
            <6>4. x \in 1..(Len(a) + Len(s)) /\ x <= Len(a) /\ x <= off[d + 1]
              BY <2>3, <3>6, <6>2, <6>3
            <6>5. (a \o s)[x] = a[x]
              BY ONLY <3>5, <6>4
            <6> QED BY <3>4, <3>6, <6>1, <6>2, <6>4, <6>5
          <5> QED BY <5>2, <5>4
        <4> QED BY <4>1, <4>2
      <3> HIDE DEF Put
      <3> QED BY <2>1, <3>7
    <2> QED BY <2>4, <2>5
  <1>9. N \in S
    <2> HIDE DEF S
    <2>1. \A d \in 0..N : d # N /\ d \in S => d + 1 \in S
      BY <1>8
    <2>2. \A d \in 0..N : d \in S
      BY ONLY <1>4, <1>7, <2>1, UpTo
    <2>3. N \in 0..N
      BY <1>4
    <2> QED BY <2>2, <2>3
  <1>10. N \in 1..N /\ f[N] \in Seq(Block) /\ Len(f[N]) = off[N]
    <2>1. N \in 1..N
      BY <1>4
    <2>2. f[N] \in Seq(Block)
      <3> HIDE DEF Put
      <3> QED BY <1>9, <2>1
    <2> QED BY <1>6, <2>1, <2>2
  <1>11. off \in [0..N -> Nat]
    <2>1. \A i \in 0..N : off[i] \in Nat
      <3> SUFFICES ASSUME NEW i \in 0..N PROVE off[i] \in Nat
        OBVIOUS
      <3>1. CASE i = 0
        BY <1>6, <3>1
      <3>2. CASE i # 0
        <4>1. i \in 1..N
          BY <1>4, <3>2
        <4>2. f[i] \in Seq(Block)
          <5> HIDE DEF Put
          <5> QED BY <1>9, <4>1
        <4>3. off[i] = Len(f[i])
          BY <1>6, <4>1
        <4> QED BY <4>2, <4>3
      <3> QED BY <3>1, <3>2
    <2> QED BY <1>6, <2>1
  <1>12. ASSUME NEW i \in 1..N
         PROVE  /\ off[i] = off[i - 1] + Len(ss[i])
                /\ \A k \in 1..Len(ss[i]) : f[N][off[i - 1] + k] = ss[i][k]
    <2>1. off[i] = off[i - 1] + Len(ss[i]) /\ Put(N, i)
      <3> HIDE DEF Put
      <3> QED BY <1>9
    <2> QED BY <2>1
  <1>13. PICK flat : flat = f[N]
    OBVIOUS
  <1>14. Laid(ss, flat, off)
    <2>1. /\ flat \in Seq(Block) /\ Len(flat) = off[N] /\ off[0] = 0 /\ off \in [0..N -> Nat]
          /\ \A i \in 1..N : /\ off[i] = off[i - 1] + Len(ss[i])
                            /\ \A k \in 1..Len(ss[i]) : flat[off[i - 1] + k] = ss[i][k]
      BY ONLY <1>6, <1>10, <1>11, <1>12, <1>13
    <2> QED BY ONLY <1>3, <2>1 DEF Laid
  <1>15. FlattenSeq(ss) = flat
    BY <1>1, <1>3, <1>13
  <1> QED BY ONLY <1>14, <1>15

LEMMA LaidMonotone ==
  ASSUME NEW ss \in Seq(Seq(Block)), NEW flat, NEW off, Laid(ss, flat, off),
         NEW i \in 0..Len(ss), NEW j \in 0..Len(ss), i <= j
  PROVE  off[i] <= off[j] /\ off[i] \in Nat /\ off[j] \in Nat
  <1> DEFINE S == {d \in 0..Len(ss) : i <= d => off[i] <= off[d]}
  <1>1. Len(ss) \in Nat /\ i \in Nat /\ \A d \in 0..Len(ss) : off[d] \in Nat
    <2>1. Len(ss) \in Nat
      OBVIOUS
    <2>2. i \in Nat
      BY <2>1
    <2>3. \A d \in 0..Len(ss) : off[d] \in Nat
      BY DEF Laid
    <2> QED BY <2>1, <2>2, <2>3
  <1>2. 0 \in S
    <2>1. 0 \in 0..Len(ss) /\ (i <= 0 => i = 0)
      BY <1>1
    <2>2. i <= 0 => off[i] <= off[0]
      BY <1>1, <2>1
    <2> QED BY <2>1, <2>2
  <1>3. ASSUME NEW d \in 0..Len(ss), d # Len(ss), d \in S PROVE d + 1 \in S
    <2>1. d + 1 \in 0..Len(ss) /\ d + 1 \in 1..Len(ss) /\ (d + 1) - 1 = d /\ d \in Nat
      BY <1>1, <1>3
    <2>2. ss[d + 1] \in Seq(Block)
      BY <2>1
    <2>3. off[d + 1] = off[d] + Len(ss[d + 1]) /\ Len(ss[d + 1]) \in Nat
      BY <2>1, <2>2 DEF Laid
    <2>4. off[d] \in Nat /\ off[d + 1] \in Nat /\ off[i] \in Nat
      BY <1>1, <2>1
    <2>5. i <= d => off[i] <= off[d]
      BY <1>3
    <2>6. off[d] <= off[d + 1]
      BY <2>3, <2>4
    <2>7. i <= d + 1 => i <= d \/ i = d + 1
      BY <1>1, <2>1
    <2>8. i <= d + 1 => off[i] <= off[d + 1]
      BY <2>4, <2>5, <2>6, <2>7
    <2> QED BY <2>1, <2>8
  <1>4. \A d \in 0..Len(ss) : d \in S
    <2> HIDE DEF S
    <2>1. \A d \in 0..Len(ss) : d # Len(ss) /\ d \in S => d + 1 \in S
      BY <1>3
    <2> QED BY ONLY <1>1, <1>2, <2>1, UpTo
  <1> QED BY <1>1, <1>4

(* Where an element of the scan comes from.                                *)
Comes(ss, flat, off, x, i, k) ==
  i \in 1..Len(ss) /\ k \in DOMAIN ss[i] /\ x = off[i - 1] + k /\ flat[x] = ss[i][k]

LEMMA Offset ==
  ASSUME NEW x \in Nat, NEW a \in Nat, NEW c \in Nat, ~(x <= a), x <= a + c
  PROVE  \E k \in 1..c : x = a + k
  <1>1. x - a \in 1..c /\ x = a + (x - a)
    OBVIOUS
  <1> QED BY <1>1

LEMMA LaidFinds ==
  ASSUME NEW ss \in Seq(Seq(Block)), NEW flat, NEW off, Laid(ss, flat, off),
         NEW x \in DOMAIN flat
  PROVE  \E i, k \in Nat : Comes(ss, flat, off, x, i, k)
  <1>1. Len(ss) \in Nat /\ flat \in Seq(Block) /\ Len(flat) = off[Len(ss)] /\ off[0] = 0
    BY DEF Laid
  <1>2. x \in 1..Len(flat) /\ x \in Nat
    BY <1>1
  <1> DEFINE S == {i \in 0..Len(ss) : x <= off[i]}
  <1>3. Len(ss) \in S
    <2>1. Len(ss) \in 0..Len(ss) /\ x <= Len(flat)
      BY <1>1, <1>2
    <2> QED BY <1>1, <2>1
  <1>4. PICK i \in S : \A y \in S : i <= y
    <2>1. S \in SUBSET Nat /\ S # {}
      BY <1>3
    <2> HIDE DEF S
    <2> QED BY <2>1, LeastLemma
  <1>5. i \in 0..Len(ss) /\ x <= off[i]
    BY <1>4
  <1>6. i # 0
    BY <1>1, <1>2, <1>5
  <1>7. i \in 1..Len(ss) /\ i - 1 \in 0..Len(ss) /\ ~(i <= i - 1)
    BY <1>1, <1>5, <1>6
  <1>8. ~(x <= off[i - 1])
    BY <1>4, <1>7
  <1>9. off[i] \in Nat /\ off[i - 1] \in Nat /\ off[i] = off[i - 1] + Len(ss[i])
    BY <1>5, <1>7 DEF Laid
  <1>10. ss[i] \in Seq(Block) /\ DOMAIN ss[i] = 1..Len(ss[i]) /\ Len(ss[i]) \in Nat
    BY <1>7
  <1>11. x \in Nat /\ off[i - 1] \in Nat /\ Len(ss[i]) \in Nat /\ x <= off[i - 1] + Len(ss[i])
    BY <1>2, <1>5, <1>9, <1>10
  <1>12. PICK k \in 1..Len(ss[i]) : x = off[i - 1] + k
    BY <1>8, <1>11, Offset
  <1>13. flat[x] = ss[i][k]
    BY <1>7, <1>12 DEF Laid
  <1>14. i \in Nat /\ k \in Nat /\ k \in DOMAIN ss[i]
    BY <1>1, <1>5, <1>10, <1>12
  <1> QED BY <1>7, <1>12, <1>13, <1>14 DEF Comes

(* What is behind another element comes from the same list or a later one. *)
LEMMA LaidOrder ==
  ASSUME NEW ss \in Seq(Seq(Block)), NEW flat, NEW off, Laid(ss, flat, off),
         NEW x \in DOMAIN flat, NEW y \in DOMAIN flat, x < y,
         NEW i \in Nat, NEW k \in Nat, Comes(ss, flat, off, x, i, k),
         NEW j \in Nat, NEW l \in Nat, Comes(ss, flat, off, y, j, l)
  PROVE  i < j \/ (i = j /\ k < l)
  <1>1. /\ Len(ss) \in Nat /\ i \in 1..Len(ss) /\ j \in 1..Len(ss)
        /\ k \in DOMAIN ss[i] /\ l \in DOMAIN ss[j] /\ x = off[i - 1] + k /\ y = off[j - 1] + l
    BY DEF Comes
  <1>2. ss[i] \in Seq(Block) /\ ss[j] \in Seq(Block)
    BY <1>1
  <1>3. k \in 1..Len(ss[i]) /\ l \in 1..Len(ss[j]) /\ Len(ss[i]) \in Nat /\ Len(ss[j]) \in Nat
    <2>1. DOMAIN ss[i] = 1..Len(ss[i]) /\ Len(ss[i]) \in Nat
      BY <1>2
    <2>2. DOMAIN ss[j] = 1..Len(ss[j]) /\ Len(ss[j]) \in Nat
      BY <1>2
    <2> QED BY <1>1, <2>1, <2>2
  <1>4. /\ i - 1 \in 0..Len(ss) /\ j - 1 \in 0..Len(ss) /\ j \in 0..Len(ss)
        /\ off[j] = off[j - 1] + Len(ss[j])
    BY <1>1 DEF Laid
  <1>5. off[i - 1] \in Nat /\ off[j - 1] \in Nat /\ off[j] \in Nat
    BY <1>4 DEF Laid
  <1>6. ~(j < i)
    <2> SUFFICES ASSUME j < i PROVE FALSE
      OBVIOUS
    <2>1. j <= i - 1
      BY <1>1
    <2>2. off[j] <= off[i - 1]
      BY <1>4, <2>1, LaidMonotone
    <2>3. PICK a, b, c, d : a = off[i - 1] /\ b = off[j] /\ c = off[j - 1] /\ d = Len(ss[j])
      OBVIOUS
    <2>4. /\ a \in Nat /\ b \in Nat /\ c \in Nat /\ d \in Nat /\ b <= a /\ b = c + d
          /\ x = a + k /\ y = c + l /\ l \in 1..d /\ k \in Nat /\ k >= 1
      BY <1>1, <1>3, <1>4, <1>5, <2>2, <2>3
    <2>5. y <= x
      BY ONLY <2>4
    <2>6. x \in Nat /\ y \in Nat
      BY ONLY <2>4
    <2> QED BY <2>5, <2>6
  <1>7. i = j => k < l
    <2> SUFFICES ASSUME i = j PROVE k < l
      OBVIOUS
    <2>1. PICK a : a = off[i - 1]
      OBVIOUS
    <2>2. a \in Nat /\ k \in Nat /\ l \in Nat /\ x = a + k /\ y = a + l
      BY <1>1, <1>3, <1>5, <2>1
    <2> QED BY ONLY <2>2, x < y
  <1> QED BY <1>6, <1>7

-----------------------------------------------------------------------------
(* The pages and the blocks of a scan from the m-th leaf of the chain.     *)
PageOf(chain, m, d) == IF m + d - 1 \in DOMAIN chain THEN chain[m + d - 1] ELSE 0
ListOf(chain, m, d) ==
  IF m + d - 1 \in DOMAIN chain THEN file[chain[m + d - 1]].blocks ELSE <<>>

LEMMA PageAfter ==
  ASSUME IInv, NEW lo, NEW chain, Chained(lo, chain), NEW m \in DOMAIN chain,
         NEW d \in 1..Len(file)
  PROVE  PageOf(chain, m, d) =
           IF d = 1 THEN chain[m]
           ELSE IF PageOf(chain, m, d - 1) = 0 THEN 0
           ELSE file[PageOf(chain, m, d - 1)].next
  <1>1. /\ DOMAIN chain = 1..Len(chain) /\ Len(chain) \in Nat /\ Len(file) \in Nat
        /\ \A i \in DOMAIN chain : chain[i] # 0
    BY ChainFacts, Shape, Zenon
  <1>2. PICK n : n = Len(chain)
    OBVIOUS
  <1>3. m \in 1..n /\ n \in Nat /\ d \in Nat /\ d >= 1 /\ DOMAIN chain = 1..n
    BY <1>1, <1>2
  <1>4. CASE d = 1
    <2>1. m + d - 1 = m
      BY <1>3, <1>4
    <2> QED BY <1>4, <2>1 DEF PageOf
  <1>5. CASE d # 1
    <2>1. PICK i : i = m + (d - 1) - 1
      OBVIOUS
    <2>2. i \in Nat /\ i >= 1 /\ m + d - 1 = i + 1
      BY <1>3, <1>5, <2>1
    <2>3. PageOf(chain, m, d) = IF i + 1 \in 1..n THEN chain[i + 1] ELSE 0
      BY <1>3, <2>2 DEF PageOf
    <2>4. PageOf(chain, m, d - 1) = IF i \in 1..n THEN chain[i] ELSE 0
      BY <1>3, <2>1 DEF PageOf
    <2>5. CASE i \in 1..n
      <3>1. chain[i] # 0 /\ file[chain[i]].next = IF i < n THEN chain[i + 1] ELSE 0
        BY <1>1, <1>2, <1>3, <2>5 DEF Chained
      <3>2. i + 1 \in 1..n <=> i < n
        BY <1>3, <2>2, <2>5
      <3> QED BY <1>5, <2>3, <2>4, <2>5, <3>1, <3>2
    <2>6. CASE i \notin 1..n
      <3>1. i + 1 \notin 1..n
        BY <1>3, <2>2, <2>6
      <3> QED BY <1>5, <2>3, <2>4, <2>6, <3>1
    <2> QED BY <2>5, <2>6
  <1> QED BY <1>4, <1>5

LEMMA ChainFromLists ==
  ASSUME IInv, file # <<>>, NEW lo, NEW chain, Chained(lo, chain), NEW m \in DOMAIN chain,
         NEW ss, ss = [d \in 1..Len(file) |-> ListOf(chain, m, d)]
  PROVE  ChainFrom(chain[m]) = FlattenSeq(ss)
  <1> DEFINE G(page) == [d \in 1..Len(file) |->
        IF d = 1 THEN chain[m]
        ELSE IF page[d - 1] = 0 THEN 0 ELSE file[page[d - 1]].next]
             page == CHOOSE page : page = G(page)
  <1>1. ChainFrom(chain[m]) =
          FlattenSeq([d \in 1..Len(file) |-> IF page[d] = 0 THEN <<>> ELSE file[page[d]].blocks])
    BY DEF ChainFrom
  <1>2. Len(file) \in Nat
    BY Shape, Zenon
  <1>3. \A d \in 1..Len(file) : d # 1 => d - 1 \in 1..Len(file)
    BY <1>2
  <1>4. PICK f : f = [d \in 1..Len(file) |-> PageOf(chain, m, d)]
    OBVIOUS
  <1>5. f = G(f)
    <2>1. ASSUME NEW d \in 1..Len(file)
          PROVE  f[d] = IF d = 1 THEN chain[m]
                        ELSE IF f[d - 1] = 0 THEN 0 ELSE file[f[d - 1]].next
      <3>1. f[d] = PageOf(chain, m, d) /\ (d # 1 => f[d - 1] = PageOf(chain, m, d - 1))
        BY <1>3, <1>4
      <3> QED BY <3>1, PageAfter
    <2>2. f = [d \in 1..Len(file) |-> f[d]]
      BY <1>4, Zenon
    <2> QED BY <2>1, <2>2
  <1>6. page = G(page)
    BY <1>5, Zenon
  <1> HIDE DEF page
  <1>7. \A d \in 1..Len(file) : page[d] = PageOf(chain, m, d)
    <2> DEFINE S == {d \in 0..Len(file) : d # 0 => page[d] = PageOf(chain, m, d)}
    <2>1. 0 \in S
      BY <1>2
    <2>2. ASSUME NEW d \in 0..Len(file), d # Len(file), d \in S PROVE d + 1 \in S
      <3>1. /\ d + 1 \in 1..Len(file) /\ d + 1 \in 0..Len(file) /\ (d + 1) - 1 = d
            /\ (d + 1 = 1 <=> d = 0)
        BY <1>2, <2>2
      <3>2. page[d + 1] = IF d = 0 THEN chain[m]
                          ELSE IF page[d] = 0 THEN 0 ELSE file[page[d]].next
        BY <1>6, <3>1
      <3>3. PageOf(chain, m, d + 1) = IF d = 0 THEN chain[m]
                                      ELSE IF PageOf(chain, m, d) = 0 THEN 0
                                      ELSE file[PageOf(chain, m, d)].next
        BY <3>1, PageAfter
      <3>4. d # 0 => page[d] = PageOf(chain, m, d)
        BY <2>2
      <3> QED BY <3>1, <3>2, <3>3, <3>4
    <2>3. \A d \in 0..Len(file) : d \in S
      <3> HIDE DEF S
      <3>1. \A d \in 0..Len(file) : d # Len(file) /\ d \in S => d + 1 \in S
        BY <2>2
      <3> QED BY ONLY <1>2, <2>1, <3>1, UpTo
    <2>4. \A d \in 1..Len(file) : d \in 0..Len(file) /\ d # 0
      BY <1>2
    <2> QED BY <2>3, <2>4
  <1>8. \A i \in DOMAIN chain : chain[i] # 0
    BY ChainFacts
  <1>9. \A d \in 1..Len(file) :
          (IF page[d] = 0 THEN <<>> ELSE file[page[d]].blocks) = ListOf(chain, m, d)
    BY <1>7, <1>8 DEF PageOf, ListOf
  <1> QED BY <1>1, <1>9, Zenon

(* The k-th block of the i-th leaf of the chain is the x-th of the scan.   *)
Place(flat, chain, m, x, i, k) ==
  /\ i \in DOMAIN chain /\ m <= i /\ k \in DOMAIN file[chain[i]].blocks
  /\ flat[x] = file[chain[i]].blocks[k]

(* A scan meets the blocks of its first leaf and of the ones behind it, in *)
(* the order of the chain.                                                 *)
Scanned(flat, chain, m) ==
  /\ flat \in Seq(Block)
  /\ \A i \in DOMAIN chain : m <= i =>
       \A k \in DOMAIN file[chain[i]].blocks :
         \E x \in DOMAIN flat : flat[x] = file[chain[i]].blocks[k]
  /\ \A x \in DOMAIN flat : \E i, k \in Nat : Place(flat, chain, m, x, i, k)
  /\ \A x, y \in DOMAIN flat : x < y =>
       \E i, k, j, l \in Nat :
         /\ Place(flat, chain, m, x, i, k) /\ Place(flat, chain, m, y, j, l)
         /\ i < j \/ (i = j /\ k < l)

LEMMA Scans ==
  ASSUME IInv, file # <<>>, NEW lo, NEW chain, Chained(lo, chain), NEW m \in DOMAIN chain,
         NEW flat, flat = ChainFrom(chain[m])
  PROVE  Scanned(flat, chain, m)
  <1>1. PICK ss : ss = [d \in 1..Len(file) |-> ListOf(chain, m, d)]
    OBVIOUS
  <1>2. /\ DOMAIN chain = 1..Len(chain) /\ Len(chain) \in Nat /\ Len(file) \in Nat
        /\ Len(chain) <= Len(file) /\ 1 \in DOMAIN file
        /\ \A i \in DOMAIN chain : chain[i] \in DOMAIN file /\ file[chain[i]] \in Node
    <2>1. DOMAIN chain = 1..Len(chain) /\ Len(chain) \in Nat
      BY ChainFacts
    <2>2. \A i \in DOMAIN chain : chain[i] \in DOMAIN file /\ file[chain[i]] \in Node
      BY ChainFacts, FileFacts, Zenon
    <2>3. Len(file) \in Nat /\ DOMAIN file = 1..Len(file) /\ Len(chain) <= Len(file)
      BY Shape, Zenon DEF Chained
    <2>4. 1 \in DOMAIN file
      BY <2>1, <2>3
    <2> QED BY <2>1, <2>2, <2>3, <2>4
  <1>3. ss \in Seq(Seq(Block)) /\ Len(ss) = Len(file) /\ Len(ss) # 0
    <2>1. \A d \in 1..Len(file) : ListOf(chain, m, d) \in Seq(Block)
      BY <1>2 DEF ListOf, Node
    <2>2. ss \in [1..Len(file) -> Seq(Block)]
      BY <1>1, <2>1
    <2>3. ss \in Seq(Seq(Block)) /\ Len(ss) = Len(file)
      BY ONLY <1>2, <2>2
    <2> QED BY <1>2, <2>3, Shape
  <1>4. PICK off : Laid(ss, flat, off)
    <2>1. flat = FlattenSeq(ss)
      BY <1>1, ChainFromLists
    <2> QED BY <1>3, <2>1, FlattenLaid
  <1>5. flat \in Seq(Block)
    BY <1>4 DEF Laid
  <1>6. ASSUME NEW x \in DOMAIN flat, NEW d \in Nat, NEW k \in Nat, Comes(ss, flat, off, x, d, k),
               NEW i, i = m + d - 1
        PROVE  Place(flat, chain, m, x, i, k) /\ i \in Nat
    <2>1. d \in 1..Len(file) /\ k \in DOMAIN ss[d] /\ flat[x] = ss[d][k]
      BY <1>3, <1>6 DEF Comes
    <2>2. ss[d] = ListOf(chain, m, d)
      BY <1>1, <2>1
    <2>3. DOMAIN <<>> = {}
      OBVIOUS
    <2>4. i \in DOMAIN chain /\ ss[d] = file[chain[i]].blocks
      BY <1>6, <2>1, <2>2, <2>3 DEF ListOf
    <2>5. m \in Nat /\ i \in Nat /\ m <= i
      BY <1>2, <1>6, <2>1, <2>4
    <2> QED BY <2>1, <2>4, <2>5 DEF Place
  <1>7. ASSUME NEW i \in DOMAIN chain, m <= i, NEW k \in DOMAIN file[chain[i]].blocks
        PROVE  \E x \in DOMAIN flat : flat[x] = file[chain[i]].blocks[k]
    <2>1. PICK d : d = i - m + 1
      OBVIOUS
    <2>2. d \in 1..Len(file) /\ m + d - 1 = i
      <3>1. i \in Nat /\ m \in Nat /\ m <= i /\ i <= Len(file) /\ m >= 1 /\ Len(file) \in Nat
        BY <1>2, <1>7
      <3> QED BY ONLY <2>1, <3>1
    <2>3. ss[d] = file[chain[i]].blocks
      BY <1>1, <2>2 DEF ListOf
    <2>4. ss[d] \in Seq(Block)
      BY <1>2, <2>3 DEF Node
    <2>5. k \in 1..Len(ss[d]) /\ Len(ss[d]) \in Nat
      BY <1>7, <2>3, <2>4
    <2>6. d \in 1..Len(ss) /\ Len(ss) \in Nat
      BY <1>2, <1>3, <2>2
    <2>7. /\ flat[off[d - 1] + k] = ss[d][k] /\ off[d] = off[d - 1] + Len(ss[d])
          /\ Len(flat) = off[Len(ss)]
      BY <1>4, <2>5, <2>6 DEF Laid
    <2>8. d - 1 \in 0..Len(ss) /\ d \in 0..Len(ss) /\ Len(ss) \in 0..Len(ss) /\ d <= Len(ss)
      BY ONLY <2>6
    <2>9. off[d] <= Len(flat) /\ off[d] \in Nat /\ off[d - 1] \in Nat /\ Len(flat) \in Nat
      <3>1. off[d] <= off[Len(ss)] /\ off[d] \in Nat /\ off[Len(ss)] \in Nat
        BY <1>3, <1>4, <2>8, LaidMonotone
      <3>2. off[d - 1] \in Nat
        BY <1>4, <2>8 DEF Laid
      <3> QED BY <2>7, <3>1, <3>2
    <2>10. PICK x : x = off[d - 1] + k
      OBVIOUS
    <2>11. x \in 1..Len(flat)
      BY ONLY <2>5, <2>7, <2>9, <2>10
    <2>12. x \in DOMAIN flat
      BY <1>5, <2>11
    <2> QED BY <2>3, <2>7, <2>10, <2>12
  <1>8. ASSUME NEW x \in DOMAIN flat
        PROVE  \E i, k \in Nat : Place(flat, chain, m, x, i, k)
    <2>1. PICK d, k \in Nat : Comes(ss, flat, off, x, d, k)
      BY <1>3, <1>4, LaidFinds
    <2>2. PICK i : i = m + d - 1
      OBVIOUS
    <2> QED BY <1>6, <2>1, <2>2
  <1>9. ASSUME NEW x \in DOMAIN flat, NEW y \in DOMAIN flat, x < y
        PROVE  \E i, k, j, l \in Nat :
                 /\ Place(flat, chain, m, x, i, k) /\ Place(flat, chain, m, y, j, l)
                 /\ i < j \/ (i = j /\ k < l)
    <2>1. PICK d, k \in Nat : Comes(ss, flat, off, x, d, k)
      BY <1>3, <1>4, LaidFinds
    <2>2. PICK e, l \in Nat : Comes(ss, flat, off, y, e, l)
      BY <1>3, <1>4, LaidFinds
    <2>3. d < e \/ (d = e /\ k < l)
      BY <1>3, <1>4, <1>9, <2>1, <2>2, LaidOrder
    <2>4. PICK i, j : i = m + d - 1 /\ j = m + e - 1
      OBVIOUS
    <2>5. Place(flat, chain, m, x, i, k) /\ i \in Nat
      BY <1>6, <2>1, <2>4
    <2>6. Place(flat, chain, m, y, j, l) /\ j \in Nat
      BY <1>6, <2>2, <2>4
    <2>7. m \in Nat
      BY <1>2
    <2>8. i < j \/ (i = j /\ k < l)
      BY ONLY <2>1, <2>2, <2>3, <2>4, <2>7
    <2> QED BY <2>5, <2>6, <2>8
  <1> QED BY <1>5, <1>7, <1>8, <1>9 DEF Scanned

(* A block is in a leaf of the chain, and in no other place of it.         *)
LEMMA InLeaf ==
  ASSUME IInv, NEW lo, NEW lvl, NEW live, NEW chain, Tree(lo, lvl, live, chain), NEW b \in inserted
  PROVE  /\ file # <<>>
         /\ \E i \in DOMAIN chain : \E k \in DOMAIN file[chain[i]].blocks : file[chain[i]].blocks[k] = b
  <1>1. Links(lo, live, chain) /\ Contents(chain)
    BY DEF Tree
  <1>2. PICK i \in DOMAIN chain : b \in BlocksOf(file[chain[i]])
    BY <1>1 DEF Contents, Held
  <1>3. chain[i] \in DOMAIN file
    BY <1>1, ChainFacts DEF Links
  <1>4. file # <<>>
    <2>1. DOMAIN <<>> = {}
      OBVIOUS
    <2> QED BY <1>3, <2>1
  <1> QED BY <1>2, <1>4 DEF BlocksOf

LEMMA OnePlace ==
  ASSUME IInv, NEW lo, NEW lvl, NEW live, NEW chain, Tree(lo, lvl, live, chain),
         NEW i \in DOMAIN chain, NEW j \in DOMAIN chain,
         NEW k \in DOMAIN file[chain[i]].blocks, NEW l \in DOMAIN file[chain[j]].blocks,
         file[chain[i]].blocks[k] = file[chain[j]].blocks[l]
  PROVE  i = j /\ k = l
  <1>1. Links(lo, live, chain) /\ Contents(chain)
    BY DEF Tree
  <1>2. i = j
    BY <1>1 DEF Contents, Apart, BlocksOf
  <1>3. chain[i] \in DOMAIN file /\ file[chain[i]].leaf
    BY <1>1, ChainFacts DEF Links, Chained
  <1>4. NoDouble(file[chain[i]])
    BY <1>1, <1>3 DEF Contents, Fine
  <1> QED BY <1>2, <1>4 DEF NoDouble

(* A scan from the first leaf.                                             *)
LEMMA ChainScanned ==
  ASSUME IInv, file # <<>>, NEW lo, NEW lvl, NEW live, NEW chain, Tree(lo, lvl, live, chain),
         NEW flat, flat = Chain
  PROVE  1 \in DOMAIN chain /\ Scanned(flat, chain, 1)
  <1>1. Heights(lo, lvl) /\ Links(lo, live, chain) /\ Chained(lo, chain)
    BY DEF Tree, Links
  <1>2. 1 \in DOMAIN chain /\ Beg = chain[1]
    BY <1>1, BegEnds
  <1>3. flat = ChainFrom(chain[1])
    BY <1>2 DEF Chain
  <1> QED BY <1>1, <1>2, <1>3, Scans

LEMMA CompleteHolds == OInv => ChainComplete
  <1> SUFFICES ASSUME OInv, NEW flat, flat = Chain, NEW b \in inserted
               PROVE  Cardinality({x \in DOMAIN flat : flat[x] = b}) = 1
    BY DEF ChainComplete
  <1>1. IInv
    BY DEF OInv
  <1>2. PICK lo, lvl, live, chain : Tree(lo, lvl, live, chain)
    BY DEF OInv, Ordered
  <1>3. /\ file # <<>>
        /\ \E i \in DOMAIN chain :
             \E k \in DOMAIN file[chain[i]].blocks : file[chain[i]].blocks[k] = b
    BY <1>1, <1>2, InLeaf
  <1>4. Scanned(flat, chain, 1)
    BY <1>1, <1>2, <1>3, ChainScanned
  <1>5. DOMAIN chain = 1..Len(chain) /\ Len(chain) \in Nat
    BY <1>1, <1>2, ChainFacts DEF Tree, Links
  <1>6. PICK x \in DOMAIN flat : flat[x] = b
    <2>1. \A i \in DOMAIN chain : 1 <= i
      BY <1>5
    <2> QED BY <1>3, <1>4, <2>1 DEF Scanned
  <1>7. ASSUME NEW u \in DOMAIN flat, NEW v \in DOMAIN flat, u < v, flat[u] = b, flat[v] = b
        PROVE  FALSE
    <2>1. PICK i, k, j, l \in Nat :
            /\ Place(flat, chain, 1, u, i, k) /\ Place(flat, chain, 1, v, j, l)
            /\ i < j \/ (i = j /\ k < l)
      BY <1>4, <1>7 DEF Scanned
    <2>2. i = j /\ k = l
      <3>1. /\ i \in DOMAIN chain /\ k \in DOMAIN file[chain[i]].blocks
            /\ j \in DOMAIN chain /\ l \in DOMAIN file[chain[j]].blocks
            /\ file[chain[i]].blocks[k] = file[chain[j]].blocks[l]
        BY <1>7, <2>1 DEF Place
      <3> QED BY <1>1, <1>2, <3>1, OnePlace
    <2> QED BY <2>1, <2>2
  <1>8. flat \in Seq(Block)
    BY <1>4 DEF Scanned
  <1>9. \A y \in DOMAIN flat : flat[y] = b => y = x
    <2> SUFFICES ASSUME NEW y \in DOMAIN flat, flat[y] = b PROVE y = x
      OBVIOUS
    <2>1. x \in Nat /\ y \in Nat
      BY <1>8
    <2>2. ~(x < y) /\ ~(y < x)
      BY <1>6, <1>7
    <2> QED BY <2>1, <2>2
  <1>10. {y \in DOMAIN flat : flat[y] = b} = {x}
    BY <1>6, <1>9
  <1> QED BY <1>10, FS_Singleton

(* Run btree, ChainComplete: a scan along the leaves meets every inserted  *)
(* block exactly once, at every step of another insertion (balance writes  *)
(* a split page by page) and after any crash.                              *)
THEOREM ScanMeetsAll == Spec => []ChainComplete
  BY OrderedHolds, CompleteHolds, PTL

-----------------------------------------------------------------------------
(* As long as no crash has cut an insertion. *)

(* The keys of a leaf are not above the bounds of the leaves behind it.    *)
LEMMA LeafBelow ==
  ASSUME IInv, NEW lo, NEW lvl, NEW live, NEW chain, Tree(lo, lvl, live, chain), Tights(lo),
         NEW i \in DOMAIN chain, NEW k \in DOMAIN file[chain[i]].blocks,
         i + 1 \in DOMAIN chain
  PROVE  file[chain[i]].blocks[k].key <= lo[chain[i + 1]]
  <1>1. Chained(lo, chain)
    BY DEF Tree, Links
  <1>2. DOMAIN chain = 1..Len(chain) /\ Len(chain) \in Nat /\ i \in Nat /\ i < Len(chain)
    <2>1. DOMAIN chain = 1..Len(chain) /\ Len(chain) \in Nat
      BY <1>1, ChainFacts
    <2> QED BY <2>1
  <1>3. /\ chain[i] \in DOMAIN file /\ file[chain[i]].leaf
        /\ file[chain[i]].next = chain[i + 1] /\ chain[i + 1] # 0
    BY <1>1, <1>2, ChainFacts DEF Chained
  <1>4. Tight(lo, file[chain[i]])
    BY <1>3 DEF Tights
  <1> QED BY <1>3, <1>4 DEF Tight, Bound

LEMMA LeafAbove ==
  ASSUME IInv, NEW lo, NEW lvl, NEW live, NEW chain, Tree(lo, lvl, live, chain),
         NEW i \in DOMAIN chain, NEW k \in DOMAIN file[chain[i]].blocks
  PROVE  /\ lo[chain[i]] <= file[chain[i]].blocks[k].key
         /\ lo[chain[i]] \in Nat /\ file[chain[i]].blocks[k].key \in Nat
         /\ 1 \in DOMAIN file[chain[i]].blocks
  <1>1. Chained(lo, chain) /\ Heights(lo, lvl)
    BY DEF Tree, Links
  <1>2. PICK p : p = chain[i]
    OBVIOUS
  <1>3. p \in DOMAIN file /\ file[p].leaf
    BY <1>1, <1>2, ChainFacts DEF Chained
  <1>4. file[p] \in Node /\ lo[p] \in Nat
    BY <1>1, <1>3, FileFacts, HeightFacts
  <1>5. lo[p] <= file[p].blocks[k].key
    BY <1>1, <1>2, <1>3 DEF Heights, Low
  <1>6. file[p].blocks[k].key \in Nat
    BY <1>2, <1>4, KeyFacts
  <1>7. 1 \in DOMAIN file[p].blocks
    <2>1. Len(file[p].blocks) \in Nat /\ DOMAIN file[p].blocks = 1..Len(file[p].blocks)
      BY <1>4 DEF Node
    <2> QED BY <1>2, <2>1
  <1> QED BY <1>2, <1>4, <1>5, <1>6, <1>7

LEMMA LeavesInOrder ==
  ASSUME IInv, NEW lo, NEW lvl, NEW live, NEW chain, Tree(lo, lvl, live, chain), Tights(lo),
         NEW i \in DOMAIN chain, NEW j \in DOMAIN chain, i <= j
  PROVE  lo[chain[i]] <= lo[chain[j]] /\ lo[chain[i]] \in Nat /\ lo[chain[j]] \in Nat
  <1>1. Chained(lo, chain) /\ Heights(lo, lvl)
    BY DEF Tree, Links
  <1>2. DOMAIN chain = 1..Len(chain) /\ Len(chain) \in Nat
    BY <1>1, ChainFacts
  <1>3. \A x \in DOMAIN chain : chain[x] \in DOMAIN file /\ lo[chain[x]] \in Nat
    BY <1>1, ChainFacts, HeightFacts
  <1>4. ASSUME NEW x \in DOMAIN chain, x + 1 \in DOMAIN chain PROVE lo[chain[x]] <= lo[chain[x + 1]]
    <2>1. 1 \in DOMAIN file[chain[x]].blocks
      <3>1. file[chain[x]] \in Node /\ Fits(file, file[chain[x]])
        BY <1>3, FileFacts DEF IInv, Pages
      <3>2. Len(file[chain[x]].blocks) >= 1 /\ Len(file[chain[x]].blocks) \in Nat
        BY <3>1 DEF Fits, Node
      <3>3. DOMAIN file[chain[x]].blocks = 1..Len(file[chain[x]].blocks)
        BY <3>1 DEF Node
      <3> QED BY <3>2, <3>3
    <2>2. PICK e : e = file[chain[x]].blocks[1].key
      OBVIOUS
    <2>3. lo[chain[x]] <= e /\ e \in Nat
      BY <2>1, <2>2, LeafAbove
    <2>4. e <= lo[chain[x + 1]]
      BY <1>4, <2>1, <2>2, LeafBelow
    <2> QED BY <1>3, <1>4, <2>3, <2>4
  <1> DEFINE S == {x \in 0..Len(chain) : x # 0 /\ i <= x => lo[chain[i]] <= lo[chain[x]]}
  <1>5. 0 \in S
    BY <1>2
  <1>6. ASSUME NEW x \in 0..Len(chain), x # Len(chain), x \in S PROVE x + 1 \in S
    <2>1. x + 1 \in DOMAIN chain /\ x + 1 \in 0..Len(chain) /\ i \in Nat /\ i >= 1 /\ x \in Nat
      <3>1. PICK n : n = Len(chain)
        OBVIOUS
      <3>2. n \in Nat /\ i \in 1..n /\ x \in 0..n /\ x # n
        BY <1>2, <1>6, <3>1
      <3>3. x + 1 \in 1..n /\ x + 1 \in 0..n /\ i \in Nat /\ i >= 1 /\ x \in Nat
        BY ONLY <3>2
      <3> QED BY <1>2, <3>1, <3>3
    <2>2. CASE i <= x
      <3>1. x \in DOMAIN chain /\ x # 0
        BY <1>2, <2>1, <2>2
      <3>2. lo[chain[i]] <= lo[chain[x]] /\ lo[chain[x]] <= lo[chain[x + 1]]
        BY <1>4, <1>6, <2>1, <2>2, <3>1
      <3>3. lo[chain[i]] \in Nat /\ lo[chain[x]] \in Nat /\ lo[chain[x + 1]] \in Nat
        BY <1>3, <2>1, <3>1
      <3>4. lo[chain[i]] <= lo[chain[x + 1]]
        BY ONLY <3>2, <3>3
      <3> QED BY <2>1, <3>4
    <2>3. CASE ~(i <= x)
      <3>1. i <= x + 1 => i = x + 1
        BY <2>1, <2>3
      <3>2. lo[chain[i]] <= lo[chain[i]]
        BY <1>3
      <3> QED BY <2>1, <3>1, <3>2
    <2> QED BY <2>2, <2>3
  <1>7. \A x \in 0..Len(chain) : x \in S
    <2> HIDE DEF S
    <2>1. \A x \in 0..Len(chain) : x # Len(chain) /\ x \in S => x + 1 \in S
      BY <1>6
    <2> QED BY ONLY <1>2, <1>5, <2>1, UpTo, Zenon
  <1>8. j \in 0..Len(chain) /\ j # 0
    BY <1>2
  <1> QED BY <1>3, <1>7, <1>8

(* The blocks of an earlier leaf are not above those of a later one.       *)
LEMMA BlocksInOrder ==
  ASSUME IInv, NEW lo, NEW lvl, NEW live, NEW chain, Tree(lo, lvl, live, chain), Tights(lo),
         NEW i \in DOMAIN chain, NEW j \in DOMAIN chain, i < j,
         NEW k \in DOMAIN file[chain[i]].blocks
  PROVE  file[chain[i]].blocks[k].key <= lo[chain[j]]
  <1>1. DOMAIN chain = 1..Len(chain) /\ Len(chain) \in Nat
    BY ChainFacts DEF Tree, Links
  <1>2. i + 1 \in DOMAIN chain /\ i + 1 <= j
    BY <1>1
  <1>3. PICK e : e = file[chain[i]].blocks[k].key
    OBVIOUS
  <1>4. e <= lo[chain[i + 1]]
    BY <1>2, <1>3, LeafBelow
  <1>5. lo[chain[i + 1]] <= lo[chain[j]] /\ lo[chain[i + 1]] \in Nat /\ lo[chain[j]] \in Nat
    BY <1>2, LeavesInOrder
  <1>6. e \in Nat
    BY <1>3, LeafAbove
  <1> QED BY <1>3, <1>4, <1>5, <1>6

LEMMA SortedHolds == OInv => ChainSorted
  <1> SUFFICES ASSUME OInv, torn = 0, NEW flat, flat = Chain, NEW y \in 2..Len(flat)
               PROVE  flat[y - 1].key <= flat[y].key
    BY DEF ChainSorted
  <1>1. IInv
    BY DEF OInv
  <1>2. PICK lo, lvl, live, chain : Tree(lo, lvl, live, chain) /\ Tights(lo)
    <2>1. PICK lo, lvl, live, chain, hi, par :
            Tree(lo, lvl, live, chain) /\ Whole(lo, hi, par)
      BY DEF OInv, Ordered
    <2> QED BY <2>1 DEF Whole, Order
  <1>3. CASE file = <<>>
    <2>1. flat = <<>>
      BY <1>3 DEF Chain
    <2>2. Len(flat) = 0
      BY <2>1
    <2> QED BY <2>2
  <1>4. CASE file # <<>>
    <2>1. Scanned(flat, chain, 1)
      BY <1>1, <1>2, <1>4, ChainScanned
    <2>2. PICK x : x = y - 1
      OBVIOUS
    <2>3. x \in DOMAIN flat /\ y \in DOMAIN flat /\ x < y
      <3>1. DOMAIN flat = 1..Len(flat) /\ Len(flat) \in Nat
        BY <2>1 DEF Scanned
      <3> QED BY <2>2, <3>1
    <2>4. PICK i, k, j, l \in Nat :
            /\ Place(flat, chain, 1, x, i, k) /\ Place(flat, chain, 1, y, j, l)
            /\ i < j \/ (i = j /\ k < l)
      BY <2>1, <2>3 DEF Scanned
    <2>5. /\ i \in DOMAIN chain /\ k \in DOMAIN file[chain[i]].blocks
          /\ j \in DOMAIN chain /\ l \in DOMAIN file[chain[j]].blocks
          /\ flat[x] = file[chain[i]].blocks[k] /\ flat[y] = file[chain[j]].blocks[l]
      BY <2>4 DEF Place
    <2>6. PICK d, e : d = file[chain[i]].blocks[k].key /\ e = file[chain[j]].blocks[l].key
      OBVIOUS
    <2>7. d \in Nat /\ e \in Nat /\ lo[chain[j]] \in Nat /\ lo[chain[j]] <= e
      BY <1>1, <1>2, <2>5, <2>6, LeafAbove
    <2>8. CASE i < j
      <3>1. d <= lo[chain[j]]
        BY <1>1, <1>2, <2>5, <2>6, <2>8, BlocksInOrder
      <3> QED BY <2>2, <2>5, <2>6, <2>7, <3>1
    <2>9. CASE i = j /\ k < l
      <3>1. chain[i] \in DOMAIN file /\ file[chain[i]].leaf
        BY <1>1, <1>2, <2>5, ChainFacts DEF Tree, Links, Chained
      <3>2. Sorted(file[chain[i]])
        BY <1>2, <3>1 DEF Tree, Contents, Fine
      <3>3. d <= e
        BY <2>5, <2>6, <2>9, <3>2 DEF Sorted
      <3> QED BY <2>2, <2>5, <2>6, <3>3
    <2> QED BY <2>4, <2>8, <2>9
  <1> QED BY <1>3, <1>4

(* Run btree, ChainSorted: as long as no crash has cut an insertion, the   *)
(* scan meets the blocks in the order of their keys, on which the bounds   *)
(* of RangeQuery rely, at every step of an insertion.                      *)
THEOREM ScanIsSorted == Spec => []ChainSorted
  BY OrderedHolds, SortedHolds, PTL

(* Where search ends for a key, no leaf before has a block of it.          *)
LEMMA SearchFirstHolds == OInv => SearchFirst
  <1> SUFFICES ASSUME OInv, torn = 0, NEW b \in inserted, NEW flat, flat = ChainFrom(LeafFor(b.key))
               PROVE  b \in ToSet(flat)
    BY DEF SearchFirst
  <1>1. IInv
    BY DEF OInv
  <1>2. PICK lo, lvl, live, chain : Tree(lo, lvl, live, chain) /\ Tights(lo)
    <2>1. PICK lo, lvl, live, chain, hi, par :
            Tree(lo, lvl, live, chain) /\ Whole(lo, hi, par)
      BY DEF OInv, Ordered
    <2> QED BY <2>1 DEF Whole, Order
  <1>3. /\ file # <<>>
        /\ \E i \in DOMAIN chain :
             \E k \in DOMAIN file[chain[i]].blocks : file[chain[i]].blocks[k] = b
    BY <1>1, <1>2, InLeaf
  <1>4. PICK i \in DOMAIN chain : \E k \in DOMAIN file[chain[i]].blocks : file[chain[i]].blocks[k] = b
    BY <1>3
  <1>5. PICK k \in DOMAIN file[chain[i]].blocks : file[chain[i]].blocks[k] = b
    BY <1>4
  <1>6. Heights(lo, lvl) /\ Links(lo, live, chain) /\ Chained(lo, chain)
    BY <1>2 DEF Tree, Links
  <1>7. b.key \in Key /\ b.key \in Nat
    <2>1. b \in Block
      BY <1>1 DEF IInv, TypeOK
    <2> QED BY <2>1, BlockFacts
  <1>8. PICK m \in DOMAIN chain : LeafFor(b.key) = chain[m] /\ lo[chain[m]] < b.key
    BY <1>1, <1>3, <1>6, <1>7, LeafForEnds
  <1>9. DOMAIN chain = 1..Len(chain) /\ Len(chain) \in Nat
    BY <1>1, <1>6, ChainFacts
  <1>10. m <= i
    <2> SUFFICES ASSUME i < m PROVE FALSE
      BY <1>9
    <2>1. b.key <= lo[chain[m]]
      BY <1>1, <1>2, <1>5, BlocksInOrder
    <2>2. lo[chain[m]] \in Nat
      BY <1>1, <1>2, LeavesInOrder, <1>9
    <2> QED BY <1>7, <1>8, <2>1, <2>2
  <1>11. Scanned(flat, chain, m)
    BY <1>1, <1>3, <1>6, <1>8, Scans
  <1>12. PICK x \in DOMAIN flat : flat[x] = b
    BY <1>5, <1>10, <1>11 DEF Scanned
  <1> QED BY <1>12 DEF ToSet

(* Run btree, SearchFirst: where Btree::search ends for a key, the walk    *)
(* along nextSibling meets every inserted block of the key, at every step  *)
(* of an insertion that no crash has cut.                                  *)
THEOREM SearchFindsFirst == Spec => []SearchFirst
  BY OrderedHolds, SearchFirstHolds, PTL

(* Between two insertions the key is not above what search descends to.    *)
LEMMA DescentBelow ==
  ASSUME IInv, pc = "idle", file # <<>>, NEW lo, NEW lvl, Heights(lo, lvl),
         NEW live, NEW chain, Reached(live, chain), NEW hi, NEW par, Highs(lo, hi, par),
         NEW key \in Key, NEW page, Descent(page, key)
  PROVE  \A d \in 0..Len(file) : key <= hi[page[d]]
  <1> DEFINE S == {d \in 0..Len(file) : key <= hi[page[d]]}
  <1>1. Len(file) \in Nat /\ 1 \in live /\ 1 \in DOMAIN file /\ path = <<>>
    BY Shape DEF Reached
  <1>2. key \in 0..MaxKey /\ key # 0 /\ key <= Inf
    BY BtreeAssumption DEF Key, Inf
  <1>3. \A p \in DOMAIN file : Own(p)
    <2>1. DOMAIN path = {}
      BY <1>1
    <2> QED BY <2>1 DEF Own, Pending
  <1>4. 0 \in S
    <2>1. page[0] = 1 /\ 0 \in 0..Len(file)
      BY <1>1 DEF Descent
    <2> QED BY <1>2, <2>1 DEF Highs
  <1>5. ASSUME NEW d \in 0..Len(file), d # Len(file), d \in S PROVE d + 1 \in S
    <2>1. d + 1 \in 0..Len(file) /\ d + 1 # 0 /\ (d + 1) - 1 = d
      BY <1>1, <1>5
    <2>2. PICK p : p = page[d]
      OBVIOUS
    <2>3. p \in DOMAIN file /\ key <= hi[p]
      BY <1>2, <1>5, <2>2, DescentLive
    <2>4. page[d + 1] = IF file[p].leaf THEN p ELSE file[p].children[Turn(p, key)]
      BY <2>1, <2>2 DEF Descent
    <2>5. CASE file[p].leaf
      BY <2>1, <2>3, <2>4, <2>5
    <2>6. CASE ~file[p].leaf
      <3>1. PICK k : k = Child(file[p], key)
        OBVIOUS
      <3>2. Turn(p, key) = k
        BY <1>2, <3>1 DEF Turn
      <3>3. /\ k \in 1..(Len(file[p].blocks) + 1)
            /\ Len(file[p].children) = Len(file[p].blocks) + 1
            /\ DOMAIN file[p].blocks = 1..Len(file[p].blocks) /\ Len(file[p].blocks) \in Nat
        BY <1>2, <2>3, <2>6, <3>2, TurnFacts, FileFacts
      <3>4. PICK c : c = file[p].children[k]
        OBVIOUS
      <3>5. High(lo, hi, par, file[p], p)
        BY <1>3, <2>3 DEF Highs
      <3>6. key <= hi[c]
        <4>1. CASE k \in 1..Len(file[p].blocks)
          <5>1. key <= file[p].blocks[k].key
            BY <2>3, <3>1, <4>1, FileFacts, ChildBounds
          <5>2. hi[c] = file[p].blocks[k].key
            BY <2>6, <3>3, <3>4, <3>5, <4>1 DEF High
          <5> QED BY <5>1, <5>2
        <4>2. CASE k = Len(file[p].children)
          <5>1. hi[c] = hi[p]
            BY <2>6, <3>4, <3>5, <4>2 DEF High
          <5> QED BY <2>3, <5>1
        <4>3. k \in 1..Len(file[p].blocks) \/ k = Len(file[p].children)
          BY <3>3
        <4> QED BY <4>1, <4>2, <4>3
      <3> QED BY <2>1, <2>4, <2>6, <3>2, <3>4, <3>6
    <2> QED BY <2>5, <2>6
  <1>6. \A d \in 0..Len(file) : d \in S
    <2> HIDE DEF S
    <2>1. \A d \in 0..Len(file) : d # Len(file) /\ d \in S => d + 1 \in S
      BY <1>5
    <2> QED BY ONLY <1>1, <1>4, <2>1, UpTo
  <1> QED BY <1>6

LEMMA LeafForBounds ==
  ASSUME IInv, pc = "idle", file # <<>>, NEW lo, NEW lvl, Heights(lo, lvl),
         NEW live, NEW chain, Links(lo, live, chain), NEW hi, NEW par, Highs(lo, hi, par),
         NEW key \in Key
  PROVE  \E m \in DOMAIN chain : /\ LeafFor(key) = chain[m] /\ lo[chain[m]] < key
                                 /\ key <= Bound(lo, file[chain[m]].next)
  <1>1. Reached(live, chain)
    BY DEF Links
  <1>2. PICK page : Descent(page, key) /\ LeafFor(key) = page[Len(file)]
    BY <1>1, LeafForPages
  <1>3. key \in 0..MaxKey /\ key # 0
    BY BtreeAssumption DEF Key
  <1>4. PICK p : p = page[Len(file)]
    OBVIOUS
  <1>5. p \in live /\ p \in DOMAIN file /\ file[p].leaf /\ lo[p] < key
    BY <1>1, <1>2, <1>3, <1>4, DescentEnds DEF Beyond
  <1>6. key <= hi[p]
    <2>1. Len(file) \in Nat
      BY Shape
    <2>2. Len(file) \in 0..Len(file)
      BY <2>1
    <2> QED BY <1>1, <1>2, <1>4, <2>2, DescentBelow
  <1>7. Own(p)
    <2>1. DOMAIN path = {}
      BY Shape
    <2> QED BY <2>1 DEF Own, Pending
  <1>8. hi[p] = Bound(lo, file[p].next)
    BY <1>5, <1>7 DEF Highs, High
  <1> QED BY <1>1, <1>2, <1>4, <1>5, <1>6, <1>8 DEF Reached

LEMMA MissesHolds == OInv => MissesAreSeparators
  <1> SUFFICES ASSUME OInv, pc = "idle", torn = 0, NEW b \in inserted, NEW key, key = b.key,
                      key \notin Separators
               PROVE  Found(key)
    BY DEF MissesAreSeparators
  <1>1. IInv
    BY DEF OInv
  <1>2. PICK lo, lvl, live, chain, hi, par :
          /\ Tree(lo, lvl, live, chain)
          /\ Tights(lo) /\ Highs(lo, hi, par) /\ LowsKnown(lo)
    BY DEF OInv, Ordered, Whole, Order
  <1>3. /\ file # <<>>
        /\ \E i \in DOMAIN chain :
             \E k \in DOMAIN file[chain[i]].blocks : file[chain[i]].blocks[k] = b
    BY <1>1, <1>2, InLeaf
  <1>4. PICK i \in DOMAIN chain : \E k \in DOMAIN file[chain[i]].blocks : file[chain[i]].blocks[k] = b
    BY <1>3
  <1>5. PICK k \in DOMAIN file[chain[i]].blocks : file[chain[i]].blocks[k] = b
    BY <1>4
  <1>6. Heights(lo, lvl) /\ Links(lo, live, chain) /\ Chained(lo, chain)
    BY <1>2 DEF Tree, Links
  <1>7. key \in Key /\ key \in Nat
    <2>1. b \in Block
      BY <1>1 DEF IInv, TypeOK
    <2> QED BY <2>1, BlockFacts
  <1>8. PICK m \in DOMAIN chain : /\ LeafFor(key) = chain[m] /\ lo[chain[m]] < key
                                  /\ key <= Bound(lo, file[chain[m]].next)
    BY <1>1, <1>2, <1>3, <1>6, <1>7, LeafForBounds
  <1>9. DOMAIN chain = 1..Len(chain) /\ Len(chain) \in Nat
    BY <1>1, <1>6, ChainFacts
  <1>10. ~(i < m)
    <2> SUFFICES ASSUME i < m PROVE FALSE
      OBVIOUS
    <2>1. key <= lo[chain[m]]
      BY <1>1, <1>2, <1>5, BlocksInOrder
    <2>2. lo[chain[m]] \in Nat
      BY <1>1, <1>2, LeavesInOrder, <1>9
    <2> QED BY <1>7, <1>8, <2>1, <2>2
  <1>11. CASE i = m
    BY <1>3, <1>5, <1>8, <1>11 DEF Found
  <1>12. CASE m < i
    <2>1. m + 1 \in DOMAIN chain /\ m + 1 <= i /\ m < Len(chain)
      BY <1>9, <1>12
    <2>2. PICK q : q = chain[m + 1]
      OBVIOUS
    <2>3. q # 0 /\ q \in DOMAIN file /\ file[chain[m]].next = q
      BY <1>1, <1>6, <2>1, <2>2, ChainFacts DEF Chained
    <2>4. key <= lo[q]
      BY <1>8, <2>3 DEF Bound
    <2>5. lo[q] <= lo[chain[i]] /\ lo[q] \in Nat /\ lo[chain[i]] \in Nat
      BY <1>1, <1>2, <2>1, <2>2, LeavesInOrder
    <2>6. lo[chain[i]] <= key
      BY <1>1, <1>2, <1>5, LeafAbove
    <2>7. lo[q] = key
      BY <1>7, <2>4, <2>5, <2>6
    <2>8. key # 0
      BY <1>7 DEF Key
    <2>9. Known(key)
      BY <1>2, <2>3, <2>7, <2>8 DEF LowsKnown
    <2>10. path = <<>> /\ DOMAIN path = {}
      BY <1>1, Shape
    <2>11. PICK p \in DOMAIN file : /\ ~file[p].leaf
                                   /\ \E x \in DOMAIN file[p].blocks : file[p].blocks[x].key = key
      BY <2>9, <2>10 DEF Known
    <2>12. key \in Separators
      BY <2>11 DEF Separators
    <2> QED BY <2>12
  <1> QED BY <1>9, <1>10, <1>11, <1>12

(* Run btree, MissesAreSeparators: between two insertions, as long as no   *)
(* crash has cut one, Btree::search misses no key but one that is a        *)
(* separator of an inner node.                                             *)
THEOREM SearchMissesSeparators == Spec => []MissesAreSeparators
  BY OrderedHolds, MissesHolds, PTL

=============================================================================
