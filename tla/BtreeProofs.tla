---------------------------- MODULE BtreeProofs ----------------------------
(***************************************************************************)
(* Proofs about the index: whatever is inserted and wherever the daemon    *)
(* dies, the copies of the insertion and the pages of the file are well    *)
(* formed.  The invariant says which copy may have a block too many, that  *)
(* the copies above it still lead to each other, and that no page but the  *)
(* root ever changes from a leaf to an inner node.                         *)
(***************************************************************************)
EXTENDS Btree, TLAPS, SequenceTheorems, WellFoundedInduction

(* A set of numbers that is not empty has a least element.                 *)
LEMMA LeastLemma ==
  ASSUME NEW S \in SUBSET Nat, S # {}
  PROVE  Min(S) \in S /\ \A y \in S : Min(S) <= y
  <1> DEFINE R == OpToRel(<, Nat)
  <1>1. \A x, y \in Nat : <<y, x>> \in R <=> y < x
    BY DEF OpToRel
  <1>2. IsWellFoundedOn(R, Nat)
    BY NatLessThanWellFounded, Zenon
  <1> HIDE DEF R
  <1>3. S \subseteq Nat /\ S # {}
    OBVIOUS
  <1>4. \E x \in S : \A y \in S : ~(<<y, x>> \in R)
    BY <1>2, <1>3, WFMin, Zenon
  <1>5. PICK x \in S : \A y \in S : ~(<<y, x>> \in R)
    BY <1>4
  <1>6. ASSUME NEW y \in S PROVE x <= y
    <2>1. x \in Nat /\ y \in Nat /\ ~(<<y, x>> \in R)
      BY <1>5
    <2>2. ~(y < x)
      BY <1>1, <2>1
    <2> QED BY <2>1, <2>2
  <1> QED BY <1>6 DEF Min

(* A set of numbers below a bound has a greatest one.                      *)
LEMMA GreatestLemma ==
  ASSUME NEW n \in Nat, NEW S \in SUBSET (1..n), S # {}
  PROVE  Max(S) \in S /\ \A y \in S : Max(S) >= y
  <1> DEFINE T == {n - x : x \in S}
  <1>1. \A x \in S : n - x \in Nat
    OBVIOUS
  <1>2. T \in SUBSET Nat
    BY <1>1
  <1>3. T # {}
    OBVIOUS
  <1> HIDE DEF T
  <1>4. PICK m \in T : \A y \in T : m <= y
    BY <1>2, <1>3, LeastLemma
  <1>5. PICK x \in S : m = n - x
    BY <1>4 DEF T
  <1>6. \A y \in S : n - y \in T
    BY DEF T
  <1>7. \A y \in S : x >= y
    BY <1>4, <1>5, <1>6
  <1> QED BY <1>7 DEF Max

(* Where a key is looked for: under one of the children.                   *)
LEMMA ChildLemma ==
  ASSUME NEW node \in Node, NEW key \in Key
  PROVE  Child(node, key) \in 1..(Len(node.blocks) + 1)
  <1> DEFINE I == {i \in 1..Len(node.blocks) : node.blocks[i].key >= key}
  <1>1. Len(node.blocks) \in Nat
    BY DEF Node
  <1>2. CASE I = {}
    BY <1>1, <1>2 DEF Child, SelectInSeq
  <1>3. CASE I # {}
    <2>1. Min(I) \in I
      BY <1>3, LeastLemma
    <2>2. Child(node, key) = Min(I)
      <3>1. Min(I) # 0
        BY <2>1
      <3> QED BY <1>3, <3>1 DEF Child, SelectInSeq
    <2> QED BY <1>1, <2>1, <2>2
  <1> QED BY <1>2, <1>3

(* insertAtIndex on a list: one more element, and no other new one.        *)
LEMMA InsertLemma ==
  ASSUME NEW T, NEW s \in Seq(T), NEW i \in 1..(Len(s) + 1), NEW e \in T
  PROVE  /\ InsertAt(s, i, e) \in Seq(T)
         /\ Len(InsertAt(s, i, e)) = Len(s) + 1
         /\ \A k \in DOMAIN InsertAt(s, i, e) :
              InsertAt(s, i, e)[k] = e \/ \E l \in DOMAIN s : InsertAt(s, i, e)[k] = s[l]
  <1> DEFINE left == SubSeq(s, 1, i - 1)
             right == SubSeq(s, i, Len(s))
  <1>1. /\ left \in Seq(T) /\ Len(left) = i - 1
        /\ \A k \in 1..(i - 1) : left[k] = s[k]
    OBVIOUS
  <1>2. /\ right \in Seq(T) /\ Len(right) = Len(s) + 1 - i
        /\ \A k \in 1..(Len(s) + 1 - i) : right[k] = s[i + k - 1]
    OBVIOUS
  <1> HIDE DEF left, right
  <1> DEFINE a == left \o <<e>>
  <1>3. /\ a \in Seq(T) /\ Len(a) = i
        /\ \A k \in 1..i : a[k] = IF k < i THEN left[k] ELSE e
    BY <1>1
  <1> HIDE DEF a
  <1>4. /\ a \o right \in Seq(T) /\ Len(a \o right) = Len(s) + 1
        /\ \A k \in 1..(Len(s) + 1) :
             (a \o right)[k] = IF k <= i THEN a[k] ELSE right[k - i]
    <2>1. /\ a \o right \in Seq(T) /\ Len(a \o right) = Len(a) + Len(right)
          /\ \A k \in 1..(Len(a) + Len(right)) :
               (a \o right)[k] = IF k <= Len(a) THEN a[k] ELSE right[k - Len(a)]
      BY <1>2, <1>3, ConcatProperties
    <2>2. Len(a) = i /\ Len(a) + Len(right) = Len(s) + 1
      BY <1>2, <1>3
    <2> QED BY <2>1, <2>2
  <1>5. InsertAt(s, i, e) = a \o right
    BY DEF InsertAt, a, left, right
  <1>6. Len(s) \in Nat /\ DOMAIN s = 1..Len(s) /\ DOMAIN (a \o right) = 1..(Len(s) + 1)
    BY <1>4
  <1>7. ASSUME NEW k \in 1..(Len(s) + 1)
        PROVE  (a \o right)[k] = e \/ \E l \in DOMAIN s : (a \o right)[k] = s[l]
    <2>1. CASE k < i
      <3>1. k \in 1..(i - 1) /\ k \in 1..i /\ k <= i /\ k \in DOMAIN s
        BY <1>6, <2>1
      <3>2. (a \o right)[k] = a[k] /\ a[k] = left[k] /\ left[k] = s[k]
        BY <1>1, <1>3, <1>4, <2>1, <3>1
      <3> QED BY <3>1, <3>2
    <2>2. CASE k = i
      BY <1>3, <1>4, <2>2
    <2>3. CASE k > i
      <3>1. k - i \in 1..(Len(s) + 1 - i) /\ i + (k - i) - 1 = k - 1 /\ ~(k <= i)
        BY <1>6, <2>3
      <3>2. right[k - i] = s[k - 1]
        BY <1>2, <3>1
      <3>3. (a \o right)[k] = right[k - i]
        BY <1>4, <3>1
      <3>4. k - 1 \in DOMAIN s
        BY <1>6, <2>3
      <3> QED BY <3>2, <3>3, <3>4
    <2>4. k < i \/ k = i \/ k > i
      BY <1>6
    <2> QED BY <2>1, <2>2, <2>3, <2>4
  <1> QED BY <1>4, <1>5, <1>6, <1>7

(* A part of a list.                                                       *)
LEMMA PartLemma ==
  ASSUME NEW T, NEW s \in Seq(T), NEW a \in 1..(Len(s) + 1), NEW b \in (a - 1)..Len(s)
  PROVE  /\ SubSeq(s, a, b) \in Seq(T)
         /\ Len(SubSeq(s, a, b)) = b - a + 1
         /\ \A k \in DOMAIN SubSeq(s, a, b) : \E q \in DOMAIN s : SubSeq(s, a, b)[k] = s[q]
         /\ a = 1 => \A k \in DOMAIN SubSeq(s, a, b) :
                       k \in DOMAIN s /\ SubSeq(s, a, b)[k] = s[k]
  <1>1. /\ Len(s) \in Nat /\ DOMAIN s = 1..Len(s)
        /\ a \in Int /\ b \in Int /\ \A i \in a..b : s[i] \in T
    OBVIOUS
  <1>2. /\ SubSeq(s, a, b) \in Seq(T)
        /\ Len(SubSeq(s, a, b)) = IF a <= b THEN b - a + 1 ELSE 0
        /\ \A i \in 1..(b - a + 1) : SubSeq(s, a, b)[i] = s[a + i - 1]
    BY <1>1, SubSeqProperties
  <1> DEFINE p == SubSeq(s, a, b)
  <1> HIDE DEF p
  <1>3. p \in Seq(T) /\ Len(p) = b - a + 1 /\ \A i \in 1..(b - a + 1) : p[i] = s[a + i - 1]
    BY <1>1, <1>2 DEF p
  <1>4. DOMAIN p = 1..(b - a + 1)
    BY <1>3
  <1>5. \A k \in 1..(b - a + 1) : a + k - 1 \in 1..Len(s)
    BY <1>1
  <1>6. a = 1 => \A k \in 1..(b - a + 1) : a + k - 1 = k
    OBVIOUS
  <1> QED BY <1>1, <1>3, <1>4, <1>5, <1>6 DEF p

-----------------------------------------------------------------------------
(* The inductive invariant, in named parts. *)

(* The children of a node are one more than its blocks, pages of a file f  *)
(* other than the root, and of one kind.                                   *)
Sound(f, n) ==
  ~n.leaf => /\ Len(n.children) = Len(n.blocks) + 1
             /\ \A i \in DOMAIN n.children : n.children[i] \in DOMAIN f \ {1}
             /\ \A i, j \in DOMAIN n.children :
                  f[n.children[i]].leaf = f[n.children[j]].leaf
Fits(f, n) == Len(n.blocks) \in 1..Capacity(n) /\ Sound(f, n)
Full(n) == Len(n.blocks) = Capacity(n) + 1

(* An element e of path, the i-th: the copy of a page of the file, the     *)
(* root if it is the first.  The root alone may be of another kind in the  *)
(* file than in the copy, and so is nobody's child.                        *)
CopyOf(f, e, i) ==
  /\ e.page \in DOMAIN f /\ (e.page = 1 <=> i = 1)
  /\ Sound(f, e.node) /\ Len(e.node.blocks) >= 1
  /\ i # 1 => f[e.page].leaf = e.node.leaf

(* The step down from an element a to the next one.                        *)
Chosen(a) == ~a.node.leaf => a.j \in DOMAIN a.node.children
Under(f, a, b) ==
  /\ ~a.node.leaf
  /\ \A k \in DOMAIN a.node.children : f[a.node.children[k]].leaf = b.node.leaf

(* Elements that balance has not reached are as the descent left them.     *)
Open(i) == \/ pc = "descend"
           \/ pc = "split" /\ i < at
           \/ pc = "left" /\ i + 1 < at

(* The one copy that has a block too many, or may have.                    *)
Surplus(i) == \/ pc \in {"split", "second", "link"} /\ i = at
              \/ pc = "left" /\ i + 1 = at

Copies ==
  \A i \in DOMAIN path :
    /\ CopyOf(file, path[i], i)
    /\ ~Surplus(i) => Len(path[i].node.blocks) <= Capacity(path[i].node)
    /\ Open(i) => /\ Chosen(path[i])
                  /\ i + 1 \in DOMAIN path => Under(file, path[i], path[i + 1])

(* What the place in the code says of path and of the end of the file.     *)
Kind(p) == file[p].leaf = path[1].node.leaf
Phase ==
  /\ pc \in {"idle", "descend"} => at = 0
  /\ pc = "idle" <=> path = <<>>
  /\ pc \notin {"idle", "descend"} => at >= 1
  /\ pc \in {"split", "second", "link"} => Full(path[at].node)
  /\ pc = "left" => at > 1
  /\ pc \in {"second", "link"} => at = 1
  /\ pc = "second" => Len(file) >= 2 /\ Kind(Len(file))
  /\ pc = "link" => Len(file) >= 3 /\ Kind(Len(file)) /\ Kind(Len(file) - 1)

Pages == \A p \in DOMAIN file : Fits(file, file[p])

IInv == TypeOK /\ Pages /\ Phase /\ Copies

-----------------------------------------------------------------------------
(* Lemmas on nodes. *)

(* A node is as sound in a file that has more pages, if none changes kind. *)
LEMMA SoundGrows ==
  ASSUME NEW f, NEW g, DOMAIN f \subseteq DOMAIN g,
         \A p \in DOMAIN f \ {1} : g[p].leaf = f[p].leaf,
         NEW n, Sound(f, n)
  PROVE  Sound(g, n)
  BY DEF Sound

LEMMA NodeFacts ==
  ASSUME NEW n \in Node
  PROVE  /\ n.leaf \in BOOLEAN /\ n.blocks \in Seq(Block) /\ n.children \in Seq(Nat \ {0})
         /\ n.next \in Nat /\ Len(n.blocks) \in Nat /\ Len(n.children) \in Nat
         /\ DOMAIN n.blocks = 1..Len(n.blocks) /\ DOMAIN n.children = 1..Len(n.children)
         /\ Capacity(n) \in Nat \ {0} /\ (~n.leaf => Capacity(n) >= 2)
  BY BtreeAssumption DEF Node, Capacity

LEMMA AddSortedLemma ==
  ASSUME NEW n \in Node, NEW b \in Block
  PROVE  /\ AddSorted(n, b) \in Node
         /\ Len(AddSorted(n, b).blocks) = Len(n.blocks) + 1
         /\ AddSorted(n, b).leaf = n.leaf
  <1> DEFINE I == {i \in 1..Len(n.blocks) : n.blocks[i].key <= b.key}
             last == IF I # {} THEN Max(I) ELSE 0
  <1>1. last \in 0..Len(n.blocks)
    <2>1. Len(n.blocks) \in Nat
      BY NodeFacts
    <2>2. I # {} => Max(I) \in I
      BY <2>1, GreatestLemma
    <2> QED BY <2>1, <2>2
  <1>2. AddSorted(n, b) = [n EXCEPT !.blocks = InsertAt(n.blocks, last + 1, b)]
    BY DEF AddSorted, SelectLastInSeq
  <1> HIDE DEF last
  <1>3. last + 1 \in 1..(Len(n.blocks) + 1)
    BY <1>1, NodeFacts
  <1>4. /\ InsertAt(n.blocks, last + 1, b) \in Seq(Block)
        /\ Len(InsertAt(n.blocks, last + 1, b)) = Len(n.blocks) + 1
    BY <1>3, NodeFacts, InsertLemma
  <1> QED BY <1>2, <1>4 DEF Node

(* A parent with the new page behind the child that was split.             *)
LEMMA AddChildLemma ==
  ASSUME NEW f, NEW n \in Node, ~n.leaf, Sound(f, n),
         NEW j \in DOMAIN n.children, NEW b \in Block,
         NEW page \in DOMAIN f \ {1}, page \in Nat \ {0},
         \A k \in DOMAIN n.children : f[n.children[k]].leaf = f[page].leaf
  PROVE  LET p == AddChild(n, j, b, page)
         IN  /\ p \in Node /\ ~p.leaf /\ p.next = n.next
             /\ Len(p.blocks) = Len(n.blocks) + 1
             /\ Sound(f, p)
             /\ \A k \in DOMAIN p.children : f[p.children[k]].leaf = f[page].leaf
             /\ DOMAIN n.children \subseteq DOMAIN p.children
  <1> DEFINE p == AddChild(n, j, b, page)
  <1>1. /\ Len(n.children) = Len(n.blocks) + 1 /\ j \in 1..(Len(n.blocks) + 1)
        /\ j + 1 \in 1..(Len(n.children) + 1)
    BY NodeFacts DEF Sound
  <1>2. /\ InsertAt(n.blocks, j, b) \in Seq(Block)
        /\ Len(InsertAt(n.blocks, j, b)) = Len(n.blocks) + 1
    BY <1>1, NodeFacts, InsertLemma
  <1>3. /\ InsertAt(n.children, j + 1, page) \in Seq(Nat \ {0})
        /\ Len(InsertAt(n.children, j + 1, page)) = Len(n.children) + 1
        /\ \A k \in DOMAIN InsertAt(n.children, j + 1, page) :
             \/ InsertAt(n.children, j + 1, page)[k] = page
             \/ \E l \in DOMAIN n.children :
                  InsertAt(n.children, j + 1, page)[k] = n.children[l]
    <2> DEFINE i == j + 1
               S == Nat \ {0}
    <2>1. i \in 1..(Len(n.children) + 1) /\ n.children \in Seq(S) /\ page \in S
      BY <1>1, NodeFacts
    <2> HIDE DEF i, S
    <2>2. /\ InsertAt(n.children, i, page) \in Seq(S)
          /\ Len(InsertAt(n.children, i, page)) = Len(n.children) + 1
          /\ \A k \in DOMAIN InsertAt(n.children, i, page) :
               \/ InsertAt(n.children, i, page)[k] = page
               \/ \E l \in DOMAIN n.children : InsertAt(n.children, i, page)[k] = n.children[l]
      BY <2>1, InsertLemma
    <2> QED BY <2>2 DEF i, S
  <1>4. p = [n EXCEPT !.blocks = InsertAt(n.blocks, j, b),
                      !.children = InsertAt(n.children, j + 1, page)]
    BY DEF AddChild
  <1>5. /\ p \in Node /\ ~p.leaf /\ p.next = n.next
        /\ p.blocks = InsertAt(n.blocks, j, b)
        /\ p.children = InsertAt(n.children, j + 1, page)
    BY <1>2, <1>3, <1>4 DEF Node
  <1> HIDE DEF p
  <1>6. DOMAIN p.children = 1..(Len(n.children) + 1) /\ Len(p.children) = Len(p.blocks) + 1
    <2>1. DOMAIN p.children = 1..Len(p.children)
      BY <1>5, NodeFacts
    <2>2. Len(p.children) = Len(n.children) + 1 /\ Len(p.blocks) = Len(n.blocks) + 1
      BY <1>2, <1>3, <1>5
    <2> QED BY <1>1, <2>1, <2>2
  <1>7. \A k \in DOMAIN p.children :
          p.children[k] = page \/ \E l \in DOMAIN n.children : p.children[k] = n.children[l]
    BY <1>3, <1>5
  <1>8. \A k \in DOMAIN p.children :
          p.children[k] \in DOMAIN f \ {1} /\ f[p.children[k]].leaf = f[page].leaf
    BY <1>7 DEF Sound
  <1>9. Sound(f, p)
    BY <1>6, <1>8 DEF Sound
  <1>10. Len(p.blocks) = Len(n.blocks) + 1 /\ DOMAIN n.children \subseteq DOMAIN p.children
    BY <1>2, <1>5, <1>6, NodeFacts
  <1> QED BY <1>5, <1>8, <1>9, <1>10 DEF p

(* Both halves of a node that has one block too many fit.                  *)
LEMMA SplitLemma ==
  ASSUME NEW f, NEW n \in Node, Sound(f, n), Len(n.blocks) = Capacity(n) + 1,
         NEW next \in Nat
  PROVE  /\ LeftHalf(n, next) \in Node /\ Fits(f, LeftHalf(n, next))
         /\ RightHalf(n, next) \in Node /\ Fits(f, RightHalf(n, next))
         /\ LeftHalf(n, next).leaf = n.leaf /\ RightHalf(n, next).leaf = n.leaf
         /\ \A k \in DOMAIN LeftHalf(n, next).children :
              k \in DOMAIN n.children /\ LeftHalf(n, next).children[k] = n.children[k]
         /\ Separator(n) \in Block
  <1> DEFINE cap == Capacity(n)
             m == Mid(n)
             lb == SubSeq(n.blocks, 1, m)
             lc == IF n.leaf THEN <<>> ELSE SubSeq(n.children, 1, m + 1)
             rb == SubSeq(n.blocks, m + (IF n.leaf THEN 1 ELSE 2), Len(n.blocks))
             rc == IF n.leaf THEN <<>> ELSE SubSeq(n.children, m + 2, Len(n.children))
             l == LeftHalf(n, next)
             r == RightHalf(n, next)
  <1>1. cap \in Nat \ {0} /\ (~n.leaf => cap >= 2)
    BY NodeFacts
  <1>2. m \in 1..cap /\ (~n.leaf => m + 1 <= cap)
    <2>1. m = (cap + 1) \div 2
      BY DEF Mid
    <2> HIDE DEF cap, m
    <2> QED BY <1>1, <2>1
  <1> HIDE DEF cap, m
  <1>3. Len(n.blocks) = cap + 1 /\ (~n.leaf => Len(n.children) = cap + 2)
    BY <1>1 DEF cap, Sound
  <1>4. lb \in Seq(Block) /\ Len(lb) = m
    BY <1>1, <1>2, <1>3, NodeFacts
  <1>5. rb \in Seq(Block) /\ Len(rb) = IF n.leaf THEN cap + 1 - m ELSE cap - m
    BY <1>1, <1>2, <1>3, NodeFacts
  <1>6. /\ lc \in Seq(Nat \ {0}) /\ (~n.leaf => Len(lc) = m + 1)
        /\ \A k \in DOMAIN lc : k \in DOMAIN n.children /\ lc[k] = n.children[k]
    <2>1. CASE n.leaf
      BY <2>1
    <2>2. CASE ~n.leaf
      <3>1. n.children \in Seq(Nat \ {0}) /\ Len(n.children) = cap + 2
        BY <1>3, <2>2, NodeFacts
      <3>2. /\ 1 \in 1..(Len(n.children) + 1) /\ m + 1 \in (1 - 1)..Len(n.children)
            /\ m + 1 - 1 + 1 = m + 1
        BY <1>1, <1>2, <3>1
      <3> QED BY <2>2, <3>1, <3>2, PartLemma
    <2> QED BY <2>1, <2>2
  <1>7. /\ rc \in Seq(Nat \ {0}) /\ (~n.leaf => Len(rc) = cap + 1 - m)
        /\ \A k \in DOMAIN rc : \E q \in DOMAIN n.children : rc[k] = n.children[q]
    <2>1. CASE n.leaf
      BY <2>1
    <2>2. CASE ~n.leaf
      <3>1. n.children \in Seq(Nat \ {0}) /\ Len(n.children) = cap + 2
        BY <1>3, <2>2, NodeFacts
      <3>2. /\ m + 2 \in 1..(Len(n.children) + 1)
            /\ Len(n.children) \in (m + 2 - 1)..Len(n.children)
            /\ Len(n.children) - (m + 2) + 1 = cap + 1 - m
        BY <1>1, <1>2, <2>2, <3>1
      <3> DEFINE a == m + 2
                 b == Len(n.children)
                 S == Nat \ {0}
      <3> HIDE DEF a, b, S
      <3>3. /\ n.children \in Seq(S) /\ a \in 1..(Len(n.children) + 1)
            /\ b \in (a - 1)..Len(n.children)
        BY <3>1, <3>2 DEF a, b, S
      <3>4. /\ SubSeq(n.children, a, b) \in Seq(S)
            /\ Len(SubSeq(n.children, a, b)) = b - a + 1
            /\ \A k \in DOMAIN SubSeq(n.children, a, b) :
                 \E q \in DOMAIN n.children : SubSeq(n.children, a, b)[k] = n.children[q]
        BY <3>3, PartLemma
      <3> QED BY <2>2, <3>2, <3>4 DEF a, b, S
    <2> QED BY <2>1, <2>2
  <1>8. l \in Node /\ l.leaf = n.leaf /\ l.blocks = lb /\ l.children = lc
    <2>1. l = [n EXCEPT !.blocks = lb, !.children = lc, !.next = next]
      BY DEF LeftHalf, m
    <2> HIDE DEF l, lb, lc
    <2> QED BY <1>4, <1>6, <2>1 DEF Node
  <1>9. r \in Node /\ r.leaf = n.leaf /\ r.blocks = rb /\ r.children = rc
    <2>1. r = [n EXCEPT !.blocks = rb, !.children = rc, !.next = next]
      BY DEF RightHalf, m
    <2> HIDE DEF r, rb, rc
    <2> QED BY <1>5, <1>7, <2>1 DEF Node
  <1>10. Separator(n) \in Block
    <2>1. m + 1 \in 1..Len(n.blocks)
      BY <1>1, <1>2, <1>3
    <2>2. n.blocks[m + 1] \in Block
      BY <2>1, NodeFacts
    <2> QED BY <2>2, BtreeAssumption DEF Separator, Block, m
  <1> HIDE DEF l, r, lb, lc, rb, rc
  <1>11. Sound(f, l)
    BY <1>1, <1>2, <1>3, <1>4, <1>6, <1>8 DEF Sound
  <1>12. Sound(f, r)
    <2> SUFFICES ASSUME ~n.leaf PROVE Sound(f, r)
      BY <1>9 DEF Sound
    <2>1. Len(r.children) = Len(r.blocks) + 1
      BY <1>1, <1>2, <1>5, <1>7, <1>9
    <2>2. \A k \in DOMAIN r.children : \E q \in DOMAIN n.children : r.children[k] = n.children[q]
      BY <1>7, <1>9
    <2> QED BY <2>1, <2>2 DEF Sound
  <1>13. Fits(f, l)
    BY <1>1, <1>2, <1>4, <1>8, <1>11 DEF Fits, Capacity, cap
  <1>14. Fits(f, r)
    BY <1>1, <1>2, <1>5, <1>9, <1>12 DEF Fits, Capacity, cap
  <1> QED BY <1>6, <1>8, <1>9, <1>10, <1>13, <1>14 DEF l, r

-----------------------------------------------------------------------------
(* Lemmas on the file and on path. *)

(* g is f with more pages, none but the root changed from leaf to inner.   *)
Extends(f, g) ==
  /\ DOMAIN f \subseteq DOMAIN g
  /\ \A p \in DOMAIN f \ {1} : g[p].leaf = f[p].leaf

(* A copy is as good a copy of the file that has grown.                    *)
LEMMA CopyGrows ==
  ASSUME NEW f, NEW g, Extends(f, g),
         NEW e, NEW i, CopyOf(f, e, i)
  PROVE  CopyOf(g, e, i)
  <1>1. Sound(g, e.node)
    BY SoundGrows DEF Extends, CopyOf
  <1> QED BY <1>1 DEF Extends, CopyOf

LEMMA UnderGrows ==
  ASSUME NEW f, NEW g, Extends(f, g),
         NEW a, NEW b, Sound(f, a.node), Under(f, a, b)
  PROVE  Under(g, a, b)
  BY DEF Extends, Sound, Under

LEMMA AppendPage ==
  ASSUME NEW f \in Seq(Node), NEW n \in Node
  PROVE  LET g == Append(f, n)
         IN  /\ g \in Seq(Node) /\ Len(g) = Len(f) + 1 /\ DOMAIN g = 1..(Len(f) + 1)
             /\ g[Len(g)] = n /\ \A p \in DOMAIN f : g[p] = f[p]
             /\ Extends(f, g)
  BY DEF Extends

LEMMA PagesAppend ==
  ASSUME NEW f \in Seq(Node), NEW n \in Node, Fits(f, n),
         \A p \in DOMAIN f : Fits(f, f[p])
  PROVE  \A p \in DOMAIN Append(f, n) : Fits(Append(f, n), Append(f, n)[p])
  <1> DEFINE g == Append(f, n)
  <1>1. /\ g \in Seq(Node) /\ Len(g) = Len(f) + 1 /\ DOMAIN g = 1..(Len(f) + 1)
        /\ g[Len(g)] = n /\ \A p \in DOMAIN f : g[p] = f[p]
        /\ Extends(f, g)
    BY AppendPage
  <1> HIDE DEF g
  <1>2. \A m : Fits(f, m) => Fits(g, m)
    BY <1>1, SoundGrows DEF Fits, Extends
  <1>3. DOMAIN f = 1..Len(f) /\ Len(f) \in Nat
    OBVIOUS
  <1>4. \A p \in DOMAIN g : p \in DOMAIN f \/ p = Len(g)
    BY <1>1, <1>3
  <1>5. \A p \in DOMAIN g : Fits(g, g[p])
    BY <1>1, <1>2, <1>4
  <1> QED BY <1>5 DEF g

LEMMA WritePage ==
  ASSUME NEW f \in Seq(Node), NEW p \in DOMAIN f, NEW n \in Node,
         p # 1 => n.leaf = f[p].leaf
  PROVE  LET g == [f EXCEPT ![p] = n]
         IN  /\ g \in Seq(Node) /\ Len(g) = Len(f) /\ DOMAIN g = DOMAIN f
             /\ g[p] = n /\ \A q \in DOMAIN f \ {p} : g[q] = f[q]
             /\ Extends(f, g)
  BY DEF Extends

LEMMA PagesWrite ==
  ASSUME NEW f \in Seq(Node), NEW p \in DOMAIN f, NEW n \in Node,
         p # 1 => n.leaf = f[p].leaf, Fits(f, n),
         \A q \in DOMAIN f : Fits(f, f[q])
  PROVE  \A q \in DOMAIN [f EXCEPT ![p] = n] :
           Fits([f EXCEPT ![p] = n], [f EXCEPT ![p] = n][q])
  <1> DEFINE g == [f EXCEPT ![p] = n]
  <1>1. /\ DOMAIN g = DOMAIN f /\ Extends(f, g)
        /\ g[p] = n /\ \A q \in DOMAIN f \ {p} : g[q] = f[q]
    BY WritePage
  <1> HIDE DEF g
  <1>2. \A m : Fits(f, m) => Fits(g, m)
    BY <1>1, SoundGrows DEF Fits, Extends
  <1>3. \A q \in DOMAIN g : Fits(g, g[q])
    BY <1>1, <1>2
  <1> QED BY <1>3 DEF g

Copy == [page : Nat \ {0}, node : Node, j : Nat]

LEMMA CopyFacts ==
  ASSUME TypeOK, NEW i \in DOMAIN path
  PROVE  /\ path[i] \in Copy /\ path[i].page \in Nat \ {0} /\ path[i].j \in Nat
         /\ path[i].node \in Node
         /\ Len(path[i].node.blocks) <= Capacity(path[i].node) + 1
  <1>1. path \in Seq(Copy)
    BY DEF TypeOK, Copy
  <1>2. path[i] \in Copy
    BY <1>1
  <1> QED BY <1>2 DEF TypeOK, Copy

LEMMA PathFacts ==
  ASSUME TypeOK
  PROVE  /\ path \in Seq(Copy) /\ Len(path) \in Nat /\ DOMAIN path = 1..Len(path)
         /\ file \in Seq(Node) /\ Len(file) \in Nat /\ DOMAIN file = 1..Len(file)
         /\ at \in 0..Len(path)
  BY DEF TypeOK, Copy

LEMMA SetNode ==
  ASSUME NEW s \in Seq(Copy), NEW i \in 1..Len(s), NEW n \in Node
  PROVE  LET t == [s EXCEPT ![i].node = n]
         IN  /\ t \in Seq(Copy) /\ Len(t) = Len(s) /\ DOMAIN t = DOMAIN s
             /\ t[i].node = n /\ t[i].page = s[i].page /\ t[i].j = s[i].j
             /\ \A k \in DOMAIN s \ {i} : t[k] = s[k]
  <1>1. s[i] \in Copy
    OBVIOUS
  <1>2. [s[i] EXCEPT !.node = n] \in Copy
    BY <1>1 DEF Copy
  <1>3. DOMAIN s = 1..Len(s) /\ [s EXCEPT ![i].node = n] = [s EXCEPT ![i] = [s[i] EXCEPT !.node = n]]
    OBVIOUS
  <1> DEFINE e == [s[i] EXCEPT !.node = n]
  <1>5. e \in Copy /\ e.node = n /\ e.page = s[i].page /\ e.j = s[i].j
    BY <1>1, <1>2 DEF Copy
  <1> HIDE DEF e
  <1>6. /\ [s EXCEPT ![i] = e] \in Seq(Copy) /\ Len([s EXCEPT ![i] = e]) = Len(s)
        /\ DOMAIN [s EXCEPT ![i] = e] = DOMAIN s /\ [s EXCEPT ![i] = e][i] = e
        /\ \A k \in DOMAIN s \ {i} : [s EXCEPT ![i] = e][k] = s[k]
    <2>1. [s EXCEPT ![i] = e] \in Seq(Copy) /\ Len([s EXCEPT ![i] = e]) = Len(s)
      BY <1>5
    <2> QED BY <1>3, <2>1
  <1> QED BY <1>3, <1>5, <1>6 DEF e

(* What the descent reads of a page.                                       *)
LEMMA VisitLemma ==
  ASSUME TypeOK, Pages, NEW p \in DOMAIN file, NEW key \in Key
  PROVE  LET e == Visit(p, key)
         IN  /\ e \in Copy /\ e.page = p /\ e.node = file[p]
             /\ Chosen(e) /\ Fits(file, e.node)
             /\ (e.page = 1 <=> p = 1)
  <1> DEFINE e == Visit(p, key)
             c == Child(file[p], key)
  <1>1. file[p] \in Node /\ p \in Nat \ {0} /\ Fits(file, file[p])
    BY PathFacts DEF Pages
  <1>2. c \in 1..(Len(file[p].blocks) + 1)
    BY <1>1, ChildLemma
  <1>3. e = [page |-> p, node |-> file[p], j |-> IF file[p].leaf THEN 0 ELSE c]
    BY DEF Visit
  <1> HIDE DEF e, c
  <1>4. ~file[p].leaf => c \in DOMAIN file[p].children
    BY <1>1, <1>2, NodeFacts DEF Fits, Sound
  <1>5. c \in Nat
    BY <1>1, <1>2, NodeFacts
  <1>6. e \in Copy /\ e.page = p /\ e.node = file[p] /\ Chosen(e)
    BY <1>1, <1>3, <1>4, <1>5 DEF Copy, Chosen
  <1> QED BY <1>1, <1>6 DEF e

-----------------------------------------------------------------------------
(* The initial state and each action. *)

LEMMA InitKeeps == Init => IInv
  <1> SUFFICES ASSUME Init PROVE IInv
    OBVIOUS
  <1>1. NoBlock \in Block
    BY BtreeAssumption DEF NoBlock, Block, Key
  <1>2. TypeOK
    BY <1>1, BtreeAssumption DEF Init, TypeOK
  <1> QED BY <1>2 DEF Init, IInv, Pages, Phase, Copies

LEMMA StartKeeps ==
  ASSUME IInv, NEW key \in Key, Start(key)
  PROVE  IInv'
  <1> USE DEF IInv
  <1>1. new' = [key |-> key, id |-> nextId] /\ new' \in Block
    BY BtreeAssumption DEF Start, TypeOK, Block
  <1>2. nextId' \in 1..(MaxInsert + 1) /\ at' = at /\ torn' = torn /\ at = 0 /\ path = <<>>
        /\ pc = "idle"
    BY BtreeAssumption DEF Start, TypeOK, Phase
  <1>3. CASE file = <<>>
    <2> DEFINE n == Leaf(<<new'>>)
    <2>1. n \in Node /\ n.leaf /\ Len(n.blocks) = 1
      BY <1>1 DEF Leaf, Node
    <2> HIDE DEF n
    <2>2. file' = <<n>> /\ inserted' = inserted \cup {new'} /\ pc' = pc /\ path' = path
      BY <1>3 DEF Start, n
    <2>3. Fits(file', n)
      BY <2>1, BtreeAssumption DEF Fits, Capacity, Sound
    <2>4. TypeOK'
      BY <1>1, <1>2, <2>1, <2>2 DEF TypeOK
    <2>5. Pages'
      BY <2>2, <2>3 DEF Pages
    <2>6. Phase' /\ Copies'
      BY <1>2, <2>2 DEF Phase, Copies
    <2> QED BY <2>4, <2>5, <2>6
  <1>4. CASE file # <<>>
    <2> DEFINE e == Visit(1, key)
    <2>1. 1 \in DOMAIN file
      BY <1>4, PathFacts
    <2>2. e \in Copy /\ e.page = 1 /\ e.node = file[1] /\ Chosen(e) /\ Fits(file, e.node)
      BY <2>1, VisitLemma
    <2> HIDE DEF e
    <2>3. pc' = "descend" /\ path' = <<e>> /\ file' = file /\ inserted' = inserted
      BY <1>4 DEF Start, e
    <2>4. e.node \in Node /\ Len(e.node.blocks) \in 1..Capacity(e.node) /\ Sound(file, e.node)
      BY <2>2 DEF Fits, Copy
    <2>5. Len(e.node.blocks) <= Capacity(e.node) /\ Len(e.node.blocks) <= Capacity(e.node) + 1
          /\ Len(e.node.blocks) >= 1
      BY <2>4, NodeFacts
    <2>6. TypeOK'
      <3>1. path' \in Seq(Copy) /\ Len(path') = 1 /\ DOMAIN path' = {1} /\ path'[1] = e
        BY <2>2, <2>3
      <3>2. \A i \in DOMAIN path' : Len(path'[i].node.blocks) <= Capacity(path'[i].node) + 1
        BY <2>5, <3>1
      <3> QED BY <1>1, <1>2, <2>3, <3>1, <3>2 DEF TypeOK, Copy
    <2>7. Pages' /\ Phase'
      BY <1>2, <2>3 DEF Pages, Phase
    <2>8. Copies'
      <3>1. DOMAIN path' = {1} /\ path'[1] = e /\ 1 + 1 \notin DOMAIN path'
        BY <2>3
      <3>2. CopyOf(file', e, 1)
        BY <2>1, <2>2, <2>3, <2>4, <2>5 DEF CopyOf
      <3> QED BY <2>2, <2>5, <3>1, <3>2 DEF Copies
    <2> QED BY <2>6, <2>7, <2>8
  <1> QED BY <1>3, <1>4

LEMMA DescendKeeps ==
  ASSUME IInv, Descend
  PROVE  IInv'
  <1> USE DEF IInv
  <1> DEFINE l == Len(path)
             last == path[l]
             page == last.node.children[last.j]
             e == Visit(page, new.key)
  <1>1. /\ pc = "descend" /\ ~last.node.leaf /\ path' = Append(path, e)
        /\ file' = file /\ pc' = pc /\ new' = new /\ at' = at /\ nextId' = nextId
        /\ inserted' = inserted /\ torn' = torn
    BY DEF Descend, Last
  <1>2. l \in DOMAIN path /\ l \in Nat /\ DOMAIN path = 1..l /\ l >= 1
    BY <1>1, PathFacts DEF Phase
  <1>3. last.j \in DOMAIN last.node.children /\ Sound(file, last.node) /\ last.node \in Node
    BY <1>1, <1>2, CopyFacts DEF Copies, Open, Chosen, CopyOf
  <1>4. page \in DOMAIN file \ {1}
    BY <1>1, <1>3 DEF Sound
  <1>5. new.key \in Key
    BY DEF TypeOK, Block
  <1>6. e \in Copy /\ e.page = page /\ e.node = file[page] /\ Chosen(e) /\ Fits(file, e.node)
    BY <1>4, <1>5, VisitLemma
  <1>7. Under(file, last, e)
    BY <1>1, <1>3, <1>6 DEF Under, Sound
  <1> HIDE DEF l, last, page, e
  <1>8. /\ path' \in Seq(Copy) /\ Len(path') = l + 1 /\ DOMAIN path' = 1..(l + 1)
        /\ path'[l + 1] = e /\ \A i \in DOMAIN path : path'[i] = path[i]
    BY <1>1, <1>6, PathFacts DEF l
  <1>9. e.node \in Node /\ Len(e.node.blocks) \in 1..Capacity(e.node) /\ Sound(file, e.node)
    BY <1>6 DEF Fits, Copy
  <1>10. Len(e.node.blocks) <= Capacity(e.node) /\ Len(e.node.blocks) <= Capacity(e.node) + 1
         /\ Len(e.node.blocks) >= 1
    BY <1>9, NodeFacts
  <1>11. \A i \in DOMAIN path' : i \in DOMAIN path \/ i = l + 1
    BY <1>2, <1>8
  <1>12. TypeOK'
    <2>1. \A i \in DOMAIN path' : Len(path'[i].node.blocks) <= Capacity(path'[i].node) + 1
      BY <1>8, <1>10, <1>11, CopyFacts
    <2>2. at' \in 0..Len(path')
      BY <1>1, <1>2, <1>8, PathFacts DEF l
    <2> QED BY <1>1, <1>8, <2>1, <2>2 DEF TypeOK, Copy
  <1>13. Pages'
    BY <1>1 DEF Pages
  <1>14. Phase'
    <2>1. path' # <<>>
      BY <1>2, <1>8
    <2> QED BY <1>1, <2>1 DEF Phase
  <1>15. Copies'
    <2> SUFFICES ASSUME NEW i \in DOMAIN path'
                 PROVE  /\ CopyOf(file', path'[i], i)
                        /\ Len(path'[i].node.blocks) <= Capacity(path'[i].node)
                        /\ Chosen(path'[i])
                        /\ i + 1 \in DOMAIN path' => Under(file', path'[i], path'[i + 1])
      BY DEF Copies
    <2>1. CASE i = l + 1
      <3>1. CopyOf(file', e, i)
        <4>1. i # 1
          BY <1>2, <2>1
        <4> QED BY <1>1, <1>4, <1>6, <1>9, <1>10, <4>1 DEF CopyOf
      <3>2. i + 1 \notin DOMAIN path'
        BY <1>2, <1>8, <2>1
      <3> QED BY <1>6, <1>8, <1>10, <2>1, <3>1, <3>2
    <2>2. CASE i \in DOMAIN path
      <3>1. /\ CopyOf(file', path'[i], i) /\ Chosen(path'[i])
            /\ Len(path'[i].node.blocks) <= Capacity(path'[i].node)
        BY <1>1, <1>8, <2>2 DEF Copies, Open, Surplus
      <3>2. CASE i = l
        <4>1. path'[i] = last /\ path'[i + 1] = e
          BY <1>2, <1>8, <2>2, <3>2 DEF last
        <4> QED BY <1>1, <1>7, <3>1, <4>1
      <3>3. CASE i # l
        <4>1. i + 1 \in DOMAIN path
          BY <1>2, <2>2, <3>3
        <4>2. path'[i] = path[i] /\ path'[i + 1] = path[i + 1]
          BY <1>8, <2>2, <4>1
        <4> QED BY <1>1, <2>2, <3>1, <4>1, <4>2 DEF Copies, Open
      <3> QED BY <3>2, <3>3
    <2> QED BY <1>11, <2>1, <2>2
  <1> QED BY <1>12, <1>13, <1>14, <1>15

LEMMA AddToLeafKeeps ==
  ASSUME IInv, AddToLeaf
  PROVE  IInv'
  <1> USE DEF IInv
  <1> DEFINE l == Len(path)
             last == path[l]
             leaf == AddSorted(last.node, new)
  <1>1. /\ pc = "descend" /\ last.node.leaf /\ path' = [path EXCEPT ![l].node = leaf]
        /\ pc' = IF Overfull(leaf) THEN "split" ELSE "flush"
        /\ at' = l
        /\ file' = file /\ new' = new /\ nextId' = nextId
        /\ inserted' = inserted /\ torn' = torn
    BY DEF AddToLeaf, Last
  <1>2. l \in DOMAIN path /\ l \in Nat /\ DOMAIN path = 1..l /\ l >= 1
    BY <1>1, PathFacts DEF Phase
  <1>3. /\ CopyOf(file, last, l) /\ last.node \in Node
        /\ Len(last.node.blocks) <= Capacity(last.node)
    BY <1>1, <1>2, CopyFacts DEF Copies, Surplus
  <1>4. /\ leaf \in Node /\ Len(leaf.blocks) = Len(last.node.blocks) + 1
        /\ leaf.leaf /\ leaf.leaf = last.node.leaf
    BY <1>1, <1>3, AddSortedLemma DEF TypeOK
  <1>5. Capacity(leaf) = Capacity(last.node) /\ Capacity(leaf) \in Nat
        /\ Len(leaf.blocks) \in Nat /\ Len(last.node.blocks) \in Nat
    BY <1>1, <1>3, <1>4, NodeFacts DEF Capacity
  <1>6. Overfull(leaf) <=> Full(leaf)
    BY <1>3, <1>4, <1>5 DEF Overfull, Full
  <1> HIDE DEF l, leaf
  <1>7. /\ path' \in Seq(Copy) /\ Len(path') = l /\ DOMAIN path' = DOMAIN path
        /\ path'[l].node = leaf /\ path'[l].page = last.page
        /\ \A i \in DOMAIN path \ {l} : path'[i] = path[i]
    <2>1. l \in 1..Len(path) /\ path \in Seq(Copy)
      BY <1>2, PathFacts
    <2> QED BY <1>1, <1>4, <2>1, SetNode DEF l
  <1>8. \A i \in DOMAIN path : path'[i].node.leaf = path[i].node.leaf
    BY <1>4, <1>7 DEF last
  <1> HIDE DEF last
  <1>9. TypeOK'
    <2>1. \A i \in DOMAIN path' : Len(path'[i].node.blocks) <= Capacity(path'[i].node) + 1
      <3>1. Len(leaf.blocks) <= Capacity(leaf) + 1
        BY <1>3, <1>4, <1>5
      <3> QED BY <1>7, <3>1, CopyFacts
    <2>2. at' \in 0..Len(path')
      BY <1>1, <1>2, <1>7
    <2> QED BY <1>1, <1>7, <2>1, <2>2 DEF TypeOK, Copy
  <1>10. Pages'
    BY <1>1 DEF Pages
  <1>11. Phase'
    <2>1. path' # <<>>
      BY <1>2, <1>7
    <2> QED BY <1>1, <1>2, <1>6, <1>7, <2>1 DEF Phase
  <1>12. Copies'
    <2> SUFFICES ASSUME NEW i \in DOMAIN path
                 PROVE  /\ CopyOf(file', path'[i], i)
                        /\ ~Surplus(i)' => Len(path'[i].node.blocks) <= Capacity(path'[i].node)
                        /\ i < l => /\ Chosen(path'[i])
                                    /\ i + 1 \in DOMAIN path => Under(file', path'[i], path'[i + 1])
      BY <1>1, <1>7 DEF Copies, Open
    <2>1. CASE i = l
      <3>1. CopyOf(file', path'[i], i)
        <4>1. path'[i].node = leaf /\ path'[i].page = last.page /\ Sound(file', leaf)
          BY <1>4, <1>7, <2>1 DEF Sound
        <4>2. Len(leaf.blocks) >= 1
          BY <1>3, <1>4, <1>5 DEF CopyOf
        <4> QED BY <1>1, <1>3, <1>4, <2>1, <4>1, <4>2 DEF CopyOf
      <3>2. ~Surplus(i)' => Len(leaf.blocks) <= Capacity(leaf)
        BY <1>1, <1>5, <2>1 DEF Surplus, Overfull
      <3> QED BY <1>2, <1>7, <2>1, <3>1, <3>2
    <2>2. CASE i # l
      <3>1. path'[i] = path[i]
        BY <1>7, <2>2
      <3>2. /\ CopyOf(file, path[i], i) /\ Chosen(path[i])
            /\ Len(path[i].node.blocks) <= Capacity(path[i].node)
            /\ i + 1 \in DOMAIN path => Under(file, path[i], path[i + 1])
        BY <1>1 DEF Copies, Open, Surplus
      <3>3. i + 1 \in DOMAIN path => Under(file, path[i], path'[i + 1])
        BY <1>8, <3>2 DEF Under
      <3> QED BY <1>1, <3>1, <3>2, <3>3
    <2> QED BY <2>1, <2>2
  <1> QED BY <1>9, <1>10, <1>11, <1>12

LEMMA WriteRightKeeps ==
  ASSUME IInv, WriteRight
  PROVE  IInv'
  <1> USE DEF IInv
  <1> DEFINE a == at - 1
             node == path[at].node
             above == path[a].node
             page == Len(file) + 1
             j == path[a].j
             parent == AddChild(above, j, Separator(node), page)
             next == IF node.leaf THEN node.next
                     ELSE IF j + 2 \in DOMAIN parent.children THEN parent.children[j + 2]
                     ELSE 0
             right == RightHalf(node, next)
             left == LeftHalf(node, page)
  <1>1. /\ pc = "split" /\ at > 1
        /\ file' = Append(file, right)
        /\ path' = [[path EXCEPT ![at].node = left] EXCEPT ![a].node = parent]
        /\ pc' = "left"
        /\ new' = new /\ at' = at /\ nextId' = nextId
        /\ inserted' = inserted /\ torn' = torn
    BY DEF WriteRight
  <1>2. /\ at \in DOMAIN path /\ a \in DOMAIN path /\ at \in Nat /\ a \in Nat /\ a + 1 = at
        /\ a >= 1 /\ at # a /\ DOMAIN path = 1..Len(path) /\ Len(path) \in Nat
    BY <1>1, PathFacts
  <1>3. /\ CopyOf(file, path[at], at) /\ CopyOf(file, path[a], a)
        /\ Chosen(path[a]) /\ Under(file, path[a], path[at])
        /\ Len(above.blocks) <= Capacity(above)
        /\ node \in Node /\ above \in Node /\ j \in Nat
    <2>1. Open(a) /\ ~Surplus(a)
      BY <1>1, <1>2 DEF Open, Surplus
    <2> QED BY <1>2, <2>1, CopyFacts DEF Copies
  <1>4. Len(node.blocks) = Capacity(node) + 1
    BY <1>1 DEF Phase, Full
  <1>5. page \in Nat /\ page \notin DOMAIN file /\ page # 1 /\ page \in Nat \ {0}
    <2>1. DOMAIN file # {}
      BY <1>3 DEF CopyOf
    <2> QED BY <2>1, PathFacts
  <1>6. /\ Sound(file, node) /\ Sound(file, above) /\ ~above.leaf
        /\ j \in DOMAIN above.children
        /\ \A k \in DOMAIN above.children : file[above.children[k]].leaf = node.leaf
    BY <1>3 DEF CopyOf, Chosen, Under
  <1> HIDE DEF a, node, above, page, j, parent, next, right, left
  <1>7. Separator(node) \in Block /\ left \in Node /\ Fits(file, left) /\ left.leaf = node.leaf
    BY <1>3, <1>4, <1>5, <1>6, SplitLemma DEF left
  <1>8. parent \in Node
    <2>1. j \in 1..(Len(above.blocks) + 1) /\ j + 1 \in 1..(Len(above.children) + 1)
      BY <1>3, <1>6, NodeFacts DEF Sound
    <2> DEFINE i == j + 1
               S == Nat \ {0}
    <2>2. i \in 1..(Len(above.children) + 1) /\ above.children \in Seq(S) /\ page \in S
      BY <1>3, <1>5, <2>1, NodeFacts
    <2>3. InsertAt(above.blocks, j, Separator(node)) \in Seq(Block)
      BY <1>3, <1>7, <2>1, NodeFacts, InsertLemma
    <2> HIDE DEF i, S
    <2>4. InsertAt(above.children, i, page) \in Seq(S)
      BY <2>2, InsertLemma
    <2> QED BY <1>3, <2>3, <2>4 DEF parent, AddChild, Node, i, S
  <1>9. next \in Nat
    <2>1. parent.children \in Seq(Nat \ {0}) /\ node.next \in Nat
      BY <1>3, <1>8, NodeFacts
    <2>2. \A k \in DOMAIN parent.children : parent.children[k] \in Nat
      BY <2>1
    <2> QED BY <2>1, <2>2 DEF next
  <1>10. right \in Node /\ Fits(file, right) /\ right.leaf = node.leaf
    BY <1>3, <1>4, <1>6, <1>9, SplitLemma DEF right
  <1>11. /\ file' \in Seq(Node) /\ Len(file') = Len(file) + 1 /\ DOMAIN file' = 1..(Len(file) + 1)
         /\ file'[page] = right /\ \A p \in DOMAIN file : file'[p] = file[p]
         /\ Extends(file, file')
    BY <1>1, <1>10, PathFacts, AppendPage DEF page
  <1>12. /\ Sound(file', above) /\ page \in DOMAIN file' \ {1}
         /\ \A k \in DOMAIN above.children : file'[above.children[k]].leaf = file'[page].leaf
    <2>1. Sound(file', above)
      BY <1>6, <1>11, SoundGrows DEF Extends
    <2>2. page \in DOMAIN file' \ {1}
      BY <1>5, <1>11, PathFacts DEF page
    <2>3. \A k \in DOMAIN above.children : file'[above.children[k]] = file[above.children[k]]
      BY <1>6, <1>11 DEF Sound
    <2> QED BY <1>6, <1>10, <1>11, <2>1, <2>2, <2>3
  <1>13. /\ ~parent.leaf /\ Len(parent.blocks) = Len(above.blocks) + 1
         /\ Sound(file', parent) /\ DOMAIN above.children \subseteq DOMAIN parent.children
    BY <1>3, <1>5, <1>6, <1>7, <1>12, AddChildLemma DEF parent
  <1>14. /\ path' \in Seq(Copy) /\ Len(path') = Len(path) /\ DOMAIN path' = DOMAIN path
         /\ path'[at].node = left /\ path'[at].page = path[at].page
         /\ path'[a].node = parent /\ path'[a].page = path[a].page /\ path'[a].j = j
         /\ \A i \in DOMAIN path \ {a, at} : path'[i] = path[i]
    <2> DEFINE s == [path EXCEPT ![at].node = left]
    <2>1. /\ s \in Seq(Copy) /\ Len(s) = Len(path) /\ DOMAIN s = DOMAIN path
          /\ s[at].node = left /\ s[at].page = path[at].page
          /\ \A k \in DOMAIN path \ {at} : s[k] = path[k]
      BY <1>2, <1>7, PathFacts, SetNode
    <2>2. path' = [s EXCEPT ![a].node = parent]
      BY <1>1
    <2> HIDE DEF s
    <2>3. /\ path' \in Seq(Copy) /\ Len(path') = Len(s) /\ DOMAIN path' = DOMAIN s
          /\ path'[a].node = parent /\ path'[a].page = s[a].page /\ path'[a].j = s[a].j
          /\ \A k \in DOMAIN s \ {a} : path'[k] = s[k]
      BY <1>2, <1>8, <2>1, <2>2, SetNode
    <2> QED BY <1>2, <2>1, <2>3 DEF j
  <1>15. \A i \in DOMAIN path : path'[i].node.leaf = path[i].node.leaf
    <2>1. parent.leaf = above.leaf
      BY <1>3, <1>6, <1>8, <1>13, NodeFacts
    <2> QED BY <1>7, <1>14, <2>1 DEF node, above
  <1>16. /\ Len(parent.blocks) <= Capacity(parent) + 1 /\ Len(parent.blocks) >= 1
         /\ Len(left.blocks) <= Capacity(left) /\ Len(left.blocks) >= 1
         /\ Len(left.blocks) <= Capacity(left) + 1
    <2>1. Capacity(parent) = Capacity(above) /\ Capacity(above) \in Nat /\ Len(above.blocks) \in Nat
      BY <1>3, <1>6, <1>13, NodeFacts DEF Capacity
    <2>2. Len(left.blocks) \in Nat /\ Capacity(left) \in Nat
      BY <1>7, NodeFacts
    <2> QED BY <1>3, <1>7, <1>13, <2>1, <2>2 DEF Fits
  <1>17. TypeOK'
    <2>1. \A i \in DOMAIN path' : Len(path'[i].node.blocks) <= Capacity(path'[i].node) + 1
      BY <1>14, <1>16, CopyFacts
    <2>2. at' \in 0..Len(path')
      BY <1>1, <1>14, PathFacts
    <2> QED BY <1>1, <1>11, <1>14, <2>1, <2>2 DEF TypeOK, Copy
  <1>18. Pages'
    BY <1>1, <1>10, PathFacts, PagesAppend DEF Pages
  <1>19. Phase'
    <2>1. path' # <<>>
      BY <1>2, <1>14
    <2> QED BY <1>1, <2>1 DEF Phase
  <1>20. Copies'
    <2> SUFFICES ASSUME NEW i \in DOMAIN path
                 PROVE  /\ CopyOf(file', path'[i], i)
                        /\ i # a => Len(path'[i].node.blocks) <= Capacity(path'[i].node)
                        /\ i + 1 < at => /\ Chosen(path'[i])
                                         /\ Under(file', path'[i], path'[i + 1])
      <3>1. \A i \in DOMAIN path : ~Surplus(i)' => i # a
        BY <1>1, <1>2 DEF Surplus
      <3>2. \A i \in DOMAIN path : Open(i)' => i + 1 < at
        BY <1>1 DEF Open
      <3> QED BY <1>14, <3>1, <3>2 DEF Copies
    <2>1. CASE i = a
      <3>1. CopyOf(file', path[a], a)
        BY <1>3, <1>11, CopyGrows
      <3>2. CopyOf(file', path'[a], a)
        <4>1. path'[a].node.leaf = path[a].node.leaf
          BY <1>2, <1>15
        <4> HIDE DEF IInv
        <4> QED BY <1>13, <1>14, <1>16, <3>1, <4>1 DEF CopyOf
      <3> QED BY <1>2, <2>1, <3>2
    <2>2. CASE i = at
      <3>1. CopyOf(file', path[at], at)
        BY <1>3, <1>11, CopyGrows
      <3>2. Sound(file', left)
        BY <1>7, <1>11, SoundGrows DEF Fits, Extends
      <3>3. CopyOf(file', path'[at], at)
        BY <1>7, <1>14, <1>16, <3>1, <3>2 DEF CopyOf, node
      <3> QED BY <1>2, <1>14, <1>16, <2>2, <3>3
    <2>3. CASE i \notin {a, at}
      <3>1. path'[i] = path[i]
        BY <1>14, <2>3
      <3>2. CopyOf(file, path[i], i) /\ Len(path[i].node.blocks) <= Capacity(path[i].node)
        BY <1>1, <2>3 DEF Copies, Surplus
      <3>3. CopyOf(file', path[i], i)
        BY <1>11, <3>2, CopyGrows
      <3>4. ASSUME i + 1 < at
            PROVE  Chosen(path[i]) /\ Under(file', path[i], path'[i + 1])
        <4>1. i + 1 \in DOMAIN path /\ i < at
          BY <1>2, <3>4
        <4>2. Chosen(path[i]) /\ Under(file, path[i], path[i + 1])
          BY <1>1, <4>1 DEF Copies, Open
        <4>3. Under(file', path[i], path[i + 1])
          BY <1>11, <3>2, <4>2, UnderGrows DEF CopyOf
        <4> QED BY <1>15, <4>1, <4>2, <4>3 DEF Under
      <3> QED BY <3>1, <3>2, <3>3, <3>4
    <2> QED BY <2>1, <2>2, <2>3
  <1> QED BY <1>17, <1>18, <1>19, <1>20

(* An element of path that has no block too many is written to its page.   *)
LEMMA WriteCopy ==
  ASSUME TypeOK, Pages, Copies, NEW i \in DOMAIN path, ~Surplus(i)
  PROVE  LET g == [file EXCEPT ![path[i].page] = path[i].node]
         IN  /\ g \in Seq(Node) /\ Len(g) = Len(file) /\ Extends(file, g)
             /\ \A q \in DOMAIN g : Fits(g, g[q])
  <1>1. /\ path[i].page \in DOMAIN file /\ path[i].node \in Node
        /\ path[i].page # 1 => path[i].node.leaf = file[path[i].page].leaf
        /\ Sound(file, path[i].node)
    BY CopyFacts DEF Copies, CopyOf
  <1>2. Len(path[i].node.blocks) \in 1..Capacity(path[i].node)
    <2>1. Len(path[i].node.blocks) >= 1 /\ Len(path[i].node.blocks) <= Capacity(path[i].node)
      BY DEF Copies, CopyOf
    <2> QED BY <1>1, <2>1, NodeFacts
  <1>3. Fits(file, path[i].node)
    BY <1>1, <1>2 DEF Fits
  <1> DEFINE p == path[i].page
             n == path[i].node
  <1>4. /\ file \in Seq(Node) /\ p \in DOMAIN file /\ n \in Node
        /\ p # 1 => n.leaf = file[p].leaf
        /\ Fits(file, n) /\ \A q \in DOMAIN file : Fits(file, file[q])
    BY <1>1, <1>3, PathFacts DEF Pages
  <1> HIDE DEF p, n
  <1> DEFINE g == [file EXCEPT ![p] = n]
  <1>5. g \in Seq(Node) /\ Len(g) = Len(file) /\ Extends(file, g)
    BY <1>4, WritePage
  <1>6. \A q \in DOMAIN g : Fits(g, g[q])
    BY <1>4, PagesWrite
  <1> QED BY <1>5, <1>6 DEF p, n

LEMMA WriteLeftKeeps ==
  ASSUME IInv, WriteLeft
  PROVE  IInv'
  <1> USE DEF IInv
  <1> DEFINE a == at - 1
             above == path[a].node
  <1>1. /\ pc = "left" /\ file' = [file EXCEPT ![path[at].page] = path[at].node]
        /\ at' = a /\ pc' = IF Overfull(above) THEN "split" ELSE "flush"
        /\ path' = path /\ new' = new /\ nextId' = nextId
        /\ inserted' = inserted /\ torn' = torn
    BY DEF WriteLeft
  <1>2. /\ at \in DOMAIN path /\ a \in DOMAIN path /\ at \in Nat /\ a \in Nat /\ a + 1 = at
        /\ a >= 1 /\ at # a /\ DOMAIN path = 1..Len(path) /\ Len(path) \in Nat
    BY <1>1, PathFacts DEF Phase
  <1> HIDE DEF a, above
  <1>3. ~Surplus(at)
    BY <1>1, <1>2 DEF Surplus
  <1>4. /\ file' \in Seq(Node) /\ Extends(file, file')
        /\ \A q \in DOMAIN file' : Fits(file', file'[q])
    BY <1>1, <1>2, <1>3, WriteCopy
  <1>5. Overfull(above) <=> Full(above)
    <2>1. /\ above \in Node /\ Len(above.blocks) <= Capacity(above) + 1
          /\ Capacity(above) \in Nat /\ Len(above.blocks) \in Nat
      BY <1>2, CopyFacts, NodeFacts DEF above
    <2> QED BY <2>1 DEF Overfull, Full
  <1>6. TypeOK'
    <2>1. at' \in 0..Len(path')
      BY <1>1, <1>2
    <2> QED BY <1>1, <1>4, <2>1 DEF TypeOK
  <1>7. Pages'
    BY <1>4 DEF Pages
  <1>8. Phase'
    <2>1. path'[at'] = path[a] /\ path' # <<>>
      BY <1>1, <1>2
    <2>2. pc' = "split" => Full(path'[at'].node)
      BY <1>1, <1>5, <2>1 DEF above
    <2> QED BY <1>1, <1>2, <2>1, <2>2 DEF Phase
  <1>9. Copies'
    <2> SUFFICES ASSUME NEW i \in DOMAIN path
                 PROVE  /\ CopyOf(file', path[i], i)
                        /\ ~Surplus(i)' => Len(path[i].node.blocks) <= Capacity(path[i].node)
                        /\ Open(i)' => /\ Chosen(path[i])
                                       /\ i + 1 \in DOMAIN path =>
                                            Under(file', path[i], path[i + 1])
      BY <1>1 DEF Copies
    <2>1. CopyOf(file, path[i], i) /\ CopyOf(file', path[i], i)
      BY <1>4, CopyGrows DEF Copies
    <2>2. ~Surplus(i)' => Len(path[i].node.blocks) <= Capacity(path[i].node)
      <3>1. CASE i = a
        <4>1. above \in Node /\ Capacity(above) \in Nat /\ Len(above.blocks) \in Nat
          BY <1>2, CopyFacts, NodeFacts DEF above
        <4> QED BY <1>1, <3>1, <4>1 DEF Surplus, Overfull, above
      <3>2. CASE i # a
        <4>1. ~Surplus(i)
          BY <1>1, <1>2, <3>2 DEF Surplus
        <4> QED BY <4>1 DEF Copies
      <3> QED BY <3>1, <3>2
    <2>3. ASSUME Open(i)'
          PROVE  Chosen(path[i]) /\ (i + 1 \in DOMAIN path => Under(file', path[i], path[i + 1]))
      <3>1. Open(i)
        BY <1>1, <1>2, <2>3 DEF Open
      <3>2. Chosen(path[i]) /\ (i + 1 \in DOMAIN path => Under(file, path[i], path[i + 1]))
        BY <3>1 DEF Copies
      <3> QED BY <1>4, <2>1, <3>2, UnderGrows DEF CopyOf
    <2> QED BY <2>1, <2>2, <2>3
  <1> QED BY <1>6, <1>7, <1>8, <1>9

(* Steps at the root that only append a page: the copies are as before.    *)
LEMMA AppendKeepsCopies ==
  ASSUME IInv, at = 1, pc \in {"split", "second"},
         NEW n \in Node, Fits(file, n),
         file' = Append(file, n), path' = path, at' = at,
         pc' \in {"second", "link"}, UNCHANGED <<new, nextId, inserted, torn>>
  PROVE  /\ TypeOK' /\ Pages' /\ Copies'
         /\ file'[Len(file')] = n /\ Len(file') = Len(file) + 1
         /\ \A p \in DOMAIN file : file'[p] = file[p]
         /\ Full(path'[at'].node) /\ path # <<>>
         /\ 1 \in DOMAIN file /\ Len(file) >= 1
  <1> USE DEF IInv
  <1>1. /\ file' \in Seq(Node) /\ Len(file') = Len(file) + 1
        /\ file'[Len(file')] = n /\ \A p \in DOMAIN file : file'[p] = file[p]
        /\ Extends(file, file')
    BY PathFacts, AppendPage
  <1>2. TypeOK'
    BY <1>1 DEF TypeOK
  <1>3. Pages'
    BY PathFacts, PagesAppend DEF Pages
  <1>4. Copies'
    <2>1. \A i \in DOMAIN path : CopyOf(file', path[i], i)
      BY <1>1, CopyGrows DEF Copies
    <2>2. \A i \in DOMAIN path :
            ~Surplus(i)' => Len(path[i].node.blocks) <= Capacity(path[i].node)
      BY DEF Copies, Surplus
    <2>3. \A i \in DOMAIN path : ~Open(i)'
      BY DEF Open
    <2> QED BY <2>1, <2>2, <2>3 DEF Copies
  <1>5. 1 \in DOMAIN path /\ path # <<>>
    BY PathFacts
  <1>6. 1 \in DOMAIN file /\ Len(file) >= 1
    <2>1. CopyOf(file, path[1], 1)
      BY <1>5 DEF Copies
    <2> QED BY <2>1, PathFacts DEF CopyOf
  <1>7. Full(path'[at'].node)
    BY DEF Phase
  <1> QED BY <1>1, <1>2, <1>3, <1>4, <1>5, <1>6, <1>7

LEMMA RootFacts ==
  ASSUME IInv, at = 1, pc \in {"split", "second", "link"}
  PROVE  /\ 1 \in DOMAIN path /\ path[1].node \in Node /\ Sound(file, path[1].node)
         /\ Len(path[1].node.blocks) = Capacity(path[1].node) + 1
  <1>1. 1 \in DOMAIN path
    BY PathFacts DEF IInv
  <1> QED BY <1>1, CopyFacts DEF IInv, Copies, CopyOf, Phase, Full

LEMMA WriteFirstChildKeeps ==
  ASSUME IInv, WriteFirstChild
  PROVE  IInv'
  <1> DEFINE n == LeftHalf(path[1].node, 0)
  <1>1. /\ pc = "split" /\ at = 1 /\ file' = Append(file, n) /\ pc' = "second"
        /\ path' = path /\ at' = at /\ UNCHANGED <<new, nextId, inserted, torn>>
    BY DEF WriteFirstChild
  <1>2. n \in Node /\ Fits(file, n) /\ n.leaf = path[1].node.leaf
    BY <1>1, RootFacts, SplitLemma
  <1> HIDE DEF n
  <1>3. /\ TypeOK' /\ Pages' /\ Copies'
        /\ file'[Len(file')] = n /\ Len(file') = Len(file) + 1
        /\ Full(path'[at'].node) /\ path # <<>> /\ Len(file) >= 1
    BY <1>1, <1>2, AppendKeepsCopies
  <1>4. Len(file) \in Nat
    BY PathFacts DEF IInv
  <1>5. Phase'
    <2>1. Len(file') >= 2 /\ file'[Len(file')].leaf = path'[1].node.leaf
      BY <1>1, <1>2, <1>3, <1>4
    <2> QED BY <1>1, <1>3, <2>1 DEF Phase, Kind
  <1> QED BY <1>3, <1>5 DEF IInv

LEMMA WriteSecondChildKeeps ==
  ASSUME IInv, WriteSecondChild
  PROVE  IInv'
  <1> DEFINE n == RightHalf(path[1].node, 0)
  <1>1. /\ pc = "second" /\ file' = Append(file, n) /\ pc' = "link"
        /\ path' = path /\ at' = at /\ UNCHANGED <<new, nextId, inserted, torn>>
    BY DEF WriteSecondChild
  <1>2. at = 1 /\ Len(file) >= 2 /\ file[Len(file)].leaf = path[1].node.leaf
    BY <1>1 DEF IInv, Phase, Kind
  <1>3. n \in Node /\ Fits(file, n) /\ n.leaf = path[1].node.leaf
    BY <1>1, <1>2, RootFacts, SplitLemma
  <1> HIDE DEF n
  <1>4. /\ TypeOK' /\ Pages' /\ Copies'
        /\ file'[Len(file')] = n /\ Len(file') = Len(file) + 1
        /\ \A p \in DOMAIN file : file'[p] = file[p]
        /\ Full(path'[at'].node) /\ path # <<>>
    BY <1>1, <1>2, <1>3, AppendKeepsCopies
  <1>5. Len(file) \in Nat /\ Len(file) \in DOMAIN file
    BY <1>2, PathFacts DEF IInv
  <1>6. Phase'
    <2>1. /\ Len(file') >= 3 /\ file'[Len(file')].leaf = path'[1].node.leaf
          /\ file'[Len(file') - 1].leaf = path'[1].node.leaf
      <3>1. Len(file') - 1 = Len(file)
        BY <1>4, <1>5
      <3> QED BY <1>1, <1>2, <1>3, <1>4, <1>5, <3>1
    <2> QED BY <1>1, <1>2, <1>4, <2>1 DEF Phase, Kind
  <1> QED BY <1>4, <1>6 DEF IInv

(* A new link to the next node changes nothing that Fits looks at.         *)
LEMMA SetNext ==
  ASSUME NEW f \in Seq(Node), NEW p \in DOMAIN f, NEW x \in Nat,
         \A q \in DOMAIN f : Fits(f, f[q])
  PROVE  LET g == [f EXCEPT ![p].next = x]
         IN  /\ g \in Seq(Node) /\ Len(g) = Len(f) /\ DOMAIN g = DOMAIN f
             /\ Extends(f, g) /\ \A q \in DOMAIN f : g[q].leaf = f[q].leaf
             /\ \A q \in DOMAIN g : Fits(g, g[q])
  <1> DEFINE n == [f[p] EXCEPT !.next = x]
  <1>1. f[p] \in Node /\ Fits(f, f[p])
    OBVIOUS
  <1>2. n \in Node /\ n.leaf = f[p].leaf /\ n.blocks = f[p].blocks /\ n.children = f[p].children
    BY <1>1 DEF Node
  <1>3. [f EXCEPT ![p].next = x] = [f EXCEPT ![p] = n]
    OBVIOUS
  <1> HIDE DEF n
  <1>4. Fits(f, n)
    BY <1>1, <1>2 DEF Fits, Sound, Capacity
  <1>5. LET g == [f EXCEPT ![p] = n]
        IN  /\ g \in Seq(Node) /\ Len(g) = Len(f) /\ DOMAIN g = DOMAIN f
            /\ g[p] = n /\ \A q \in DOMAIN f \ {p} : g[q] = f[q]
            /\ Extends(f, g)
    BY <1>2, WritePage
  <1>6. LET g == [f EXCEPT ![p] = n] IN \A q \in DOMAIN g : Fits(g, g[q])
    BY <1>2, <1>4, PagesWrite
  <1> QED BY <1>2, <1>3, <1>5, <1>6

LEMMA LinkChildrenKeeps ==
  ASSUME IInv, LinkChildren
  PROVE  IInv'
  <1> USE DEF IInv
  <1> DEFINE c2 == Len(file)
             c1 == c2 - 1
             root == path[1].node
             n == [root EXCEPT !.leaf = FALSE, !.blocks = <<Separator(root)>>,
                               !.children = <<c1, c2>>]
  <1>1. /\ pc = "link" /\ pc' = "flush"
        /\ file' = [[file EXCEPT ![c1].next = c2] EXCEPT ![c2].next = root.next]
        /\ path' = [path EXCEPT ![1].node.leaf = FALSE,
                                ![1].node.blocks = <<Separator(root)>>,
                                ![1].node.children = <<c1, c2>>]
        /\ new' = new /\ at' = at /\ nextId' = nextId
        /\ inserted' = inserted /\ torn' = torn
    BY DEF LinkChildren
  <1>2. at = 1 /\ c2 >= 3 /\ file[c2].leaf = root.leaf /\ file[c1].leaf = root.leaf
    BY <1>1 DEF Phase, Kind
  <1>3. /\ 1 \in DOMAIN path /\ root \in Node /\ Sound(file, root)
        /\ Len(root.blocks) = Capacity(root) + 1
    BY <1>1, <1>2, RootFacts
  <1>4. /\ c2 \in Nat \ {0} /\ c1 \in Nat \ {0} /\ c1 \in DOMAIN file \ {1}
        /\ c2 \in DOMAIN file \ {1}
    BY <1>2, PathFacts
  <1>5. root.next \in Nat
    BY <1>3, NodeFacts
  <1>6. Separator(root) \in Block
    BY <1>3, <1>5, SplitLemma
  <1>7. path' = [path EXCEPT ![1].node = n]
    <2>1. path \in Seq(Copy) /\ path[1] \in Copy
      BY <1>3, PathFacts
    <2> QED BY <1>1, <1>3, <2>1 DEF Copy, Node
  <1>8. n \in Node /\ ~n.leaf /\ Len(n.blocks) = 1 /\ n.children = <<c1, c2>>
    <2> HIDE DEF c1, c2, root
    <2>1. <<c1, c2>> \in Seq(Nat \ {0}) /\ <<Separator(root)>> \in Seq(Block)
      BY <1>4, <1>6
    <2> QED BY <1>3, <2>1 DEF Node
  <1> HIDE DEF c1, c2, n, root
  <1>9. /\ file' \in Seq(Node) /\ Len(file') = Len(file) /\ DOMAIN file' = DOMAIN file
        /\ \A q \in DOMAIN file : file'[q].leaf = file[q].leaf
        /\ \A q \in DOMAIN file' : Fits(file', file'[q])
    <2> DEFINE f == [file EXCEPT ![c1].next = c2]
    <2>1. /\ f \in Seq(Node) /\ Len(f) = Len(file) /\ DOMAIN f = DOMAIN file
          /\ \A q \in DOMAIN file : f[q].leaf = file[q].leaf
          /\ \A q \in DOMAIN f : Fits(f, f[q])
      <3>1. /\ file \in Seq(Node) /\ c1 \in DOMAIN file /\ c2 \in Nat
            /\ \A q \in DOMAIN file : Fits(file, file[q])
        BY <1>4, PathFacts DEF Pages
      <3> HIDE DEF IInv
      <3> QED BY <3>1, SetNext
    <2>2. file' = [f EXCEPT ![c2].next = root.next]
      BY <1>1
    <2> HIDE DEF f
    <2>3. /\ file' \in Seq(Node) /\ Len(file') = Len(f) /\ DOMAIN file' = DOMAIN f
          /\ \A q \in DOMAIN f : file'[q].leaf = f[q].leaf
          /\ \A q \in DOMAIN file' : Fits(file', file'[q])
      BY <1>4, <1>5, <2>1, <2>2, SetNext
    <2> QED BY <2>1, <2>3
  <1>10. /\ path' \in Seq(Copy) /\ Len(path') = Len(path) /\ DOMAIN path' = DOMAIN path
         /\ path'[1].node = n /\ path'[1].page = path[1].page
         /\ \A k \in DOMAIN path \ {1} : path'[k] = path[k]
    <2>1. path \in Seq(Copy) /\ 1 \in 1..Len(path)
      BY <1>3, PathFacts
    <2> HIDE DEF IInv
    <2> QED BY <1>7, <1>8, <2>1, SetNode
  <1>11. Capacity(n) \in Nat /\ 1 <= Capacity(n)
    BY <1>8, NodeFacts
  <1>12. Sound(file', n)
    BY <1>2, <1>4, <1>8, <1>9 DEF Sound
  <1>13. TypeOK'
    <2>1. \A i \in DOMAIN path' : Len(path'[i].node.blocks) <= Capacity(path'[i].node) + 1
      <3>1. Len(n.blocks) <= Capacity(n) + 1
        BY <1>8, <1>11
      <3> QED BY <1>10, <3>1, CopyFacts
    <2>2. at' \in 0..Len(path')
      BY <1>1, <1>10, PathFacts
    <2> QED BY <1>1, <1>9, <1>10, <2>1, <2>2 DEF TypeOK, Copy
  <1>14. Pages'
    BY <1>9 DEF Pages
  <1>15. Phase'
    <2>1. path' # <<>>
      BY <1>3, <1>10
    <2> QED BY <1>1, <1>2, <2>1 DEF Phase
  <1>16. Copies'
    <2>1. \A i \in DOMAIN path' : ~Open(i)'
      BY <1>1 DEF Open
    <2> SUFFICES ASSUME NEW i \in DOMAIN path
                 PROVE  /\ CopyOf(file', path'[i], i)
                        /\ Len(path'[i].node.blocks) <= Capacity(path'[i].node)
      BY <1>10, <2>1 DEF Copies
    <2>2. CASE i = 1
      <3>1. CopyOf(file, path[1], 1)
        BY <1>3 DEF Copies
      <3>2. CopyOf(file', path'[1], 1)
        <4>1. Len(path'[1].node.blocks) >= 1 /\ Sound(file', path'[1].node)
          <5>1. 1 >= 1
            OBVIOUS
          <5> QED BY <1>8, <1>10, <1>12, <5>1, Zenon
        <4>2. path'[1].page \in DOMAIN file' /\ path'[1].page = 1
          BY <1>9, <1>10, <3>1 DEF CopyOf
        <4> QED BY <4>1, <4>2 DEF CopyOf
      <3> QED BY <1>8, <1>10, <1>11, <2>2, <3>2
    <2>3. CASE i # 1
      <3>1. path'[i] = path[i]
        BY <1>10, <2>3
      <3>2. Len(path[i].node.blocks) <= Capacity(path[i].node) /\ CopyOf(file, path[i], i)
        BY <1>1, <1>2, <2>3 DEF Copies, Surplus
      <3>3. Extends(file, file')
        BY <1>9 DEF Extends
      <3>4. CopyOf(file', path[i], i)
        BY <3>2, <3>3, CopyGrows
      <3> QED BY <3>1, <3>2, <3>4
    <2> QED BY <2>2, <2>3
  <1> QED BY <1>13, <1>14, <1>15, <1>16

LEMMA FlushKeeps ==
  ASSUME IInv, Flush
  PROVE  IInv'
  <1> USE DEF IInv
  <1>1. /\ pc = "flush" /\ file' = [file EXCEPT ![path[at].page] = path[at].node]
        /\ new' = new /\ nextId' = nextId /\ torn' = torn
    BY DEF Flush
  <1>2. at \in DOMAIN path /\ at \in Nat /\ at >= 1 /\ Len(path) \in Nat /\ path # <<>>
    BY <1>1, PathFacts DEF Phase
  <1>3. ~Surplus(at)
    BY <1>1 DEF Surplus
  <1>4. /\ file' \in Seq(Node) /\ Extends(file, file')
        /\ \A q \in DOMAIN file' : Fits(file', file'[q])
    BY <1>1, <1>2, <1>3, WriteCopy
  <1>5. Pages'
    BY <1>4 DEF Pages
  <1>6. CASE at < Len(path)
    <2>1. at' = at + 1 /\ pc' = "flush" /\ path' = path /\ inserted' = inserted
      BY <1>1, <1>6 DEF Flush
    <2>2. TypeOK'
      <3>1. at' \in 0..Len(path')
        BY <1>2, <1>6, <2>1
      <3> QED BY <1>1, <1>4, <2>1, <3>1 DEF TypeOK
    <2>3. Phase'
      BY <1>2, <2>1 DEF Phase
    <2>4. Copies'
      <3>1. \A i \in DOMAIN path : CopyOf(file', path[i], i)
        BY <1>4, CopyGrows DEF Copies
      <3>2. \A i \in DOMAIN path :
              ~Open(i)' /\ Len(path[i].node.blocks) <= Capacity(path[i].node)
        BY <1>1, <2>1 DEF Copies, Open, Surplus
      <3> QED BY <2>1, <3>1, <3>2 DEF Copies
    <2> QED BY <1>5, <2>2, <2>3, <2>4
  <1>7. CASE ~(at < Len(path))
    <2>1. at' = 0 /\ pc' = "idle" /\ path' = <<>> /\ inserted' = inserted \cup {new}
      BY <1>1, <1>7 DEF Flush
    <2>2. TypeOK'
      <3>1. path' \in Seq(Copy) /\ Len(path') = 0 /\ DOMAIN path' = {}
        BY <2>1
      <3> QED BY <1>1, <1>4, <2>1, <3>1 DEF TypeOK, Copy
    <2>3. Phase' /\ Copies'
      BY <2>1 DEF Phase, Copies
    <2> QED BY <1>5, <2>2, <2>3
  <1> QED BY <1>6, <1>7

LEMMA CrashKeeps ==
  ASSUME IInv, Crash
  PROVE  IInv'
  <1> USE DEF IInv
  <1>1. /\ pc' = "idle" /\ new' = NoBlock /\ path' = <<>> /\ at' = 0 /\ torn' = torn + 1
        /\ torn < MaxCrash /\ file' = file /\ nextId' = nextId /\ inserted' = inserted
    BY DEF Crash
  <1>2. NoBlock \in Block
    BY BtreeAssumption DEF NoBlock, Block, Key
  <1>3. torn' \in 0..MaxCrash
    BY <1>1, BtreeAssumption DEF TypeOK
  <1>4. TypeOK'
    <2>1. path' \in Seq(Copy) /\ Len(path') = 0 /\ DOMAIN path' = {}
      BY <1>1
    <2> QED BY <1>1, <1>2, <1>3, <2>1 DEF TypeOK, Copy
  <1>5. Pages' /\ Phase' /\ Copies'
    BY <1>1 DEF Pages, Phase, Copies
  <1> QED BY <1>4, <1>5

LEMMA NextKeeps == IInv /\ [Next]_vars => IInv'
  <1> SUFFICES ASSUME IInv, [Next]_vars PROVE IInv'
    OBVIOUS
  <1>1. CASE UNCHANGED vars
    BY <1>1 DEF vars, IInv, TypeOK, Pages, Phase, Kind, Copies, Open, Surplus
  <1>2. CASE Next
    BY <1>2, StartKeeps, DescendKeeps, AddToLeafKeeps, WriteRightKeeps, WriteLeftKeeps,
       WriteFirstChildKeeps, WriteSecondChildKeeps, LinkChildrenKeeps, FlushKeeps,
       CrashKeeps DEF Next
  <1> QED BY <1>1, <1>2

LEMMA InvariantHolds == Spec => []IInv
  BY InitKeeps, NextKeeps, PTL DEF Spec

-----------------------------------------------------------------------------
(* The theorems. *)

(* The copies and the file stay well formed, and no copy of a node has     *)
(* more than one block beyond what fits before balance splits it: whatever *)
(* the capacities, which keys arrive and where the daemon dies.            *)
THEOREM TreeTypes == Spec => []TypeOK
  <1>1. IInv => TypeOK
    BY DEF IInv
  <1> QED BY <1>1, InvariantHolds, PTL

(* What balance and updateFlush write fits into its page, an inner node    *)
(* has one child more than it has blocks, and its children are pages of    *)
(* the file of one kind, so that every descent ends in a leaf: between any *)
(* two writes, and after any crash.                                        *)
THEOREM TreePagesFit == Spec => []PagesFit
  <1>1. IInv => PagesFit
    BY DEF IInv, Pages, Fits, Sound, PagesFit
  <1> QED BY <1>1, InvariantHolds, PTL

-----------------------------------------------------------------------------
(* Nodes with bounds, for BtreeOrderProofs: lo[p] and hi[p] bound the keys *)
(* of page p, lvl[p] is its height and par[p] the page it is a child of.   *)

(* The bound of what is to the right of everything.                        *)
Inf == MaxKey + 1

BlocksOf(n) == {n.blocks[k] : k \in DOMAIN n.blocks}
NoDouble(n) == \A k, m \in DOMAIN n.blocks : n.blocks[k] = n.blocks[m] => k = m
Sorted(n) == \A k, m \in DOMAIN n.blocks : k < m => n.blocks[k].key <= n.blocks[m].key

Low(lo, n, low) ==
  IF n.leaf
  THEN \A k \in DOMAIN n.blocks : low <= n.blocks[k].key
  ELSE /\ lo[n.children[1]] = low
       /\ \A k \in DOMAIN n.blocks : lo[n.children[k + 1]] = n.blocks[k].key

Level(lvl, n, h) ==
  /\ n.leaf <=> h = 0
  /\ ~n.leaf => \A k \in DOMAIN n.children : lvl[n.children[k]] + 1 = h

Bound(lo, p) == IF p = 0 THEN Inf ELSE lo[p]

Tight(lo, n) ==
  n.leaf => /\ n.next \in 0..Len(file)
            /\ \A k \in DOMAIN n.blocks : n.blocks[k].key <= Bound(lo, n.next)

High(lo, hi, par, n, p) ==
  IF n.leaf THEN hi[p] = Bound(lo, n.next)
  ELSE /\ \A k \in DOMAIN n.blocks : hi[n.children[k]] = n.blocks[k].key
       /\ hi[n.children[Len(n.children)]] = hi[p]
       /\ \A k \in DOMAIN n.children : par[n.children[k]] = p
       /\ \A k, m \in DOMAIN n.children : n.children[k] = n.children[m] => k = m

-----------------------------------------------------------------------------
(* What insertions and splits do to a node, element by element. *)

LEMMA BlockFacts ==
  ASSUME NEW b \in Block
  PROVE  /\ b.key \in Key /\ b.key \in Nat /\ b.key \in Int /\ b.key >= 1 /\ b.key <= MaxKey
         /\ b.id \in Nat
  BY BtreeAssumption DEF Block, Key

LEMMA KeyFacts ==
  ASSUME NEW n \in Node, NEW k \in DOMAIN n.blocks
  PROVE  /\ n.blocks[k] \in Block /\ n.blocks[k].key \in Key /\ n.blocks[k].key \in Int
         /\ n.blocks[k].key \in 1..MaxKey
  <1>1. n.blocks \in Seq(Block)
    BY NodeFacts
  <1>2. n.blocks[k] \in Block
    BY <1>1
  <1> QED BY <1>2, BlockFacts DEF Key

LEMMA InsertParts ==
  ASSUME NEW T, NEW s \in Seq(T), NEW i \in 1..(Len(s) + 1), NEW e \in T,
         NEW t, t = InsertAt(s, i, e)
  PROVE  /\ t \in Seq(T) /\ Len(t) = Len(s) + 1 /\ DOMAIN t = 1..(Len(s) + 1)
         /\ t[i] = e
         /\ \A k \in 1..(i - 1) : t[k] = s[k]
         /\ \A k \in i..Len(s) : t[k + 1] = s[k]
  <1> DEFINE left == SubSeq(s, 1, i - 1)
             right == SubSeq(s, i, Len(s))
             a == left \o <<e>>
  <1>1. /\ left \in Seq(T) /\ Len(left) = i - 1
        /\ \A k \in 1..(i - 1) : left[k] = s[k]
    OBVIOUS
  <1>2. /\ right \in Seq(T) /\ Len(right) = Len(s) + 1 - i
        /\ \A k \in 1..(Len(s) + 1 - i) : right[k] = s[i + k - 1]
    OBVIOUS
  <1>3. t = a \o right
    BY DEF InsertAt
  <1> HIDE DEF left, right
  <1>4. /\ a \in Seq(T) /\ Len(a) = i /\ a[i] = e
        /\ \A k \in 1..(i - 1) : a[k] = left[k]
    BY <1>1
  <1> HIDE DEF a
  <1>5. Len(s) \in Nat /\ i \in Nat
    OBVIOUS
  <1>6. /\ a \o right \in Seq(T) /\ Len(a \o right) = Len(a) + Len(right)
        /\ \A k \in 1..(Len(a) + Len(right)) :
             (a \o right)[k] = IF k <= Len(a) THEN a[k] ELSE right[k - Len(a)]
    BY <1>2, <1>4, ConcatProperties
  <1>7. Len(a) = i /\ Len(a) + Len(right) = Len(s) + 1
    BY <1>2, <1>4, <1>5
  <1>8. t \in Seq(T) /\ Len(t) = Len(s) + 1 /\ DOMAIN t = 1..(Len(s) + 1)
    BY <1>3, <1>6, <1>7
  <1>9. /\ \A k \in 1..i : t[k] = a[k]
        /\ \A k \in (i + 1)..(Len(s) + 1) : t[k] = right[k - i]
    <2>1. \A k \in 1..(Len(s) + 1) : t[k] = IF k <= i THEN a[k] ELSE right[k - i]
      BY <1>3, <1>6, <1>7
    <2>2. \A k \in 1..i : k \in 1..(Len(s) + 1) /\ k <= i
      BY <1>5
    <2>3. \A k \in (i + 1)..(Len(s) + 1) : k \in 1..(Len(s) + 1) /\ ~(k <= i)
      BY <1>5
    <2> QED BY <2>1, <2>2, <2>3
  <1>10. t[i] = e /\ \A k \in 1..(i - 1) : t[k] = s[k]
    <2>1. i \in 1..i /\ \A k \in 1..(i - 1) : k \in 1..i
      BY <1>5
    <2> QED BY <1>1, <1>4, <1>9, <2>1
  <1>11. ASSUME NEW k \in i..Len(s) PROVE t[k + 1] = s[k]
    <2>1. /\ k + 1 \in (i + 1)..(Len(s) + 1) /\ k + 1 - i \in 1..(Len(s) + 1 - i)
          /\ i + (k + 1 - i) - 1 = k
      BY <1>5
    <2> QED BY <1>2, <1>9, <2>1
  <1> QED BY <1>8, <1>10, <1>11

(* The block that insertHelper puts into a leaf.                           *)
LEMMA AddSortedParts ==
  ASSUME NEW n \in Node, NEW b \in Block
  PROVE  LET t == AddSorted(n, b)
         IN  /\ t.leaf = n.leaf /\ t.next = n.next /\ t.children = n.children
             /\ \E i \in 1..(Len(n.blocks) + 1) :
                  /\ t.blocks = InsertAt(n.blocks, i, b)
                  /\ i > 1 => n.blocks[i - 1].key <= b.key
                  /\ \A k \in i..Len(n.blocks) : ~(n.blocks[k].key <= b.key)
  <1> DEFINE I == {i \in 1..Len(n.blocks) : n.blocks[i].key <= b.key}
             last == IF I # {} THEN Max(I) ELSE 0
  <1>1. Len(n.blocks) \in Nat
    BY NodeFacts
  <1>2. I # {} => Max(I) \in I /\ \A y \in I : Max(I) >= y
    BY <1>1, GreatestLemma
  <1>3. last \in 0..Len(n.blocks) /\ (last > 0 => n.blocks[last].key <= b.key)
    BY <1>1, <1>2
  <1>4. \A k \in (last + 1)..Len(n.blocks) : ~(n.blocks[k].key <= b.key)
    <2> SUFFICES ASSUME NEW k \in (last + 1)..Len(n.blocks), n.blocks[k].key <= b.key PROVE FALSE
      OBVIOUS
    <2>1. k \in I
      BY <1>1, <1>3
    <2>2. last >= k
      BY <1>2, <2>1
    <2> QED BY <1>1, <1>3, <2>2
  <1>5. AddSorted(n, b) = [n EXCEPT !.blocks = InsertAt(n.blocks, last + 1, b)]
    BY DEF AddSorted, SelectLastInSeq
  <1> HIDE DEF last
  <1>6. /\ last + 1 \in 1..(Len(n.blocks) + 1) /\ (last + 1 > 1 => last > 0)
        /\ last + 1 - 1 = last
    BY <1>1, <1>3
  <1>7. /\ AddSorted(n, b).leaf = n.leaf /\ AddSorted(n, b).next = n.next
        /\ AddSorted(n, b).children = n.children
        /\ AddSorted(n, b).blocks = InsertAt(n.blocks, last + 1, b)
    BY <1>5 DEF Node
  <1> QED BY <1>3, <1>4, <1>6, <1>7

LEMMA PartParts ==
  ASSUME NEW T, NEW s \in Seq(T), NEW a \in 1..(Len(s) + 1), NEW b \in (a - 1)..Len(s),
         NEW d, d = b - a + 1, NEW t, t = SubSeq(s, a, b)
  PROVE  t \in Seq(T) /\ Len(t) = d /\ DOMAIN t = 1..d /\ \A k \in 1..d : t[k] = s[a + k - 1]
  <1>1. /\ Len(s) \in Nat /\ DOMAIN s = 1..Len(s)
        /\ a \in Int /\ b \in Int /\ \A i \in a..b : s[i] \in T
    OBVIOUS
  <1>2. /\ SubSeq(s, a, b) \in Seq(T)
        /\ Len(SubSeq(s, a, b)) = IF a <= b THEN b - a + 1 ELSE 0
        /\ \A i \in 1..(b - a + 1) : SubSeq(s, a, b)[i] = s[a + i - 1]
    BY <1>1, SubSeqProperties
  <1>3. t \in Seq(T) /\ Len(t) = d /\ \A i \in 1..d : t[i] = s[a + i - 1]
    BY <1>1, <1>2
  <1> QED BY <1>3

(* p is n, of N blocks, with the block b at j and the page behind it.      *)
WithChild(n, j, b, page, p, N) ==
  /\ p.leaf = n.leaf /\ p.next = n.next
  /\ DOMAIN p.blocks = 1..(N + 1)
  /\ p.blocks[j] = b
  /\ \A k \in 1..(j - 1) : p.blocks[k] = n.blocks[k]
  /\ \A k \in j..N : p.blocks[k + 1] = n.blocks[k]
  /\ DOMAIN p.children = 1..(N + 2)
  /\ Len(p.children) = N + 2
  /\ p.children[j + 1] = page
  /\ \A k \in 1..j : p.children[k] = n.children[k]
  /\ \A k \in (j + 1)..(N + 1) : p.children[k + 1] = n.children[k]
  /\ N \in Nat /\ j \in 1..(N + 1)

LEMMA AddChildParts ==
  ASSUME NEW n \in Node, Len(n.children) = Len(n.blocks) + 1,
         NEW j \in DOMAIN n.children, NEW b \in Block, NEW page \in Nat \ {0},
         NEW p, p = AddChild(n, j, b, page)
  PROVE  WithChild(n, j, b, page, p, Len(n.blocks))
  <1> DEFINE nb == n.blocks
             bs == InsertAt(nb, j, b)
             i == j + 1
             ns == n.children
             cs == InsertAt(ns, i, page)
             S == Nat \ {0}
  <1>0. /\ Len(n.blocks) \in Nat /\ Len(n.children) \in Nat /\ j \in 1..Len(n.children)
        /\ ns \in Seq(S) /\ page \in S /\ n.blocks \in Seq(Block)
    BY NodeFacts
  <1>1. /\ Len(n.blocks) \in Nat /\ Len(n.children) \in Nat
        /\ j \in 1..(Len(nb) + 1) /\ i \in 1..(Len(ns) + 1)
        /\ ns \in Seq(S) /\ page \in S /\ nb \in Seq(Block)
    BY <1>0
  <1>2. p.leaf = n.leaf /\ p.next = n.next /\ p.blocks = bs /\ p.children = cs
    BY DEF AddChild, Node
  <1> HIDE DEF bs, cs, i, S, ns, nb
  <1>3. /\ DOMAIN bs = 1..(Len(nb) + 1) /\ bs[j] = b
        /\ \A k \in 1..(j - 1) : bs[k] = nb[k]
        /\ \A k \in j..Len(nb) : bs[k + 1] = nb[k]
    <2>1. nb \in Seq(Block) /\ j \in 1..(Len(nb) + 1) /\ b \in Block /\ bs = InsertAt(nb, j, b)
      BY <1>1 DEF bs
    <2> QED BY <2>1, InsertParts
  <1>4. /\ DOMAIN cs = 1..(Len(ns) + 1) /\ cs[i] = page
        /\ Len(cs) = Len(ns) + 1
        /\ \A k \in 1..(i - 1) : cs[k] = ns[k]
        /\ \A k \in i..Len(ns) : cs[k + 1] = ns[k]
    BY <1>1, InsertParts DEF cs
  <1>5. /\ Len(n.children) + 1 = Len(n.blocks) + 2 /\ i - 1 = j /\ i = j + 1
        /\ Len(n.children) = Len(n.blocks) + 1
    BY <1>1 DEF i
  <1>6. p.leaf = n.leaf /\ p.next = n.next
    BY <1>2
  <1>7. /\ DOMAIN p.blocks = 1..(Len(n.blocks) + 1) /\ p.blocks[j] = b
        /\ \A k \in 1..(j - 1) : p.blocks[k] = n.blocks[k]
        /\ \A k \in j..Len(n.blocks) : p.blocks[k + 1] = n.blocks[k]
    BY <1>2, <1>3 DEF nb
  <1>8. /\ DOMAIN p.children = 1..(Len(n.blocks) + 2)
        /\ Len(p.children) = Len(n.blocks) + 2
        /\ p.children[j + 1] = page
        /\ \A k \in 1..j : p.children[k] = n.children[k]
        /\ \A k \in (j + 1)..(Len(n.blocks) + 1) : p.children[k + 1] = n.children[k]
    BY <1>2, <1>4, <1>5 DEF ns
  <1> QED BY <1>0, <1>1, <1>6, <1>7, <1>8 DEF WithChild, nb

LEMMA SplitBounds ==
  ASSUME NEW n \in Node, Len(n.blocks) = Capacity(n) + 1
  PROVE  /\ Mid(n) \in Nat /\ Mid(n) >= 1 /\ Mid(n) + 1 <= Len(n.blocks)
         /\ ~n.leaf => Mid(n) + 2 <= Len(n.blocks)
         /\ Len(n.blocks) \in Nat /\ DOMAIN n.blocks = 1..Len(n.blocks)
         /\ Separator(n).key = n.blocks[Mid(n) + 1].key /\ Separator(n).key \in Key
  <1> DEFINE c == Capacity(n)
             m == Mid(n)
  <1>1. /\ c \in Nat \ {0} /\ (~n.leaf => c >= 2)
        /\ Len(n.blocks) \in Nat /\ DOMAIN n.blocks = 1..Len(n.blocks)
    BY NodeFacts
  <1>2. m = (c + 1) \div 2
    BY DEF Mid
  <1>3. n.blocks \in Seq(Block)
    BY NodeFacts
  <1> HIDE DEF c, m
  <1>4. m \in Nat /\ m >= 1 /\ m + 1 <= c + 1 /\ (~n.leaf => m + 2 <= c + 1)
    BY <1>1, <1>2
  <1>5. m + 1 \in 1..Len(n.blocks)
    BY <1>1, <1>4 DEF c
  <1>6. n.blocks[m + 1] \in Block
    BY <1>3, <1>5
  <1>7. Separator(n) = [n.blocks[m + 1] EXCEPT !.id = 0]
    BY DEF Separator, m
  <1>8. Separator(n).key = n.blocks[m + 1].key /\ Separator(n).key \in Key
    BY <1>6, <1>7 DEF Block
  <1> QED BY <1>1, <1>4, <1>8 DEF c, m

(* l and r have what is left of the m-th of the N blocks of n, and what is *)
(* right of it: a leaf keeps all its blocks, an inner node gives up one.   *)
LeafHalves(n, l, r, m, N) ==
  /\ l.leaf = n.leaf /\ r.leaf = n.leaf
  /\ DOMAIN l.blocks = 1..m /\ \A k \in 1..m : l.blocks[k] = n.blocks[k]
  /\ DOMAIN r.blocks = 1..(N - m) /\ \A k \in 1..(N - m) : r.blocks[k] = n.blocks[m + k]
InnerHalves(n, l, r, m, N) ==
  /\ l.leaf = n.leaf /\ r.leaf = n.leaf
  /\ DOMAIN l.blocks = 1..m /\ \A k \in 1..m : l.blocks[k] = n.blocks[k]
  /\ DOMAIN r.blocks = 1..(N - m - 1)
  /\ \A k \in 1..(N - m - 1) : r.blocks[k] = n.blocks[m + 1 + k]
  /\ DOMAIN l.children = 1..(m + 1) /\ Len(l.children) = m + 1
  /\ \A k \in 1..(m + 1) : l.children[k] = n.children[k]
  /\ DOMAIN r.children = 1..(N - m) /\ Len(r.children) = N - m
  /\ \A k \in 1..(N - m) : r.children[k] = n.children[m + 1 + k]

LEMMA SplitLeafParts ==
  ASSUME NEW n \in Node, n.leaf, Len(n.blocks) = Capacity(n) + 1, NEW x, NEW y
  PROVE  /\ LeafHalves(n, LeftHalf(n, x), RightHalf(n, y), Mid(n), Len(n.blocks))
         /\ LeftHalf(n, x).next = x /\ RightHalf(n, y).next = y
  <1> DEFINE m == Mid(n)
             lb == SubSeq(n.blocks, 1, m)
             rb == SubSeq(n.blocks, m + 1, Len(n.blocks))
             l == LeftHalf(n, x)
             r == RightHalf(n, y)
  <1>1. l.leaf = n.leaf /\ l.next = x /\ l.blocks = lb
    BY DEF LeftHalf, Node
  <1>2. r.leaf = n.leaf /\ r.next = y /\ r.blocks = rb
    BY DEF RightHalf, Node
  <1>3. /\ m \in Nat /\ m >= 1 /\ m + 1 <= Len(n.blocks) /\ Len(n.blocks) \in Nat
        /\ n.blocks \in Seq(Block)
    BY SplitBounds, NodeFacts
  <1> HIDE DEF m, l, r
  <1>4. DOMAIN lb = 1..m /\ \A k \in 1..m : lb[k] = n.blocks[k]
    BY <1>3
  <1>5. /\ DOMAIN rb = 1..(Len(n.blocks) - m)
        /\ \A k \in 1..(Len(n.blocks) - m) : rb[k] = n.blocks[m + k]
    BY <1>3
  <1> QED BY <1>1, <1>2, <1>4, <1>5 DEF m, l, r, LeafHalves

LEMMA SplitInnerParts ==
  ASSUME NEW n \in Node, ~n.leaf, Len(n.blocks) = Capacity(n) + 1,
         Len(n.children) = Len(n.blocks) + 1, NEW x, NEW y
  PROVE  /\ InnerHalves(n, LeftHalf(n, x), RightHalf(n, y), Mid(n), Len(n.blocks))
         /\ LeftHalf(n, x).next = x /\ RightHalf(n, y).next = y
  <1> DEFINE m == Mid(n)
             lb == SubSeq(n.blocks, 1, m)
             rb == SubSeq(n.blocks, m + 2, Len(n.blocks))
             lc == SubSeq(n.children, 1, m + 1)
             rc == SubSeq(n.children, m + 2, Len(n.children))
             l == LeftHalf(n, x)
             r == RightHalf(n, y)
             a == m + 2
             c == m + 1
             d == Len(n.blocks) - m - 1
             e == Len(n.blocks) - m
             bs == n.blocks
             cs == n.children
             S == Nat \ {0}
  <1>1. l.leaf = n.leaf /\ l.next = x /\ l.blocks = lb /\ l.children = lc
    BY DEF LeftHalf, Node
  <1>2. r.leaf = n.leaf /\ r.next = y /\ r.blocks = rb /\ r.children = rc
    BY DEF RightHalf, Node
  <1>3. /\ m \in Nat /\ m >= 1 /\ m + 2 <= Len(bs) /\ Len(bs) \in Nat
        /\ bs \in Seq(Block) /\ cs \in Seq(S)
        /\ Len(cs) \in Nat /\ Len(cs) = Len(bs) + 1
    BY SplitBounds, NodeFacts
  <1> HIDE DEF m, l, r, S, bs, cs
  <1>4. /\ a \in 1..(Len(bs) + 1) /\ Len(bs) \in (a - 1)..Len(bs)
        /\ a \in 1..(Len(cs) + 1) /\ Len(cs) \in (a - 1)..Len(cs)
        /\ c \in (1 - 1)..Len(cs) /\ m \in (1 - 1)..Len(bs)
        /\ 1 \in 1..(Len(bs) + 1) /\ 1 \in 1..(Len(cs) + 1)
        /\ m = m - 1 + 1 /\ c = c - 1 + 1
        /\ d = Len(bs) - a + 1 /\ e = Len(cs) - a + 1
    <2>1. d = Len(bs) - m - 1 /\ e = Len(bs) - m
      BY DEF bs
    <2>2. /\ a \in 1..(Len(bs) + 1) /\ Len(bs) \in (a - 1)..Len(bs)
          /\ c \in (1 - 1)..Len(cs) /\ m \in (1 - 1)..Len(bs)
          /\ 1 \in 1..(Len(bs) + 1) /\ 1 \in 1..(Len(cs) + 1)
      BY <1>3
    <2>3. a \in 1..(Len(cs) + 1) /\ Len(cs) \in (a - 1)..Len(cs)
      BY <1>3
    <2>4. m = m - 1 + 1 /\ c = c - 1 + 1
      BY <1>3
    <2>5. d = Len(bs) - a + 1 /\ e = Len(cs) - a + 1
      BY <1>3, <2>1
    <2> QED BY <2>2, <2>3, <2>4, <2>5
  <1>5. \A k \in Int : 1 + k - 1 = k /\ a + k - 1 = m + 1 + k
    BY <1>3
  <1>6. /\ rb = SubSeq(bs, a, Len(bs)) /\ rc = SubSeq(cs, a, Len(cs))
        /\ lc = SubSeq(cs, 1, c) /\ lb = SubSeq(bs, 1, m)
    BY DEF bs, cs
  <1>7. d \in Int /\ e \in Int
    BY <1>3 DEF bs
  <1> HIDE DEF a, c, d, e, lb, rb, lc, rc
  <1>8. DOMAIN lb = 1..m /\ \A k \in 1..m : lb[k] = bs[1 + k - 1]
    BY <1>3, <1>4, <1>6, PartParts
  <1>9. DOMAIN lc = 1..c /\ Len(lc) = c /\ \A k \in 1..c : lc[k] = cs[1 + k - 1]
    BY <1>3, <1>4, <1>6, PartParts
  <1>10. DOMAIN rb = 1..d /\ \A k \in 1..d : rb[k] = bs[a + k - 1]
    BY <1>3, <1>4, <1>6, PartParts
  <1>11. DOMAIN rc = 1..e /\ Len(rc) = e /\ \A k \in 1..e : rc[k] = cs[a + k - 1]
    BY <1>3, <1>4, <1>6, PartParts
  <1>12. /\ \A k \in 1..m : k \in Int
         /\ \A k \in 1..c : k \in Int
         /\ \A k \in 1..d : k \in Int
         /\ \A k \in 1..e : k \in Int
    OBVIOUS
  <1>13. (\A k \in 1..m : lb[k] = bs[k]) /\ (\A k \in 1..c : lc[k] = cs[k])
    BY <1>5, <1>8, <1>9, <1>12
  <1>14. (\A k \in 1..d : rb[k] = bs[m + 1 + k]) /\ (\A k \in 1..e : rc[k] = cs[m + 1 + k])
    BY <1>5, <1>10, <1>11, <1>12
  <1> QED BY <1>1, <1>2, <1>8, <1>9, <1>10, <1>11, <1>13, <1>14 DEF m, l, r, c, d, e, bs, cs, InnerHalves

-----------------------------------------------------------------------------
(* The bounds of a node and of what becomes of it. *)

(* The two halves of a leaf, and of an inner node.                         *)
LEMMA SplitLow ==
  ASSUME NEW n \in Node, Len(n.blocks) = Capacity(n) + 1,
         ~n.leaf => Len(n.children) = Len(n.blocks) + 1, n.leaf => Sorted(n),
         NEW lo, NEW low, Low(lo, n, low), NEW x, NEW y
  PROVE  /\ Low(lo, LeftHalf(n, x), low)
         /\ Low(lo, RightHalf(n, y), Separator(n).key)
  <1> DEFINE l == LeftHalf(n, x)
             r == RightHalf(n, y)
             m == Mid(n)
             sep == Separator(n).key
             N == Len(n.blocks)
  <1>1. /\ m \in Nat /\ m >= 1 /\ m + 1 <= N /\ N \in Nat /\ DOMAIN n.blocks = 1..N
        /\ ~n.leaf => m + 2 <= N
        /\ sep = n.blocks[m + 1].key /\ sep \in Key
        /\ \A k \in DOMAIN n.blocks : n.blocks[k].key \in Key
    <2>1. n.blocks \in Seq(Block) /\ \A k \in DOMAIN n.blocks : n.blocks[k] \in Block
      BY NodeFacts
    <2> QED BY <2>1, SplitBounds DEF Block
  <1>2. CASE n.leaf
    <2>0. LeafHalves(n, l, r, m, N)
      BY <1>2, SplitLeafParts
    <2> HIDE DEF l, r, m, sep, N
    <2>1. /\ l.leaf = n.leaf /\ r.leaf = n.leaf
          /\ DOMAIN l.blocks = 1..m /\ \A k \in 1..m : l.blocks[k] = n.blocks[k]
          /\ DOMAIN r.blocks = 1..(N - m) /\ \A k \in 1..(N - m) : r.blocks[k] = n.blocks[m + k]
      BY <2>0 DEF LeafHalves
    <2>2. \A k \in 1..m : k \in DOMAIN n.blocks
      BY <1>1
    <2>3. \A k \in DOMAIN n.blocks : low <= n.blocks[k].key
      BY <1>2 DEF Low
    <2>4. Low(lo, l, low)
      BY <1>2, <2>1, <2>2, <2>3 DEF Low
    <2>5. ASSUME NEW k \in 1..(N - m) PROVE sep <= n.blocks[m + k].key
      <3>1. m + 1 \in 1..N /\ m + k \in 1..N /\ (m + 1 < m + k \/ k = 1)
        BY <1>1
      <3>2. CASE k = 1
        BY <1>1, <3>1, <3>2 DEF Key
      <3>3. CASE m + 1 < m + k
        BY <1>1, <1>2, <3>1, <3>3 DEF Sorted
      <3> QED BY <3>1, <3>2, <3>3
    <2>6. Low(lo, r, sep)
      BY <1>2, <2>1, <2>5 DEF Low
    <2> QED BY <2>4, <2>6 DEF l, r, sep
  <1>3. CASE ~n.leaf
    <2>0. InnerHalves(n, l, r, m, N)
      BY <1>3, SplitInnerParts
    <2> HIDE DEF l, r, m, sep, N
    <2>1. /\ l.leaf = n.leaf /\ r.leaf = n.leaf
          /\ DOMAIN l.blocks = 1..m /\ \A k \in 1..m : l.blocks[k] = n.blocks[k]
          /\ DOMAIN r.blocks = 1..(N - m - 1)
          /\ \A k \in 1..(N - m - 1) : r.blocks[k] = n.blocks[m + 1 + k]
          /\ \A k \in 1..(m + 1) : l.children[k] = n.children[k]
          /\ \A k \in 1..(N - m) : r.children[k] = n.children[m + 1 + k]
      BY <2>0 DEF InnerHalves
    <2>2. /\ lo[n.children[1]] = low
          /\ \A k \in 1..N : lo[n.children[k + 1]] = n.blocks[k].key
      BY <1>1, <1>3 DEF Low
    <2>3. Low(lo, l, low)
      <3>1. 1 \in 1..(m + 1) /\ \A k \in 1..m : k \in 1..N /\ k + 1 \in 1..(m + 1)
        BY <1>1
      <3> QED BY <1>3, <2>1, <2>2, <3>1 DEF Low
    <2>4. Low(lo, r, sep)
      <3>1. 1 \in 1..(N - m) /\ m + 1 \in 1..N
        BY <1>1, <1>3
      <3>2. \A k \in 1..(N - m - 1) :
              k + 1 \in 1..(N - m) /\ m + 1 + k \in 1..N /\ m + 1 + (k + 1) = (m + 1 + k) + 1
        BY <1>1
      <3>3. lo[r.children[1]] = sep
        BY <1>1, <2>1, <2>2, <3>1
      <3>4. ASSUME NEW k \in 1..(N - m - 1) PROVE lo[r.children[k + 1]] = r.blocks[k].key
        <4>1. r.children[k + 1] = n.children[(m + 1 + k) + 1]
          BY <2>1, <3>2
        <4>2. lo[n.children[(m + 1 + k) + 1]] = n.blocks[m + 1 + k].key
          BY <2>2, <3>2
        <4> QED BY <2>1, <4>1, <4>2
      <3> QED BY <1>3, <2>1, <3>3, <3>4 DEF Low
    <2> QED BY <2>3, <2>4 DEF l, r, sep
  <1> QED BY <1>2, <1>3

LEMMA SplitLevel ==
  ASSUME NEW n \in Node, Len(n.blocks) = Capacity(n) + 1,
         ~n.leaf => Len(n.children) = Len(n.blocks) + 1,
         NEW lvl, NEW h, Level(lvl, n, h), NEW x, NEW y
  PROVE  Level(lvl, LeftHalf(n, x), h) /\ Level(lvl, RightHalf(n, y), h)
  <1> DEFINE l == LeftHalf(n, x)
             r == RightHalf(n, y)
             m == Mid(n)
             N == Len(n.blocks)
  <1>1. m \in Nat /\ m >= 1 /\ m + 1 <= N /\ N \in Nat
    BY SplitBounds
  <1>2. CASE n.leaf
    <2>1. l.leaf = n.leaf /\ r.leaf = n.leaf
      BY <1>2, SplitLeafParts DEF LeafHalves
    <2> QED BY <1>2, <2>1 DEF Level
  <1>3. CASE ~n.leaf
    <2>0. InnerHalves(n, l, r, m, N)
      BY <1>3, SplitInnerParts
    <2>2. DOMAIN n.children = 1..(N + 1)
      BY <1>3, NodeFacts
    <2> HIDE DEF l, r, m, N
    <2>1. /\ l.leaf = n.leaf /\ r.leaf = n.leaf
          /\ DOMAIN l.children = 1..(m + 1) /\ DOMAIN r.children = 1..(N - m)
          /\ \A k \in 1..(m + 1) : l.children[k] = n.children[k]
          /\ \A k \in 1..(N - m) : r.children[k] = n.children[m + 1 + k]
      BY <2>0 DEF InnerHalves
    <2>3. /\ \A k \in 1..(m + 1) : k \in 1..(N + 1)
          /\ \A k \in 1..(N - m) : m + 1 + k \in 1..(N + 1)
      BY <1>1
    <2>4. \A k \in 1..(N + 1) : lvl[n.children[k]] + 1 = h
      BY <1>3, <2>2 DEF Level
    <2>5. h # 0
      BY <1>3 DEF Level
    <2>6. Level(lvl, l, h)
      BY <1>3, <2>1, <2>3, <2>4, <2>5 DEF Level
    <2>7. Level(lvl, r, h)
      BY <1>3, <2>1, <2>3, <2>4, <2>5 DEF Level
    <2> QED BY <2>6, <2>7 DEF l, r
  <1> QED BY <1>2, <1>3

(* The blocks of a leaf go to its halves, each to one of them.             *)
LEMMA SplitBlocks ==
  ASSUME NEW n \in Node, n.leaf, Len(n.blocks) = Capacity(n) + 1, NoDouble(n), Sorted(n),
         NEW x, NEW y
  PROVE  LET l == LeftHalf(n, x)
             r == RightHalf(n, y)
         IN  /\ BlocksOf(l) \cup BlocksOf(r) = BlocksOf(n)
             /\ BlocksOf(l) \cap BlocksOf(r) = {}
             /\ NoDouble(l) /\ NoDouble(r) /\ Sorted(l) /\ Sorted(r)
             /\ l.leaf /\ r.leaf /\ l.next = x /\ r.next = y
             /\ \A k \in DOMAIN l.blocks : l.blocks[k].key <= Separator(n).key
  <1> DEFINE l == LeftHalf(n, x)
             r == RightHalf(n, y)
             m == Mid(n)
             N == Len(n.blocks)
  <1>1. /\ m \in Nat /\ m >= 1 /\ m + 1 <= N /\ N \in Nat /\ DOMAIN n.blocks = 1..N
        /\ Separator(n).key = n.blocks[m + 1].key
    BY SplitBounds
  <1>0. LeafHalves(n, l, r, m, N) /\ l.next = x /\ r.next = y
    BY SplitLeafParts
  <1> HIDE DEF l, r, m, N
  <1>2. /\ l.leaf = n.leaf /\ r.leaf = n.leaf /\ l.next = x /\ r.next = y
        /\ DOMAIN l.blocks = 1..m /\ \A k \in 1..m : l.blocks[k] = n.blocks[k]
        /\ DOMAIN r.blocks = 1..(N - m) /\ \A k \in 1..(N - m) : r.blocks[k] = n.blocks[m + k]
    BY <1>0 DEF LeafHalves
  <1>3. /\ \A k \in 1..m : k \in 1..N /\ k < m + 1
        /\ \A k \in 1..(N - m) : m + k \in 1..N
        /\ m + 1 \in 1..N
    BY <1>1
  <1>4. \A k \in 1..m, q \in 1..(N - m) : k # m + q
    BY <1>1
  <1>5. \A k \in 1..N : k \in 1..m \/ \E q \in 1..(N - m) : k = m + q
    <2> SUFFICES ASSUME NEW k \in 1..N, k \notin 1..m PROVE \E q \in 1..(N - m) : k = m + q
      OBVIOUS
    <2>1. k - m \in 1..(N - m) /\ k = m + (k - m)
      BY <1>1
    <2> QED BY <2>1
  <1>6. /\ \A k, q \in 1..N : n.blocks[k] = n.blocks[q] => k = q
        /\ \A k, q \in 1..N : k < q => n.blocks[k].key <= n.blocks[q].key
    BY <1>1 DEF NoDouble, Sorted
  <1>7. /\ BlocksOf(l) = {n.blocks[k] : k \in 1..m}
        /\ BlocksOf(r) = {n.blocks[m + k] : k \in 1..(N - m)}
        /\ BlocksOf(n) = {n.blocks[k] : k \in 1..N}
    <2>1. BlocksOf(l) = {n.blocks[k] : k \in 1..m}
      BY <1>2 DEF BlocksOf
    <2>2. BlocksOf(r) = {n.blocks[m + k] : k \in 1..(N - m)}
      BY <1>2 DEF BlocksOf
    <2> QED BY <1>1, <2>1, <2>2 DEF BlocksOf
  <1>8. BlocksOf(l) \cup BlocksOf(r) = BlocksOf(n)
    BY <1>3, <1>5, <1>7
  <1>9. BlocksOf(l) \cap BlocksOf(r) = {}
    BY <1>3, <1>4, <1>6, <1>7
  <1>10. NoDouble(l) /\ Sorted(l)
    BY <1>2, <1>3, <1>6 DEF NoDouble, Sorted
  <1>11. NoDouble(r)
    <2>1. \A k, q \in 1..(N - m) : m + k = m + q => k = q
      BY <1>1
    <2> QED BY <1>2, <1>3, <1>6, <2>1 DEF NoDouble
  <1>12. Sorted(r)
    <2>1. \A k, q \in 1..(N - m) : k < q => m + k < m + q
      BY <1>1
    <2> QED BY <1>2, <1>3, <1>6, <2>1 DEF Sorted
  <1>13. \A k \in DOMAIN l.blocks : l.blocks[k].key <= Separator(n).key
    BY <1>1, <1>2, <1>3, <1>6
  <1> QED BY <1>2, <1>8, <1>9, <1>10, <1>11, <1>12, <1>13 DEF l, r

(* The bounds of a node are those of its children.                         *)
LEMMA Agree ==
  ASSUME NEW f, NEW n \in Node, Sound(f, n), NEW lo, NEW mo,
         \A p \in DOMAIN f \ {1} : mo[p] = lo[p]
  PROVE  /\ \A x : Low(lo, n, x) => Low(mo, n, x)
         /\ \A h : Level(lo, n, h) => Level(mo, n, h)
  <1>1. CASE n.leaf
    BY <1>1 DEF Low, Level
  <1>2. CASE ~n.leaf
    <2>1. /\ DOMAIN n.children = 1..(Len(n.blocks) + 1) /\ DOMAIN n.blocks = 1..Len(n.blocks)
          /\ Len(n.blocks) \in Nat
      BY <1>2, NodeFacts DEF Sound
    <2>2. \A k \in DOMAIN n.children : mo[n.children[k]] = lo[n.children[k]]
      BY <1>2 DEF Sound
    <2>3. 1 \in DOMAIN n.children /\ \A k \in DOMAIN n.blocks : k + 1 \in DOMAIN n.children
      BY <2>1
    <2>4. \A x : Low(lo, n, x) => Low(mo, n, x)
      BY <1>2, <2>2, <2>3 DEF Low
    <2>5. \A h : Level(lo, n, h) => Level(mo, n, h)
      BY <1>2, <2>2 DEF Level
    <2> QED BY <2>4, <2>5
  <1> QED BY <1>1, <1>2

(* The parent after the split of its j-th child.                           *)
LEMMA AddChildLow ==
  ASSUME NEW n \in Node, ~n.leaf, Len(n.children) = Len(n.blocks) + 1,
         NEW j \in DOMAIN n.children, NEW b \in Block, NEW page \in Nat \ {0},
         NEW p, p = AddChild(n, j, b, page),
         NEW lo, NEW mo, \A k \in DOMAIN n.children : mo[n.children[k]] = lo[n.children[k]],
         mo[page] = b.key
  PROVE  \A x : Low(lo, n, x) => Low(mo, p, x)
  <1> SUFFICES ASSUME NEW x, Low(lo, n, x) PROVE Low(mo, p, x)
    OBVIOUS
  <1> DEFINE N == Len(n.blocks)
  <1>0. WithChild(n, j, b, page, p, N)
    BY AddChildParts
  <1>1. /\ p.leaf = n.leaf
        /\ DOMAIN p.blocks = 1..(N + 1)
        /\ p.blocks[j] = b
        /\ \A k \in 1..(j - 1) : p.blocks[k] = n.blocks[k]
        /\ \A k \in j..N : p.blocks[k + 1] = n.blocks[k]
        /\ p.children[j + 1] = page
        /\ \A k \in 1..j : p.children[k] = n.children[k]
        /\ \A k \in (j + 1)..(N + 1) : p.children[k + 1] = n.children[k]
        /\ N \in Nat /\ j \in 1..(N + 1)
    BY <1>0 DEF WithChild
  <1>2. DOMAIN n.blocks = 1..N /\ DOMAIN n.children = 1..(N + 1)
    BY NodeFacts
  <1> HIDE DEF N
  <1>3. /\ lo[n.children[1]] = x /\ \A k \in 1..N : lo[n.children[k + 1]] = n.blocks[k].key
        /\ \A k \in 1..(N + 1) : mo[n.children[k]] = lo[n.children[k]]
    BY <1>2 DEF Low
  <1>4. mo[p.children[1]] = x
    <2>1. 1 \in 1..j /\ 1 \in 1..(N + 1)
      BY <1>1
    <2> QED BY <1>1, <1>3, <2>1
  <1>5. ASSUME NEW k \in 1..(N + 1)
        PROVE  mo[p.children[k + 1]] = p.blocks[k].key
    <2>1. CASE k < j
      <3>1. k \in 1..(j - 1) /\ k + 1 \in 1..j /\ k + 1 \in 1..(N + 1) /\ k \in 1..N
        BY <1>1, <2>1
      <3>2. mo[n.children[k + 1]] = n.blocks[k].key
        BY <1>3, <3>1
      <3>3. p.children[k + 1] = n.children[k + 1] /\ p.blocks[k] = n.blocks[k]
        BY <1>1, <3>1
      <3> QED BY <3>2, <3>3
    <2>2. CASE k = j
      <3>1. mo[p.children[j + 1]] = p.blocks[j].key
        BY <1>1
      <3> QED BY <2>2, <3>1
    <2>3. CASE k > j
      <3> DEFINE q == k - 1
      <3>1. q \in j..N /\ q + 1 = k /\ k \in (j + 1)..(N + 1) /\ q \in 1..N /\ k \in 1..(N + 1)
        BY <1>1, <2>3
      <3>2. p.children[k + 1] = n.children[k] /\ p.blocks[q + 1] = n.blocks[q]
        BY <1>1, <3>1
      <3>3. lo[n.children[q + 1]] = n.blocks[q].key /\ mo[n.children[k]] = lo[n.children[k]]
        BY <1>3, <3>1
      <3> HIDE DEF q
      <3> QED BY <3>1, <3>2, <3>3
    <2>4. k < j \/ k = j \/ k > j
      BY <1>1
    <2> QED BY <2>1, <2>2, <2>3, <2>4
  <1> QED BY <1>1, <1>4, <1>5 DEF Low

LEMMA AddChildLevel ==
  ASSUME NEW n \in Node, ~n.leaf, Len(n.children) = Len(n.blocks) + 1,
         NEW j \in DOMAIN n.children, NEW b \in Block, NEW page \in Nat \ {0},
         NEW p, p = AddChild(n, j, b, page),
         NEW lvl, NEW mvl,
         \A k \in DOMAIN n.children : mvl[n.children[k]] = lvl[n.children[k]],
         NEW h, mvl[page] + 1 = h, Level(lvl, n, h)
  PROVE  Level(mvl, p, h)
  <1> DEFINE N == Len(n.blocks)
  <1>0. WithChild(n, j, b, page, p, N)
    BY AddChildParts
  <1>1. /\ p.leaf = n.leaf
        /\ DOMAIN p.children = 1..(N + 2)
        /\ p.children[j + 1] = page
        /\ \A k \in 1..j : p.children[k] = n.children[k]
        /\ \A k \in (j + 1)..(N + 1) : p.children[k + 1] = n.children[k]
        /\ N \in Nat /\ j \in 1..(N + 1)
    BY <1>0 DEF WithChild
  <1>2. DOMAIN n.children = 1..(N + 1)
    BY NodeFacts
  <1> HIDE DEF N
  <1>3. h # 0 /\ \A k \in 1..(N + 1) : mvl[n.children[k]] + 1 = h
    BY <1>2 DEF Level
  <1>4. ASSUME NEW k \in 1..(N + 2)
        PROVE  mvl[p.children[k]] + 1 = h
    <2>1. CASE k <= j
      <3>1. k \in 1..j /\ k \in 1..(N + 1)
        BY <1>1, <2>1
      <3> QED BY <1>1, <1>3, <3>1
    <2>2. CASE k = j + 1
      <3>1. mvl[p.children[j + 1]] + 1 = h
        BY <1>1
      <3> QED BY <2>2, <3>1
    <2>3. CASE k > j + 1
      <3> DEFINE q == k - 1
      <3>1. q \in (j + 1)..(N + 1) /\ q + 1 = k /\ q \in 1..(N + 1)
        BY <1>1, <2>3
      <3> HIDE DEF q
      <3> QED BY <1>1, <1>3, <3>1
    <2>4. k <= j \/ k = j + 1 \/ k > j + 1
      BY <1>1
    <2> QED BY <2>1, <2>2, <2>3, <2>4
  <1> QED BY <1>1, <1>3, <1>4 DEF Level

(* Where search goes on: what is before is below the key.                  *)
LEMMA ChildBounds ==
  ASSUME NEW n \in Node, NEW key \in Key, NEW c, c = Child(n, key)
  PROVE  /\ c \in 1..(Len(n.blocks) + 1)
         /\ \A k \in 1..Len(n.blocks) : k < c => n.blocks[k].key < key
         /\ c \in 1..Len(n.blocks) => key <= n.blocks[c].key
  <1> DEFINE I == {i \in 1..Len(n.blocks) : n.blocks[i].key >= key}
  <1>1. /\ Len(n.blocks) \in Nat /\ DOMAIN n.blocks = 1..Len(n.blocks)
        /\ \A k \in 1..Len(n.blocks) : n.blocks[k].key \in Key
    BY NodeFacts, KeyFacts
  <1>2. key \in Int /\ \A k \in 1..Len(n.blocks) : n.blocks[k].key \in Int
    BY <1>1 DEF Key
  <1>3. CASE I = {}
    <2>1. c = Len(n.blocks) + 1
      BY <1>1, <1>3 DEF Child, SelectInSeq
    <2>2. \A k \in 1..Len(n.blocks) : ~(n.blocks[k].key >= key)
      BY <1>3
    <2>3. Len(n.blocks) + 1 \in 1..(Len(n.blocks) + 1) /\ Len(n.blocks) + 1 \notin 1..Len(n.blocks)
      BY <1>1
    <2>4. \A k \in 1..Len(n.blocks) : n.blocks[k].key < key
      BY <1>2, <2>2
    <2>5. c \in 1..(Len(n.blocks) + 1) /\ c \notin 1..Len(n.blocks)
      BY <2>1, <2>3
    <2> QED BY <2>4, <2>5
  <1>4. CASE I # {}
    <2>1. Min(I) \in I /\ \A y \in I : Min(I) <= y
      <3>1. I \in SUBSET Nat /\ I # {}
        BY <1>4
      <3> HIDE DEF I
      <3> QED BY <3>1, LeastLemma
    <2>2. c = Min(I)
      <3>1. Min(I) # 0
        BY <2>1
      <3> QED BY <1>4, <3>1 DEF Child, SelectInSeq
    <2>3. c \in 1..Len(n.blocks) /\ n.blocks[c].key >= key
      BY <2>1, <2>2
    <2>4. ASSUME NEW k \in 1..Len(n.blocks), k < c PROVE n.blocks[k].key < key
      <3>1. k \notin I
        BY <1>1, <2>1, <2>2, <2>3, <2>4
      <3> QED BY <1>2, <3>1
    <2> QED BY <1>1, <1>2, <2>3, <2>4
  <1> QED BY <1>3, <1>4

(* The block that joins a leaf which does not have it.                     *)
LEMMA AddSortedBlocks ==
  ASSUME NEW n \in Node, NEW b \in Block, Sorted(n), NoDouble(n), b \notin BlocksOf(n)
  PROVE  LET t == AddSorted(n, b)
         IN  /\ BlocksOf(t) = BlocksOf(n) \cup {b}
             /\ Sorted(t) /\ NoDouble(t)
             /\ t.leaf = n.leaf /\ t.next = n.next /\ t.children = n.children
  <1> DEFINE t == AddSorted(n, b)
             s == n.blocks
             N == Len(s)
  <1>1. /\ s \in Seq(Block) /\ N \in Nat /\ DOMAIN s = 1..N
        /\ b.key \in Int /\ \A k \in 1..N : s[k].key \in Int
    BY NodeFacts, KeyFacts, BlockFacts
  <1>2. PICK i \in 1..(N + 1) :
          /\ t.blocks = InsertAt(s, i, b)
          /\ i > 1 => s[i - 1].key <= b.key
          /\ \A k \in i..N : ~(s[k].key <= b.key)
    BY AddSortedParts
  <1>3. t.leaf = n.leaf /\ t.next = n.next /\ t.children = n.children
    BY AddSortedParts
  <1> DEFINE u == t.blocks
  <1> HIDE DEF t, s
  <1>4. u = InsertAt(s, i, b)
    BY <1>2
  <1> HIDE DEF u
  <1>5. /\ DOMAIN u = 1..(N + 1) /\ u[i] = b
        /\ \A k \in 1..(i - 1) : u[k] = s[k]
        /\ \A k \in i..N : u[k + 1] = s[k]
    <2>1. s \in Seq(Block) /\ i \in 1..(Len(s) + 1) /\ b \in Block /\ u = InsertAt(s, i, b)
      BY <1>1, <1>2, <1>4
    <2> QED BY <2>1, InsertParts
  <1> HIDE DEF N
  <1>6. /\ \A k \in 1..(N + 1) : k = i \/ k \in 1..(i - 1) \/ k - 1 \in i..N
        /\ i \in 1..(N + 1) /\ i \in Nat
        /\ \A k \in 1..(i - 1) : k \in 1..N /\ k \in 1..(N + 1)
        /\ \A k \in i..N : k \in 1..N /\ k + 1 \in 1..(N + 1)
        /\ \A k \in 1..N : k \in 1..(i - 1) \/ k \in i..N
        /\ \A k \in 1..(N + 1) : k - 1 + 1 = k
    BY <1>1, <1>2
  <1>7. /\ \A k \in 1..(i - 1) : u[k] = s[k]
        /\ \A k \in 1..(N + 1) : k - 1 \in i..N => u[k] = s[k - 1]
    BY <1>5, <1>6
  <1>8. BlocksOf(t) = BlocksOf(n) \cup {b}
    <2>1. BlocksOf(t) = {u[k] : k \in 1..(N + 1)} /\ BlocksOf(n) = {s[k] : k \in 1..N}
      BY <1>1, <1>5 DEF BlocksOf, u, s
    <2>2. \A k \in 1..(N + 1) : u[k] \in {s[q] : q \in 1..N} \cup {b}
      <3> SUFFICES ASSUME NEW k \in 1..(N + 1) PROVE u[k] \in {s[q] : q \in 1..N} \cup {b}
        OBVIOUS
      <3>1. CASE k = i
        BY <1>5, <3>1
      <3>2. CASE k \in 1..(i - 1)
        BY <1>6, <1>7, <3>2
      <3>3. CASE k - 1 \in i..N
        BY <1>6, <1>7, <3>3
      <3> QED BY <1>6, <3>1, <3>2, <3>3
    <2>3. \A k \in 1..N : s[k] \in {u[q] : q \in 1..(N + 1)}
      <3> SUFFICES ASSUME NEW k \in 1..N PROVE s[k] \in {u[q] : q \in 1..(N + 1)}
        OBVIOUS
      <3>1. CASE k \in 1..(i - 1)
        BY <1>5, <1>6, <3>1
      <3>2. CASE k \in i..N
        BY <1>5, <1>6, <3>2
      <3> QED BY <1>6, <3>1, <3>2
    <2>4. b \in {u[q] : q \in 1..(N + 1)}
      BY <1>5, <1>6
    <2> QED BY <2>1, <2>2, <2>3, <2>4
  <1>9. \A k \in 1..N : s[k] # b
    BY <1>1 DEF BlocksOf, s
  <1>10. /\ \A k, q \in 1..N : s[k] = s[q] => k = q
         /\ \A k, q \in 1..N : k < q => s[k].key <= s[q].key
    BY <1>1 DEF NoDouble, Sorted, s
  <1>11. NoDouble(t)
    <2> SUFFICES ASSUME NEW k \in 1..(N + 1), NEW q \in 1..(N + 1), u[k] = u[q] PROVE k = q
      BY <1>5 DEF NoDouble, u
    <2> DEFINE Old(x, y) == y \in 1..N /\ u[x] = s[y] /\ ((y = x /\ y < i) \/ (y + 1 = x /\ y >= i))
    <2>1. \A x \in 1..(N + 1) : x = i \/ \E y \in 1..N : Old(x, y)
      <3> SUFFICES ASSUME NEW x \in 1..(N + 1), x # i PROVE \E y \in 1..N : Old(x, y)
        OBVIOUS
      <3>1. CASE x \in 1..(i - 1)
        <4>1. Old(x, x)
          BY <1>6, <1>7, <3>1
        <4> QED BY <1>6, <3>1, <4>1
      <3>2. CASE x - 1 \in i..N
        <4>1. Old(x, x - 1)
          BY <1>6, <1>7, <3>2
        <4> QED BY <1>6, <3>2, <4>1
      <3> QED BY <1>6, <3>1, <3>2
    <2>2. CASE k = i /\ q = i
      BY <2>2
    <2>3. CASE k = i /\ q # i
      BY <1>5, <1>9, <2>1, <2>3
    <2>4. CASE k # i /\ q = i
      BY <1>5, <1>9, <2>1, <2>4
    <2>5. CASE k # i /\ q # i
      <3>1. PICK x \in 1..N, y \in 1..N : Old(k, x) /\ Old(q, y)
        BY <2>1, <2>5
      <3>2. x = y
        BY <1>10, <3>1
      <3> QED BY <1>6, <3>1, <3>2
    <2> QED BY <2>2, <2>3, <2>4, <2>5
  <1>12. Sorted(t)
    <2> SUFFICES ASSUME NEW k \in 1..(N + 1), NEW q \in 1..(N + 1), k < q
                 PROVE  u[k].key <= u[q].key
      BY <1>5 DEF Sorted, u
    <2>1. CASE k = i
      <3>1. q - 1 \in i..N /\ q - 1 \in 1..N
        BY <1>1, <1>6, <2>1
      <3>2. u[q] = s[q - 1] /\ u[k] = b
        BY <1>5, <1>7, <2>1, <3>1
      <3>3. ~(s[q - 1].key <= b.key)
        BY <1>2, <3>1 DEF N
      <3> QED BY <1>1, <3>1, <3>2, <3>3
    <2>2. CASE q = i
      <3>1. k \in 1..(i - 1) /\ i > 1 /\ i - 1 \in 1..N /\ k \in 1..N /\ (k = i - 1 \/ k < i - 1)
        BY <1>1, <1>6, <2>2
      <3>2. s[i - 1].key <= b.key /\ s[k].key <= s[i - 1].key
        BY <1>1, <1>2, <1>10, <3>1
      <3>3. u[k] = s[k] /\ u[q] = b
        BY <1>5, <1>7, <2>2, <3>1
      <3> QED BY <1>1, <3>1, <3>2, <3>3
    <2>3. CASE k < i /\ q < i
      <3>1. k \in 1..(i - 1) /\ q \in 1..(i - 1) /\ k \in 1..N /\ q \in 1..N
        BY <1>1, <1>6, <2>3
      <3> QED BY <1>7, <1>10, <3>1
    <2>4. CASE k < i /\ q > i
      <3>1. k \in 1..(i - 1) /\ q - 1 \in i..N /\ k \in 1..N /\ q - 1 \in 1..N /\ k < q - 1
        BY <1>1, <1>6, <2>4
      <3>2. u[k] = s[k] /\ u[q] = s[q - 1] /\ s[k].key <= s[q - 1].key
        BY <1>7, <1>10, <3>1
      <3> QED BY <3>2
    <2>5. CASE k > i /\ q > i
      <3>1. /\ k - 1 \in i..N /\ q - 1 \in i..N /\ k - 1 \in 1..N /\ q - 1 \in 1..N
            /\ k - 1 < q - 1
        BY <1>1, <1>6, <2>5
      <3>2. u[k] = s[k - 1] /\ u[q] = s[q - 1] /\ s[k - 1].key <= s[q - 1].key
        BY <1>7, <1>10, <3>1
      <3> QED BY <3>2
    <2>6. k = i \/ q = i \/ (k < i /\ q < i) \/ (k < i /\ q > i) \/ (k > i /\ q > i)
      BY <1>6
    <2> QED BY <2>1, <2>2, <2>3, <2>4, <2>5, <2>6
  <1> QED BY <1>3, <1>8, <1>11, <1>12 DEF t

(* What is above an inner node and its halves, in the pages p, a and b.    *)
Tops(n, l, r, lo, hi, par, p, mhi, mpar, a, b) ==
  /\ ~n.leaf /\ Len(n.blocks) = Capacity(n) + 1 /\ Len(n.children) = Len(n.blocks) + 1
  /\ High(lo, hi, par, n, p)
  /\ \A k \in DOMAIN n.children : mhi[n.children[k]] = hi[n.children[k]]
  /\ mhi[a] = Separator(n).key /\ mhi[b] = hi[p]
  /\ \A k \in DOMAIN l.children : mpar[l.children[k]] = a
  /\ \A k \in DOMAIN r.children : mpar[r.children[k]] = b

LEMMA SplitHigh ==
  ASSUME NEW n \in Node, NEW x, NEW y, NEW l, l = LeftHalf(n, x), NEW r, r = RightHalf(n, y),
         NEW lo, NEW hi, NEW par, NEW p, NEW mo, NEW mhi, NEW mpar, NEW a, NEW b,
         Tops(n, l, r, lo, hi, par, p, mhi, mpar, a, b)
  PROVE  High(mo, mhi, mpar, l, a) /\ High(mo, mhi, mpar, r, b)
  <1>0. /\ ~n.leaf /\ Len(n.blocks) = Capacity(n) + 1 /\ Len(n.children) = Len(n.blocks) + 1
        /\ High(lo, hi, par, n, p)
        /\ \A k \in DOMAIN n.children : mhi[n.children[k]] = hi[n.children[k]]
        /\ mhi[a] = Separator(n).key /\ mhi[b] = hi[p]
        /\ \A k \in DOMAIN l.children : mpar[l.children[k]] = a
        /\ \A k \in DOMAIN r.children : mpar[r.children[k]] = b
    BY DEF Tops
  <1> USE <1>0
  <1> DEFINE m == Mid(n)
             N == Len(n.blocks)
             sep == Separator(n).key
  <1>1. /\ m \in Nat /\ m >= 1 /\ m + 2 <= N /\ N \in Nat
        /\ DOMAIN n.blocks = 1..N /\ DOMAIN n.children = 1..(N + 1) /\ Len(n.children) = N + 1
        /\ sep = n.blocks[m + 1].key
    BY SplitBounds, NodeFacts
  <1>2. InnerHalves(n, l, r, m, N)
    BY SplitInnerParts
  <1> HIDE DEF m, N, sep
  <1>3. /\ l.leaf = n.leaf /\ r.leaf = n.leaf
        /\ DOMAIN l.blocks = 1..m /\ \A k \in 1..m : l.blocks[k] = n.blocks[k]
        /\ DOMAIN r.blocks = 1..(N - m - 1)
        /\ \A k \in 1..(N - m - 1) : r.blocks[k] = n.blocks[m + 1 + k]
        /\ DOMAIN l.children = 1..(m + 1) /\ Len(l.children) = m + 1
        /\ \A k \in 1..(m + 1) : l.children[k] = n.children[k]
        /\ DOMAIN r.children = 1..(N - m) /\ Len(r.children) = N - m
        /\ \A k \in 1..(N - m) : r.children[k] = n.children[m + 1 + k]
    BY <1>2 DEF InnerHalves
  <1>4. /\ \A k \in 1..N : hi[n.children[k]] = n.blocks[k].key
        /\ hi[n.children[N + 1]] = hi[p]
        /\ \A k, q \in 1..(N + 1) : n.children[k] = n.children[q] => k = q
    BY <1>1 DEF High
  <1>5. \A k \in 1..(N + 1) : mhi[n.children[k]] = hi[n.children[k]]
    BY <1>1
  <1>6. mhi[a] = sep
    BY DEF sep
  <1>7. /\ \A k \in 1..m : k \in 1..N /\ k \in 1..(N + 1) /\ k \in 1..(m + 1)
        /\ \A k \in 1..(m + 1) : k \in 1..(N + 1)
        /\ m + 1 \in 1..N /\ m + 1 \in 1..(N + 1) /\ m + 1 \in 1..(m + 1)
        /\ \A k \in 1..(N - m - 1) : m + 1 + k \in 1..N /\ m + 1 + k \in 1..(N + 1) /\ k \in 1..(N - m)
        /\ \A k \in 1..(N - m) : m + 1 + k \in 1..(N + 1)
        /\ N - m \in 1..(N - m) /\ m + 1 + (N - m) = N + 1 /\ N + 1 \in 1..(N + 1)
        /\ \A k, q \in 1..(N - m) : m + 1 + k = m + 1 + q => k = q
    BY ONLY <1>1
  <1>8. High(mo, mhi, mpar, l, a)
    <2>1. ASSUME NEW k \in 1..m PROVE mhi[l.children[k]] = l.blocks[k].key
      <3>1. k \in 1..N /\ k \in 1..(N + 1) /\ k \in 1..(m + 1)
        BY <1>7
      <3>2. mhi[n.children[k]] = n.blocks[k].key
        BY <1>4, <1>5, <3>1
      <3> QED BY <1>3, <3>1, <3>2
    <2>2. mhi[l.children[m + 1]] = mhi[a]
      <3>1. l.children[m + 1] = n.children[m + 1]
        BY <1>3, <1>7
      <3>2. mhi[n.children[m + 1]] = n.blocks[m + 1].key
        BY <1>4, <1>5, <1>7
      <3> QED BY <1>1, <1>6, <3>1, <3>2
    <2>3. \A k, q \in 1..(m + 1) : l.children[k] = l.children[q] => k = q
      BY <1>3, <1>4, <1>7
    <2> QED BY <1>3, <2>1, <2>2, <2>3 DEF High
  <1>9. High(mo, mhi, mpar, r, b)
    <2>1. ASSUME NEW k \in 1..(N - m - 1) PROVE mhi[r.children[k]] = r.blocks[k].key
      <3>1. m + 1 + k \in 1..N /\ m + 1 + k \in 1..(N + 1) /\ k \in 1..(N - m)
        BY <1>7
      <3>2. mhi[n.children[m + 1 + k]] = n.blocks[m + 1 + k].key
        BY <1>4, <1>5, <3>1
      <3> QED BY <1>3, <3>1, <3>2
    <2>2. mhi[r.children[N - m]] = mhi[b]
      <3>1. r.children[N - m] = n.children[N + 1]
        BY <1>3, <1>7
      <3> QED BY <1>4, <1>5, <1>7, <3>1
    <2>3. ASSUME NEW k \in 1..(N - m), NEW q \in 1..(N - m), r.children[k] = r.children[q]
          PROVE  k = q
      <3>1. n.children[m + 1 + k] = n.children[m + 1 + q]
        BY <1>3, <2>3
      <3>2. m + 1 + k = m + 1 + q
        BY <1>4, <1>7, <3>1
      <3> QED BY <1>7, <3>2
    <2> QED BY <1>3, <2>1, <2>2, <2>3 DEF High
  <1> QED BY <1>8, <1>9

(* The children of an inner node go to its halves, each to one of them.    *)
LEMMA SplitChildren ==
  ASSUME NEW n \in Node, ~n.leaf, Len(n.blocks) = Capacity(n) + 1,
         Len(n.children) = Len(n.blocks) + 1, NEW x, NEW y,
         NEW l, l = LeftHalf(n, x), NEW r, r = RightHalf(n, y)
  PROVE  /\ \A k \in DOMAIN l.children :
              k \in DOMAIN n.children /\ l.children[k] = n.children[k]
         /\ \A k \in DOMAIN r.children : \E q \in DOMAIN n.children : r.children[k] = n.children[q]
         /\ (\A k, q \in DOMAIN n.children : n.children[k] = n.children[q] => k = q)
              => \A k \in DOMAIN l.children, q \in DOMAIN r.children :
                   l.children[k] # r.children[q]
         /\ \A k \in DOMAIN n.blocks :
              \/ \E q \in DOMAIN l.blocks : l.blocks[q].key = n.blocks[k].key
              \/ \E q \in DOMAIN r.blocks : r.blocks[q].key = n.blocks[k].key
              \/ Separator(n).key = n.blocks[k].key
  <1> DEFINE m == Mid(n)
             N == Len(n.blocks)
             sep == Separator(n).key
  <1>1. /\ m \in Nat /\ m >= 1 /\ m + 2 <= N /\ N \in Nat
        /\ DOMAIN n.blocks = 1..N /\ DOMAIN n.children = 1..(N + 1) /\ Len(n.children) = N + 1
        /\ sep = n.blocks[m + 1].key
    BY SplitBounds, NodeFacts
  <1>2. InnerHalves(n, l, r, m, N)
    BY SplitInnerParts
  <1> HIDE DEF m, N, sep
  <1>3. /\ DOMAIN l.children = 1..(m + 1) /\ \A k \in 1..(m + 1) : l.children[k] = n.children[k]
        /\ DOMAIN r.children = 1..(N - m)
        /\ \A k \in 1..(N - m) : r.children[k] = n.children[m + 1 + k]
        /\ DOMAIN l.blocks = 1..m /\ \A k \in 1..m : l.blocks[k] = n.blocks[k]
        /\ DOMAIN r.blocks = 1..(N - m - 1)
        /\ \A k \in 1..(N - m - 1) : r.blocks[k] = n.blocks[m + 1 + k]
    BY <1>2 DEF InnerHalves
  <1>4. /\ \A k \in 1..(m + 1) : k \in 1..(N + 1)
        /\ \A k \in 1..(N - m) : m + 1 + k \in 1..(N + 1)
        /\ \A k \in 1..(m + 1), q \in 1..(N - m) : k # m + 1 + q
    BY <1>1
  <1>5. \A k \in DOMAIN l.children : k \in DOMAIN n.children /\ l.children[k] = n.children[k]
    BY <1>1, <1>3, <1>4
  <1>6. \A k \in DOMAIN r.children : \E q \in DOMAIN n.children : r.children[k] = n.children[q]
    <2> SUFFICES ASSUME NEW k \in 1..(N - m)
                 PROVE  \E q \in DOMAIN n.children : r.children[k] = n.children[q]
      BY <1>3
    <2>1. m + 1 + k \in DOMAIN n.children /\ r.children[k] = n.children[m + 1 + k]
      BY <1>1, <1>3, <1>4
    <2> QED BY <2>1
  <1>7. ASSUME \A k, q \in DOMAIN n.children : n.children[k] = n.children[q] => k = q,
               NEW k \in DOMAIN l.children, NEW q \in DOMAIN r.children,
               l.children[k] = r.children[q]
        PROVE  FALSE
    <2>1. k \in 1..(m + 1) /\ q \in 1..(N - m) /\ n.children[k] = n.children[m + 1 + q]
      BY <1>3, <1>7
    <2>2. k \in DOMAIN n.children /\ m + 1 + q \in DOMAIN n.children /\ k # m + 1 + q
      BY <1>1, <1>4, <2>1
    <2> QED BY <1>7, <2>1, <2>2
  <1>8. ASSUME NEW k \in DOMAIN n.blocks
        PROVE  \/ \E q \in DOMAIN l.blocks : l.blocks[q].key = n.blocks[k].key
               \/ \E q \in DOMAIN r.blocks : r.blocks[q].key = n.blocks[k].key
               \/ sep = n.blocks[k].key
    <2> DEFINE q == k - (m + 1)
    <2>1. k \in 1..m \/ k = m + 1 \/ (q \in 1..(N - m - 1) /\ k = m + 1 + q)
      BY <1>1
    <2> HIDE DEF q
    <2>2. CASE k \in 1..m
      BY <1>3, <2>2
    <2>3. CASE k = m + 1
      BY <1>1, <2>3
    <2>4. CASE q \in 1..(N - m - 1) /\ k = m + 1 + q
      BY <1>3, <2>4
    <2> QED BY <2>1, <2>2, <2>3, <2>4
  <1> QED BY <1>5, <1>6, <1>7, <1>8 DEF sep

LEMMA AddChildHigh ==
  ASSUME NEW n \in Node, ~n.leaf, Len(n.children) = Len(n.blocks) + 1,
         NEW j \in DOMAIN n.children, NEW b \in Block, NEW page \in Nat \ {0},
         NEW p, p = AddChild(n, j, b, page),
         NEW lo, NEW hi, NEW par, NEW q, High(lo, hi, par, n, q),
         NEW mo, NEW mhi, NEW mpar,
         \A k \in DOMAIN n.children \ {j} : mhi[n.children[k]] = hi[n.children[k]],
         mhi[n.children[j]] = b.key, mhi[page] = hi[n.children[j]], mhi[q] = hi[q],
         \A k \in DOMAIN n.children : mpar[n.children[k]] = q /\ n.children[k] # page,
         mpar[page] = q
  PROVE  High(mo, mhi, mpar, p, q)
  <1> DEFINE N == Len(n.blocks)
  <1>0. WithChild(n, j, b, page, p, N)
    BY AddChildParts
  <1>1. /\ p.leaf = n.leaf
        /\ DOMAIN p.blocks = 1..(N + 1) /\ p.blocks[j] = b
        /\ \A k \in 1..(j - 1) : p.blocks[k] = n.blocks[k]
        /\ \A k \in j..N : p.blocks[k + 1] = n.blocks[k]
        /\ DOMAIN p.children = 1..(N + 2) /\ Len(p.children) = N + 2
        /\ p.children[j + 1] = page
        /\ \A k \in 1..j : p.children[k] = n.children[k]
        /\ \A k \in (j + 1)..(N + 1) : p.children[k + 1] = n.children[k]
        /\ N \in Nat /\ j \in 1..(N + 1)
    BY <1>0 DEF WithChild
  <1>2. DOMAIN n.blocks = 1..N /\ DOMAIN n.children = 1..(N + 1) /\ Len(n.children) = N + 1
    BY NodeFacts
  <1> HIDE DEF N
  <1>3. /\ \A k \in 1..N : hi[n.children[k]] = n.blocks[k].key
        /\ hi[n.children[N + 1]] = hi[q]
        /\ \A k, i \in 1..(N + 1) : n.children[k] = n.children[i] => k = i
    BY <1>2 DEF High
  <1>4. /\ \A k \in 1..(N + 1) : k # j => mhi[n.children[k]] = hi[n.children[k]]
        /\ \A k \in 1..(N + 1) : mpar[n.children[k]] = q /\ n.children[k] # page
    BY <1>2
  <1> DEFINE Old(k, i) == i \in 1..(N + 1) /\ p.children[k] = n.children[i]
                            /\ ((i = k /\ i <= j) \/ (i + 1 = k /\ i > j))
  <1>5. ASSUME NEW k \in 1..(N + 2), k # j + 1
        PROVE  \E i \in 1..(N + 1) : Old(k, i)
    <2>1. CASE k <= j
      <3>1. k \in 1..j /\ k \in 1..(N + 1)
        BY <1>1, <2>1
      <3>2. Old(k, k)
        BY <1>1, <2>1, <3>1
      <3> QED BY <3>1, <3>2
    <2>2. CASE k > j + 1
      <3> DEFINE i == k - 1
      <3>1. i \in (j + 1)..(N + 1) /\ i + 1 = k /\ i \in 1..(N + 1) /\ i > j
        BY <1>1, <2>2
      <3> HIDE DEF i
      <3>2. Old(k, i)
        BY <1>1, <3>1
      <3> QED BY <3>1, <3>2
    <2> QED BY <1>1, <1>5, <2>1, <2>2
  <1>6. ASSUME NEW k \in 1..(N + 2) PROVE mpar[p.children[k]] = q
    <2>1. CASE k = j + 1
      BY <1>1, <2>1
    <2>2. CASE k # j + 1
      <3>1. PICK i \in 1..(N + 1) : Old(k, i)
        BY <1>5, <2>2
      <3> QED BY <1>4, <3>1
    <2> QED BY <2>1, <2>2
  <1>7. ASSUME NEW k \in 1..(N + 2), NEW i \in 1..(N + 2), p.children[k] = p.children[i]
        PROVE  k = i
    <2>1. CASE k = j + 1 /\ i = j + 1
      BY <2>1
    <2>2. CASE k = j + 1 /\ i # j + 1
      <3>1. PICK x \in 1..(N + 1) : Old(i, x)
        BY <1>5, <2>2
      <3>2. n.children[x] = page
        BY <1>1, <1>7, <2>2, <3>1
      <3> QED BY <1>4, <3>2
    <2>3. CASE k # j + 1 /\ i = j + 1
      <3>1. PICK x \in 1..(N + 1) : Old(k, x)
        BY <1>5, <2>3
      <3>2. n.children[x] = page
        BY <1>1, <1>7, <2>3, <3>1
      <3> QED BY <1>4, <3>2
    <2>4. CASE k # j + 1 /\ i # j + 1
      <3>1. PICK x \in 1..(N + 1), y \in 1..(N + 1) : Old(k, x) /\ Old(i, y)
        BY <1>5, <2>4
      <3>2. x = y
        BY <1>3, <1>7, <3>1
      <3> QED BY <1>1, <3>1, <3>2
    <2> QED BY <2>1, <2>2, <2>3, <2>4
  <1>8. ASSUME NEW k \in 1..(N + 1)
        PROVE  mhi[p.children[k]] = p.blocks[k].key
    <2>1. CASE k < j
      <3>1. k \in 1..(j - 1) /\ k \in 1..j /\ k \in 1..N /\ k # j
        BY <1>1, <2>1
      <3>2. mhi[n.children[k]] = n.blocks[k].key
        BY <1>3, <1>4, <3>1
      <3>3. p.children[k] = n.children[k] /\ p.blocks[k] = n.blocks[k]
        BY <1>1, <3>1
      <3> QED BY <3>2, <3>3
    <2>2. CASE k = j
      <3>1. j \in 1..j
        BY <1>1
      <3>2. mhi[p.children[j]] = p.blocks[j].key
        BY <1>1, <3>1
      <3> QED BY <2>2, <3>2
    <2>3. CASE k = j + 1
      <3>1. j \in j..N /\ j \in 1..N
        BY <1>1, <2>3
      <3>2. hi[n.children[j]] = n.blocks[j].key /\ p.blocks[j + 1] = n.blocks[j]
        BY <1>1, <1>3, <3>1
      <3>3. mhi[p.children[j + 1]] = p.blocks[j + 1].key
        BY <1>1, <3>2
      <3> QED BY <2>3, <3>3
    <2>4. CASE k > j + 1
      <3> DEFINE i == k - 1
      <3>1. i \in (j + 1)..(N + 1) /\ i + 1 = k /\ i \in j..N /\ i \in 1..N /\ i # j
        BY <1>1, <2>4
      <3> HIDE DEF i
      <3>2. mhi[n.children[i]] = n.blocks[i].key
        BY <1>3, <1>4, <3>1
      <3>3. p.children[i + 1] = n.children[i] /\ p.blocks[i + 1] = n.blocks[i]
        BY <1>1, <3>1
      <3> QED BY <3>1, <3>2, <3>3
    <2> QED BY <1>1, <2>1, <2>2, <2>3, <2>4
  <1>9. mhi[p.children[N + 2]] = mhi[q]
    <2>1. CASE j = N + 1
      <3>1. p.children[j + 1] = page /\ j + 1 = N + 2
        BY <1>1, <2>1
      <3>2. mhi[page] = hi[q]
        BY <1>3, <2>1
      <3> QED BY <3>1, <3>2
    <2>2. CASE j # N + 1
      <3> DEFINE i == N + 1
      <3>1. i \in (j + 1)..(N + 1) /\ i \in 1..(N + 1) /\ i + 1 = N + 2 /\ i # j
        BY <1>1, <2>2
      <3>2. p.children[i + 1] = n.children[i] /\ mhi[n.children[i]] = hi[n.children[i]]
            /\ hi[n.children[i]] = hi[q]
        BY <1>1, <1>3, <1>4, <3>1
      <3> HIDE DEF i
      <3> QED BY <3>1, <3>2
    <2> QED BY <2>1, <2>2
  <1>10. /\ p.leaf = FALSE /\ DOMAIN p.blocks = 1..(N + 1)
         /\ DOMAIN p.children = 1..(N + 2) /\ Len(p.children) = N + 2
    <2>1. n.leaf = FALSE
      BY NodeFacts
    <2> QED BY <1>1, <2>1
  <1> QED BY <1>6, <1>7, <1>8, <1>9, <1>10 DEF High

(* The bounds above a node depend on those of its children alone.          *)
LEMMA HighAgree ==
  ASSUME NEW n \in Node, n.leaf \/ Len(n.children) = Len(n.blocks) + 1,
         NEW lo, NEW hi, NEW par, NEW p, High(lo, hi, par, n, p),
         NEW mo, NEW mhi, NEW mpar, mhi[p] = hi[p],
         n.leaf => Bound(mo, n.next) = Bound(lo, n.next),
         ~n.leaf => \A k \in DOMAIN n.children :
                      /\ mhi[n.children[k]] = hi[n.children[k]]
                      /\ mpar[n.children[k]] = par[n.children[k]]
  PROVE  High(mo, mhi, mpar, n, p)
  <1>1. CASE n.leaf
    BY <1>1 DEF High
  <1>2. CASE ~n.leaf
    <2>1. /\ DOMAIN n.children = 1..Len(n.children) /\ DOMAIN n.blocks = 1..Len(n.blocks)
          /\ Len(n.blocks) \in Nat /\ Len(n.children) = Len(n.blocks) + 1
      BY <1>2, NodeFacts
    <2>2. Len(n.children) \in DOMAIN n.children /\ \A k \in DOMAIN n.blocks : k \in DOMAIN n.children
      BY <2>1
    <2> QED BY <1>2, <2>2 DEF High
  <1> QED BY <1>1, <1>2

=============================================================================
