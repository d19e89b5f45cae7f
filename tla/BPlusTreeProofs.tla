-------------------------- MODULE BPlusTreeProofs ---------------------------
(***************************************************************************)
(* Proofs about the B+ tree, for any order of at least 2, any keys and any *)
(* height.                                                                 *)
(***************************************************************************)
EXTENDS BPlusTree, SelectionProofs

\* r is s with e at p, and what was behind p moved by one.
Inserted(r, s, p, e) ==
  /\ Len(r) = Len(s) + 1
  /\ \A i \in 1..Len(s) + 1 : r[i] = IF i < p THEN s[i] ELSE IF i = p THEN e ELSE s[i - 1]

\* r is s without the element at p.
Removed(r, s, p) ==
  /\ Len(r) = Len(s) - 1
  /\ \A i \in 1..Len(s) - 1 : r[i] = IF i < p THEN s[i] ELSE s[i + 1]

\* vector::insert moves what is behind the place by one.
LEMMA InsertedAt ==
  ASSUME NEW S, NEW s \in Seq(S), NEW e \in S, NEW p \in 1..Len(s) + 1
  PROVE  InsertAt(s, p, e) \in Seq(S) /\ Inserted(InsertAt(s, p, e), s, p, e)
<1> DEFINE n == Len(s)
           a == SubSeq(s, 1, p - 1)
           b == SubSeq(s, p, n)
           r == a \o <<e>>
           t == r \o b
<1>1. n \in Nat /\ p \in 1..n + 1 /\ \A i \in 1..n : s[i] \in S
  BY LenProperties, ElementOfSeq
<1>2. /\ a \in Seq(S) /\ Len(a) = p - 1
      /\ \A i \in 1..p - 1 : a[i] = s[i]
  <2>1. \A i \in 1..p - 1 : s[i] \in S
    BY <1>1
  <2>2. /\ a \in Seq(S) /\ Len(a) = IF 1 <= p - 1 THEN p - 1 - 1 + 1 ELSE 0
        /\ \A i \in 1..p - 1 - 1 + 1 : a[i] = s[1 + i - 1]
    <3>1. 1 \in Int /\ p - 1 \in Int
      BY <1>1
    <3> HIDE DEF n
    <3> QED BY <2>1, <3>1, SubSeqProperties
  <2>3. \A i \in 1..p - 1 : i \in 1..p - 1 - 1 + 1 /\ 1 + i - 1 = i
    BY <1>1
  <2>4. (IF 1 <= p - 1 THEN p - 1 - 1 + 1 ELSE 0) = p - 1
    BY <1>1
  <2> HIDE DEF a
  <2> QED BY <2>2, <2>3, <2>4
<1>3. /\ b \in Seq(S) /\ Len(b) = n + 1 - p
      /\ \A i \in 1..n + 1 - p : b[i] = s[p + i - 1]
  <2>1. \A i \in p..n : s[i] \in S
    BY <1>1
  <2>2. /\ b \in Seq(S) /\ Len(b) = IF p <= n THEN n - p + 1 ELSE 0
        /\ \A i \in 1..n - p + 1 : b[i] = s[p + i - 1]
    <3>1. p \in Int /\ n \in Int
      BY <1>1
    <3> HIDE DEF n
    <3> QED BY <2>1, <3>1, SubSeqProperties
  <2>3. (IF p <= n THEN n - p + 1 ELSE 0) = n + 1 - p /\ n - p + 1 = n + 1 - p
    BY <1>1
  <2> HIDE DEF b
  <2> QED BY <2>2, <2>3
<1>4. /\ r \in Seq(S) /\ Len(r) = p
      /\ \A i \in 1..p : r[i] = IF i < p THEN s[i] ELSE e
  <2>1. <<e>> \in Seq(S) /\ Len(<<e>>) = 1 /\ <<e>>[1] = e
    OBVIOUS
  <2>2. /\ r \in Seq(S) /\ Len(r) = p - 1 + 1
        /\ \A i \in 1..p - 1 + 1 : r[i] = IF i <= p - 1 THEN a[i] ELSE <<e>>[i - (p - 1)]
    <3> HIDE DEF a
    <3>1. a \in Seq(S) /\ Len(a) = p - 1
      BY <1>2
    <3> QED BY <2>1, <3>1, ConcatProperties
  <2>3. p - 1 + 1 = p
    BY <1>1
  <2>4. ASSUME NEW i \in 1..p PROVE r[i] = IF i < p THEN s[i] ELSE e
    <3>1. \/ i < p /\ i <= p - 1 /\ i \in 1..p - 1
          \/ i = p /\ ~(i <= p - 1) /\ i - (p - 1) = 1
      BY <1>1
    <3> HIDE DEF r, a
    <3> QED BY <1>2, <2>1, <2>2, <2>3, <3>1
  <2> HIDE DEF r
  <2> QED BY <2>2, <2>3, <2>4
<1>5. /\ t \in Seq(S) /\ Len(t) = p + (n + 1 - p)
      /\ \A i \in 1..p + (n + 1 - p) : t[i] = IF i <= p THEN r[i] ELSE b[i - p]
  <2>1. r \in Seq(S) /\ b \in Seq(S)
    BY <1>3, <1>4
  <2>2. /\ t \in Seq(S) /\ Len(t) = Len(r) + Len(b)
        /\ \A i \in 1..Len(r) + Len(b) : t[i] = IF i <= Len(r) THEN r[i] ELSE b[i - Len(r)]
    <3> HIDE DEF r, b
    <3> QED BY <2>1, ConcatProperties
  <2> HIDE DEF r, b, t, n
  <2> QED BY <1>3, <1>4, <2>2
<1>6. p + (n + 1 - p) = n + 1
  BY <1>1
<1>7. ASSUME NEW i \in 1..n + 1
      PROVE  t[i] = IF i < p THEN s[i] ELSE IF i = p THEN e ELSE s[i - 1]
  <2>1. \/ i < p /\ i <= p /\ i \in 1..p
        \/ i = p /\ i <= p /\ i \in 1..p
        \/ i > p /\ ~(i < p) /\ i # p /\ ~(i <= p) /\ i - p \in 1..n + 1 - p /\ p + (i - p) - 1 = i - 1
    BY <1>1
  <2> HIDE DEF t, r, b, n
  <2> QED BY <1>3, <1>4, <1>5, <1>6, <2>1
<1>8. InsertAt(s, p, e) = t
  BY DEF InsertAt
<1> HIDE DEF t
<1> QED BY <1>5, <1>6, <1>7, <1>8 DEF Inserted

\* vector::erase moves what is behind the place by one.
LEMMA RemovedAt ==
  ASSUME NEW S, NEW s \in Seq(S), NEW p \in 1..Len(s)
  PROVE  RemoveAt(s, p) \in Seq(S) /\ Removed(RemoveAt(s, p), s, p)
<1> DEFINE n == Len(s)
           a == SubSeq(s, 1, p - 1)
           b == SubSeq(s, p + 1, n)
           t == a \o b
<1>1. n \in Nat /\ p \in 1..n /\ \A i \in 1..n : s[i] \in S
  BY LenProperties, ElementOfSeq
<1>2. /\ a \in Seq(S) /\ Len(a) = p - 1
      /\ \A i \in 1..p - 1 : a[i] = s[i]
  <2>1. \A i \in 1..p - 1 : s[i] \in S
    BY <1>1
  <2>2. /\ a \in Seq(S) /\ Len(a) = IF 1 <= p - 1 THEN p - 1 - 1 + 1 ELSE 0
        /\ \A i \in 1..p - 1 - 1 + 1 : a[i] = s[1 + i - 1]
    <3>1. 1 \in Int /\ p - 1 \in Int
      BY <1>1
    <3> HIDE DEF n
    <3> QED BY <2>1, <3>1, SubSeqProperties
  <2>3. \A i \in 1..p - 1 : i \in 1..p - 1 - 1 + 1 /\ 1 + i - 1 = i
    BY <1>1
  <2>4. (IF 1 <= p - 1 THEN p - 1 - 1 + 1 ELSE 0) = p - 1
    BY SMTT(30), <1>1
  <2> HIDE DEF a
  <2> QED BY <2>2, <2>3, <2>4
<1>3. /\ b \in Seq(S) /\ Len(b) = n - p
      /\ \A i \in 1..n - p : b[i] = s[p + i]
  <2>1. \A i \in p + 1..n : s[i] \in S
    BY <1>1
  <2>2. /\ b \in Seq(S) /\ Len(b) = IF p + 1 <= n THEN n - (p + 1) + 1 ELSE 0
        /\ \A i \in 1..n - (p + 1) + 1 : b[i] = s[p + 1 + i - 1]
    <3>1. p + 1 \in Int /\ n \in Int
      BY <1>1
    <3> HIDE DEF n
    <3> QED BY <2>1, <3>1, SubSeqProperties
  <2>3. /\ (IF p + 1 <= n THEN n - (p + 1) + 1 ELSE 0) = n - p
        /\ n - (p + 1) + 1 = n - p
        /\ \A i \in 1..n - p : p + 1 + i - 1 = p + i
    BY <1>1
  <2> HIDE DEF b
  <2> QED BY ZenonT(30), <2>2, <2>3
<1>4. /\ t \in Seq(S) /\ Len(t) = p - 1 + (n - p)
      /\ \A i \in 1..p - 1 + (n - p) : t[i] = IF i <= p - 1 THEN a[i] ELSE b[i - (p - 1)]
  <2>1. a \in Seq(S) /\ b \in Seq(S) /\ Len(a) = p - 1 /\ Len(b) = n - p
    BY <1>2, <1>3
  <2> HIDE DEF a, b, n
  <2>2. /\ t \in Seq(S) /\ Len(t) = Len(a) + Len(b)
        /\ \A i \in 1..Len(a) + Len(b) : t[i] = IF i <= Len(a) THEN a[i] ELSE b[i - Len(a)]
    BY <2>1, ConcatProperties
  <2> HIDE DEF t
  <2> QED BY <2>1, <2>2
<1>5. p - 1 + (n - p) = n - 1
  BY <1>1
<1>6. ASSUME NEW i \in 1..n - 1 PROVE t[i] = IF i < p THEN s[i] ELSE s[i + 1]
  <2>1. \/ i < p /\ i <= p - 1 /\ i \in 1..p - 1
        \/ i >= p /\ ~(i < p) /\ ~(i <= p - 1) /\ i - (p - 1) \in 1..n - p /\ p + (i - (p - 1)) = i + 1
    BY <1>1
  <2> HIDE DEF t, a, b, n
  <2> QED BY <1>2, <1>3, <1>4, <1>5, <2>1
<1>7. RemoveAt(s, p) = t
  BY DEF RemoveAt
<1> HIDE DEF t
<1> QED BY ZenonT(30), <1>4, <1>5, <1>6, <1>7 DEF Removed

\* lower_bound() on ascending keys: the keys up to its result are less.
LEMMA FindKeyCounts ==
  ASSUME NEW node, node.keys \in Seq(Int), Ascending(node.keys), NEW key \in Int
  PROVE  /\ FindKey(node, key) \in 0..Len(node.keys)
         /\ \A i \in 1..Len(node.keys) : node.keys[i] < key <=> i <= FindKey(node, key)
<1> DEFINE n == Len(node.keys)
           S == {i \in DOMAIN node.keys : node.keys[i] < key}
<1>1. n \in Nat /\ DOMAIN node.keys = 1..n /\ \A i \in 1..n : node.keys[i] \in Int
  BY LenProperties, ElementOfSeq
<1>2. \A i \in S : \A j \in 1..i : j \in S
  <2> SUFFICES ASSUME NEW i \in S, NEW j \in 1..i PROVE j \in S
    OBVIOUS
  <2>1. i \in 1..n /\ j \in 1..n /\ (j = i \/ j < i) /\ node.keys[i] < key
    BY <1>1
  <2>2. node.keys[j] <= node.keys[i]
    BY SMTT(30), <1>1, <2>1 DEF Ascending
  <2> QED BY <1>1, <2>1, <2>2
<1>3. S \subseteq 1..n
  BY <1>1
<1>4. Cardinality(S) \in 0..n /\ S = 1..Cardinality(S)
  <2> HIDE DEF S, n
  <2> QED BY <1>1, <1>2, <1>3, InitialSegment
<1>5. \A i \in 1..n : i \in S <=> i <= Cardinality(S)
  <2>1. \A i \in 1..n : i \in 1..Cardinality(S) <=> i <= Cardinality(S)
    BY <1>4
  <2> HIDE DEF S
  <2> QED BY <1>4, <2>1
<1>6. FindKey(node, key) = Cardinality(S)
  BY DEF FindKey
<1> QED BY <1>1, <1>4, <1>5, <1>6

\* The scan of findChildIndex() on ascending keys: the keys up to its result are not larger.
LEMMA FindChildCounts ==
  ASSUME NEW node, node.keys \in Seq(Int), Ascending(node.keys), NEW key \in Int
  PROVE  /\ FindChildIndex(node, key) \in 0..Len(node.keys)
         /\ \A i \in 1..Len(node.keys) : node.keys[i] <= key <=> i <= FindChildIndex(node, key)
<1> DEFINE n == Len(node.keys)
           S == {i \in DOMAIN node.keys : node.keys[i] <= key}
<1>1. n \in Nat /\ DOMAIN node.keys = 1..n /\ \A i \in 1..n : node.keys[i] \in Int
  BY LenProperties, ElementOfSeq
<1>2. \A i \in S : \A j \in 1..i : j \in S
  <2> SUFFICES ASSUME NEW i \in S, NEW j \in 1..i PROVE j \in S
    OBVIOUS
  <2>1. i \in 1..n /\ j \in 1..n /\ (j = i \/ j < i) /\ node.keys[i] <= key
    BY <1>1
  <2>2. node.keys[j] <= node.keys[i]
    BY SMTT(30), <1>1, <2>1 DEF Ascending
  <2> QED BY <1>1, <2>1, <2>2
<1>3. S \subseteq 1..n
  BY <1>1
<1>4. Cardinality(S) \in 0..n /\ S = 1..Cardinality(S)
  <2> HIDE DEF S, n
  <2> QED BY <1>1, <1>2, <1>3, InitialSegment
<1>5. \A i \in 1..n : i \in S <=> i <= Cardinality(S)
  <2>1. \A i \in 1..n : i \in 1..Cardinality(S) <=> i <= Cardinality(S)
    BY <1>4
  <2> HIDE DEF S
  <2> QED BY <1>4, <2>1
<1>6. FindChildIndex(node, key) = Cardinality(S)
  BY DEF FindChildIndex
<1> QED BY <1>1, <1>4, <1>5, <1>6

\* It is the only number of which that is true.
LEMMA FindChildIs ==
  ASSUME NEW node, node.keys \in Seq(Int), Ascending(node.keys), NEW key \in Int,
         NEW p \in 0..Len(node.keys),
         \A i \in 1..Len(node.keys) : node.keys[i] <= key <=> i <= p
  PROVE  FindChildIndex(node, key) = p
<1> DEFINE q == FindChildIndex(node, key)
<1>1. q \in 0..Len(node.keys) /\ \A i \in 1..Len(node.keys) : i <= p <=> i <= q
  BY FindChildCounts
<1>2. Len(node.keys) \in Nat
  BY LenProperties
<1> HIDE DEF q
<1>3. ~(p < q)
  <2>1. p < q => q \in 1..Len(node.keys) /\ ~(q <= p) /\ q <= q
    BY <1>1, <1>2
  <2> QED BY <1>1, <2>1
<1>4. ~(q < p)
  <2>1. q < p => p \in 1..Len(node.keys) /\ ~(p <= q) /\ p <= p
    BY <1>1, <1>2
  <2> QED BY <1>1, <2>1
<1> QED BY <1>1, <1>2, <1>3, <1>4 DEF q
-----------------------------------------------------------------------------
(* The invariant of a tree. Each node has a level, the leaves 0, and a     *)
(* range: the keys whose way from the root leads through it. The range of  *)
(* the root is all numbers, and that of a child is the part of its         *)
(* parent's range that findChildIndex() sends to it. The leaves have       *)
(* positions, which grow along their links as the ranges do. m is the map  *)
(* that the leaves hold.                                                   *)

AllNodes == [leaf : BOOLEAN, keys : Seq(Int), values : Seq(Nat), children : Seq(Nat), next : Nat]

IsLeaf(order, node) ==
  /\ Ascending(node.keys) /\ Len(node.keys) <= order
  /\ Len(node.values) = Len(node.keys) /\ node.children = <<>>

IsInner(order, node) ==
  /\ Ascending(node.keys) /\ Len(node.keys) \in 1..order
  /\ Len(node.children) = Len(node.keys) + 1

\* The keys that go to the c-th child.
Part(node, R, c) == {k \in R : FindChildIndex(node, k) + 1 = c}

\* The nodes of a level share no key.
Layered(nodes, level, range) ==
  /\ nodes \in Seq(AllNodes)
  /\ level \in [DOMAIN nodes -> Nat] /\ range \in [DOMAIN nodes -> SUBSET Int]
  /\ \A n \in DOMAIN nodes : nodes[n].leaf <=> level[n] = 0
  /\ \A a, b \in DOMAIN nodes : a # b /\ level[a] = level[b] => range[a] \cap range[b] = {}

KeysInRange(nodes, range, n) == \A i \in DOMAIN nodes[n].keys : nodes[n].keys[i] \in range[n]

GoodLeaves(order, nodes, range) ==
  \A n \in DOMAIN nodes : nodes[n].leaf => IsLeaf(order, nodes[n]) /\ KeysInRange(nodes, range, n)

GoodInner(order, nodes, level, range, n) ==
  /\ IsInner(order, nodes[n]) /\ KeysInRange(nodes, range, n)
  /\ \A c \in DOMAIN nodes[n].children :
       LET child == nodes[n].children[c]
       IN  /\ child \in DOMAIN nodes /\ level[child] = level[n] - 1
           /\ range[child] = Part(nodes[n], range[n], c)

\* The inner nodes up to a level: a split has not reached those above it.
GoodInners(order, nodes, level, range, top) ==
  \A n \in DOMAIN nodes : level[n] \in 1..top => GoodInner(order, nodes, level, range, n)

Linked(nodes, range, pos) ==
  /\ pos \in [DOMAIN nodes -> Nat]
  /\ \A a, b \in DOMAIN nodes : nodes[a].leaf /\ nodes[b].leaf =>
       /\ a # b => pos[a] # pos[b]
       /\ pos[a] < pos[b] => \A x \in range[a], y \in range[b] : x < y
  /\ \A n \in DOMAIN nodes : nodes[n].leaf =>
       IF nodes[n].next = NoNode
       THEN \A l \in DOMAIN nodes : nodes[l].leaf => pos[l] <= pos[n]
       ELSE /\ nodes[n].next \in DOMAIN nodes /\ nodes[nodes[n].next].leaf
            /\ pos[nodes[n].next] = pos[n] + 1

Filed(nodes, m) ==
  /\ \A n \in DOMAIN nodes : nodes[n].leaf => \A i \in DOMAIN nodes[n].keys :
       nodes[n].keys[i] \in DOMAIN m /\ m[nodes[n].keys[i]] = nodes[n].values[i]
  /\ \A k \in DOMAIN m : \E n \in DOMAIN nodes :
       nodes[n].leaf /\ \E i \in DOMAIN nodes[n].keys : nodes[n].keys[i] = k

UpTo(order, nodes, top, level, range, pos, m) ==
  /\ Layered(nodes, level, range)
  /\ GoodLeaves(order, nodes, range) /\ GoodInners(order, nodes, level, range, top)
  /\ Linked(nodes, range, pos) /\ Filed(nodes, m)

IsTreeBy(tree, level, range, pos, m) ==
  /\ tree.order \in Nat /\ tree.order >= 2
  /\ tree.root \in DOMAIN tree.nodes /\ range[tree.root] = Int
  /\ \A n \in DOMAIN tree.nodes : level[n] <= level[tree.root]
  /\ UpTo(tree.order, tree.nodes, level[tree.root], level, range, pos, m)

\* The tree is in order and holds the map m.
IsTree(tree, m) == \E level, range, pos : IsTreeBy(tree, level, range, pos, m)

\* What the other proofs use of it, node by node.
LEMMA TreeNode ==
  ASSUME NEW tree, NEW level, NEW range, NEW pos, NEW m, IsTreeBy(tree, level, range, pos, m),
         NEW n \in DOMAIN tree.nodes
  PROVE  /\ tree.nodes[n] \in AllNodes /\ tree.nodes[n].keys \in Seq(Int)
         /\ Ascending(tree.nodes[n].keys) /\ Len(tree.nodes[n].keys) \in Nat
         /\ DOMAIN tree.nodes[n].keys = 1..Len(tree.nodes[n].keys)
         /\ tree.nodes[n].values \in Seq(Nat) /\ tree.nodes[n].children \in Seq(Nat)
         /\ level[n] \in 0..level[tree.root] /\ level[tree.root] \in Nat
         /\ range[n] \in SUBSET Int
         /\ tree.nodes[n].leaf <=> level[n] = 0
         /\ tree.nodes[n].leaf => IsLeaf(tree.order, tree.nodes[n])
         /\ ~tree.nodes[n].leaf => /\ IsInner(tree.order, tree.nodes[n])
                                   /\ GoodInner(tree.order, tree.nodes, level, range, n)
         /\ KeysInRange(tree.nodes, range, n)
<1>1. /\ tree.nodes \in Seq(AllNodes) /\ level \in [DOMAIN tree.nodes -> Nat]
      /\ range \in [DOMAIN tree.nodes -> SUBSET Int]
      /\ tree.nodes[n].leaf <=> level[n] = 0
      /\ tree.root \in DOMAIN tree.nodes
      /\ level[n] <= level[tree.root]
  BY DEF IsTreeBy, UpTo, Layered
<1>2. tree.nodes[n] \in AllNodes
  BY <1>1, LenProperties, ElementOfSeq
<1>3. /\ tree.nodes[n].keys \in Seq(Int) /\ tree.nodes[n].values \in Seq(Nat)
      /\ tree.nodes[n].children \in Seq(Nat) /\ tree.nodes[n].leaf \in BOOLEAN
  BY <1>2 DEF AllNodes
<1>4. level[n] \in 0..level[tree.root] /\ level[tree.root] \in Nat /\ range[n] \in SUBSET Int
  BY <1>1
<1>5. tree.nodes[n].leaf => /\ IsLeaf(tree.order, tree.nodes[n])
                            /\ KeysInRange(tree.nodes, range, n)
  BY DEF IsTreeBy, UpTo, GoodLeaves
<1>6. ~tree.nodes[n].leaf => GoodInner(tree.order, tree.nodes, level, range, n)
  <2>1. ~tree.nodes[n].leaf => level[n] \in 1..level[tree.root]
    BY <1>1, <1>4
  <2> QED BY <2>1 DEF IsTreeBy, UpTo, GoodInners
<1>7. /\ Ascending(tree.nodes[n].keys) /\ KeysInRange(tree.nodes, range, n)
      /\ ~tree.nodes[n].leaf => IsInner(tree.order, tree.nodes[n])
  BY <1>5, <1>6 DEF IsLeaf, GoodInner, IsInner
<1>8. Len(tree.nodes[n].keys) \in Nat /\ DOMAIN tree.nodes[n].keys = 1..Len(tree.nodes[n].keys)
  BY <1>3, LenProperties
<1> QED BY <1>1, <1>2, <1>3, <1>4, <1>5, <1>6, <1>7, <1>8

\* The child that a key is sent to; the key is in its range if it is in the node's.
LEMMA WayDown ==
  ASSUME NEW tree, NEW level, NEW range, NEW pos, NEW m, IsTreeBy(tree, level, range, pos, m),
         NEW n \in DOMAIN tree.nodes, ~tree.nodes[n].leaf, NEW key \in Int
  PROVE  LET c == FindChildIndex(tree.nodes[n], key) + 1
             child == tree.nodes[n].children[c]
         IN  /\ c \in DOMAIN tree.nodes[n].children /\ Child(tree.nodes[n], key) = child
             /\ child \in DOMAIN tree.nodes /\ level[child] = level[n] - 1
             /\ range[child] = Part(tree.nodes[n], range[n], c)
             /\ key \in range[n] => key \in range[child]
<1> DEFINE c == FindChildIndex(tree.nodes[n], key) + 1
           child == tree.nodes[n].children[c]
<1>1. /\ tree.nodes[n].keys \in Seq(Int) /\ Ascending(tree.nodes[n].keys)
      /\ Len(tree.nodes[n].keys) \in Nat
      /\ IsInner(tree.order, tree.nodes[n])
      /\ GoodInner(tree.order, tree.nodes, level, range, n)
      /\ tree.nodes[n].children \in Seq(Nat)
  BY TreeNode
<1>2. FindChildIndex(tree.nodes[n], key) \in 0..Len(tree.nodes[n].keys)
  BY <1>1, FindChildCounts
<1>3. c \in 1..Len(tree.nodes[n].keys) + 1
  BY <1>1, <1>2
<1>4. c \in DOMAIN tree.nodes[n].children
  <2> HIDE DEF c
  <2> QED BY <1>1, <1>3, LenProperties DEF IsInner
<1>5. /\ child \in DOMAIN tree.nodes /\ level[child] = level[n] - 1
      /\ range[child] = Part(tree.nodes[n], range[n], c)
  <2> HIDE DEF c
  <2> QED BY <1>1, <1>4 DEF GoodInner
<1>6. key \in range[n] => key \in Part(tree.nodes[n], range[n], c)
  BY DEF Part
<1>7. Child(tree.nodes[n], key) = child
  BY DEF Child
<1> HIDE DEF c
<1> QED BY <1>4, <1>5, <1>6, <1>7 DEF c

\* The recursive function of the search unfolds, since levels are finite.
LEMMA LeafForUnfolds ==
  ASSUME NEW tree, NEW level, NEW range, NEW pos, NEW m, IsTreeBy(tree, level, range, pos, m),
         NEW key \in Int, NEW x \in DOMAIN tree.nodes
  PROVE  LeafFor(tree.nodes, x, key) =
           IF tree.nodes[x].leaf THEN x
           ELSE LeafFor(tree.nodes, Child(tree.nodes[x], key), key)
<1> DEFINE D == DOMAIN tree.nodes
           H == level[tree.root]
           Step(f, n) == IF tree.nodes[n].leaf THEN n ELSE f[Child(tree.nodes[n], key)]
           Good(f, l) == \A n \in D : level[n] <= l => f[n] = Step(f, n)
           Bad == {l \in 0..H : ~ \E f : Good(f, l)}
           Body(h) == [n \in D |-> IF tree.nodes[n].leaf THEN n ELSE h[Child(tree.nodes[n], key)]]
           leaf == CHOOSE h : h = Body(h)
<1>1. /\ H \in Nat /\ \A n \in D : level[n] \in 0..H
      /\ \A n \in D : tree.nodes[n].leaf <=> level[n] = 0
  <2>1. tree.root \in D
    BY DEF IsTreeBy
  <2> QED BY <2>1, TreeNode
<1>2. \A n \in D : ~tree.nodes[n].leaf =>
        Child(tree.nodes[n], key) \in D /\ level[Child(tree.nodes[n], key)] = level[n] - 1
  BY WayDown
<1>3. Bad = {}
  <2> SUFFICES ASSUME Bad # {} PROVE FALSE
    OBVIOUS
  <2>1. PICK l \in Bad : \A k \in Bad : l <= k
    <3>1. Bad \subseteq Nat
      BY <1>1
    <3> HIDE DEF Bad
    <3> QED BY <3>1, LeastNumber
  <2>6. l \in 0..H /\ l \in Nat /\ ~ \E f : Good(f, l)
    BY <1>1
  <2>7. \A n \in D : level[n] \in Nat
    BY <1>1
  <2> HIDE DEF Bad, H
  <2>2. \E f : \A n \in D : level[n] < l => f[n] = Step(f, n)
    <3>1. CASE l = 0
      <4>1. \A n \in D : ~(level[n] < 0)
        BY <2>7
      <4> QED BY <3>1, <4>1
    <3>2. CASE l # 0
      <4>1. l - 1 \in 0..H /\ ~(l <= l - 1)
        <5>1. H \in Nat /\ l \in 0..H
          BY <1>1, <2>6
        <5> QED BY <3>2, <5>1
      <4>2. l - 1 \notin Bad
        BY <2>1, <4>1
      <4>3. PICK f : Good(f, l - 1)
        <5> HIDE DEF Good
        <5> QED BY <4>1, <4>2 DEF Bad
      <4>4. \A n \in D : level[n] < l => level[n] <= l - 1
        BY <2>6, <2>7
      <4> QED BY <4>3, <4>4
    <3> QED BY <3>1, <3>2
  <2>3. PICK f : \A n \in D : level[n] < l => f[n] = Step(f, n)
    BY <2>2
  <2> DEFINE g == [n \in D |-> IF level[n] < l THEN f[n] ELSE Step(f, n)]
  <2>4. ASSUME NEW n \in D, level[n] <= l PROVE g[n] = Step(g, n)
    <3>1. g[n] = Step(f, n)
      BY <2>3
    <3>2. ~tree.nodes[n].leaf => /\ Child(tree.nodes[n], key) \in D
                                 /\ level[Child(tree.nodes[n], key)] < l
      <4>1. level[n] \in Nat /\ level[n] - 1 < l
        BY <2>4, <2>6, <2>7
      <4> QED BY <1>2, <4>1
    <3>3. ~tree.nodes[n].leaf => g[Child(tree.nodes[n], key)] = f[Child(tree.nodes[n], key)]
      BY <3>2
    <3> HIDE DEF g
    <3> QED BY <3>1, <3>3
  <2>5. Good(g, l)
    <3> HIDE DEF g
    <3> QED BY <2>4
  <2> QED BY <2>5, <2>6
<1>4. PICK f : Good(f, H)
  <2>1. H \in 0..H
    BY <1>1
  <2> HIDE DEF Good
  <2> QED BY <1>3, <2>1
<1> DEFINE F == [n \in D |-> f[n]]
<1>5. F = Body(F)
  <2>1. ASSUME NEW n \in D PROVE F[n] = Step(F, n)
    <3>1. f[n] = Step(f, n)
      BY <1>1, <1>4
    <3>2. ~tree.nodes[n].leaf => F[Child(tree.nodes[n], key)] = f[Child(tree.nodes[n], key)]
      BY <1>2
    <3>3. F[n] = f[n]
      OBVIOUS
    <3> HIDE DEF F
    <3> QED BY <3>1, <3>2, <3>3
  <2>2. Body(F) = [n \in D |-> F[n]]
    <3> HIDE DEF F
    <3> QED BY <2>1
  <2> QED BY <2>2
<1>6. leaf = Body(leaf)
  <2> HIDE DEF Body, F
  <2> QED BY <1>5
<1>7. \A n \in D : LeafFor(tree.nodes, n, key) = leaf[n]
  BY DEF LeafFor
<1> HIDE DEF leaf
<1>8. leaf[x] = Step(leaf, x)
  BY <1>6
<1> QED BY <1>2, <1>7, <1>8

\* The search ends at the leaf in whose range the key is.
LEMMA LeafForKey ==
  ASSUME NEW tree, NEW level, NEW range, NEW pos, NEW m, IsTreeBy(tree, level, range, pos, m),
         NEW key \in Int
  PROVE  LET n == LeafFor(tree.nodes, tree.root, key)
         IN  n \in DOMAIN tree.nodes /\ tree.nodes[n].leaf /\ key \in range[n]
<1> DEFINE D == DOMAIN tree.nodes
           H == level[tree.root]
           Found(n) == LET l == LeafFor(tree.nodes, n, key)
                       IN  l \in D /\ tree.nodes[l].leaf /\ key \in range[l]
           Wrong == {l \in 0..H : ~ \A n \in D : level[n] = l /\ key \in range[n] => Found(n)}
<1>1. /\ H \in Nat /\ \A n \in D : level[n] \in 0..H
      /\ \A n \in D : tree.nodes[n].leaf <=> level[n] = 0
      /\ tree.root \in D /\ key \in range[tree.root]
  <2>1. tree.root \in D /\ range[tree.root] = Int
    BY DEF IsTreeBy
  <2> QED BY <2>1, TreeNode
<1>2. Wrong = {}
  <2> SUFFICES ASSUME Wrong # {} PROVE FALSE
    OBVIOUS
  <2>1. PICK l \in Wrong : \A k \in Wrong : l <= k
    <3>1. Wrong \subseteq Nat
      BY <1>1
    <3> HIDE DEF Wrong
    <3> QED BY <3>1, LeastNumber
  <2>2. PICK n \in D : level[n] = l /\ key \in range[n] /\ ~Found(n)
    BY <2>1
  <2>3. CASE tree.nodes[n].leaf
    <3>1. LeafFor(tree.nodes, n, key) = n
      BY <2>3, LeafForUnfolds
    <3> QED BY <2>2, <2>3, <3>1
  <2>4. CASE ~tree.nodes[n].leaf
    <3>1. PICK child \in D : /\ child = Child(tree.nodes[n], key)
                             /\ level[child] = l - 1 /\ key \in range[child]
      BY <2>2, <2>4, WayDown
    <3>2. LeafFor(tree.nodes, n, key) = LeafFor(tree.nodes, child, key)
      BY <2>4, <3>1, LeafForUnfolds
    <3>3. l - 1 \in 0..H /\ ~(l <= l - 1)
      BY <1>1, <2>2, <2>4
    <3>4. l - 1 \notin Wrong
      <4> HIDE DEF Wrong
      <4> QED BY <2>1, <3>3
    <3>5. Found(child)
      <4> HIDE DEF Found
      <4> QED BY <3>1, <3>3, <3>4
    <3> QED BY <2>2, <3>2, <3>5
  <2> QED BY <2>3, <2>4
<1>3. Found(tree.root)
  <2>1. H \in 0..H
    BY <1>1
  <2> HIDE DEF Found
  <2> QED BY <1>1, <1>2, <2>1
<1> QED BY <1>3

\* A key is in the range of one leaf only.
LEMMA OneLeaf ==
  ASSUME NEW tree, NEW level, NEW range, NEW pos, NEW m, IsTreeBy(tree, level, range, pos, m),
         NEW a \in DOMAIN tree.nodes, NEW b \in DOMAIN tree.nodes,
         tree.nodes[a].leaf, tree.nodes[b].leaf, NEW key, key \in range[a], key \in range[b]
  PROVE  a = b
<1>1. level[a] = level[b]
  BY DEF IsTreeBy, UpTo, Layered
<1> QED BY <1>1 DEF IsTreeBy, UpTo, Layered

\* A key that is there is where lower_bound() points.
LEMMA KeyPlace ==
  ASSUME NEW node, node.keys \in Seq(Int), Ascending(node.keys),
         NEW i \in DOMAIN node.keys
  PROVE  FindKey(node, node.keys[i]) + 1 = i
<1> DEFINE key == node.keys[i]
           p == FindKey(node, key)
<1>1. Len(node.keys) \in Nat /\ i \in 1..Len(node.keys) /\ key \in Int
      /\ DOMAIN node.keys = 1..Len(node.keys)
  BY LenProperties, ElementOfSeq
<1>2. /\ p \in 0..Len(node.keys)
      /\ \A j \in 1..Len(node.keys) : node.keys[j] < key <=> j <= p
  <2> HIDE DEF key
  <2> QED BY <1>1, FindKeyCounts
<1>3. ~(i <= p)
  BY <1>1, <1>2
<1>4. ~(p + 1 < i)
  <2> SUFFICES ASSUME p + 1 < i PROVE FALSE
    OBVIOUS
  <2>1. p + 1 \in 1..Len(node.keys) /\ ~(p + 1 <= p)
    BY <1>1, <1>2
  <2>2. node.keys[p + 1] < key
    BY <1>1, <2>1 DEF Ascending
  <2> HIDE DEF p, key
  <2> QED BY <1>2, <2>1, <2>2
<1> HIDE DEF p
<1> QED BY <1>1, <1>2, <1>3, <1>4 DEF p

\* find() gives what the map has.
LEMMA FindIsLookup ==
  ASSUME NEW tree, NEW level, NEW range, NEW pos, NEW m, IsTreeBy(tree, level, range, pos, m),
         NEW key \in Int
  PROVE  /\ Find(tree, key) = IF key \in DOMAIN m THEN m[key] ELSE -1
         /\ key \in DOMAIN m => m[key] \in Nat
         /\ key \in DOMAIN m =>
              LET leaf == tree.nodes[LeafFor(tree.nodes, tree.root, key)]
                  place == FindKey(leaf, key) + 1
              IN  place \in DOMAIN leaf.keys /\ leaf.keys[place] = key
<1> DEFINE n == LeafFor(tree.nodes, tree.root, key)
           leaf == tree.nodes[n]
           place == FindKey(leaf, key) + 1
<1>1. n \in DOMAIN tree.nodes /\ leaf.leaf /\ key \in range[n]
  BY LeafForKey
<1> HIDE DEF n
<1>2. /\ leaf.keys \in Seq(Int) /\ Ascending(leaf.keys) /\ leaf.values \in Seq(Nat)
      /\ Len(leaf.values) = Len(leaf.keys)
  BY <1>1, TreeNode DEF IsLeaf
<1>3. \A i \in DOMAIN leaf.keys : /\ leaf.keys[i] \in DOMAIN m /\ leaf.values[i] \in Nat
                                  /\ m[leaf.keys[i]] = leaf.values[i]
  <2>1. \A i \in DOMAIN leaf.keys : leaf.keys[i] \in DOMAIN m /\ m[leaf.keys[i]] = leaf.values[i]
    BY <1>1 DEF IsTreeBy, UpTo, Filed
  <2>2. \A i \in DOMAIN leaf.keys : leaf.values[i] \in Nat
    <3> HIDE DEF leaf
    <3> QED BY <1>2, ElementOfSeq, LenProperties
  <2> QED BY <2>1, <2>2
<1>4. key \in DOMAIN m => \E i \in DOMAIN leaf.keys : leaf.keys[i] = key
  <2> SUFFICES ASSUME key \in DOMAIN m PROVE \E i \in DOMAIN leaf.keys : leaf.keys[i] = key
    OBVIOUS
  <2>1. PICK b \in DOMAIN tree.nodes :
          tree.nodes[b].leaf /\ \E i \in DOMAIN tree.nodes[b].keys : tree.nodes[b].keys[i] = key
    BY DEF IsTreeBy, UpTo, Filed
  <2>2. key \in range[b]
    BY <2>1, TreeNode DEF KeysInRange
  <2>3. b = n
    BY <1>1, <2>1, <2>2, OneLeaf
  <2> QED BY <2>1, <2>3
<1>5. key \in DOMAIN m => place \in DOMAIN leaf.keys /\ leaf.keys[place] = key
  <2> HIDE DEF leaf
  <2> QED BY <1>2, <1>4, KeyPlace
<1>6. Find(tree, key) = IF place \in DOMAIN leaf.keys /\ leaf.keys[place] = key
                        THEN leaf.values[place] ELSE -1
  BY DEF Find, n
<1> HIDE DEF leaf, place
<1>7. Find(tree, key) = IF key \in DOMAIN m THEN m[key] ELSE -1
  <2>1. CASE key \in DOMAIN m
    BY <1>3, <1>5, <1>6, <2>1
  <2>2. CASE key \notin DOMAIN m
    BY <1>3, <1>6, <2>2
  <2> QED BY <2>1, <2>2
<1>8. key \in DOMAIN m => m[key] \in Nat
  BY <1>3, <1>5
<1> QED BY <1>5, <1>7, <1>8 DEF leaf, place, n
-----------------------------------------------------------------------------
(* Insertion into a leaf.                                                  *)

\* r has the elements of s at n places, those after first.
IsPart(r, s, first, n) ==
  /\ Len(r) = n /\ DOMAIN r = 1..n
  /\ \A i \in 1..n : r[i] = s[first + i] /\ first + i \in 1..Len(s)

\* SubSeq takes consecutive elements.
LEMMA PartOf ==
  ASSUME NEW S, NEW s \in Seq(S), NEW first \in Nat, NEW n \in Nat, first + n <= Len(s),
         NEW a, NEW b, a = first + 1, b = first + n
  PROVE  SubSeq(s, a, b) \in Seq(S) /\ IsPart(SubSeq(s, a, b), s, first, n)
<1> DEFINE r == SubSeq(s, a, b)
<1>1. Len(s) \in Nat /\ a \in Int /\ b \in Int /\ \A i \in a..b : s[i] \in S
  BY LenProperties, ElementOfSeq
<1>2. /\ r \in Seq(S) /\ Len(r) = IF a <= b THEN b - a + 1 ELSE 0
      /\ \A i \in 1..b - a + 1 : r[i] = s[a + i - 1]
  BY <1>1, SubSeqProperties
<1>3. (IF a <= b THEN b - a + 1 ELSE 0) = n /\ b - a + 1 = n
  BY <1>1
<1>4. \A i \in 1..n : a + i - 1 = first + i /\ first + i \in 1..Len(s)
  BY <1>1
<1> HIDE DEF r
<1>5. DOMAIN r = 1..Len(r)
  BY <1>2, LenProperties
<1>6. IsPart(r, s, first, n)
  BY <1>2, <1>3, <1>4, <1>5 DEF IsPart
<1> QED BY <1>2, <1>6 DEF r

\* A part of an ascending sequence is ascending.
LEMMA AscendingPart ==
  ASSUME NEW s \in Seq(Int), Ascending(s), NEW r, NEW first \in Nat, NEW n \in Nat,
         IsPart(r, s, first, n)
  PROVE  Ascending(r)
<1>1. DOMAIN s = 1..Len(s) /\ Len(s) \in Nat
  BY LenProperties
<1>2. ASSUME NEW i \in 1..n, NEW j \in 1..n, i < j PROVE r[i] < r[j]
  <2>1. first + i < first + j
    BY <1>2
  <2>2. /\ first + i \in DOMAIN s /\ first + j \in DOMAIN s
        /\ r[i] = s[first + i] /\ r[j] = s[first + j]
    BY <1>1 DEF IsPart
  <2>3. s[first + i] < s[first + j]
    BY <2>1, <2>2 DEF Ascending
  <2> QED BY <2>2, <2>3
<1> QED BY <1>2 DEF Ascending, IsPart

\* An ascending sequence stays so when a number is put between the smaller and the larger.
LEMMA AscendingInserted ==
  ASSUME NEW s \in Seq(Int), Ascending(s), NEW e \in Int, NEW p \in 1..Len(s) + 1,
         \A i \in 1..Len(s) : i < p => s[i] < e, \A i \in 1..Len(s) : i >= p => e < s[i],
         NEW r \in Seq(Int), Inserted(r, s, p, e)
  PROVE  Ascending(r)
<1> DEFINE n == Len(s)
<1>1. n \in Nat /\ DOMAIN s = 1..n /\ \A i \in 1..n : s[i] \in Int
  BY LenProperties, ElementOfSeq
<1>2. /\ DOMAIN r = 1..n + 1
      /\ \A i \in 1..n + 1 : r[i] = IF i < p THEN s[i] ELSE IF i = p THEN e ELSE s[i - 1]
  BY LenProperties DEF Inserted
<1>3. /\ \A i \in 1..n : i < p => s[i] < e
      /\ \A i \in 1..n : i >= p => e < s[i]
      /\ \A i, j \in 1..n : i < j => s[i] < s[j]
      /\ p \in 1..n + 1
  BY <1>1 DEF Ascending
<1> HIDE DEF n
<1> SUFFICES ASSUME NEW a \in 1..n + 1, NEW b \in 1..n + 1, a < b PROVE r[a] < r[b]
  BY <1>2 DEF Ascending
<1>4. p \in Int /\ a \in Int /\ b \in Int
  BY <1>1, <1>3
<1>5. CASE b < p
  <2>1. a < p /\ a \in 1..n /\ b \in 1..n
    BY <1>1, <1>3, <1>5
  <2> QED BY <1>2, <1>3, <1>5, <2>1
<1>6. CASE b = p
  <2>1. a < p /\ a \in 1..n /\ ~(b < p)
    BY <1>1, <1>3, <1>6
  <2> QED BY <1>2, <1>3, <1>6, <2>1
<1>7. CASE b > p /\ a < p
  <2>1. a \in 1..n
    BY <1>1, <1>3, <1>7
  <2>2. b - 1 \in 1..n /\ b - 1 >= p /\ ~(b < p) /\ b # p
    BY <1>1, <1>3, <1>7
  <2>3. s[a] < e /\ e < s[b - 1] /\ r[a] = s[a] /\ r[b] = s[b - 1]
    BY <1>2, <1>3, <1>7, <2>1, <2>2
  <2>4. PICK x \in Int, y \in Int : x = s[a] /\ y = s[b - 1]
    BY <1>1, <2>1, <2>2
  <2>5. x < y
    BY SMTT(30), <2>3, <2>4
  <2> QED BY <2>3, <2>4, <2>5
<1>8. CASE b > p /\ a = p
  <2>1. b - 1 \in 1..n /\ b - 1 >= p /\ ~(b < p) /\ b # p /\ ~(a < p)
    BY <1>1, <1>3, <1>8
  <2> QED BY <1>2, <1>3, <1>8, <2>1
<1>9. CASE a > p
  <2>1. /\ a - 1 \in 1..n /\ b - 1 \in 1..n /\ a - 1 < b - 1
        /\ ~(a < p) /\ a # p /\ ~(b < p) /\ b # p
    BY <1>1, <1>3, <1>9
  <2>2. s[a - 1] < s[b - 1] /\ r[a] = s[a - 1] /\ r[b] = s[b - 1]
    BY <1>2, <1>3, <2>1
  <2> QED BY <2>2
<1> QED BY <1>4, <1>5, <1>6, <1>7, <1>8, <1>9

\* keys and values are those of a node, and one key more with its row id.
WithKey(keys, values, node, key, row) ==
  /\ keys \in Seq(Int) /\ values \in Seq(Nat) /\ Ascending(keys)
  /\ Len(keys) = Len(node.keys) + 1 /\ Len(values) = Len(node.keys) + 1
  /\ \A i \in DOMAIN keys :
       \/ keys[i] = key /\ values[i] = row
       \/ \E j \in DOMAIN node.keys : keys[i] = node.keys[j] /\ values[i] = node.values[j]
  /\ \A j \in DOMAIN node.keys : \E i \in DOMAIN keys : keys[i] = node.keys[j]
  /\ \E i \in DOMAIN keys : keys[i] = key

\* The keys stay in order, and each keeps its row id.
LEMMA LeafFilled ==
  ASSUME NEW node, node.keys \in Seq(Int), node.values \in Seq(Nat), Ascending(node.keys),
         Len(node.values) = Len(node.keys), NEW key \in Int, NEW row \in Nat,
         \A j \in DOMAIN node.keys : node.keys[j] # key
  PROVE  WithKey(InsertAt(node.keys, FindKey(node, key) + 1, key),
                 InsertAt(node.values, FindKey(node, key) + 1, row), node, key, row)
<1> DEFINE n == Len(node.keys)
           q == FindKey(node, key)
           p == q + 1
           keys == InsertAt(node.keys, p, key)
           values == InsertAt(node.values, p, row)
<1>1. n \in Nat /\ DOMAIN node.keys = 1..n /\ \A i \in 1..n : node.keys[i] \in Int
  BY LenProperties, ElementOfSeq
<1>2. q \in 0..n /\ \A i \in 1..n : node.keys[i] < key <=> i <= q
  BY FindKeyCounts
<1> HIDE DEF q
<1>3. p \in 1..n + 1
  BY <1>1, <1>2
<1> HIDE DEF p
<1>4. /\ keys \in Seq(Int) /\ Len(keys) = n + 1
      /\ \A i \in 1..n + 1 : keys[i] = IF i < p THEN node.keys[i]
                                       ELSE IF i = p THEN key ELSE node.keys[i - 1]
  <2>1. p \in 1..Len(node.keys) + 1
    BY <1>3
  <2>2. keys \in Seq(Int) /\ Inserted(keys, node.keys, p, key)
    BY <2>1, InsertedAt
  <2> HIDE DEF keys
  <2> QED BY <2>2 DEF Inserted
<1>5. /\ values \in Seq(Nat) /\ Len(values) = n + 1
      /\ \A i \in 1..n + 1 : values[i] = IF i < p THEN node.values[i]
                                         ELSE IF i = p THEN row ELSE node.values[i - 1]
  <2>1. p \in 1..Len(node.values) + 1
    BY <1>3
  <2>2. values \in Seq(Nat) /\ Inserted(values, node.values, p, row)
    BY <2>1, InsertedAt
  <2> HIDE DEF values
  <2> QED BY <2>2 DEF Inserted
<1>6. DOMAIN keys = 1..n + 1
  BY <1>4, LenProperties
<1> HIDE DEF keys, values, n
<1>7. Ascending(keys)
  <2>1. \A i \in 1..n : i < p => node.keys[i] < key
    <3>1. \A i \in 1..n : i < p => i <= q
      BY <1>1, <1>2 DEF p
    <3> QED BY <1>2, <3>1
  <2>2. \A i \in 1..n : i >= p => key < node.keys[i]
    <3>1. \A i \in 1..n : i >= p => ~(i <= q)
      BY <1>1, <1>2 DEF p
    <3>2. ASSUME NEW i \in 1..n, i >= p PROVE key < node.keys[i]
      <4>1. ~(node.keys[i] < key)
        BY <1>2, <3>1, <3>2
      <4>2. node.keys[i] # key /\ node.keys[i] \in Int
        BY <1>1
      <4> QED BY <4>1, <4>2
    <3> QED BY <3>2
  <2>3. Inserted(keys, node.keys, p, key)
    BY <1>4 DEF Inserted, n
  <2> QED BY <1>3, <1>4, <2>1, <2>2, <2>3, AscendingInserted DEF n
<1>8. ASSUME NEW i \in 1..n + 1
      PROVE  \/ keys[i] = key /\ values[i] = row
             \/ \E j \in 1..n : keys[i] = node.keys[j] /\ values[i] = node.values[j]
  <2>1. \/ i < p /\ i \in 1..n
        \/ i = p /\ ~(i < p)
        \/ ~(i < p) /\ i # p /\ i - 1 \in 1..n
    BY <1>1, <1>3
  <2> QED BY <1>4, <1>5, <2>1
<1>9. ASSUME NEW j \in 1..n PROVE \E i \in 1..n + 1 : keys[i] = node.keys[j]
  <2>1. \/ j < p /\ j \in 1..n + 1
        \/ j + 1 \in 1..n + 1 /\ ~(j + 1 < p) /\ j + 1 # p /\ (j + 1) - 1 = j
    BY <1>1, <1>3
  <2>2. CASE j < p /\ j \in 1..n + 1
    BY <1>4, <2>2
  <2>3. CASE j + 1 \in 1..n + 1 /\ ~(j + 1 < p) /\ j + 1 # p /\ (j + 1) - 1 = j
    <3>1. keys[j + 1] = node.keys[j]
      BY <1>4, <2>3
    <3> QED BY <2>3, <3>1
  <2> QED BY <2>1, <2>2, <2>3
<1>10. keys[p] = key
  <2>1. ~(p < p)
    BY <1>3
  <2> QED BY <1>3, <1>4, <2>1
<1>11. WithKey(keys, values, node, key, row)
  BY ZenonT(30), <1>1, <1>3, <1>4, <1>5, <1>6, <1>7, <1>8, <1>9, <1>10 DEF WithKey, n
<1> QED BY <1>11 DEF keys, values, p, q

\* Another leaf in the place of a leaf, in the same range and with the same link.
LEMMA LeafReplaced ==
  ASSUME NEW order, NEW nodes, NEW top, NEW level, NEW range, NEW pos, NEW m,
         UpTo(order, nodes, top, level, range, pos, m),
         NEW n \in DOMAIN nodes, nodes[n].leaf,
         NEW L \in AllNodes, L.leaf, L.next = nodes[n].next, IsLeaf(order, L),
         \A i \in DOMAIN L.keys : L.keys[i] \in range[n],
         NEW nodes2, nodes2 = [nodes EXCEPT ![n] = L], NEW m2, Filed(nodes2, m2)
  PROVE  UpTo(order, nodes2, top, level, range, pos, m2)
<1>1. nodes \in Seq(AllNodes)
  BY DEF UpTo, Layered
<1>2. /\ nodes2 \in Seq(AllNodes) /\ DOMAIN nodes2 = DOMAIN nodes
      /\ \A x \in DOMAIN nodes : nodes2[x] = IF x = n THEN L ELSE nodes[x]
  <2>1. n \in 1..Len(nodes) /\ DOMAIN nodes = 1..Len(nodes)
    BY <1>1, LenProperties
  <2>2. nodes2 \in Seq(AllNodes) /\ Len(nodes2) = Len(nodes)
    BY <1>1, <2>1, ExceptSeq
  <2>3. DOMAIN nodes2 = 1..Len(nodes2)
    BY <2>2, LenProperties
  <2> QED BY <2>1, <2>2, <2>3
<1>3. \A x \in DOMAIN nodes : nodes2[x].leaf = nodes[x].leaf /\ nodes2[x].next = nodes[x].next
  BY <1>2
<1>4. Layered(nodes2, level, range)
  BY <1>2, <1>3 DEF UpTo, Layered
<1>5. GoodLeaves(order, nodes2, range)
  <2> SUFFICES ASSUME NEW x \in DOMAIN nodes, nodes2[x].leaf
               PROVE  IsLeaf(order, nodes2[x]) /\ KeysInRange(nodes2, range, x)
    BY <1>2 DEF GoodLeaves
  <2>1. CASE x = n
    BY <1>2, <2>1 DEF KeysInRange
  <2>2. CASE x # n
    <3>1. IsLeaf(order, nodes[x]) /\ KeysInRange(nodes, range, x)
      BY <1>3 DEF UpTo, GoodLeaves
    <3> QED BY <1>2, <2>2, <3>1 DEF KeysInRange
  <2> QED BY <2>1, <2>2
<1>6. GoodInners(order, nodes2, level, range, top)
  <2> SUFFICES ASSUME NEW x \in DOMAIN nodes, level[x] \in 1..top
               PROVE  GoodInner(order, nodes2, level, range, x)
    BY <1>2 DEF GoodInners
  <2>1. x # n
    BY DEF UpTo, Layered
  <2>2. GoodInner(order, nodes, level, range, x)
    BY DEF UpTo, GoodInners
  <2> QED BY <1>2, <2>1, <2>2 DEF GoodInner, KeysInRange
<1>7. Linked(nodes2, range, pos)
  <2>1. Linked(nodes, range, pos)
    BY DEF UpTo
  <2>2. \A x \in DOMAIN nodes : nodes[x].leaf /\ nodes[x].next # NoNode => nodes[x].next \in DOMAIN nodes
    BY <2>1 DEF Linked
  <2> QED BY SMTT(30), <1>2, <1>3, <2>1, <2>2 DEF Linked
<1> QED BY <1>4, <1>5, <1>6, <1>7 DEF UpTo

\* The map with a key that it did not have.
Put(m, key, row) == [k \in DOMAIN m \cup {key} |-> IF k = key THEN row ELSE m[k]]

\* r is what insert() returns for node n: the nodes above n are as they were, n has kept its
\* range, or the part below the key that goes up, and then the rest is that of the new node.
Grows(nodes, n, level, range, r, level2, range2) ==
  /\ DOMAIN nodes \subseteq DOMAIN r.nodes
  /\ \A x \in DOMAIN nodes :
       /\ level2[x] = level[x]
       /\ level[x] > level[n] => r.nodes[x] = nodes[x] /\ range2[x] = range[x]
       /\ level[x] = level[n] /\ x # n => range2[x] = range[x]
  /\ \A x \in DOMAIN r.nodes \ DOMAIN nodes :
       level2[x] <= level[n] /\ (level2[x] = level[n] => r.split # NoSplit /\ x = r.split.node)
  /\ r.split = NoSplit => range2[n] = range[n]
  /\ r.split # NoSplit =>
       /\ r.split.node \in DOMAIN r.nodes \ DOMAIN nodes
       /\ level2[r.split.node] = level[n] /\ r.split.key \in range[n]
       /\ \E low \in range[n] : low < r.split.key
       /\ range2[n] = {k \in range[n] : k < r.split.key}
       /\ range2[r.split.node] = {k \in range[n] : k >= r.split.key}

GrownUnder(order, nodes, n, level, range, r, m) ==
  \E level2, range2, pos2 :
    /\ Grows(nodes, n, level, range, r, level2, range2)
    /\ UpTo(order, r.nodes, level[n], level2, range2, pos2, m)

\* nodes2 are the nodes with L in the place of node n and R as a new one.
OneMoreNode(nodes, n, L, R, nodes2, new) ==
  /\ nodes2 \in Seq(AllNodes) /\ DOMAIN nodes2 = DOMAIN nodes \cup {new}
  /\ new \notin DOMAIN nodes /\ new \in Nat /\ new # NoNode
  /\ nodes2[new] = R /\ nodes2[n] = L
  /\ \A x \in DOMAIN nodes : x # n => nodes2[x] = nodes[x]

\* Nodes that are replaced or added, one by one.
LEMMA ReplacedAndAdded ==
  ASSUME NEW nodes \in Seq(AllNodes), NEW n \in DOMAIN nodes, NEW L \in AllNodes, NEW R \in AllNodes
  PROVE  OneMoreNode(nodes, n, L, R, Append([nodes EXCEPT ![n] = L], R), NewNode(nodes))
<1> DEFINE N == Len(nodes)
           once == [nodes EXCEPT ![n] = L]
           nodes2 == Append(once, R)
           new == NewNode(nodes)
<1>1. N \in Nat /\ DOMAIN nodes = 1..N /\ n \in 1..N
  BY LenProperties
<1>2. /\ once \in Seq(AllNodes) /\ Len(once) = N
      /\ \A x \in 1..N : once[x] = IF x = n THEN L ELSE nodes[x]
  BY <1>1, ExceptSeq
<1> HIDE DEF once
<1>3. /\ nodes2 \in Seq(AllNodes) /\ Len(nodes2) = N + 1
      /\ \A x \in 1..N : nodes2[x] = once[x]
      /\ nodes2[N + 1] = R
  BY SMTT(30), <1>2, AppendProperties
<1>4. DOMAIN nodes2 = 1..N + 1
  BY <1>3, LenProperties
<1>5. new = N + 1
  BY DEF NewNode
<1> HIDE DEF nodes2, new, N
<1>6. 1..N + 1 = (1..N) \cup {new} /\ new \notin 1..N /\ new \in Nat /\ new # NoNode
  BY <1>1, <1>5 DEF NoNode
<1>7. OneMoreNode(nodes, n, L, R, nodes2, new)
  BY <1>1, <1>2, <1>3, <1>4, <1>5, <1>6 DEF OneMoreNode
<1> QED BY <1>7 DEF nodes2, once, new

\* A leaf that is split: the new leaf takes the keys and the range from s on, and the place
\* in the list after it.
LEMMA LeafSplit ==
  ASSUME NEW order, NEW nodes, NEW top, NEW level, NEW range, NEW pos, NEW m,
         UpTo(order, nodes, top, level, range, pos, m),
         NEW n \in DOMAIN nodes, nodes[n].leaf, NEW s \in range[n],
         NEW L \in AllNodes, L.leaf, L.next = NewNode(nodes), IsLeaf(order, L),
         \A i \in DOMAIN L.keys : L.keys[i] \in range[n] /\ L.keys[i] < s,
         NEW low \in range[n], low < s,
         NEW R \in AllNodes, R.leaf, R.next = nodes[n].next, IsLeaf(order, R),
         \A i \in DOMAIN R.keys : R.keys[i] \in range[n] /\ R.keys[i] >= s,
         NEW nodes2, nodes2 = Append([nodes EXCEPT ![n] = L], R), NEW m2, Filed(nodes2, m2)
  PROVE  GrownUnder(order, nodes, n, level, range,
                    [nodes |-> nodes2, split |-> [key |-> s, node |-> NewNode(nodes)]], m2)
<1> DEFINE D == DOMAIN nodes
           new == NewNode(nodes)
           level2 == [x \in D \cup {new} |-> IF x = new THEN 0 ELSE level[x]]
           range2 == [x \in D \cup {new} |->
                        IF x = new THEN {k \in range[n] : k >= s}
                        ELSE IF x = n THEN {k \in range[n] : k < s} ELSE range[x]]
           pos2 == [x \in D \cup {new} |->
                      IF x = new THEN pos[n] + 1 ELSE IF pos[x] > pos[n] THEN pos[x] + 1 ELSE pos[x]]
           r == [nodes |-> nodes2, split |-> [key |-> s, node |-> new]]
<1>1. /\ nodes \in Seq(AllNodes) /\ level \in [D -> Nat] /\ range \in [D -> SUBSET Int]
      /\ \A x \in D : nodes[x].leaf <=> level[x] = 0
      /\ \A a, b \in D : a # b /\ level[a] = level[b] => range[a] \cap range[b] = {}
  BY DEF UpTo, Layered
<1>2. /\ nodes2 \in Seq(AllNodes) /\ DOMAIN nodes2 = D \cup {new}
      /\ new \notin D /\ new \in Nat /\ new # NoNode
      /\ nodes2[new] = R /\ nodes2[n] = L
      /\ \A x \in D : x # n => nodes2[x] = nodes[x]
      /\ nodes2[n].next = new
  <2>1. OneMoreNode(nodes, n, L, R, nodes2, new)
    BY <1>1, ReplacedAndAdded
  <2>2. L.next = new
    OBVIOUS
  <2> HIDE DEF new
  <2> QED BY <2>1, <2>2 DEF OneMoreNode
<1> HIDE DEF new
<1>3. /\ s \in Int /\ range[n] \in SUBSET Int /\ level[n] = 0 /\ n # new
  BY <1>1, <1>2
<1>4. /\ level2[new] = 0 /\ \A x \in D : level2[x] = level[x]
      /\ range2[new] = {k \in range[n] : k >= s} /\ range2[n] = {k \in range[n] : k < s}
      /\ \A x \in D : x # n => range2[x] = range[x]
      /\ \A x \in D : range2[x] \subseteq range[x]
  BY <1>2, <1>3
<1>5. level2 \in [D \cup {new} -> Nat] /\ range2 \in [D \cup {new} -> SUBSET Int]
  BY <1>1, <1>3
<1> HIDE DEF level2, range2
<1>6. \A x \in D : nodes2[x].leaf <=> nodes[x].leaf
  BY <1>2
<1>7. Layered(nodes2, level2, range2)
  <2>1. \A x \in D \cup {new} : nodes2[x].leaf <=> level2[x] = 0
    BY <1>1, <1>2, <1>4, <1>6
  <2>2. \A k : ~(k \in range2[n] /\ k \in range2[new])
    <3> SUFFICES ASSUME NEW k \in Int, k < s, k >= s PROVE FALSE
      BY <1>3, <1>4
    <3> QED BY <1>3
  <2>3. \A x \in D : x # n /\ level[x] = 0 => range2[x] \cap range2[new] = {}
    BY <1>1, <1>3, <1>4
  <2>4. \A a, b \in D : a # b /\ level2[a] = level2[b] => range2[a] \cap range2[b] = {}
    BY SMTT(30), <1>1, <1>4
  <2>5. ASSUME NEW a \in D \cup {new}, NEW b \in D \cup {new}, a # b, level2[a] = level2[b]
        PROVE  range2[a] \cap range2[b] = {}
    <3>1. CASE a \in D /\ b \in D
      BY <2>4, <2>5, <3>1
    <3>2. CASE a = new /\ b \in D
      BY <1>4, <2>2, <2>3, <2>5, <3>2
    <3>3. CASE b = new /\ a \in D
      BY <1>4, <2>2, <2>3, <2>5, <3>3
    <3> QED BY <2>5, <3>1, <3>2, <3>3
  <2> QED BY ZenonT(30), <1>2, <1>5, <2>1, <2>5 DEF Layered
<1>8. GoodLeaves(order, nodes2, range2)
  <2> SUFFICES ASSUME NEW x \in D \cup {new}, nodes2[x].leaf
               PROVE  IsLeaf(order, nodes2[x]) /\ KeysInRange(nodes2, range2, x)
    BY <1>2 DEF GoodLeaves
  <2>1. CASE x = new
    BY <1>2, <1>4, <2>1 DEF KeysInRange
  <2>2. CASE x = n
    BY <1>2, <1>4, <2>2 DEF KeysInRange
  <2>3. CASE x \in D /\ x # n
    <3>1. IsLeaf(order, nodes[x]) /\ KeysInRange(nodes, range, x)
      BY <1>6, <2>3 DEF UpTo, GoodLeaves
    <3> QED BY <1>2, <1>4, <2>3, <3>1 DEF KeysInRange
  <2> QED BY <2>1, <2>2, <2>3
<1>9. GoodInners(order, nodes2, level2, range2, level[n])
  <2>1. ~ \E l : l \in 1..0
    OBVIOUS
  <2> QED BY <1>3, <2>1 DEF GoodInners
<1>10. Linked(nodes2, range2, pos2)
  <2>1. /\ pos \in [D -> Nat]
        /\ \A a, b \in D : nodes[a].leaf /\ nodes[b].leaf =>
             /\ a # b => pos[a] # pos[b]
             /\ pos[a] < pos[b] => \A x \in range[a], y \in range[b] : x < y
        /\ \A x \in D : nodes[x].leaf =>
             IF nodes[x].next = NoNode
             THEN \A l \in D : nodes[l].leaf => pos[l] <= pos[x]
             ELSE /\ nodes[x].next \in D /\ nodes[nodes[x].next].leaf
                  /\ pos[nodes[x].next] = pos[x] + 1
    BY DEF UpTo, Linked
  <2>2. /\ pos[n] \in Nat /\ pos2[new] = pos[n] + 1
        /\ \A x \in D : pos2[x] = IF pos[x] > pos[n] THEN pos[x] + 1 ELSE pos[x]
        /\ \A x \in D : pos[x] \in Nat
    BY <1>2, <2>1
  <2>3. pos2 \in [D \cup {new} -> Nat]
    BY <2>1
  <2> HIDE DEF pos2
  <2>4. ASSUME NEW a \in D, NEW b \in D, nodes[a].leaf, nodes[b].leaf
        PROVE  /\ a # b => pos2[a] # pos2[b]
               /\ pos2[a] < pos2[b] => \A x \in range2[a], y \in range2[b] : x < y
    <3>1. /\ pos2[a] # pos2[b] <=> pos[a] # pos[b]
          /\ pos2[a] < pos2[b] <=> pos[a] < pos[b]
      BY <2>2
    <3> QED BY <1>4, <2>1, <2>4, <3>1
  <2>5. ASSUME NEW b \in D, nodes[b].leaf
        PROVE  /\ pos2[new] # pos2[b]
               /\ pos2[new] < pos2[b] => \A x \in range2[new], y \in range2[b] : x < y
               /\ pos2[b] < pos2[new] => \A x \in range2[b], y \in range2[new] : x < y
    <3>1. /\ pos2[new] # pos2[b]
          /\ pos2[new] < pos2[b] => pos[n] < pos[b]
          /\ pos2[b] < pos2[new] => pos[b] <= pos[n]
      BY <2>2
    <3>2. pos2[new] < pos2[b] => \A x \in range2[new], y \in range2[b] : x < y
      <4> SUFFICES ASSUME pos[n] < pos[b] PROVE \A x \in range2[new], y \in range2[b] : x < y
        BY <3>1
      <4>1. \A x \in range[n], y \in range[b] : x < y
        BY <2>1, <2>5
      <4> QED BY <1>4, <4>1
    <3>3. pos2[b] < pos2[new] => \A x \in range2[b], y \in range2[new] : x < y
      <4> SUFFICES ASSUME pos[b] <= pos[n] PROVE \A x \in range2[b], y \in range2[new] : x < y
        BY <3>1
      <4>1. CASE b = n
        <5> SUFFICES ASSUME NEW x \in Int, NEW y \in Int, x < s, y >= s PROVE x < y
          BY <1>3, <1>4, <4>1
        <5> QED BY <1>3
      <4>2. CASE b # n
        <5>1. pos[b] < pos[n]
          BY <2>1, <2>2, <2>5, <4>2
        <5>2. \A x \in range[b], y \in range[n] : x < y
          BY <2>1, <2>5, <5>1
        <5> QED BY <1>4, <5>2
      <4> QED BY <4>1, <4>2
    <3> QED BY <3>1, <3>2, <3>3
  <2>6. ASSUME NEW a \in D \cup {new}, NEW b \in D \cup {new}, nodes2[a].leaf, nodes2[b].leaf
        PROVE  /\ a # b => pos2[a] # pos2[b]
               /\ pos2[a] < pos2[b] => \A x \in range2[a], y \in range2[b] : x < y
    <3>1. CASE a \in D /\ b \in D
      BY <1>6, <2>4, <2>6, <3>1
    <3>2. CASE a = new /\ b \in D
      BY <1>6, <2>5, <2>6, <3>2
    <3>3. CASE b = new /\ a \in D
      BY <1>6, <2>5, <2>6, <3>3
    <3>4. CASE a = new /\ b = new
      BY <2>2, <3>4
    <3> QED BY <2>6, <3>1, <3>2, <3>3, <3>4
  <2>7. ASSUME NEW x \in D \cup {new}, nodes2[x].leaf, nodes2[x].next = NoNode
        PROVE  \A l \in D \cup {new} : nodes2[l].leaf => pos2[l] <= pos2[x]
    <3>1. x # n
      BY <1>2, <2>7
    <3>2. CASE x = new
      <4>1. \A l \in D : nodes[l].leaf => pos[l] <= pos[n]
        BY <1>2, <2>1, <2>7, <3>2
      <4>2. ASSUME NEW l \in D, nodes[l].leaf PROVE pos2[l] <= pos2[new]
        BY <2>2, <4>1, <4>2
      <4> QED BY <1>6, <2>2, <3>2, <4>2
    <3>3. CASE x \in D
      <4>1. nodes[x].leaf /\ \A l \in D : nodes[l].leaf => pos[l] <= pos[x]
        BY <1>2, <1>6, <2>1, <2>7, <3>1, <3>3
      <4>2. pos[n] < pos[x]
        BY <2>1, <2>2, <3>1, <3>3, <4>1
      <4>3. ASSUME NEW l \in D, nodes[l].leaf PROVE pos2[l] <= pos2[x]
        BY SMTT(30), <2>2, <3>3, <4>1, <4>2, <4>3
      <4>4. pos2[new] <= pos2[x]
        BY <2>2, <3>3, <4>2
      <4> QED BY <1>6, <4>3, <4>4
    <3> QED BY <3>2, <3>3
  <2>8. ASSUME NEW x \in D \cup {new}, nodes2[x].leaf, nodes2[x].next # NoNode
        PROVE  /\ nodes2[x].next \in D \cup {new} /\ nodes2[nodes2[x].next].leaf
               /\ pos2[nodes2[x].next] = pos2[x] + 1
    <3>1. CASE x = n
      BY <1>2, <2>2, <3>1
    <3>2. CASE x = new
      <4>1. PICK y \in D : y = nodes[n].next /\ nodes[y].leaf /\ pos[y] = pos[n] + 1
        BY <1>2, <2>1, <2>8, <3>2
      <4>2. pos2[y] = pos2[new] + 1
        BY <2>2, <4>1
      <4> QED BY <1>2, <1>6, <3>2, <4>1, <4>2
    <3>3. CASE x \in D /\ x # n
      <4>1. nodes2[x] = nodes[x] /\ nodes[x].leaf
        BY <1>2, <2>8, <3>3
      <4>2. PICK y \in D : y = nodes[x].next /\ nodes[y].leaf /\ pos[y] = pos[x] + 1
        BY <2>1, <2>8, <4>1, <3>3
      <4>3. pos[x] # pos[n]
        BY <2>1, <3>3, <4>1
      <4>4. pos2[y] = pos2[x] + 1
        BY SMTT(30), <2>2, <3>3, <4>2, <4>3
      <4> QED BY <1>6, <4>1, <4>2, <4>4
    <3> QED BY <3>1, <3>2, <3>3
  <2>9. \A a, b \in DOMAIN nodes2 : nodes2[a].leaf /\ nodes2[b].leaf =>
          /\ a # b => pos2[a] # pos2[b]
          /\ pos2[a] < pos2[b] => \A x \in range2[a], y \in range2[b] : x < y
    BY <1>2, <2>6
  <2>10. \A x \in DOMAIN nodes2 : nodes2[x].leaf =>
           IF nodes2[x].next = NoNode
           THEN \A l \in DOMAIN nodes2 : nodes2[l].leaf => pos2[l] <= pos2[x]
           ELSE /\ nodes2[x].next \in DOMAIN nodes2 /\ nodes2[nodes2[x].next].leaf
                /\ pos2[nodes2[x].next] = pos2[x] + 1
    <3>1. DOMAIN nodes2 = D \cup {new}
      BY <1>2
    <3> HIDE DEF D
    <3> QED BY <2>7, <2>8, <3>1
  <2>11. pos2 \in [DOMAIN nodes2 -> Nat]
    BY <1>2, <2>3
  <2> QED BY <2>9, <2>10, <2>11 DEF Linked
<1>11. UpTo(order, nodes2, level[n], level2, range2, pos2, m2)
  BY <1>7, <1>8, <1>9, <1>10 DEF UpTo
<1>12. Grows(nodes, n, level, range, r, level2, range2)
  <2>1. r.nodes = nodes2 /\ r.split.key = s /\ r.split.node = new /\ r.split # NoSplit
    BY <1>2 DEF NoSplit
  <2>2. \A x \in D : level[x] > level[n] => x # n
    BY <1>1
  <2> HIDE DEF r
  <2>3. \A x \in D : /\ level2[x] = level[x]
                     /\ level[x] > level[n] => r.nodes[x] = nodes[x] /\ range2[x] = range[x]
                     /\ level[x] = level[n] /\ x # n => range2[x] = range[x]
    BY <1>2, <1>4, <2>1, <2>2
  <2>4. \A x \in DOMAIN r.nodes \ D : level2[x] <= level[n] /\ x = r.split.node
    BY <1>2, <1>3, <1>4, <2>1
  <2>5. /\ r.split.node \in DOMAIN r.nodes \ D /\ level2[r.split.node] = level[n]
        /\ r.split.key \in range[n] /\ low < r.split.key
    BY <1>2, <1>3, <1>4, <2>1
  <2> QED BY <1>2, <1>4, <2>1, <2>3, <2>4, <2>5 DEF Grows
<1> HIDE DEF r, pos2
<1>13. GrownUnder(order, nodes, n, level, range, r, m2)
  <2>1. r.nodes = nodes2
    BY DEF r
  <2> QED BY <1>11, <1>12, <2>1 DEF GrownUnder
<1> QED BY <1>13 DEF r, new

\* In nodes2 the leaves in T have the keys that leaf n had in nodes, and one key more.
Refill(nodes2, T, nodes, n, key, row) ==
  /\ DOMAIN nodes2 = DOMAIN nodes \cup T /\ n \in T
  /\ \A x \in DOMAIN nodes \ {n} : x \notin T /\ nodes2[x] = nodes[x]
  /\ \A t \in T : nodes2[t].leaf
  /\ \A t \in T : \A i \in DOMAIN nodes2[t].keys :
       \/ nodes2[t].keys[i] = key /\ nodes2[t].values[i] = row
       \/ \E j \in DOMAIN nodes[n].keys : /\ nodes2[t].keys[i] = nodes[n].keys[j]
                                          /\ nodes2[t].values[i] = nodes[n].values[j]
  /\ \A j \in DOMAIN nodes[n].keys :
       \E t \in T : \E i \in DOMAIN nodes2[t].keys : nodes2[t].keys[i] = nodes[n].keys[j]
  /\ \E t \in T : \E i \in DOMAIN nodes2[t].keys : nodes2[t].keys[i] = key

\* Then the leaves hold the map with that key.
LEMMA Refilled ==
  ASSUME NEW nodes, NEW m, Filed(nodes, m), NEW n \in DOMAIN nodes, nodes[n].leaf,
         NEW nodes2, NEW T, NEW key, NEW row, key \notin DOMAIN m,
         Refill(nodes2, T, nodes, n, key, row)
  PROVE  Filed(nodes2, Put(m, key, row))
<1> DEFINE m2 == Put(m, key, row)
<1>1. DOMAIN m2 = DOMAIN m \cup {key} /\ m2[key] = row /\ \A k \in DOMAIN m : m2[k] = m[k]
  BY DEF Put
<1> HIDE DEF m2
<1>6. /\ DOMAIN nodes2 = DOMAIN nodes \cup T /\ n \in T
      /\ \A x \in DOMAIN nodes \ {n} : x \notin T /\ nodes2[x] = nodes[x]
      /\ \A t \in T : nodes2[t].leaf
      /\ \A t \in T : \A i \in DOMAIN nodes2[t].keys :
           \/ nodes2[t].keys[i] = key /\ nodes2[t].values[i] = row
           \/ \E j \in DOMAIN nodes[n].keys : /\ nodes2[t].keys[i] = nodes[n].keys[j]
                                              /\ nodes2[t].values[i] = nodes[n].values[j]
      /\ \A j \in DOMAIN nodes[n].keys :
           \E t \in T : \E i \in DOMAIN nodes2[t].keys : nodes2[t].keys[i] = nodes[n].keys[j]
      /\ \E t \in T : \E i \in DOMAIN nodes2[t].keys : nodes2[t].keys[i] = key
  BY DEF Refill
<1>2. \A x \in DOMAIN nodes : nodes[x].leaf => \A i \in DOMAIN nodes[x].keys :
        nodes[x].keys[i] \in DOMAIN m /\ m[nodes[x].keys[i]] = nodes[x].values[i]
  BY DEF Filed
<1>3. ASSUME NEW x \in DOMAIN nodes2, nodes2[x].leaf, NEW i \in DOMAIN nodes2[x].keys
      PROVE  nodes2[x].keys[i] \in DOMAIN m2 /\ m2[nodes2[x].keys[i]] = nodes2[x].values[i]
  <2>1. CASE x \in T
    <3>1. CASE nodes2[x].keys[i] = key /\ nodes2[x].values[i] = row
      BY <1>1, <3>1
    <3>2. CASE \E j \in DOMAIN nodes[n].keys : /\ nodes2[x].keys[i] = nodes[n].keys[j]
                                               /\ nodes2[x].values[i] = nodes[n].values[j]
      BY <1>1, <1>2, <3>2
    <3> QED BY <1>3, <1>6, <2>1, <3>1, <3>2
  <2>2. CASE x \notin T
    <3>1. x \in DOMAIN nodes /\ nodes2[x] = nodes[x]
      BY <1>6, <2>2
    <3> QED BY <1>1, <1>2, <1>3, <3>1
  <2> QED BY <2>1, <2>2
<1>4. ASSUME NEW k \in DOMAIN m2
      PROVE  \E x \in DOMAIN nodes2 :
               nodes2[x].leaf /\ \E i \in DOMAIN nodes2[x].keys : nodes2[x].keys[i] = k
  <2>1. CASE k = key
    BY <1>6, <2>1
  <2>2. CASE k \in DOMAIN m
    <3>1. PICK x \in DOMAIN nodes :
            nodes[x].leaf /\ \E i \in DOMAIN nodes[x].keys : nodes[x].keys[i] = k
      BY <2>2 DEF Filed
    <3>2. CASE x = n
      BY <1>6, <3>1, <3>2
    <3>3. CASE x # n
      <4>1. nodes2[x] = nodes[x] /\ x \in DOMAIN nodes2
        BY <1>6, <3>3
      <4> QED BY <3>1, <4>1
    <3> QED BY <3>2, <3>3
  <2> QED BY <1>1, <2>1, <2>2
<1>5. Filed(nodes2, m2)
  BY <1>3, <1>4 DEF Filed
<1> QED BY <1>5 DEF m2

\* The fields of a leaf and of an inner node.
LEMMA LeafFields ==
  ASSUME NEW keys \in Seq(Int), NEW values \in Seq(Nat), NEW next \in Nat
  PROVE  /\ Leaf(keys, values, next) \in AllNodes
         /\ Leaf(keys, values, next).leaf /\ Leaf(keys, values, next).keys = keys
         /\ Leaf(keys, values, next).values = values /\ Leaf(keys, values, next).next = next
         /\ Leaf(keys, values, next).children = <<>>
  BY EmptySeq DEF Leaf, AllNodes

\* An inner node is a node.
LEMMA InnerFields ==
  ASSUME NEW keys \in Seq(Int), NEW children \in Seq(Nat)
  PROVE  /\ Inner(keys, children) \in AllNodes
         /\ ~Inner(keys, children).leaf /\ Inner(keys, children).keys = keys
         /\ Inner(keys, children).children = children
  BY EmptySeq DEF Inner, AllNodes, NoNode

\* insert() in a leaf that has room.
LEMMA LeafKept ==
  ASSUME NEW order \in Nat, NEW nodes, NEW top, NEW level, NEW range, NEW pos, NEW m,
         UpTo(order, nodes, top, level, range, pos, m),
         NEW n \in DOMAIN nodes, nodes[n].leaf,
         NEW key, key \in range[n], key \notin DOMAIN m, NEW row,
         NEW keys, NEW values, WithKey(keys, values, nodes[n], key, row), Len(keys) <= order
  PROVE  GrownUnder(order, nodes, n, level, range,
                    [nodes |-> [nodes EXCEPT ![n] = Leaf(keys, values, nodes[n].next)],
                     split |-> NoSplit],
                    Put(m, key, row))
<1> DEFINE L == Leaf(keys, values, nodes[n].next)
           nodes2 == [nodes EXCEPT ![n] = L]
           m2 == Put(m, key, row)
           r == [nodes |-> nodes2, split |-> NoSplit]
           T == {n}
<1>1. /\ nodes \in Seq(AllNodes) /\ Filed(nodes, m) /\ KeysInRange(nodes, range, n)
      /\ \A x \in DOMAIN nodes : level[x] \in Nat
      /\ level[n] = 0
  BY DEF UpTo, Layered, GoodLeaves
<1>2. nodes[n] \in AllNodes
  BY <1>1, LenProperties, ElementOfSeq
<1>3. nodes[n].next \in Nat
  BY <1>2 DEF AllNodes
<1>4. keys \in Seq(Int) /\ values \in Seq(Nat)
  BY DEF WithKey
<1>5. /\ L \in AllNodes /\ L.leaf /\ L.keys = keys /\ L.values = values
      /\ L.next = nodes[n].next /\ L.children = <<>>
  BY <1>3, <1>4, LeafFields
<1> HIDE DEF L
<1>6. IsLeaf(order, L)
  BY <1>5 DEF IsLeaf, WithKey
<1>7. DOMAIN nodes2 = DOMAIN nodes /\ nodes2[n] = L /\ \A x \in DOMAIN nodes \ {n} : nodes2[x] = nodes[x]
  OBVIOUS
<1>8. r.nodes = nodes2 /\ r.split = NoSplit /\ nodes2 = [nodes EXCEPT ![n] = L]
  OBVIOUS
<1> HIDE DEF nodes2
<1>9. Filed(nodes2, m2)
  <2>1. DOMAIN nodes2 = DOMAIN nodes \cup T /\ n \in T
    BY <1>7
  <2>2. \A x \in DOMAIN nodes \ {n} : x \notin T /\ nodes2[x] = nodes[x]
    BY <1>7
  <2>3. \A t \in T : nodes2[t].leaf
    BY <1>5, <1>7
  <2>4. \A t \in T : \A i \in DOMAIN nodes2[t].keys :
         \/ nodes2[t].keys[i] = key /\ nodes2[t].values[i] = row
         \/ \E j \in DOMAIN nodes[n].keys : /\ nodes2[t].keys[i] = nodes[n].keys[j]
                                            /\ nodes2[t].values[i] = nodes[n].values[j]
    <3>1. nodes2[n].keys = keys /\ nodes2[n].values = values
      BY <1>5, <1>7
    <3>2. \A i \in DOMAIN keys :
            \/ keys[i] = key /\ values[i] = row
            \/ \E j \in DOMAIN nodes[n].keys : keys[i] = nodes[n].keys[j] /\ values[i] = nodes[n].values[j]
      BY DEF WithKey
    <3> QED BY <3>1, <3>2
  <2>5. \A j \in DOMAIN nodes[n].keys :
         \E t \in T : \E i \in DOMAIN nodes2[t].keys : nodes2[t].keys[i] = nodes[n].keys[j]
    BY ZenonT(30), <1>5, <1>7 DEF WithKey
  <2>6. \E t \in T : \E i \in DOMAIN nodes2[t].keys : nodes2[t].keys[i] = key
    BY <1>5, <1>7 DEF WithKey
  <2> HIDE DEF T, m2
  <2>7. Filed(nodes2, Put(m, key, row))
    <3>1. Refill(nodes2, T, nodes, n, key, row)
      BY <2>1, <2>2, <2>3, <2>4, <2>5, <2>6 DEF Refill
    <3> QED BY <1>1, <3>1, Refilled
  <2> QED BY <2>7 DEF m2
<1>10. \A i \in DOMAIN keys : keys[i] \in range[n]
  BY <1>1 DEF KeysInRange, WithKey
<1>11. UpTo(order, nodes2, top, level, range, pos, m2)
  <2>1. \A i \in DOMAIN L.keys : L.keys[i] \in range[n]
    BY <1>5, <1>10
  <2> HIDE DEF m2
  <2> QED BY <1>5, <1>6, <1>8, <1>9, <2>1, LeafReplaced
<1>12. GoodInners(order, nodes2, level, range, level[n])
  <2>1. ~ \E l : l \in 1..0
    OBVIOUS
  <2> QED BY <1>1, <2>1 DEF GoodInners
<1>13. UpTo(order, nodes2, level[n], level, range, pos, m2)
  BY <1>11, <1>12 DEF UpTo
<1> HIDE DEF r, m2
<1>14. Grows(nodes, n, level, range, r, level, range)
  <2>1. \A x \in DOMAIN nodes : level[x] > level[n] => x # n
    BY <1>1
  <2> QED BY <1>7, <1>8, <2>1 DEF Grows
<1>15. GrownUnder(order, nodes, n, level, range, r, m2)
  BY <1>8, <1>13, <1>14 DEF GrownUnder
<1> QED BY <1>15 DEF r, m2, nodes2, L

\* insert() in a leaf that is full: it is split behind its key mid.
LEMMA LeafHalved ==
  ASSUME NEW order \in Nat, NEW nodes, NEW top, NEW level, NEW range, NEW pos, NEW m,
         UpTo(order, nodes, top, level, range, pos, m),
         NEW n \in DOMAIN nodes, nodes[n].leaf,
         NEW key, key \in range[n], key \notin DOMAIN m, NEW row,
         NEW keys, NEW values, WithKey(keys, values, nodes[n], key, row),
         NEW N \in Nat, N = Len(keys), NEW mid \in 1..N - 1, mid <= order, N - mid <= order
  PROVE  GrownUnder(order, nodes, n, level, range,
                    [nodes |-> Append([nodes EXCEPT ![n] =
                                  Leaf(SubSeq(keys, 1, mid), SubSeq(values, 1, mid), NewNode(nodes))],
                                 Leaf(SubSeq(keys, mid + 1, N),
                                      SubSeq(values, mid + 1, N), nodes[n].next)),
                     split |-> [key |-> keys[mid + 1], node |-> NewNode(nodes)]],
                    Put(m, key, row))
<1> DEFINE lk == SubSeq(keys, 1, mid)
           lv == SubSeq(values, 1, mid)
           rk == SubSeq(keys, mid + 1, N)
           rv == SubSeq(values, mid + 1, N)
           new == NewNode(nodes)
           L == Leaf(lk, lv, new)
           R == Leaf(rk, rv, nodes[n].next)
           s == keys[mid + 1]
           nodes2 == Append([nodes EXCEPT ![n] = L], R)
           T == {n, new}
<1>1. /\ nodes \in Seq(AllNodes) /\ Filed(nodes, m) /\ KeysInRange(nodes, range, n)
      /\ range[n] \in SUBSET Int
  BY DEF UpTo, Layered, GoodLeaves
<1>2. nodes[n] \in AllNodes
  BY <1>1, LenProperties, ElementOfSeq
<1>3. nodes[n].next \in Nat /\ new \in Nat
  <2>1. Len(nodes) \in Nat
    BY <1>1, LenProperties
  <2> QED BY <1>2, <2>1 DEF AllNodes, NewNode
<1>4. keys \in Seq(Int) /\ values \in Seq(Nat) /\ Len(values) = N /\ DOMAIN keys = 1..N /\ Ascending(keys)
  BY LenProperties DEF WithKey
<1>5. /\ mid \in Nat /\ N - mid \in Nat /\ mid <= N /\ mid + 1 \in 1..N
      /\ 1 = 0 + 1 /\ mid = 0 + mid /\ 0 + mid <= N /\ N = mid + (N - mid) /\ mid + (N - mid) <= N
  OBVIOUS
<1>6. lk \in Seq(Int) /\ IsPart(lk, keys, 0, mid) /\ lv \in Seq(Nat) /\ IsPart(lv, values, 0, mid)
  BY ZenonT(30), <1>4, <1>5, PartOf
<1>7. /\ rk \in Seq(Int) /\ IsPart(rk, keys, mid, N - mid)
      /\ rv \in Seq(Nat) /\ IsPart(rv, values, mid, N - mid)
  BY ZenonT(30), <1>4, <1>5, PartOf
<1> HIDE DEF lk, lv, rk, rv
<1>8. Ascending(lk) /\ Ascending(rk)
  BY <1>4, <1>5, <1>6, <1>7, AscendingPart
<1>9. /\ L \in AllNodes /\ L.leaf /\ L.keys = lk /\ L.values = lv
      /\ L.next = new /\ L.children = <<>>
  BY <1>3, <1>6, LeafFields
<1>10. /\ R \in AllNodes /\ R.leaf /\ R.keys = rk /\ R.values = rv
       /\ R.next = nodes[n].next /\ R.children = <<>>
  BY <1>3, <1>7, LeafFields
<1> HIDE DEF L, R
<1>11. IsLeaf(order, L) /\ IsLeaf(order, R)
  BY <1>6, <1>7, <1>8, <1>9, <1>10 DEF IsLeaf, IsPart
<1>12. /\ DOMAIN lk = 1..mid /\ DOMAIN rk = 1..N - mid
       /\ \A i \in 1..mid : lk[i] = keys[i] /\ lv[i] = values[i]
       /\ \A i \in 1..N - mid : rk[i] = keys[mid + i] /\ rv[i] = values[mid + i]
  <2>1. /\ \A i \in 1..mid : lk[i] = keys[0 + i] /\ lv[i] = values[0 + i]
        /\ DOMAIN lk = 1..mid /\ DOMAIN rk = 1..N - mid
        /\ \A i \in 1..N - mid : rk[i] = keys[mid + i] /\ rv[i] = values[mid + i]
    BY <1>6, <1>7 DEF IsPart
  <2>2. \A i \in 1..mid : 0 + i = i
    OBVIOUS
  <2> QED BY <2>1, <2>2
<1>13. \A i \in 1..N : keys[i] \in Int /\ keys[i] \in range[n]
  <2>1. \A i \in 1..N : keys[i] \in range[n]
    BY <1>1, <1>4 DEF KeysInRange, WithKey
  <2> QED BY <1>1, <2>1
<1>14. s \in Int /\ s \in range[n]
  BY <1>5, <1>13
<1>15. \A i, j \in 1..N : i < j => keys[i] < keys[j]
  BY <1>4 DEF Ascending
<1>16. ASSUME NEW i \in DOMAIN L.keys PROVE L.keys[i] \in range[n] /\ L.keys[i] < s
  <2>1. i \in 1..mid /\ i \in 1..N /\ i < mid + 1
    BY <1>9, <1>12
  <2> QED BY <1>5, <1>9, <1>12, <1>13, <1>15, <2>1
<1>17. ASSUME NEW i \in DOMAIN R.keys PROVE R.keys[i] \in range[n] /\ R.keys[i] >= s
  <2>1. i \in 1..N - mid /\ mid + i \in 1..N /\ (mid + 1 = mid + i \/ mid + 1 < mid + i)
    BY <1>10, <1>12
  <2>2. R.keys[i] = keys[mid + i]
    BY <1>10, <1>12, <2>1
  <2>3. PICK x \in Int, y \in Int : x = keys[mid + i] /\ y = s
    BY <1>13, <1>14, <2>1
  <2>4. y = x \/ y < x
    BY <1>5, <1>15, <2>1, <2>3
  <2> QED BY SMTT(30), <1>13, <2>1, <2>2, <2>3, <2>4
<1>18. /\ DOMAIN nodes2 = DOMAIN nodes \cup {new} /\ new \notin DOMAIN nodes
       /\ nodes2[new] = R /\ nodes2[n] = L
       /\ \A x \in DOMAIN nodes : x # n => nodes2[x] = nodes[x]
  <2>1. nodes \in Seq(AllNodes) /\ L \in AllNodes /\ R \in AllNodes
    BY <1>1, <1>9, <1>10
  <2>2. OneMoreNode(nodes, n, L, R, nodes2, new)
    BY <2>1, ReplacedAndAdded
  <2> HIDE DEF nodes2, new
  <2> QED BY <2>2 DEF OneMoreNode
<1>19. nodes2 = Append([nodes EXCEPT ![n] = L], R)
  OBVIOUS
<1> HIDE DEF nodes2, s, new
<1>20. Filed(nodes2, Put(m, key, row))
  <2>1. DOMAIN nodes2 = DOMAIN nodes \cup T /\ n \in T
    BY <1>18
  <2>2. \A x \in DOMAIN nodes \ {n} : x \notin T /\ nodes2[x] = nodes[x]
    BY <1>18
  <2>3. \A t \in T : nodes2[t].leaf
    BY <1>9, <1>10, <1>18
  <2>4. \A i \in 1..N :
          \/ keys[i] = key /\ values[i] = row
          \/ \E j \in DOMAIN nodes[n].keys : /\ keys[i] = nodes[n].keys[j]
                                             /\ values[i] = nodes[n].values[j]
    BY <1>4 DEF WithKey
  <2>5. \A i \in DOMAIN nodes2[n].keys :
          i \in 1..N /\ nodes2[n].keys[i] = keys[i] /\ nodes2[n].values[i] = values[i]
    <3>1. \A i \in 1..mid : i \in 1..N
      OBVIOUS
    <3> QED BY <1>9, <1>12, <1>18, <3>1
  <2>6. \A i \in DOMAIN nodes2[new].keys :
          /\ mid + i \in 1..N
          /\ nodes2[new].keys[i] = keys[mid + i] /\ nodes2[new].values[i] = values[mid + i]
    <3>1. \A i \in 1..N - mid : mid + i \in 1..N
      OBVIOUS
    <3> QED BY <1>10, <1>12, <1>18, <3>1
  <2>7. \A t \in T : \A i \in DOMAIN nodes2[t].keys :
         \/ nodes2[t].keys[i] = key /\ nodes2[t].values[i] = row
         \/ \E j \in DOMAIN nodes[n].keys : /\ nodes2[t].keys[i] = nodes[n].keys[j]
                                            /\ nodes2[t].values[i] = nodes[n].values[j]
    BY SMTT(30), <2>4, <2>5, <2>6
  <2>8. ASSUME NEW i \in 1..N
        PROVE  \E t \in T : \E j \in DOMAIN nodes2[t].keys : nodes2[t].keys[j] = keys[i]
    <3>1. CASE i <= mid
      <4>1. i \in 1..mid
        BY <3>1
      <4> QED BY <1>9, <1>12, <1>18, <4>1
    <3>2. CASE i > mid
      <4>1. i - mid \in 1..N - mid /\ mid + (i - mid) = i
        BY <3>2
      <4>2. rk[i - mid] = keys[i]
        BY <1>12, <4>1
      <4>3. nodes2[new].keys = rk /\ i - mid \in DOMAIN rk
        BY <1>10, <1>12, <1>18, <4>1
      <4> QED BY <4>2, <4>3
    <3> QED BY <3>1, <3>2
  <2>9. \A j \in DOMAIN nodes[n].keys :
         \E t \in T : \E i \in DOMAIN nodes2[t].keys : nodes2[t].keys[i] = nodes[n].keys[j]
    <3>1. \A j \in DOMAIN nodes[n].keys : \E i \in 1..N : keys[i] = nodes[n].keys[j]
      BY <1>4 DEF WithKey
    <3> HIDE DEF T
    <3> QED BY <2>8, <3>1
  <2>10. \E t \in T : \E i \in DOMAIN nodes2[t].keys : nodes2[t].keys[i] = key
    <3>1. \E i \in 1..N : keys[i] = key
      BY <1>4 DEF WithKey
    <3> HIDE DEF T
    <3> QED BY <2>8, <3>1
  <2> HIDE DEF T
  <2>11. Refill(nodes2, T, nodes, n, key, row)
    BY <2>1, <2>2, <2>3, <2>7, <2>9, <2>10 DEF Refill
  <2> QED BY <1>1, <2>11, Refilled
<1>21. GrownUnder(order, nodes, n, level, range,
                  [nodes |-> nodes2, split |-> [key |-> s, node |-> NewNode(nodes)]],
                  Put(m, key, row))
  <2>1. L.next = NewNode(nodes)
    BY <1>9 DEF new
  <2>2. PICK low \in range[n] : low < s
    <3>1. 1 \in DOMAIN L.keys
      BY <1>9, <1>12
    <3> QED BY <1>16, <3>1
  <2> QED BY <1>9, <1>10, <1>11, <1>14, <1>16, <1>17, <1>19, <1>20, <2>1, <2>2, LeafSplit
<1> QED BY <1>21 DEF nodes2, L, R, lk, lv, rk, rv, s, new

\* Half of more than two.
LEMMA Halves ==
  ASSUME NEW order \in Nat, order >= 2, NEW N \in Nat, N = order + 1
  PROVE  /\ N \div 2 \in 1..N - 1 /\ N \div 2 <= order /\ N - N \div 2 <= order
         /\ N \div 2 \in Nat
OBVIOUS

\* insert() in a leaf.
LEMMA LeafStep ==
  ASSUME NEW order \in Nat, order >= 2, NEW nodes, NEW top, NEW level, NEW range, NEW pos, NEW m,
         UpTo(order, nodes, top, level, range, pos, m),
         NEW n \in DOMAIN nodes, nodes[n].leaf,
         NEW key, key \in range[n], key \notin DOMAIN m, NEW row \in Nat
  PROVE  GrownUnder(order, nodes, n, level, range,
                    InsertIntoLeaf(order, nodes, n, key, row), Put(m, key, row))
<1> DEFINE keys == InsertAt(nodes[n].keys, FindKey(nodes[n], key) + 1, key)
           values == InsertAt(nodes[n].values, FindKey(nodes[n], key) + 1, row)
           N == Len(keys)
           mid == N \div 2
           r == InsertIntoLeaf(order, nodes, n, key, row)
<1>1. /\ nodes \in Seq(AllNodes) /\ Filed(nodes, m) /\ IsLeaf(order, nodes[n])
      /\ range[n] \in SUBSET Int
  BY DEF UpTo, Layered, GoodLeaves
<1>2. nodes[n] \in AllNodes
  BY <1>1, LenProperties, ElementOfSeq
<1>3. nodes[n].keys \in Seq(Int) /\ nodes[n].values \in Seq(Nat) /\ Len(nodes[n].keys) \in Nat
  BY <1>2, LenProperties DEF AllNodes
<1>4. \A j \in DOMAIN nodes[n].keys : nodes[n].keys[j] # key
  BY <1>1 DEF Filed
<1>5. WithKey(keys, values, nodes[n], key, row)
  BY <1>1, <1>3, <1>4, LeafFilled DEF IsLeaf
<1>6. r = IF N <= order
          THEN [nodes |-> [nodes EXCEPT ![n] = Leaf(keys, values, nodes[n].next)], split |-> NoSplit]
          ELSE [nodes |-> Append([nodes EXCEPT ![n] =
                                    Leaf(SubSeq(keys, 1, mid), SubSeq(values, 1, mid), NewNode(nodes))],
                                 Leaf(SubSeq(keys, mid + 1, N),
                                      SubSeq(values, mid + 1, N), nodes[n].next)),
                split |-> [key |-> keys[mid + 1], node |-> NewNode(nodes)]]
  BY DEF InsertIntoLeaf
<1> HIDE DEF keys, values, r
<1>7. N \in Nat /\ N <= order + 1
  BY <1>1, <1>3, <1>5 DEF WithKey, IsLeaf
<1>8. CASE N <= order
  <2>1. r = [nodes |-> [nodes EXCEPT ![n] = Leaf(keys, values, nodes[n].next)], split |-> NoSplit]
    BY <1>6, <1>8
  <2>2. GrownUnder(order, nodes, n, level, range,
                    [nodes |-> [nodes EXCEPT ![n] = Leaf(keys, values, nodes[n].next)],
                     split |-> NoSplit],
                    Put(m, key, row))
    BY <1>5, <1>8, LeafKept
  <2> QED BY <2>1, <2>2, Zenon DEF r
<1>9. CASE ~(N <= order)
  <2>1. r = [nodes |-> Append([nodes EXCEPT ![n] =
                                    Leaf(SubSeq(keys, 1, mid), SubSeq(values, 1, mid), NewNode(nodes))],
                                 Leaf(SubSeq(keys, mid + 1, N),
                                      SubSeq(values, mid + 1, N), nodes[n].next)),
                split |-> [key |-> keys[mid + 1], node |-> NewNode(nodes)]]
    BY <1>6, <1>9
  <2>2. N = order + 1
    BY <1>7, <1>9
  <2> HIDE DEF N
  <2>3. mid \in 1..N - 1 /\ mid <= order /\ N - mid <= order
    BY <1>7, <2>2, Halves
  <2>4. GrownUnder(order, nodes, n, level, range,
                    [nodes |-> Append([nodes EXCEPT ![n] =
                                  Leaf(SubSeq(keys, 1, mid), SubSeq(values, 1, mid), NewNode(nodes))],
                                 Leaf(SubSeq(keys, mid + 1, N),
                                      SubSeq(values, mid + 1, N), nodes[n].next)),
                     split |-> [key |-> keys[mid + 1], node |-> NewNode(nodes)]],
                    Put(m, key, row))
    <3> HIDE DEF mid
    <3> QED BY <1>5, <1>7, <2>3, LeafHalved DEF N
  <2> QED BY <2>1, <2>4, Zenon DEF r
<1> QED BY <1>8, <1>9 DEF r
-----------------------------------------------------------------------------
(* Insertion into an inner node.                                           *)

\* I sends the keys below s to the child that node sends them to, one up to c, and the others
\* one child on.
Widened(I, node, c, s) ==
  \A k \in Int : LET q == FindChildIndex(node, k)
                 IN  /\ q \in Int
                     /\ k < s => q + 1 <= c /\ FindChildIndex(I, k) = q
                     /\ k >= s => q + 1 >= c /\ FindChildIndex(I, k) = q + 1

\* The index of a child after a key has gone up between c - 1 and c.
LEMMA IndexWidened ==
  ASSUME NEW node, node.keys \in Seq(Int), Ascending(node.keys),
         NEW c \in 1..Len(node.keys) + 1, NEW s \in Int, NEW low \in Int, low < s,
         FindChildIndex(node, s) + 1 = c, FindChildIndex(node, low) + 1 = c,
         NEW I, I.keys \in Seq(Int), Inserted(I.keys, node.keys, c, s)
  PROVE  Ascending(I.keys) /\ Widened(I, node, c, s)
<1> DEFINE n == Len(node.keys)
<1>1. n \in Nat /\ \A i \in 1..n : node.keys[i] \in Int
  BY LenProperties, ElementOfSeq
<1>2. /\ Len(I.keys) = n + 1
      /\ \A i \in 1..n + 1 : I.keys[i] = IF i < c THEN node.keys[i]
                                         ELSE IF i = c THEN s ELSE node.keys[i - 1]
  BY DEF Inserted
<1>3. \A k \in Int : /\ FindChildIndex(node, k) \in 0..n
                     /\ \A i \in 1..n : node.keys[i] <= k <=> i <= FindChildIndex(node, k)
  BY FindChildCounts
<1>4. c \in 1..n + 1
  OBVIOUS
<1> HIDE DEF n
<1>5. ASSUME NEW i \in 1..n, i < c PROVE node.keys[i] < s
  <2>1. i <= FindChildIndex(node, low)
    BY SMTT(30), <1>1, <1>3, <1>5
  <2>2. node.keys[i] <= low
    BY <1>3, <2>1
  <2> QED BY <1>1, <2>2
<1>6. ASSUME NEW i \in 1..n, i >= c PROVE s < node.keys[i]
  <2>1. ~(i <= FindChildIndex(node, s))
    BY SMTT(30), <1>1, <1>3, <1>6
  <2>2. ~(node.keys[i] <= s)
    BY <1>3, <2>1
  <2> QED BY <1>1, <2>2
<1>7. Ascending(I.keys)
  BY <1>5, <1>6, AscendingInserted DEF n
<1>8. ASSUME NEW k \in Int
      PROVE  /\ FindChildIndex(node, k) \in Int
             /\ k < s => FindChildIndex(node, k) + 1 <= c /\ FindChildIndex(I, k) = FindChildIndex(node, k)
             /\ k >= s => /\ FindChildIndex(node, k) + 1 >= c
                          /\ FindChildIndex(I, k) = FindChildIndex(node, k) + 1
  <2>1. PICK q \in 0..n : q = FindChildIndex(node, k) /\ \A i \in 1..n : node.keys[i] <= k <=> i <= q
    BY <1>3
  <2>2. CASE k < s
    <3>1. q + 1 <= c
      <4> SUFFICES ASSUME q >= c PROVE FALSE
        BY <1>1, <1>4
      <4>1. c \in 1..n /\ c <= q
        BY <1>1, <1>4
      <4>2. node.keys[c] <= k /\ s < node.keys[c]
        BY <1>6, <2>1, <4>1
      <4> QED BY <1>1, <2>2, <4>1, <4>2
    <3>2. ASSUME NEW i \in 1..n + 1 PROVE I.keys[i] <= k <=> i <= q
      <4>1. CASE i < c
        <5>1. i \in 1..n
          BY <1>1, <1>4, <4>1
        <5> QED BY <1>2, <2>1, <4>1, <5>1
      <4>2. CASE i = c
        <5>1. I.keys[i] = s /\ ~(s <= k) /\ ~(i <= q)
          BY <1>1, <1>2, <1>4, <2>2, <3>1, <4>2
        <5> QED BY <5>1
      <4>3. CASE i > c
        <5>1. i - 1 \in 1..n /\ ~(i - 1 <= q) /\ ~(i <= q) /\ ~(i < c) /\ i # c
          BY <1>1, <1>4, <3>1, <4>3
        <5> QED BY <1>2, <2>1, <5>1
      <4> QED BY <1>1, <1>4, <4>1, <4>2, <4>3
    <3>3. q \in 0..Len(I.keys)
      BY <1>1, <1>2
    <3>4. FindChildIndex(I, k) = q
      BY <1>2, <1>7, <3>2, <3>3, FindChildIs
    <3>5. q \in Int /\ ~(k >= s)
      BY <1>1, <2>2
    <3> QED BY <2>1, <3>1, <3>4, <3>5
  <2>3. CASE k >= s
    <3>1. q + 1 >= c
      <4> SUFFICES ASSUME q + 1 < c PROVE FALSE
        BY <1>1, <1>4
      <4>1. c - 1 \in 1..n /\ ~(c - 1 <= q) /\ c - 1 < c
        BY <1>1, <1>4
      <4>2. ~(node.keys[c - 1] <= k) /\ node.keys[c - 1] < s
        BY <1>5, <2>1, <4>1
      <4> QED BY SMTT(30), <1>1, <2>3, <4>1, <4>2
    <3>2. ASSUME NEW i \in 1..n + 1 PROVE I.keys[i] <= k <=> i <= q + 1
      <4>1. CASE i < c
        <5>1. i \in 1..n /\ i <= q /\ i <= q + 1
          BY <1>1, <1>4, <3>1, <4>1
        <5> QED BY <1>2, <2>1, <4>1, <5>1
      <4>2. CASE i = c
        <5>1. I.keys[i] = s /\ s <= k /\ i <= q + 1
          BY <1>1, <1>2, <1>4, <2>3, <3>1, <4>2
        <5> QED BY <5>1
      <4>3. CASE i > c
        <5>1. i - 1 \in 1..n /\ (i - 1 <= q <=> i <= q + 1) /\ ~(i < c) /\ i # c
          BY <1>1, <1>4, <3>1, <4>3
        <5> QED BY <1>2, <2>1, <5>1
      <4> QED BY <1>1, <1>4, <4>1, <4>2, <4>3
    <3>3. q + 1 \in 0..Len(I.keys)
      BY <1>1, <1>2
    <3>4. FindChildIndex(I, k) = q + 1
      BY <1>2, <1>7, <3>2, <3>3, FindChildIs
    <3>5. q \in Int /\ ~(k < s)
      BY <1>1, <2>3
    <3> QED BY <2>1, <3>1, <3>4, <3>5
  <2> QED BY <2>2, <2>3
<1> QED BY <1>7, <1>8 DEF Widened

\* Numbers moved behind a place.
LEMMA Shifted ==
  ASSUME NEW a \in Int, NEW b \in Int, NEW c \in Int
  PROVE  a + 1 + b <= c <=> b <= c - (a + 1)
OBVIOUS

\* L sends the keys below s to the child that I sends them to, one up to mid, and Q the others
\* to theirs, counted from behind mid + 1.
Halved(I, L, Q, mid, s) ==
  \A k \in Int : \E q \in Int :
    /\ q = FindChildIndex(I, k)
    /\ k < s => q <= mid /\ FindChildIndex(L, k) = q
    /\ k >= s => q >= mid + 1 /\ FindChildIndex(Q, k) = q - (mid + 1)

\* The index of a child after the keys have been halved around one, s.
LEMMA IndexHalved ==
  ASSUME NEW I, I.keys \in Seq(Int), Ascending(I.keys), NEW N \in Nat, N = Len(I.keys),
         NEW mid \in 0..N - 1, NEW s, s = I.keys[mid + 1],
         NEW L, L.keys \in Seq(Int), IsPart(L.keys, I.keys, 0, mid),
         NEW R, R.keys \in Seq(Int), IsPart(R.keys, I.keys, mid + 1, N - mid - 1)
  PROVE  Halved(I, L, R, mid, s)
<1> SUFFICES ASSUME NEW k \in Int, NEW q, q = FindChildIndex(I, k)
             PROVE  /\ q \in Int
                    /\ k < s => q <= mid /\ FindChildIndex(L, k) = q
                    /\ k >= s => q >= mid + 1 /\ FindChildIndex(R, k) = q - (mid + 1)
  BY DEF Halved
<1>1. /\ q \in 0..N /\ \A i \in 1..N : I.keys[i] <= k <=> i <= q
      /\ \A i \in 1..N : I.keys[i] \in Int
  BY FindChildCounts, ElementOfSeq
<1>2. mid + 1 \in 1..N /\ s \in Int /\ (s <= k <=> mid + 1 <= q) /\ mid \in Nat /\ N - mid - 1 \in Nat
  BY <1>1
<1>3. /\ Len(L.keys) = mid /\ Len(R.keys) = N - mid - 1
      /\ \A i \in 1..mid : L.keys[i] = I.keys[0 + i]
      /\ \A i \in 1..N - mid - 1 : R.keys[i] = I.keys[mid + 1 + i]
  BY DEF IsPart
<1>4. Ascending(L.keys) /\ Ascending(R.keys)
  <2>1. 0 \in Nat /\ mid + 1 \in Nat
    BY <1>2
  <2> QED BY <1>2, <2>1, AscendingPart
<1>5. CASE k < s
  <2>1. q <= mid
    BY SMTT(30), <1>1, <1>2, <1>5
  <2>2. ASSUME NEW i \in 1..mid PROVE L.keys[i] <= k <=> i <= q
    <3>1. i \in 1..N /\ 0 + i = i
      BY <1>2
    <3> QED BY <1>1, <1>3, <3>1
  <2>3. q \in 0..Len(L.keys)
    BY <1>1, <1>3, <2>1
  <2>4. FindChildIndex(L, k) = q
    BY <1>3, <1>4, <2>2, <2>3, FindChildIs
  <2>5. q \in Int /\ ~(k >= s)
    BY SMTT(30), <1>1, <1>2, <1>5
  <2> QED BY <2>1, <2>4, <2>5
<1>6. CASE k >= s
  <2>1. q >= mid + 1
    BY <1>1, <1>2, <1>6
  <2>2. ASSUME NEW i \in 1..N - mid - 1 PROVE R.keys[i] <= k <=> i <= q - (mid + 1)
    <3>3. q \in Int /\ i \in Int /\ mid \in Int /\ N \in Int /\ 1 <= i /\ i <= N - mid - 1 /\ 0 <= mid
      BY <1>1, <1>2
    <3>4. mid + 1 + i \in 1..N
      BY <3>3
    <3>5. mid + 1 + i <= q <=> i <= q - (mid + 1)
      BY <3>3, Shifted
    <3>1. mid + 1 + i \in 1..N /\ (mid + 1 + i <= q <=> i <= q - (mid + 1))
      BY <3>4, <3>5
    <3>2. R.keys[i] = I.keys[mid + 1 + i]
      BY <1>3
    <3> QED BY <1>1, <3>1, <3>2
  <2>3. q - (mid + 1) \in 0..Len(R.keys)
    BY SMTT(30), <1>1, <1>2, <1>3, <2>1
  <2>4. FindChildIndex(R, k) = q - (mid + 1)
    BY <1>3, <1>4, <2>2, <2>3, FindChildIs
  <2>5. q \in Int /\ ~(k < s)
    BY SMTT(30), <1>1, <1>2, <1>6
  <2> QED BY <2>1, <2>4, <2>5
<1> QED BY <1>1, <1>2, <1>5, <1>6

\* The node sends each key of R to the child of level l whose range it is in.
Fit(node, nodes, R, l, level, range) ==
  /\ node \in AllNodes /\ ~node.leaf /\ Ascending(node.keys)
  /\ Len(node.children) = Len(node.keys) + 1
  /\ \A i \in DOMAIN node.keys : node.keys[i] \in R
  /\ \A c \in 1..Len(node.keys) + 1 :
       /\ node.children[c] \in DOMAIN nodes /\ level[node.children[c]] = l
       /\ range[node.children[c]] = Part(node, R, c)

\* A child has been split at s: its range in level1 and range1, and that of the new node b.
SplitAt(range, range1, child, b, s) ==
  /\ range1[child] = {k \in range[child] : k < s}
  /\ range1[b] = {k \in range[child] : k >= s}

\* The children of a node after one, the c-th, has been split.
OthersStay(node, c, l, range, level1, range1) ==
  \A d \in 1..Len(node.keys) + 1 :
    /\ level1[node.children[d]] = l
    /\ d # c => range1[node.children[d]] = range[node.children[d]]

\* What a split child must be for its parent to be widened.
Widens(node, nodes, R, l, level, range, c, child, s, low, nodes1, level1, range1, b, keys,
       children) ==
  /\ R \in SUBSET Int
  /\ Fit(node, nodes, R, l, level, range)
  /\ c \in 1..Len(node.keys) + 1
  /\ child = node.children[c]
  /\ s \in range[child]
  /\ low \in range[child]
  /\ low < s
  /\ DOMAIN nodes \subseteq DOMAIN nodes1
  /\ OthersStay(node, c, l, range, level1, range1)
  /\ b \in Nat
  /\ b \in DOMAIN nodes1
  /\ level1[b] = l
  /\ SplitAt(range, range1, child, b, s)
  /\ keys = InsertAt(node.keys, c, s)
  /\ children = InsertAt(node.children, c + 1, b)

\* A child has been split: the node with the new child and the key between.
LEMMA FitWidened ==
  ASSUME NEW node, NEW nodes, NEW R, NEW l, NEW level, NEW range, NEW c, NEW child, NEW s,
         NEW low, NEW nodes1, NEW level1, NEW range1, NEW b, NEW keys, NEW children,
         Widens(node, nodes, R, l, level, range, c, child, s, low, nodes1, level1, range1, b, keys,
                children)
  PROVE  /\ keys \in Seq(Int) /\ children \in Seq(Nat) /\ Len(keys) = Len(node.keys) + 1
         /\ Fit(Inner(keys, children), nodes1, R, l, level1, range1)
<1> USE DEF Widens
<1> DEFINE n == Len(node.keys)
           I == Inner(keys, children)
<1>1. /\ node.keys \in Seq(Int) /\ Ascending(node.keys) /\ n \in Nat /\ DOMAIN node.keys = 1..n
      /\ node.children \in Seq(Nat) /\ Len(node.children) = n + 1
      /\ \A i \in 1..n : node.keys[i] \in R
  BY LenProperties DEF Fit, AllNodes
<1>2. \A d \in 1..n + 1 : /\ node.children[d] \in DOMAIN nodes
                          /\ range[node.children[d]] = Part(node, R, d)
  BY DEF Fit
<1>3. c \in 1..n + 1 /\ c \in Int
  BY <1>1
<1>17. /\ \A d \in 1..n + 1 : /\ level1[node.children[d]] = l
                              /\ d # c => range1[node.children[d]] = range[node.children[d]]
       /\ range1[node.children[c]] = {k \in range[node.children[c]] : k < s}
       /\ range1[b] = {k \in range[node.children[c]] : k >= s}
  BY DEF OthersStay, SplitAt
<1>4. /\ s \in R /\ s \in Int /\ FindChildIndex(node, s) + 1 = c
      /\ low \in Int /\ FindChildIndex(node, low) + 1 = c
  BY <1>2, <1>3 DEF Part
<1>5. keys \in Seq(Int) /\ Inserted(keys, node.keys, c, s)
  BY <1>1, <1>4, InsertedAt
<1>6. children \in Seq(Nat) /\ Inserted(children, node.children, c + 1, b)
  <2>1. c + 1 \in 1..Len(node.children) + 1
    BY <1>1, <1>3
  <2> QED BY <1>1, <2>1, InsertedAt
<1>7. /\ Len(keys) = n + 1 /\ DOMAIN keys = 1..n + 1
      /\ \A i \in 1..n + 1 : keys[i] = IF i < c THEN node.keys[i]
                                       ELSE IF i = c THEN s ELSE node.keys[i - 1]
  BY <1>5, LenProperties DEF Inserted
<1>8. /\ Len(children) = n + 1 + 1
      /\ \A i \in 1..n + 1 + 1 : children[i] = IF i < c + 1 THEN node.children[i]
                                               ELSE IF i = c + 1 THEN b ELSE node.children[i - 1]
  BY <1>1, <1>6 DEF Inserted
<1>9. I \in AllNodes /\ ~I.leaf /\ I.keys = keys /\ I.children = children
  BY <1>5, <1>6, InnerFields
<1>10. Ascending(keys) /\ Widened(I, node, c, s)
  <2> HIDE DEF I
  <2> QED BY <1>1, <1>4, <1>5, <1>9, IndexWidened
<1>16. ASSUME NEW k \in R
       PROVE  \E q, q2 \in Int :
                /\ q = FindChildIndex(node, k) /\ q2 = FindChildIndex(I, k)
                /\ \/ k < s /\ ~(k >= s) /\ q + 1 <= c /\ q2 = q
                   \/ k >= s /\ ~(k < s) /\ q + 1 >= c /\ q2 = q + 1
  <2> HIDE DEF I
  <2>1. k \in Int
    OBVIOUS
  <2>2. PICK q \in Int : /\ q = FindChildIndex(node, k)
                         /\ k < s => q + 1 <= c /\ FindChildIndex(I, k) = q
                         /\ k >= s => q + 1 >= c /\ FindChildIndex(I, k) = q + 1
    BY <1>10, <2>1 DEF Widened
  <2>3. (k < s /\ ~(k >= s)) \/ (k >= s /\ ~(k < s))
    BY <1>4, <2>1
  <2>4. q + 1 \in Int
    OBVIOUS
  <2> QED BY <2>2, <2>3, <2>4
<1> HIDE DEF n, I
<1>11. \A i \in 1..n + 1 : keys[i] \in R
  <2> SUFFICES ASSUME NEW i \in 1..n + 1 PROVE keys[i] \in R
    OBVIOUS
  <2>4. i \in Int /\ c \in Int
    BY <1>1, <1>3
  <2>1. CASE i < c
    <3>1. i \in 1..n
      BY <1>1, <1>3, <2>1
    <3> QED BY <1>1, <1>7, <2>1, <3>1
  <2>2. CASE i = c
    BY <1>3, <1>4, <1>7, <2>2
  <2>3. CASE i > c
    <3>1. i - 1 \in 1..n /\ ~(i < c) /\ i # c
      BY <1>1, <1>3, <2>3
    <3> QED BY <1>1, <1>7, <3>1
  <2> QED BY <2>1, <2>2, <2>3, <2>4
<1>12. \A d, k : k \in Part(I, R, d) <=> k \in R /\ FindChildIndex(I, k) + 1 = d
  BY DEF Part
<1>13. \A d, k : k \in Part(node, R, d) <=> k \in R /\ FindChildIndex(node, k) + 1 = d
  BY DEF Part
<1>14. ASSUME NEW d \in 1..n + 1 + 1
       PROVE  /\ children[d] \in DOMAIN nodes1 /\ level1[children[d]] = l
              /\ range1[children[d]] = Part(I, R, d)
  <2>1. CASE d < c
    <3>0. d \in Int /\ c \in Int /\ n \in Int /\ d >= 1 /\ c <= n + 1 /\ d < c
      BY <1>1, <1>3, <2>1
    <3>1. d \in 1..n + 1 /\ d < c + 1 /\ d # c
      BY <3>0
    <3>2. children[d] = node.children[d]
      BY <1>8, <3>1
    <3>3. ASSUME NEW k \in R PROVE FindChildIndex(node, k) + 1 = d <=> FindChildIndex(I, k) + 1 = d
      <4>1. PICK q \in Int, q2 \in Int :
              /\ q = FindChildIndex(node, k) /\ q2 = FindChildIndex(I, k)
              /\ \/ k < s /\ ~(k >= s) /\ q + 1 <= c /\ q2 = q
                 \/ k >= s /\ ~(k < s) /\ q + 1 >= c /\ q2 = q + 1
        BY <1>16
      <4>2. c \in Int /\ d \in Int
        BY <1>1, <1>3
      <4> QED BY <2>1, <3>1, <4>1, <4>2
    <3>4. Part(node, R, d) = Part(I, R, d)
      <4>1. \A x : x \in Part(node, R, d) <=> x \in Part(I, R, d)
        BY <1>12, <1>13, <3>3
      <4> QED BY <4>1
    <3> QED BY <1>2, <1>17, <3>1, <3>2, <3>4
  <2>2. CASE d = c
    <3>1. d \in 1..n + 1 /\ d < c + 1
      BY <1>1, <1>3, <2>2
    <3>2. children[d] = node.children[c]
      BY <1>8, <2>2, <3>1
    <3>3. ASSUME NEW k \in R PROVE (FindChildIndex(node, k) + 1 = c /\ k < s) <=> FindChildIndex(I, k) + 1 = c
      <4>1. PICK q \in Int, q2 \in Int :
              /\ q = FindChildIndex(node, k) /\ q2 = FindChildIndex(I, k)
              /\ \/ k < s /\ ~(k >= s) /\ q + 1 <= c /\ q2 = q
                 \/ k >= s /\ ~(k < s) /\ q + 1 >= c /\ q2 = q + 1
        BY <1>16
      <4>2. c \in Int /\ d \in Int
        BY <1>1, <1>3
      <4> QED BY <4>1, <4>2
    <3>4. Part(I, R, c) = {k \in Part(node, R, c) : k < s}
      <4>1. \A x : x \in Part(I, R, c) <=> x \in {k \in Part(node, R, c) : k < s}
        BY <1>12, <1>13, <3>3
      <4> QED BY <4>1
    <3> QED BY <1>2, <1>3, <1>17, <2>2, <3>2, <3>4
  <2>3. CASE d = c + 1
    <3>1. children[d] = b
      BY <1>8, <1>3, <2>3
    <3>3. ASSUME NEW k \in R PROVE (FindChildIndex(node, k) + 1 = c /\ k >= s) <=> FindChildIndex(I, k) + 1 = d
      <4>1. PICK q \in Int, q2 \in Int :
              /\ q = FindChildIndex(node, k) /\ q2 = FindChildIndex(I, k)
              /\ \/ k < s /\ ~(k >= s) /\ q + 1 <= c /\ q2 = q
                 \/ k >= s /\ ~(k < s) /\ q + 1 >= c /\ q2 = q + 1
        BY <1>16
      <4>2. c \in Int /\ d \in Int
        BY <1>1, <1>3
      <4> QED BY <2>3, <4>1, <4>2
    <3>4. Part(I, R, d) = {k \in Part(node, R, c) : k >= s}
      <4>1. \A x : x \in Part(I, R, d) <=> x \in {k \in Part(node, R, c) : k >= s}
        BY <1>12, <1>13, <3>3
      <4> QED BY <4>1
    <3> QED BY <1>2, <1>3, <1>17, <3>1, <3>4
  <2>4. CASE d > c + 1
    <3>1. d - 1 \in 1..n + 1 /\ ~(d < c + 1) /\ d # c + 1 /\ d - 1 # c /\ d - 1 > c
      BY <1>1, <1>3, <2>4
    <3>2. children[d] = node.children[d - 1]
      BY <1>8, <3>1
    <3>3. ASSUME NEW k \in R PROVE FindChildIndex(node, k) + 1 = d - 1 <=> FindChildIndex(I, k) + 1 = d
      <4>1. PICK q \in Int, q2 \in Int :
              /\ q = FindChildIndex(node, k) /\ q2 = FindChildIndex(I, k)
              /\ \/ k < s /\ ~(k >= s) /\ q + 1 <= c /\ q2 = q
                 \/ k >= s /\ ~(k < s) /\ q + 1 >= c /\ q2 = q + 1
        BY <1>16
      <4>2. c \in Int /\ d \in Int
        BY <1>1, <1>3
      <4> QED BY SMTT(30), <2>4, <3>1, <4>1, <4>2
    <3>4. Part(node, R, d - 1) = Part(I, R, d)
      <4>1. \A x : x \in Part(node, R, d - 1) <=> x \in Part(I, R, d)
        BY <1>12, <1>13, <3>3
      <4> QED BY <4>1
    <3> QED BY <1>2, <1>17, <3>1, <3>2, <3>4
  <2> QED BY <1>1, <1>3, <2>1, <2>2, <2>3, <2>4
<1>15. Fit(I, nodes1, R, l, level1, range1)
  BY SMTT(30), <1>7, <1>8, <1>9, <1>10, <1>11, <1>14 DEF Fit
<1> QED BY <1>5, <1>6, <1>7, <1>15 DEF I, n

\* The places of the two halves of an overfull node.
LEMMA HalfPlaces ==
  ASSUME NEW N \in Nat, NEW mid \in 1..N - 2
  PROVE  /\ mid \in Nat /\ N - mid - 1 \in Nat /\ mid + 1 \in Nat /\ N - mid \in Nat
         /\ mid \in 0..N - 1 /\ mid + 1 \in 1..N /\ 1 \in 1..N /\ 1 < mid + 1
         /\ 1 = 0 + 1 /\ mid = 0 + mid /\ 0 + mid <= N
         /\ mid + 1 = 0 + (mid + 1) /\ 0 + (mid + 1) <= N + 1
         /\ mid + 2 = (mid + 1) + 1 /\ N = (mid + 1) + (N - mid - 1) /\ (mid + 1) + (N - mid - 1) <= N
         /\ N + 1 = (mid + 1) + (N - mid) /\ (mid + 1) + (N - mid) <= N + 1
         /\ N - mid = N - mid - 1 + 1
<1>1. /\ mid \in Nat /\ N - mid - 1 \in Nat /\ mid + 1 \in Nat /\ N - mid \in Nat
      /\ mid \in 0..N - 1 /\ mid + 1 \in 1..N /\ 1 \in 1..N /\ 1 < mid + 1
  OBVIOUS
<1>2. /\ 1 = 0 + 1 /\ mid = 0 + mid /\ 0 + mid <= N
      /\ mid + 1 = 0 + (mid + 1) /\ 0 + (mid + 1) <= N + 1
  OBVIOUS
<1>3. mid + 2 = (mid + 1) + 1
  OBVIOUS
<1>4. N = (mid + 1) + (N - mid - 1) /\ (mid + 1) + (N - mid - 1) <= N
  OBVIOUS
<1>5. N + 1 = (mid + 1) + (N - mid) /\ (mid + 1) + (N - mid) <= N + 1
  OBVIOUS
<1>6. N - mid = N - mid - 1 + 1
  OBVIOUS
<1> QED BY <1>1, <1>2, <1>3, <1>4, <1>5, <1>6

\* Integers are ordered.
LEMMA LessOrNot ==
  ASSUME NEW a \in Int, NEW b \in Int
  PROVE  (a < b /\ ~(a >= b)) \/ (a >= b /\ ~(a < b))
OBVIOUS

\* A place behind mid, counted from there.
LEMMA PlaceShifted ==
  ASSUME NEW q \in Int, NEW mid \in Int, NEW d \in Int, d >= 1
  PROVE  /\ q + 1 = mid + 1 + d <=> q - (mid + 1) + 1 = d
         /\ q + 1 = mid + 1 + d => ~(q <= mid)
OBVIOUS

\* The parts of an overfull node.
HalvesOf(I, nodes, R, l, level, range, N, mid, s, lk, lc, rk, rc, lower, upper) ==
  /\ R \in SUBSET Int
  /\ Fit(I, nodes, R, l, level, range)
  /\ N \in Nat
  /\ N = Len(I.keys)
  /\ mid \in 1..N - 2
  /\ s = I.keys[mid + 1]
  /\ lk = SubSeq(I.keys, 1, mid)
  /\ lc = SubSeq(I.children, 1, mid + 1)
  /\ rk = SubSeq(I.keys, mid + 2, N)
  /\ rc = SubSeq(I.children, mid + 2, N + 1)
  /\ lower = {k \in R : k < s}
  /\ upper = {k \in R : k >= s}

\* An overfull node is halved around its key s.
LEMMA FitHalved ==
  ASSUME NEW I, NEW nodes, NEW R, NEW l, NEW level, NEW range, NEW N, NEW mid, NEW s,
         NEW lk, NEW lc, NEW rk, NEW rc, NEW lower, NEW upper,
         HalvesOf(I, nodes, R, l, level, range, N, mid, s, lk, lc, rk, rc, lower, upper)
  PROVE  /\ s \in R /\ \E low \in R : low < s
         /\ lk \in Seq(Int) /\ lc \in Seq(Nat) /\ Len(lk) = mid
         /\ rk \in Seq(Int) /\ rc \in Seq(Nat) /\ Len(rk) = N - mid - 1
         /\ Fit(Inner(lk, lc), nodes, lower, l, level, range)
         /\ Fit(Inner(rk, rc), nodes, upper, l, level, range)
<1> USE DEF HalvesOf
<1> DEFINE L == Inner(lk, lc)
           Q == Inner(rk, rc)
<1>1. /\ I.keys \in Seq(Int) /\ Ascending(I.keys) /\ DOMAIN I.keys = 1..N
      /\ I.children \in Seq(Nat) /\ Len(I.children) = N + 1
      /\ \A i \in 1..N : I.keys[i] \in R
  BY LenProperties DEF Fit, AllNodes
<1>2. \A d \in 1..N + 1 : /\ I.children[d] \in DOMAIN nodes /\ level[I.children[d]] = l
                          /\ range[I.children[d]] = Part(I, R, d)
  BY DEF Fit
<1>3. /\ mid \in Nat /\ N - mid - 1 \in Nat /\ mid + 1 \in Nat /\ N - mid \in Nat
      /\ mid \in 0..N - 1 /\ mid + 1 \in 1..N /\ 1 \in 1..N /\ 1 < mid + 1
      /\ 1 = 0 + 1 /\ mid = 0 + mid /\ 0 + mid <= N
      /\ mid + 1 = 0 + (mid + 1) /\ 0 + (mid + 1) <= N + 1
      /\ mid + 2 = (mid + 1) + 1 /\ N = (mid + 1) + (N - mid - 1) /\ (mid + 1) + (N - mid - 1) <= N
      /\ N + 1 = (mid + 1) + (N - mid) /\ (mid + 1) + (N - mid) <= N + 1
      /\ N - mid = N - mid - 1 + 1
  BY HalfPlaces
<1>4. lk \in Seq(Int) /\ IsPart(lk, I.keys, 0, mid)
  BY <1>1, <1>3, PartOf
<1>5. lc \in Seq(Nat) /\ IsPart(lc, I.children, 0, mid + 1)
  BY ZenonT(30), <1>1, <1>3, PartOf
<1>6. rk \in Seq(Int) /\ IsPart(rk, I.keys, mid + 1, N - mid - 1)
  BY <1>1, <1>3, PartOf
<1>7. rc \in Seq(Nat) /\ IsPart(rc, I.children, mid + 1, N - mid)
  BY ZenonT(30), <1>1, <1>3, PartOf
<1>8. Ascending(lk) /\ Ascending(rk)
  BY <1>1, <1>3, <1>4, <1>6, AscendingPart
<1>9. /\ L \in AllNodes /\ ~L.leaf /\ L.keys = lk /\ L.children = lc
      /\ Q \in AllNodes /\ ~Q.leaf /\ Q.keys = rk /\ Q.children = rc
  BY ZenonT(30), <1>4, <1>5, <1>6, <1>7, InnerFields
<1> HIDE DEF L, Q
<1>10. /\ Len(lk) = mid /\ DOMAIN lk = 1..mid /\ Len(lc) = mid + 1
       /\ Len(rk) = N - mid - 1 /\ DOMAIN rk = 1..N - mid - 1 /\ Len(rc) = N - mid
       /\ \A i \in 1..mid : lk[i] = I.keys[0 + i]
       /\ \A i \in 1..mid + 1 : lc[i] = I.children[0 + i]
       /\ \A i \in 1..N - mid - 1 : rk[i] = I.keys[mid + 1 + i]
       /\ \A i \in 1..N - mid : rc[i] = I.children[mid + 1 + i]
  BY <1>4, <1>5, <1>6, <1>7 DEF IsPart
<1>11. /\ s \in R /\ s \in Int /\ I.keys[1] \in R /\ I.keys[1] < s
  BY <1>1, <1>3 DEF Ascending
<1>12. ASSUME NEW k \in R
       PROVE  \E q \in Int : /\ q = FindChildIndex(I, k)
                             /\ \/ k < s /\ ~(k >= s) /\ q <= mid /\ FindChildIndex(L, k) = q
                                \/ /\ k >= s /\ ~(k < s) /\ q >= mid + 1
                                   /\ FindChildIndex(Q, k) = q - (mid + 1)
  <2>1. k \in Int
    OBVIOUS
  <2>2. Halved(I, L, Q, mid, s)
    BY <1>1, <1>3, <1>4, <1>6, <1>9, IndexHalved
  <2>3. PICK q \in Int : /\ q = FindChildIndex(I, k)
                         /\ k < s => q <= mid /\ FindChildIndex(L, k) = q
                         /\ k >= s => q >= mid + 1 /\ FindChildIndex(Q, k) = q - (mid + 1)
    BY <2>1, <2>2 DEF Halved
  <2>4. (k < s /\ ~(k >= s)) \/ (k >= s /\ ~(k < s))
    BY <1>11, <2>1, LessOrNot
  <2> QED BY <2>3, <2>4
<1>13. Fit(L, nodes, lower, l, level, range)
  <2>1. \A i \in 1..mid : lk[i] \in lower
    <3> SUFFICES ASSUME NEW i \in 1..mid PROVE lk[i] \in R /\ lk[i] < s
      OBVIOUS
    <3>1. i \in 1..N /\ 0 + i = i /\ i < mid + 1
      BY <1>3
    <3> QED BY ZenonT(30), <1>1, <1>3, <1>10, <3>1 DEF Ascending
  <2>2. ASSUME NEW d \in 1..mid + 1
        PROVE  /\ lc[d] \in DOMAIN nodes /\ level[lc[d]] = l
               /\ range[lc[d]] = Part(L, lower, d)
    <3>1. d \in 1..N + 1 /\ 0 + d = d /\ d \in Int /\ mid \in Int
      BY <1>3
    <3>2. lc[d] = I.children[d]
      BY <1>10, <3>1
    <3>3. ASSUME NEW k \in R
          PROVE  FindChildIndex(I, k) + 1 = d <=> k < s /\ FindChildIndex(L, k) + 1 = d
      <4>1. PICK q \in Int : /\ q = FindChildIndex(I, k)
                             /\ \/ k < s /\ ~(k >= s) /\ q <= mid /\ FindChildIndex(L, k) = q
                                \/ /\ k >= s /\ ~(k < s) /\ q >= mid + 1
                                   /\ FindChildIndex(Q, k) = q - (mid + 1)
        BY <1>12
      <4>2. d <= mid + 1
        BY <1>3
      <4>3. q + 1 = d => ~(q >= mid + 1)
        BY <3>1, <4>2
      <4> QED BY <4>1, <4>3
    <3>4. Part(I, R, d) = Part(L, lower, d)
      <4>1. \A x : x \in Part(I, R, d) <=> x \in Part(L, lower, d)
        BY <3>3 DEF Part
      <4> QED BY <4>1
    <3> QED BY <1>2, <3>1, <3>2, <3>4
  <2> QED BY <1>8, <1>9, <1>10, <2>1, <2>2 DEF Fit
<1>14. Fit(Q, nodes, upper, l, level, range)
  <2>1. \A i \in 1..N - mid - 1 : rk[i] \in upper
    <3> SUFFICES ASSUME NEW i \in 1..N - mid - 1 PROVE rk[i] \in R /\ rk[i] >= s
      OBVIOUS
    <3>1. mid + 1 + i \in 1..N /\ mid + 1 < mid + 1 + i
      BY <1>3
    <3>2. PICK x \in Int, y \in Int : x = s /\ y = I.keys[mid + 1 + i] /\ y = rk[i] /\ y \in R
      BY ZenonT(30), <1>1, <1>10, <1>11, <3>1
    <3>3. x < y
      BY <1>1, <1>3, <3>1, <3>2 DEF Ascending
    <3>4. y >= x
      BY <3>3
    <3>5. y \in R /\ y >= s
      BY <3>2, <3>4
    <3> QED BY <3>2, <3>5
  <2>2. ASSUME NEW d \in 1..N - mid - 1 + 1
        PROVE  /\ rc[d] \in DOMAIN nodes /\ level[rc[d]] = l
               /\ range[rc[d]] = Part(Q, upper, d)
    <3>1. mid + 1 + d \in 1..N + 1 /\ d \in Int /\ mid \in Int /\ d >= 1 /\ d \in 1..N - mid
      BY <1>3
    <3>2. rc[d] = I.children[mid + 1 + d]
      BY <1>10, <3>1
    <3>3. ASSUME NEW k \in R
          PROVE  FindChildIndex(I, k) + 1 = mid + 1 + d <=> k >= s /\ FindChildIndex(Q, k) + 1 = d
      <4>1. PICK q \in Int : /\ q = FindChildIndex(I, k)
                             /\ \/ k < s /\ ~(k >= s) /\ q <= mid /\ FindChildIndex(L, k) = q
                                \/ /\ k >= s /\ ~(k < s) /\ q >= mid + 1
                                   /\ FindChildIndex(Q, k) = q - (mid + 1)
        BY <1>12
      <4>2. /\ q + 1 = mid + 1 + d <=> q - (mid + 1) + 1 = d
            /\ q + 1 = mid + 1 + d => ~(q <= mid)
        BY <3>1, PlaceShifted
      <4> QED BY <4>1, <4>2
    <3>4. Part(I, R, mid + 1 + d) = Part(Q, upper, d)
      <4>1. \A x : x \in Part(I, R, mid + 1 + d) <=> x \in Part(Q, upper, d)
        BY <3>3 DEF Part
      <4> QED BY <4>1
    <3> QED BY <1>2, <3>1, <3>2, <3>4
  <2>3. N - mid = N - mid - 1 + 1
    BY <1>3
  <2> QED BY ZenonT(30), <1>8, <1>9, <1>10, <2>1, <2>2, <2>3 DEF Fit
<1> QED BY <1>4, <1>5, <1>6, <1>7, <1>10, <1>11, <1>13, <1>14 DEF L, Q

\* The nodes of level l are there and have kept level and range.
Stay(nodes, l, level, range, nodes2, level2, range2) ==
  \A y \in DOMAIN nodes : level[y] = l =>
    y \in DOMAIN nodes2 /\ level2[y] = level[y] /\ range2[y] = range[y]

\* A node fits as long as its children stay.
LEMMA FitKept ==
  ASSUME NEW node, NEW nodes, NEW R, NEW l, NEW level, NEW range, Fit(node, nodes, R, l, level, range),
         NEW nodes2, NEW level2, NEW range2, Stay(nodes, l, level, range, nodes2, level2, range2)
  PROVE  Fit(node, nodes2, R, l, level2, range2)
BY DEF Fit, Stay

\* To be a good inner node is to fit in its range.
LEMMA InnerFit ==
  ASSUME NEW order, NEW nodes \in Seq(AllNodes), NEW level, NEW range,
         NEW n \in DOMAIN nodes, ~nodes[n].leaf
  PROVE  GoodInner(order, nodes, level, range, n) <=>
           /\ Fit(nodes[n], nodes, range[n], level[n] - 1, level, range)
           /\ Len(nodes[n].keys) \in 1..order
<1>1. nodes[n] \in AllNodes
  BY LenProperties, ElementOfSeq
<1>2. /\ Len(nodes[n].keys) \in Nat /\ DOMAIN nodes[n].keys = 1..Len(nodes[n].keys)
      /\ DOMAIN nodes[n].children = 1..Len(nodes[n].children)
  BY <1>1, LenProperties DEF AllNodes
<1> QED BY <1>1, <1>2 DEF GoodInner, IsInner, Fit, KeysInRange

\* A node that fits is a good inner node.
LEMMA InnerFits ==
  ASSUME NEW order, NEW nodes \in Seq(AllNodes), NEW level, NEW range, NEW n \in DOMAIN nodes,
         NEW I, nodes[n] = I, NEW R, range[n] = R, NEW l, level[n] - 1 = l,
         Fit(I, nodes, R, l, level, range), Len(I.keys) \in 1..order
  PROVE  GoodInner(order, nodes, level, range, n)
<1>1. ~nodes[n].leaf
  BY DEF Fit
<1> QED BY <1>1, InnerFit

\* No two nodes of a level, or places in a node, share a child that some key goes to.
LEMMA ChildrenApart ==
  ASSUME NEW order, NEW nodes, NEW top, NEW level, NEW range, NEW pos, NEW m,
         UpTo(order, nodes, top, level, range, pos, m),
         NEW a \in DOMAIN nodes, NEW b \in DOMAIN nodes, level[a] = level[b], level[a] \in 1..top,
         NEW c \in DOMAIN nodes[a].children, NEW d \in DOMAIN nodes[b].children,
         NEW key, key \in range[nodes[a].children[c]], nodes[a].children[c] = nodes[b].children[d]
  PROVE  a = b /\ c = d
<1>1. GoodInner(order, nodes, level, range, a) /\ GoodInner(order, nodes, level, range, b)
  BY DEF UpTo, GoodInners
<1>2. /\ range[nodes[a].children[c]] = Part(nodes[a], range[a], c)
      /\ range[nodes[b].children[d]] = Part(nodes[b], range[b], d)
  BY <1>1 DEF GoodInner
<1>3. /\ key \in range[a] /\ FindChildIndex(nodes[a], key) + 1 = c
      /\ key \in range[b] /\ FindChildIndex(nodes[b], key) + 1 = d
  BY <1>2 DEF Part
<1>4. a = b
  BY <1>3 DEF UpTo, Layered
<1> QED BY <1>3, <1>4

\* The leaves are the same, and in the same ranges.
LeavesStay(nodes, range, nodes2, range2) ==
  /\ DOMAIN nodes \subseteq DOMAIN nodes2
  /\ \A x \in DOMAIN nodes2 : nodes2[x].leaf => x \in DOMAIN nodes /\ nodes[x].leaf
  /\ \A x \in DOMAIN nodes : nodes[x].leaf => nodes2[x] = nodes[x] /\ range2[x] = range[x]

\* What is said of the leaves stays true when inner nodes change or are added.
LEMMA SameLeaves ==
  ASSUME NEW order, NEW nodes, NEW top, NEW level, NEW range, NEW pos, NEW m,
         UpTo(order, nodes, top, level, range, pos, m),
         NEW nodes2, NEW range2, LeavesStay(nodes, range, nodes2, range2)
  PROVE  \E pos2 : /\ GoodLeaves(order, nodes2, range2) /\ Linked(nodes2, range2, pos2)
                   /\ Filed(nodes2, m)
<1> DEFINE pos2 == [x \in DOMAIN nodes2 |-> IF x \in DOMAIN nodes THEN pos[x] ELSE 0]
<1>1. GoodLeaves(order, nodes, range) /\ Linked(nodes, range, pos) /\ Filed(nodes, m)
  BY DEF UpTo
<1>2. \A x \in DOMAIN nodes : pos2[x] = pos[x]
  BY DEF LeavesStay
<1>3. pos2 \in [DOMAIN nodes2 -> Nat]
  BY <1>1 DEF Linked
<1> HIDE DEF pos2
<1>4. \A x \in DOMAIN nodes2 : nodes2[x].leaf => /\ x \in DOMAIN nodes /\ nodes[x].leaf
                                                 /\ nodes2[x] = nodes[x] /\ range2[x] = range[x]
                                                 /\ pos2[x] = pos[x]
  BY <1>2 DEF LeavesStay
<1>5. \A x \in DOMAIN nodes : nodes[x].leaf => x \in DOMAIN nodes2 /\ nodes2[x].leaf
  BY DEF LeavesStay
<1>6. GoodLeaves(order, nodes2, range2)
  BY <1>1, <1>4 DEF GoodLeaves, KeysInRange
<1>7. Filed(nodes2, m)
  <2>1. \A x \in DOMAIN nodes2 : nodes2[x].leaf => \A i \in DOMAIN nodes2[x].keys :
          nodes2[x].keys[i] \in DOMAIN m /\ m[nodes2[x].keys[i]] = nodes2[x].values[i]
    BY <1>1, <1>4 DEF Filed
  <2>2. ASSUME NEW k \in DOMAIN m
        PROVE  \E x \in DOMAIN nodes2 :
                 nodes2[x].leaf /\ \E i \in DOMAIN nodes2[x].keys : nodes2[x].keys[i] = k
    <3>1. PICK x \in DOMAIN nodes : nodes[x].leaf /\ \E i \in DOMAIN nodes[x].keys : nodes[x].keys[i] = k
      BY <1>1 DEF Filed
    <3>2. x \in DOMAIN nodes2 /\ nodes2[x] = nodes[x]
      BY <3>1 DEF LeavesStay
    <3> QED BY <3>1, <3>2
  <2> QED BY <2>1, <2>2 DEF Filed
<1>8. Linked(nodes2, range2, pos2)
  <2>1. /\ \A a, b \in DOMAIN nodes : nodes[a].leaf /\ nodes[b].leaf =>
             /\ a # b => pos[a] # pos[b]
             /\ pos[a] < pos[b] => \A x \in range[a], y \in range[b] : x < y
        /\ \A n \in DOMAIN nodes : nodes[n].leaf =>
             IF nodes[n].next = NoNode
             THEN \A l \in DOMAIN nodes : nodes[l].leaf => pos[l] <= pos[n]
             ELSE /\ nodes[n].next \in DOMAIN nodes /\ nodes[nodes[n].next].leaf
                  /\ pos[nodes[n].next] = pos[n] + 1
    BY <1>1 DEF Linked
  <2>2. \A a, b \in DOMAIN nodes2 : nodes2[a].leaf /\ nodes2[b].leaf =>
          /\ a # b => pos2[a] # pos2[b]
          /\ pos2[a] < pos2[b] => \A x \in range2[a], y \in range2[b] : x < y
    BY <1>4, <2>1
  <2>3. ASSUME NEW n \in DOMAIN nodes2, nodes2[n].leaf
        PROVE  IF nodes2[n].next = NoNode
               THEN \A l \in DOMAIN nodes2 : nodes2[l].leaf => pos2[l] <= pos2[n]
               ELSE /\ nodes2[n].next \in DOMAIN nodes2 /\ nodes2[nodes2[n].next].leaf
                    /\ pos2[nodes2[n].next] = pos2[n] + 1
    <3>1. n \in DOMAIN nodes /\ nodes[n].leaf /\ nodes2[n] = nodes[n] /\ pos2[n] = pos[n]
      BY <1>4, <2>3
    <3>2. CASE nodes[n].next = NoNode
      BY <1>4, <2>1, <3>1, <3>2
    <3>3. CASE nodes[n].next # NoNode
      <4>1. /\ nodes[n].next \in DOMAIN nodes /\ nodes[nodes[n].next].leaf
            /\ pos[nodes[n].next] = pos[n] + 1
        BY <2>1, <3>1, <3>3
      <4> QED BY <1>2, <1>5, <3>1, <3>3, <4>1
    <3> QED BY <3>2, <3>3
  <2> QED BY <1>3, <2>2, <2>3 DEF Linked
<1> QED BY <1>6, <1>7, <1>8

\* Another inner node in the place of n, one level above those that are in order.
LEMMA InnerReplaced ==
  ASSUME NEW order \in Nat, NEW nodes, NEW l \in Nat, NEW level, NEW range, NEW pos, NEW m,
         UpTo(order, nodes, l, level, range, pos, m),
         NEW n \in DOMAIN nodes, level[n] = l + 1,
         \A x \in DOMAIN nodes : x # n /\ level[x] = l + 1 => GoodInner(order, nodes, level, range, x),
         NEW I, Fit(I, nodes, range[n], l, level, range), Len(I.keys) \in 1..order,
         NEW nodes2, nodes2 = [nodes EXCEPT ![n] = I]
  PROVE  \E pos2 : UpTo(order, nodes2, l + 1, level, range, pos2, m)
<1>1. /\ nodes \in Seq(AllNodes) /\ \A x \in DOMAIN nodes : nodes[x].leaf <=> level[x] = 0
      /\ \A x \in DOMAIN nodes : level[x] \in Nat
      /\ I \in AllNodes /\ ~I.leaf
  BY DEF UpTo, Layered, Fit
<1>2. /\ nodes2 \in Seq(AllNodes) /\ DOMAIN nodes2 = DOMAIN nodes
      /\ nodes2[n] = I /\ \A x \in DOMAIN nodes : x # n => nodes2[x] = nodes[x]
  <2>1. n \in 1..Len(nodes) /\ DOMAIN nodes = 1..Len(nodes)
    BY <1>1, LenProperties
  <2>2. nodes2 \in Seq(AllNodes) /\ Len(nodes2) = Len(nodes)
    BY <1>1, <2>1, ExceptSeq
  <2>3. DOMAIN nodes2 = 1..Len(nodes2)
    BY <2>2, LenProperties
  <2> QED BY <2>1, <2>2, <2>3
<1>3. level[n] # 0 /\ ~nodes[n].leaf
  BY <1>1
<1>4. Layered(nodes2, level, range)
  <2>1. \A x \in DOMAIN nodes : nodes2[x].leaf <=> level[x] = 0
    BY <1>1, <1>2, <1>3
  <2> QED BY <1>2, <2>1 DEF UpTo, Layered
<1>5. PICK pos2 : /\ GoodLeaves(order, nodes2, range) /\ Linked(nodes2, range, pos2)
                  /\ Filed(nodes2, m)
  <2>1. LeavesStay(nodes, range, nodes2, range)
    BY <1>1, <1>2, <1>3 DEF LeavesStay
  <2> QED BY <2>1, SameLeaves
<1>6. GoodInners(order, nodes2, level, range, l + 1)
  <2> SUFFICES ASSUME NEW x \in DOMAIN nodes, level[x] \in 1..l + 1
               PROVE  GoodInner(order, nodes2, level, range, x)
    BY <1>2 DEF GoodInners
  <2>1. CASE x = n
    <3>1. Fit(I, nodes2, range[n], l, level, range)
      <4>1. Stay(nodes, l, level, range, nodes2, level, range)
        BY <1>2 DEF Stay
      <4> QED BY <4>1, FitKept
    <3>2. level[n] - 1 = l
      OBVIOUS
    <3>3. nodes2[n] = I /\ n \in DOMAIN nodes2
      BY <1>2
    <3> QED BY <1>2, <2>1, <3>1, <3>2, <3>3, InnerFits
  <2>2. CASE x # n
    <3>1. GoodInner(order, nodes, level, range, x)
      <4>1. level[x] = l + 1 \/ level[x] \in 1..l
        OBVIOUS
      <4> QED BY <2>2, <4>1 DEF UpTo, GoodInners
    <3> QED BY <1>2, <2>2, <3>1 DEF GoodInner, KeysInRange
  <2> QED BY <2>1, <2>2
<1> QED BY <1>4, <1>5, <1>6 DEF UpTo

\* Node n has kept the part of its range below s, and the new node has the rest.
Splits(nodes, n, new, s, l, level, range, level2, range2) ==
  /\ \A x \in DOMAIN nodes : level2[x] = level[x] /\ (x # n => range2[x] = range[x])
  /\ level2[new] = l
  /\ range2[n] = {k \in range[n] : k < s} /\ range2[new] = {k \in range[n] : k >= s}

\* Two inner nodes in the place of n, one level above those that are in order.
LEMMA InnerSplit ==
  ASSUME NEW order \in Nat, NEW nodes, NEW l \in Nat, NEW level, NEW range, NEW pos, NEW m,
         UpTo(order, nodes, l, level, range, pos, m),
         NEW n \in DOMAIN nodes, level[n] = l + 1,
         \A x \in DOMAIN nodes : x # n /\ level[x] = l + 1 => GoodInner(order, nodes, level, range, x),
         NEW s \in range[n],
         NEW lower, lower = {k \in range[n] : k < s}, NEW upper, upper = {k \in range[n] : k >= s},
         NEW L, Fit(L, nodes, lower, l, level, range), Len(L.keys) \in 1..order,
         NEW Q, Fit(Q, nodes, upper, l, level, range), Len(Q.keys) \in 1..order,
         NEW nodes2, nodes2 = Append([nodes EXCEPT ![n] = L], Q)
  PROVE  \E level2, range2, pos2 :
           /\ UpTo(order, nodes2, l + 1, level2, range2, pos2, m)
           /\ Splits(nodes, n, NewNode(nodes), s, l + 1, level, range, level2, range2)
<1> DEFINE D == DOMAIN nodes
           new == NewNode(nodes)
           level2 == [x \in D \cup {new} |-> IF x = new THEN l + 1 ELSE level[x]]
           range2 == [x \in D \cup {new} |->
                        IF x = new THEN upper ELSE IF x = n THEN lower ELSE range[x]]
<1>1. /\ nodes \in Seq(AllNodes) /\ level \in [D -> Nat] /\ range \in [D -> SUBSET Int]
      /\ \A x \in D : nodes[x].leaf <=> level[x] = 0
      /\ \A a, b \in D : a # b /\ level[a] = level[b] => range[a] \cap range[b] = {}
      /\ L \in AllNodes /\ ~L.leaf /\ Q \in AllNodes /\ ~Q.leaf
  BY DEF UpTo, Layered, Fit
<1>2. /\ nodes2 \in Seq(AllNodes) /\ DOMAIN nodes2 = D \cup {new}
      /\ new \notin D /\ new \in Nat /\ new # NoNode
      /\ nodes2[new] = Q /\ nodes2[n] = L
      /\ \A x \in D : x # n => nodes2[x] = nodes[x]
  <2>1. OneMoreNode(nodes, n, L, Q, nodes2, new)
    BY <1>1, ReplacedAndAdded
  <2> HIDE DEF new
  <2> QED BY <2>1 DEF OneMoreNode
<1> HIDE DEF new
<1>3. /\ s \in Int /\ range[n] \in SUBSET Int /\ level[n] # 0 /\ n # new /\ ~nodes[n].leaf
  BY <1>1, <1>2
<1>4. /\ level2[new] = l + 1 /\ \A x \in D : level2[x] = level[x]
      /\ range2[new] = upper /\ range2[n] = lower
      /\ \A x \in D : x # n => range2[x] = range[x]
      /\ \A x \in D : range2[x] \subseteq range[x]
  BY <1>2, <1>3
<1>5. level2 \in [D \cup {new} -> Nat] /\ range2 \in [D \cup {new} -> SUBSET Int]
  BY <1>1, <1>3
<1> HIDE DEF level2, range2
<1>6. Layered(nodes2, level2, range2)
  <2>1. \A x \in D \cup {new} : nodes2[x].leaf <=> level2[x] = 0
    <3>1. l + 1 # 0
      OBVIOUS
    <3> QED BY SMTT(30), <1>1, <1>2, <1>3, <1>4, <3>1
  <2>2. \A k : ~(k \in range2[n] /\ k \in range2[new])
    <3> SUFFICES ASSUME NEW k \in Int, k < s, k >= s PROVE FALSE
      BY <1>3, <1>4
    <3> QED BY <1>3
  <2>3. \A x \in D : x # n /\ level[x] = l + 1 => range2[x] \cap range2[new] = {}
    BY <1>1, <1>3, <1>4
  <2>4. \A a, b \in D : a # b /\ level2[a] = level2[b] => range2[a] \cap range2[b] = {}
    BY SMTT(30), <1>1, <1>4
  <2>5. ASSUME NEW a \in D \cup {new}, NEW b \in D \cup {new}, a # b, level2[a] = level2[b]
        PROVE  range2[a] \cap range2[b] = {}
    <3>1. CASE a \in D /\ b \in D
      BY <2>4, <2>5, <3>1
    <3>2. CASE a = new /\ b \in D
      BY <1>4, <2>2, <2>3, <2>5, <3>2
    <3>3. CASE b = new /\ a \in D
      BY <1>4, <2>2, <2>3, <2>5, <3>3
    <3> QED BY <2>5, <3>1, <3>2, <3>3
  <2> QED BY <1>2, <1>5, <2>1, <2>5 DEF Layered
<1>7. PICK pos2 : /\ GoodLeaves(order, nodes2, range2) /\ Linked(nodes2, range2, pos2)
                  /\ Filed(nodes2, m)
  <2>1. LeavesStay(nodes, range, nodes2, range2)
    BY SMTT(30), <1>1, <1>2, <1>3, <1>4 DEF LeavesStay
  <2> QED BY <2>1, SameLeaves
<1>8. Stay(nodes, l, level, range, nodes2, level2, range2)
  <2>1. \A x \in D : level[x] = l => x # n
    BY <1>1
  <2> QED BY <1>2, <1>4, <2>1 DEF Stay
<1>9. GoodInners(order, nodes2, level2, range2, l + 1)
  <2> SUFFICES ASSUME NEW x \in D \cup {new}, level2[x] \in 1..l + 1
               PROVE  GoodInner(order, nodes2, level2, range2, x)
    BY <1>2 DEF GoodInners
  <2>0. l + 1 - 1 = l
    OBVIOUS
  <2>1. CASE x = n
    <3>1. Fit(L, nodes2, range2[n], l, level2, range2)
      <4>1. Fit(L, nodes2, lower, l, level2, range2)
        BY <1>8, FitKept
      <4> QED BY <1>4, <4>1
    <3>4. level2[n] = level[n]
      BY <1>4
    <3>2. level2[n] - 1 = l
      BY <2>0, <3>4
    <3>3. nodes2[n] = L /\ n \in DOMAIN nodes2
      BY <1>2
    <3> QED BY <1>2, <1>4, <2>1, <3>1, <3>2, <3>3, InnerFits
  <2>2. CASE x = new
    <3>1. Fit(Q, nodes2, range2[new], l, level2, range2)
      <4>1. Fit(Q, nodes2, upper, l, level2, range2)
        BY <1>8, FitKept
      <4> QED BY <1>4, <4>1
    <3>2. level2[new] - 1 = l
      BY <1>4, <2>0
    <3>3. nodes2[new] = Q /\ new \in DOMAIN nodes2
      BY <1>2
    <3> QED BY <1>2, <1>4, <2>2, <3>1, <3>2, <3>3, InnerFits
  <2>3. CASE x \in D /\ x # n
    <3>1. GoodInner(order, nodes, level, range, x)
      <4>1. level[x] = l + 1 \/ level[x] \in 1..l
        BY <1>4, <2>3
      <4> QED BY <2>3, <4>1 DEF UpTo, GoodInners
    <3>2. ~nodes[x].leaf /\ ~nodes2[x].leaf /\ nodes2[x] = nodes[x] /\ level2[x] = level[x] /\ range2[x] = range[x]
      BY SMTT(30), <1>1, <1>2, <1>4, <2>3
    <3>3. Fit(nodes[x], nodes, range[x], level[x] - 1, level, range) /\ Len(nodes[x].keys) \in 1..order
      BY <1>1, <2>3, <3>1, <3>2, InnerFit
    <3>4. level[x] - 1 \in Nat /\ level[x] - 1 <= l
      BY <1>4, <2>3
    <3>5. Stay(nodes, level[x] - 1, level, range, nodes2, level2, range2)
      <4>1. \A y \in D : level[y] = level[x] - 1 => y # n
        BY <3>4
      <4> QED BY <1>2, <1>4, <4>1 DEF Stay
    <3>6. Fit(nodes[x], nodes2, range[x], level[x] - 1, level2, range2)
      BY <3>3, <3>5, FitKept
    <3>7. x \in DOMAIN nodes2
      BY <1>2
    <3> QED BY <1>2, <3>2, <3>3, <3>6, <3>7, InnerFits
  <2> QED BY <2>1, <2>2, <2>3
<1>10. UpTo(order, nodes2, l + 1, level2, range2, pos2, m)
  BY <1>6, <1>7, <1>9 DEF UpTo
<1>11. Splits(nodes, n, new, s, l + 1, level, range, level2, range2)
  BY <1>4 DEF Splits
<1> QED BY <1>10, <1>11 DEF new

\* A node whose children stay, or that is the same, stays a good inner node.
LEMMA ParentKept ==
  ASSUME NEW order, NEW nodes, NEW level, NEW range, NEW x, GoodInner(order, nodes, level, range, x),
         NEW nodes1, NEW level1, NEW range1,
         nodes1[x] = nodes[x], level1[x] = level[x], range1[x] = range[x],
         \A d \in DOMAIN nodes[x].children :
           /\ nodes[x].children[d] \in DOMAIN nodes1
           /\ level1[nodes[x].children[d]] = level[nodes[x].children[d]]
           /\ range1[nodes[x].children[d]] = range[nodes[x].children[d]]
  PROVE  GoodInner(order, nodes1, level1, range1, x)
BY DEF GoodInner, KeysInRange

\* The nodes after the insertion below node n of level l + 1, before the node takes part.
Ready(order, nodes, n, l, level, range, r, level1, range1, pos1, m) ==
  /\ l \in Nat /\ level[n] = l + 1 /\ n \in DOMAIN nodes
  /\ DOMAIN nodes \subseteq DOMAIN r.nodes /\ \A x \in DOMAIN nodes : level[x] \in Nat
  /\ UpTo(order, r.nodes, l, level1, range1, pos1, m)
  /\ \A x \in DOMAIN nodes : /\ level1[x] = level[x]
                             /\ level[x] > l => r.nodes[x] = nodes[x] /\ range1[x] = range[x]
  /\ \A x \in DOMAIN r.nodes \ DOMAIN nodes : level1[x] <= l
  /\ \A x \in DOMAIN r.nodes : x # n /\ level1[x] = l + 1 => GoodInner(order, r.nodes, level1, range1, x)

\* insertIntoInner() is not called when the child was not split.
LEMMA InnerUnsplit ==
  ASSUME NEW order, NEW nodes, NEW n, NEW l, NEW level, NEW range, NEW r,
         NEW level1, NEW range1, NEW pos1, NEW m,
         Ready(order, nodes, n, l, level, range, r, level1, range1, pos1, m),
         GoodInner(order, r.nodes, level1, range1, n), r.split = NoSplit
  PROVE  GrownUnder(order, nodes, n, level, range, r, m)
<1>1. /\ l \in Nat /\ level[n] = l + 1 /\ n \in DOMAIN nodes
      /\ DOMAIN nodes \subseteq DOMAIN r.nodes /\ \A x \in DOMAIN nodes : level[x] \in Nat
      /\ UpTo(order, r.nodes, l, level1, range1, pos1, m)
      /\ \A x \in DOMAIN nodes : /\ level1[x] = level[x]
                                 /\ level[x] > l => r.nodes[x] = nodes[x] /\ range1[x] = range[x]
      /\ \A x \in DOMAIN r.nodes \ DOMAIN nodes : level1[x] <= l
      /\ \A x \in DOMAIN r.nodes : x # n /\ level1[x] = l + 1 =>
           GoodInner(order, r.nodes, level1, range1, x)
  BY DEF Ready
<1>2. \A x \in DOMAIN r.nodes : level1[x] \in Nat
  BY <1>1 DEF UpTo, Layered
<1>3. GoodInners(order, r.nodes, level1, range1, l + 1)
  <2> SUFFICES ASSUME NEW x \in DOMAIN r.nodes, level1[x] \in 1..l + 1
               PROVE  GoodInner(order, r.nodes, level1, range1, x)
    BY DEF GoodInners
  <2>1. level1[x] = l + 1 \/ level1[x] \in 1..l
    BY <1>1
  <2> QED BY <1>1, <2>1 DEF UpTo, GoodInners
<1>4. UpTo(order, r.nodes, level[n], level1, range1, pos1, m)
  BY <1>1, <1>3 DEF UpTo
<1>5. \A x \in DOMAIN nodes : (level[x] > level[n] => level[x] > l) /\ (level[x] = level[n] => level[x] > l)
  BY <1>1
<1>6. \A x \in DOMAIN r.nodes \ DOMAIN nodes : level1[x] <= level[n] /\ level1[x] # level[n]
  BY <1>1, <1>2
<1>7. Grows(nodes, n, level, range, r, level1, range1)
  BY <1>1, <1>5, <1>6 DEF Grows
<1> QED BY <1>4, <1>7 DEF GrownUnder

\* The node I takes the place of node n.
Keeps(order, nodes, n, l, level, range, r, level1, range1, pos1, m, I, r2, nodes2) ==
  /\ order \in Nat
  /\ Ready(order, nodes, n, l, level, range, r, level1, range1, pos1, m)
  /\ Fit(I, r.nodes, range[n], l, level1, range1)
  /\ Len(I.keys) \in 1..order
  /\ nodes2 = [r.nodes EXCEPT ![n] = I]
  /\ r2.nodes = nodes2
  /\ r2.split = NoSplit

\* insertIntoInner() in a node that has room.
LEMMA InnerKept ==
  ASSUME NEW order, NEW nodes, NEW n, NEW l, NEW level, NEW range, NEW r, NEW level1,
         NEW range1, NEW pos1, NEW m, NEW I, NEW r2, NEW nodes2,
         Keeps(order, nodes, n, l, level, range, r, level1, range1, pos1, m, I, r2, nodes2)
  PROVE  GrownUnder(order, nodes, n, level, range, r2, m)
<1> USE DEF Keeps
<1>1. /\ l \in Nat /\ level[n] = l + 1 /\ n \in DOMAIN nodes
      /\ DOMAIN nodes \subseteq DOMAIN r.nodes /\ \A x \in DOMAIN nodes : level[x] \in Nat
      /\ UpTo(order, r.nodes, l, level1, range1, pos1, m)
      /\ \A x \in DOMAIN nodes : /\ level1[x] = level[x]
                                 /\ level[x] > l => r.nodes[x] = nodes[x] /\ range1[x] = range[x]
      /\ \A x \in DOMAIN r.nodes \ DOMAIN nodes : level1[x] <= l
      /\ \A x \in DOMAIN r.nodes : x # n /\ level1[x] = l + 1 =>
           GoodInner(order, r.nodes, level1, range1, x)
  BY DEF Ready
<1>2. \A x \in DOMAIN r.nodes : level1[x] \in Nat
  BY <1>1 DEF UpTo, Layered
<1>3. n \in DOMAIN r.nodes /\ level1[n] = l + 1 /\ range1[n] = range[n]
  BY <1>1
<1>4. PICK pos2 : UpTo(order, nodes2, l + 1, level1, range1, pos2, m)
  <2>1. Fit(I, r.nodes, range1[n], l, level1, range1)
    BY <1>3
  <2> QED BY <1>1, <1>3, <2>1, InnerReplaced
<1>5. DOMAIN nodes2 = DOMAIN r.nodes /\ \A x \in DOMAIN r.nodes : x # n => nodes2[x] = r.nodes[x]
  OBVIOUS
<1>6. \A x \in DOMAIN nodes : /\ level[x] > level[n] => level[x] > l /\ x # n
                              /\ level[x] = level[n] => level[x] > l
  BY <1>1
<1>7. \A x \in DOMAIN nodes2 \ DOMAIN nodes : level1[x] <= level[n] /\ level1[x] # level[n]
  BY <1>1, <1>2, <1>5
<1>8. Grows(nodes, n, level, range, r2, level1, range1)
  BY <1>1, <1>3, <1>5, <1>6, <1>7 DEF Grows
<1>9. UpTo(order, r2.nodes, level[n], level1, range1, pos2, m)
  BY <1>1, <1>4
<1> QED BY <1>8, <1>9 DEF GrownUnder

\* The nodes L and Q take the place of node n.
Parts(order, nodes, n, l, level, range, r, level1, range1, pos1, m, s, low, lower, upper,
      L, Q, r2, nodes2) ==
  /\ order \in Nat
  /\ Ready(order, nodes, n, l, level, range, r, level1, range1, pos1, m)
  /\ s \in range[n]
  /\ low \in range[n]
  /\ low < s
  /\ lower = {k \in range[n] : k < s}
  /\ upper = {k \in range[n] : k >= s}
  /\ Fit(L, r.nodes, lower, l, level1, range1)
  /\ Len(L.keys) \in 1..order
  /\ Fit(Q, r.nodes, upper, l, level1, range1)
  /\ Len(Q.keys) \in 1..order
  /\ nodes2 = Append([r.nodes EXCEPT ![n] = L], Q)
  /\ r2.nodes = nodes2
  /\ r2.split = [key |-> s, node |-> NewNode(r.nodes)]

\* insertIntoInner() in a node that is full.
LEMMA InnerHalved ==
  ASSUME NEW order, NEW nodes, NEW n, NEW l, NEW level, NEW range, NEW r, NEW level1,
         NEW range1, NEW pos1, NEW m, NEW s, NEW low, NEW lower, NEW upper, NEW L, NEW Q,
         NEW r2, NEW nodes2,
         Parts(order, nodes, n, l, level, range, r, level1, range1, pos1, m, s, low, lower, upper,
               L, Q, r2, nodes2)
  PROVE  GrownUnder(order, nodes, n, level, range, r2, m)
<1> USE DEF Parts
<1> DEFINE new == NewNode(r.nodes)
<1>1. /\ l \in Nat /\ level[n] = l + 1 /\ n \in DOMAIN nodes
      /\ DOMAIN nodes \subseteq DOMAIN r.nodes /\ \A x \in DOMAIN nodes : level[x] \in Nat
      /\ UpTo(order, r.nodes, l, level1, range1, pos1, m)
      /\ \A x \in DOMAIN nodes : /\ level1[x] = level[x]
                                 /\ level[x] > l => r.nodes[x] = nodes[x] /\ range1[x] = range[x]
      /\ \A x \in DOMAIN r.nodes \ DOMAIN nodes : level1[x] <= l
      /\ \A x \in DOMAIN r.nodes : x # n /\ level1[x] = l + 1 =>
           GoodInner(order, r.nodes, level1, range1, x)
  BY DEF Ready
<1>2. \A x \in DOMAIN r.nodes : level1[x] \in Nat
  BY <1>1 DEF UpTo, Layered
<1>3. n \in DOMAIN r.nodes /\ level1[n] = l + 1 /\ range1[n] = range[n]
  BY <1>1
<1>4. PICK level2, range2, pos2 :
        /\ UpTo(order, nodes2, l + 1, level2, range2, pos2, m)
        /\ Splits(r.nodes, n, new, s, l + 1, level1, range1, level2, range2)
  <2>1. s \in range1[n] /\ lower = {k \in range1[n] : k < s} /\ upper = {k \in range1[n] : k >= s}
    BY <1>3
  <2> QED BY ZenonT(30), <1>1, <1>3, <2>1, InnerSplit
<1>5. /\ DOMAIN nodes2 = DOMAIN r.nodes \cup {new} /\ new \notin DOMAIN r.nodes /\ new # NoNode
      /\ \A x \in DOMAIN r.nodes : x # n => nodes2[x] = r.nodes[x]
  <2>1. r.nodes \in Seq(AllNodes) /\ L \in AllNodes /\ Q \in AllNodes
    BY <1>1 DEF UpTo, Layered, Fit
  <2>2. OneMoreNode(r.nodes, n, L, Q, nodes2, new)
    BY <1>3, <2>1, ReplacedAndAdded
  <2> HIDE DEF new
  <2> QED BY <2>2 DEF OneMoreNode
<1>6. r2.split.key = s /\ r2.split.node = new /\ r2.split # NoSplit
  <2>1. r2.split.key = s /\ r2.split.node = new /\ NoSplit.node = NoNode
    BY DEF NoSplit
  <2> HIDE DEF new
  <2> QED BY <1>5, <2>1
<1> HIDE DEF new
<1>7. /\ \A x \in DOMAIN r.nodes : level2[x] = level1[x] /\ (x # n => range2[x] = range1[x])
      /\ level2[new] = level[n]
      /\ range2[n] = {k \in range[n] : k < s} /\ range2[new] = {k \in range[n] : k >= s}
  BY <1>1, <1>3, <1>4 DEF Splits
<1>8. \A x \in DOMAIN nodes : /\ level[x] > level[n] => level[x] > l /\ x # n
                              /\ level[x] = level[n] => level[x] > l
  BY <1>1
<1>9. \A x \in DOMAIN r.nodes \ DOMAIN nodes : level1[x] <= level[n] /\ level1[x] # level[n]
  BY <1>1, <1>2
<1>10. \A x \in DOMAIN nodes :
         /\ level2[x] = level[x]
         /\ level[x] > level[n] => nodes2[x] = nodes[x] /\ range2[x] = range[x]
         /\ level[x] = level[n] /\ x # n => range2[x] = range[x]
  BY <1>1, <1>5, <1>7, <1>8
<1>11. ASSUME NEW x \in DOMAIN nodes2 \ DOMAIN nodes
       PROVE  level2[x] <= level[n] /\ (level2[x] = level[n] => x = new)
  <2>1. CASE x = new
    BY <1>1, <1>7, <2>1
  <2>2. CASE x # new
    BY <1>5, <1>7, <1>9, <2>2
  <2> QED BY <2>1, <2>2
<1>12. new \in DOMAIN nodes2 \ DOMAIN nodes /\ DOMAIN nodes \subseteq DOMAIN nodes2
  BY <1>1, <1>5
<1>13. Grows(nodes, n, level, range, r2, level2, range2)
  <2>1. \A x \in DOMAIN r2.nodes \ DOMAIN nodes :
          level2[x] <= level[n] /\ (level2[x] = level[n] => r2.split # NoSplit /\ x = r2.split.node)
    BY <1>6, <1>11
  <2>2. /\ r2.split.node \in DOMAIN r2.nodes \ DOMAIN nodes
        /\ level2[r2.split.node] = level[n] /\ r2.split.key \in range[n]
        /\ low < r2.split.key
        /\ range2[n] = {k \in range[n] : k < r2.split.key}
        /\ range2[r2.split.node] = {k \in range[n] : k >= r2.split.key}
    BY <1>6, <1>7, <1>12
  <2> QED BY <1>6, <1>10, <1>12, <2>1, <2>2 DEF Grows
<1>14. UpTo(order, r2.nodes, level[n], level2, range2, pos2, m)
  BY <1>1, <1>4
<1> QED BY <1>13, <1>14 DEF GrownUnder

\* Both halves of an overfull node have keys, and neither is overfull.
LEMMA HalfIsFew ==
  ASSUME NEW order \in Nat, order >= 2, NEW N \in Nat, N = order + 1
  PROVE  /\ N \div 2 \in 1..N - 2 /\ N \div 2 \in 1..order
         /\ N - N \div 2 - 1 \in 1..order
OBVIOUS

\* The node I is to take the place of node n, in one node or in two.
Wide(order, nodes, n, l, level, range, r, level1, range1, pos1, m, keys, children, I, N,
     mid, lk, lc, rk, rc, r2) ==
  /\ order \in Nat
  /\ order >= 2
  /\ Ready(order, nodes, n, l, level, range, r, level1, range1, pos1, m)
  /\ range[n] \in SUBSET Int
  /\ keys \in Seq(Int)
  /\ children \in Seq(Nat)
  /\ I = Inner(keys, children)
  /\ Fit(I, r.nodes, range[n], l, level1, range1)
  /\ N \in 2..order + 1
  /\ N = Len(keys)
  /\ mid = N \div 2
  /\ lk = SubSeq(keys, 1, mid)
  /\ lc = SubSeq(children, 1, mid + 1)
  /\ rk = SubSeq(keys, mid + 2, N)
  /\ rc = SubSeq(children, mid + 2, Len(children))
  /\ r2 = IF N <= order
          THEN [nodes |-> [r.nodes EXCEPT ![n] = I], split |-> NoSplit]
          ELSE [nodes |-> Append([r.nodes EXCEPT ![n] = Inner(lk, lc)], Inner(rk, rc)),
                split |-> [key |-> keys[mid + 1], node |-> NewNode(r.nodes)]]

\* insertIntoInner() with the split child in place: the node has room, or is halved.
LEMMA InnerWide ==
  ASSUME NEW order, NEW nodes, NEW n, NEW l, NEW level, NEW range, NEW r, NEW level1,
         NEW range1, NEW pos1, NEW m, NEW keys, NEW children, NEW I, NEW N, NEW mid,
         NEW lk, NEW lc, NEW rk, NEW rc, NEW r2,
         Wide(order, nodes, n, l, level, range, r, level1, range1, pos1, m, keys, children, I, N,
              mid, lk, lc, rk, rc, r2)
  PROVE  GrownUnder(order, nodes, n, level, range, r2, m)
<1> USE DEF Wide
<1>1. I.keys = keys /\ I.children = children
  BY InnerFields
<1>2. N \in Nat /\ Len(children) = N + 1
  <2>1. Len(I.children) = Len(I.keys) + 1
    BY DEF Fit
  <2> QED BY <1>1, <2>1
<1>3. CASE N <= order
  <2>1. Len(I.keys) \in 1..order
    BY <1>1, <1>3
  <2>2. PICK nodes2 : nodes2 = [r.nodes EXCEPT ![n] = I]
    OBVIOUS
  <2>3. r2.nodes = nodes2 /\ r2.split = NoSplit
    BY <1>3, <2>2
  <2>4. Keeps(order, nodes, n, l, level, range, r, level1, range1, pos1, m, I, r2, nodes2)
    BY <2>1, <2>2, <2>3 DEF Keeps
  <2> QED BY <2>4, InnerKept
<1>4. CASE ~(N <= order)
  <2>1. /\ mid \in 1..N - 2 /\ mid \in 1..order /\ N - mid - 1 \in 1..order
    <3>1. N = order + 1 /\ order \in Nat /\ order >= 2 /\ N \in Nat /\ mid = N \div 2
      BY SMTT(30), <1>4
    <3> HIDE DEF Wide
    <3> QED BY <3>1, HalfIsFew
  <2>2. PICK s, lower, upper, L, Q :
          /\ s = keys[mid + 1] /\ lower = {k \in range[n] : k < s}
          /\ upper = {k \in range[n] : k >= s} /\ L = Inner(lk, lc) /\ Q = Inner(rk, rc)
    OBVIOUS
  <2>3. /\ s \in range[n] /\ \E x \in range[n] : x < s
        /\ lk \in Seq(Int) /\ lc \in Seq(Nat) /\ Len(lk) = mid
        /\ rk \in Seq(Int) /\ rc \in Seq(Nat) /\ Len(rk) = N - mid - 1
        /\ Fit(Inner(lk, lc), r.nodes, lower, l, level1, range1)
        /\ Fit(Inner(rk, rc), r.nodes, upper, l, level1, range1)
    <3>1. /\ N = Len(I.keys) /\ s = I.keys[mid + 1] /\ N \in Nat
          /\ lk = SubSeq(I.keys, 1, mid) /\ lc = SubSeq(I.children, 1, mid + 1)
          /\ rk = SubSeq(I.keys, mid + 2, N) /\ rc = SubSeq(I.children, mid + 2, N + 1)
      BY <1>1, <1>2, <2>2
    <3>2. lower = {k \in range[n] : k < s} /\ upper = {k \in range[n] : k >= s}
      BY <2>2
    <3>3. HalvesOf(I, r.nodes, range[n], l, level1, range1, N, mid, s, lk, lc, rk, rc, lower, upper)
      BY <2>1, <3>1, <3>2 DEF HalvesOf
    <3> HIDE DEF Wide
    <3> QED BY <3>3, FitHalved
  <2>4. L.keys = lk /\ Q.keys = rk
    BY <2>2, <2>3, InnerFields
  <2>5. Len(L.keys) \in 1..order /\ Len(Q.keys) \in 1..order
    BY <2>1, <2>3, <2>4
  <2>6. PICK nodes2 : nodes2 = Append([r.nodes EXCEPT ![n] = L], Q)
    OBVIOUS
  <2>7. r2.nodes = nodes2 /\ r2.split = [key |-> s, node |-> NewNode(r.nodes)]
    BY <1>4, <2>2, <2>6
  <2>8. PICK low \in range[n] : low < s
    BY <2>3
  <2>9. Fit(L, r.nodes, lower, l, level1, range1) /\ Fit(Q, r.nodes, upper, l, level1, range1)
    BY <2>2, <2>3
  <2>10. /\ s \in range[n] /\ lower = {k \in range[n] : k < s}
         /\ upper = {k \in range[n] : k >= s}
    BY <2>2, <2>3
  <2>11. Parts(order, nodes, n, l, level, range, r, level1, range1, pos1, m, s, low, lower, upper,
               L, Q, r2, nodes2)
    BY <2>5, <2>6, <2>7, <2>8, <2>9, <2>10 DEF Parts
  <2> QED BY <2>11, InnerHalved
<1> QED BY <1>3, <1>4

\* insert() in an inner node, after insert() in the child that the key is sent to.
LEMMA InnerStep ==
  ASSUME NEW order \in Nat, order >= 2, NEW nodes, NEW top, NEW level, NEW range, NEW pos, NEW m,
         UpTo(order, nodes, top, level, range, pos, m),
         NEW n \in DOMAIN nodes, level[n] \in 1..top,
         NEW c \in DOMAIN nodes[n].children, NEW child, child = nodes[n].children[c],
         NEW key, key \in range[child],
         NEW r, NEW m2, GrownUnder(order, nodes, child, level, range, r, m2),
         NEW r2, r2 = IF r.split = NoSplit THEN r
                      ELSE InsertIntoInner(order, r.nodes, n, c - 1, r.split)
  PROVE  GrownUnder(order, nodes, n, level, range, r2, m2)
<1> DEFINE l == level[child]
<1>1. /\ nodes \in Seq(AllNodes) /\ \A x \in DOMAIN nodes : level[x] \in Nat
      /\ \A x \in DOMAIN nodes : nodes[x].leaf <=> level[x] = 0
      /\ \A x \in DOMAIN nodes : range[x] \in SUBSET Int
      /\ \A x \in DOMAIN nodes : level[x] \in 1..top => GoodInner(order, nodes, level, range, x)
  BY DEF UpTo, Layered, GoodInners
<1>2. PICK level1, range1, pos1 :
        /\ Grows(nodes, child, level, range, r, level1, range1)
        /\ UpTo(order, r.nodes, level[child], level1, range1, pos1, m2)
  BY DEF GrownUnder
<1>3. child \in DOMAIN nodes /\ level[child] = level[n] - 1
  BY <1>1 DEF GoodInner
<1>4. l \in Nat /\ level[n] = l + 1
  BY <1>1, <1>3
<1>5. /\ DOMAIN nodes \subseteq DOMAIN r.nodes
      /\ \A x \in DOMAIN nodes :
           /\ level1[x] = level[x]
           /\ level[x] > l => r.nodes[x] = nodes[x] /\ range1[x] = range[x]
           /\ level[x] = l /\ x # child => range1[x] = range[x]
      /\ \A x \in DOMAIN r.nodes \ DOMAIN nodes : level1[x] <= l
      /\ r.split = NoSplit => range1[child] = range[child]
  BY <1>2 DEF Grows
<1>6. r.split # NoSplit =>
        /\ r.split.node \in DOMAIN r.nodes \ DOMAIN nodes
        /\ level1[r.split.node] = l /\ r.split.key \in range[child]
        /\ \E low \in range[child] : low < r.split.key
        /\ range1[child] = {k \in range[child] : k < r.split.key}
        /\ range1[r.split.node] = {k \in range[child] : k >= r.split.key}
  BY <1>2 DEF Grows
<1> HIDE DEF l
<1>7. \A x \in DOMAIN nodes : level[x] = l + 1 => level[x] > l /\ level[x] \in 1..top
  BY <1>1, <1>3, <1>4
<1>8. ASSUME NEW x \in DOMAIN nodes, level[x] = l + 1, NEW d \in DOMAIN nodes[x].children,
             x # n \/ d # c
      PROVE  /\ nodes[x].children[d] # child
             /\ nodes[x].children[d] \in DOMAIN nodes
             /\ nodes[x].children[d] \in DOMAIN r.nodes
             /\ level1[nodes[x].children[d]] = level[nodes[x].children[d]]
             /\ level1[nodes[x].children[d]] = l
             /\ range1[nodes[x].children[d]] = range[nodes[x].children[d]]
  <2>1. GoodInner(order, nodes, level, range, x)
    BY <1>1, <1>7, <1>8
  <2>2. nodes[x].children[d] \in DOMAIN nodes /\ level[nodes[x].children[d]] = l
    BY <1>4, <1>8, <2>1 DEF GoodInner
  <2>3. nodes[x].children[d] # child
    <3> SUFFICES ASSUME nodes[n].children[c] = nodes[x].children[d] PROVE FALSE
      OBVIOUS
    <3>1. level[n] = level[x] /\ key \in range[nodes[n].children[c]]
      BY <1>4, <1>8
    <3>2. n = x /\ c = d
      BY <3>1, ChildrenApart
    <3> QED BY <1>8, <3>2
  <2> QED BY <1>5, <2>2, <2>3
<1>9. \A x \in DOMAIN r.nodes : level1[x] = l + 1 => x \in DOMAIN nodes /\ level[x] = l + 1
  <2> SUFFICES ASSUME NEW x \in DOMAIN r.nodes, level1[x] = l + 1
               PROVE  x \in DOMAIN nodes /\ level[x] = l + 1
    OBVIOUS
  <2>1. ~(level1[x] <= l)
    BY <1>4
  <2> QED BY <1>5, <2>1
<1>10. ASSUME NEW x \in DOMAIN r.nodes, x # n, level1[x] = l + 1
       PROVE  GoodInner(order, r.nodes, level1, range1, x)
  <2>1. x \in DOMAIN nodes /\ level[x] = l + 1
    BY <1>9, <1>10
  <2>2. GoodInner(order, nodes, level, range, x)
    BY <1>1, <1>7, <2>1
  <2>3. r.nodes[x] = nodes[x] /\ level1[x] = level[x] /\ range1[x] = range[x]
    BY <1>5, <1>7, <2>1
  <2>4. \A d \in DOMAIN nodes[x].children :
           /\ nodes[x].children[d] \in DOMAIN r.nodes
           /\ level1[nodes[x].children[d]] = level[nodes[x].children[d]]
           /\ range1[nodes[x].children[d]] = range[nodes[x].children[d]]
    BY <1>8, <1>10, <2>1
  <2> QED BY <2>2, <2>3, <2>4, ParentKept
<1>11. Ready(order, nodes, n, l, level, range, r, level1, range1, pos1, m2)
  <2>1. UpTo(order, r.nodes, l, level1, range1, pos1, m2)
    BY <1>2 DEF l
  <2> QED BY <1>1, <1>4, <1>5, <1>10, <2>1 DEF Ready
<1>12. r.nodes[n] = nodes[n] /\ level1[n] = level[n] /\ range1[n] = range[n]
  BY <1>4, <1>5, <1>7
<1>13. CASE r.split = NoSplit
  <2>1. \A d \in DOMAIN nodes[n].children :
           /\ nodes[n].children[d] \in DOMAIN r.nodes
           /\ level1[nodes[n].children[d]] = level[nodes[n].children[d]]
           /\ range1[nodes[n].children[d]] = range[nodes[n].children[d]]
    <3> SUFFICES ASSUME NEW d \in DOMAIN nodes[n].children
                 PROVE  /\ nodes[n].children[d] \in DOMAIN r.nodes
                        /\ level1[nodes[n].children[d]] = level[nodes[n].children[d]]
                        /\ range1[nodes[n].children[d]] = range[nodes[n].children[d]]
      OBVIOUS
    <3>1. CASE d = c
      BY <1>3, <1>5, <1>13, <3>1
    <3>2. CASE d # c
      BY <1>4, <1>8, <3>2
    <3> QED BY <3>1, <3>2
  <2>2. GoodInner(order, r.nodes, level1, range1, n)
    BY SMTT(30), <1>1, <1>12, <2>1, ParentKept
  <2>3. r2 = r
    BY <1>13
  <2> QED BY <1>11, <1>13, <2>2, <2>3, InnerUnsplit
<1>14. CASE r.split # NoSplit
  <2>1. /\ Fit(nodes[n], nodes, range[n], l, level, range) /\ Len(nodes[n].keys) \in 1..order
        /\ level[n] - 1 = l /\ range[n] \in SUBSET Int
    <3>1. ~nodes[n].leaf /\ level[n] - 1 = l
      BY <1>1, <1>4
    <3> QED BY <1>1, <3>1, InnerFit
  <2>2. /\ nodes[n].keys \in Seq(Int) /\ nodes[n].children \in Seq(Nat)
        /\ Len(nodes[n].children) = Len(nodes[n].keys) + 1
        /\ DOMAIN nodes[n].children = 1..Len(nodes[n].keys) + 1
    BY <2>1, LenProperties DEF Fit, AllNodes
  <2>3. c \in 1..Len(nodes[n].keys) + 1 /\ c \in Int
    BY <2>1, <2>2
  <2>4. r2 = InsertIntoInner(order, r.nodes, n, c - 1, r.split)
    BY <1>14
  <2>5. c - 1 + 1 = c /\ c - 1 + 2 = c + 1
    BY <2>3
  <2>6. PICK s, b, node : s = r.split.key /\ b = r.split.node /\ node = nodes[n]
    OBVIOUS
  <2>7. PICK keys, children : /\ keys = InsertAt(node.keys, c, s)
                              /\ children = InsertAt(node.children, c + 1, b)
    OBVIOUS
  <2>8. PICK N, I, mid : N = Len(keys) /\ I = Inner(keys, children) /\ mid = N \div 2
    OBVIOUS
  <2>9. PICK lk, lc, rk, rc :
          /\ lk = SubSeq(keys, 1, mid) /\ lc = SubSeq(children, 1, mid + 1)
          /\ rk = SubSeq(keys, mid + 2, N) /\ rc = SubSeq(children, mid + 2, Len(children))
    OBVIOUS
  <2>10. r2 = IF N <= order
              THEN [nodes |-> [r.nodes EXCEPT ![n] = I], split |-> NoSplit]
              ELSE [nodes |-> Append([r.nodes EXCEPT ![n] = Inner(lk, lc)], Inner(rk, rc)),
                    split |-> [key |-> keys[mid + 1], node |-> NewNode(r.nodes)]]
    <3>1. InsertAt(r.nodes[n].keys, c - 1 + 1, r.split.key) = keys
      BY <1>12, <2>5, <2>6, <2>7
    <3>2. InsertAt(r.nodes[n].children, c - 1 + 2, r.split.node) = children
      BY <1>12, <2>5, <2>6, <2>7
    <3> QED BY <2>4, <2>8, <2>9, <3>1, <3>2 DEF InsertIntoInner
  <2>11. /\ s \in range[child] /\ b \in Nat /\ b \in DOMAIN r.nodes
         /\ level1[b] = l /\ SplitAt(range, range1, child, b, s)
    <3>1. b \in DOMAIN r.nodes /\ r.nodes \in Seq(AllNodes)
      BY <1>2, <1>6, <1>14, <2>6 DEF UpTo, Layered
    <3>2. b \in Nat
      BY <3>1, LenProperties
    <3> QED BY <1>6, <1>14, <2>6, <3>1, <3>2 DEF SplitAt
  <2>12. PICK low \in range[child] : low < s
    BY <1>6, <1>14, <2>6
  <2>13. OthersStay(node, c, l, range, level1, range1)
    <3>1. \A d \in DOMAIN nodes[n].children : d # c =>
            /\ level1[nodes[n].children[d]] = l
            /\ range1[nodes[n].children[d]] = range[nodes[n].children[d]]
      BY <1>4, <1>8
    <3>2. level1[nodes[n].children[c]] = l
      BY <1>3, <1>5 DEF l
    <3> QED BY <2>2, <2>6, <3>1, <3>2 DEF OthersStay
  <2>14. /\ Fit(node, nodes, range[n], l, level, range) /\ child = node.children[c]
         /\ c \in 1..Len(node.keys) + 1
    BY <2>1, <2>3, <2>6
  <2>15. /\ keys \in Seq(Int) /\ children \in Seq(Nat) /\ Len(keys) = Len(node.keys) + 1
         /\ Fit(Inner(keys, children), r.nodes, range[n], l, level1, range1)
    <3>1. DOMAIN nodes \subseteq DOMAIN r.nodes
      BY <1>5
    <3>2. Widens(node, nodes, range[n], l, level, range, c, child, s, low, r.nodes, level1, range1,
                 b, keys, children)
      BY <2>1, <2>7, <2>11, <2>12, <2>13, <2>14, <3>1 DEF Widens
    <3> QED BY <3>2, FitWidened
  <2>16. N \in 2..order + 1
    BY SMTT(30), <2>1, <2>6, <2>8, <2>15
  <2>17. Fit(I, r.nodes, range[n], l, level1, range1)
    BY <2>8, <2>15
  <2>18. Wide(order, nodes, n, l, level, range, r, level1, range1, pos1, m2, keys, children, I, N,
              mid, lk, lc, rk, rc, r2)
    BY <1>11, <2>1, <2>8, <2>9, <2>10, <2>15, <2>16, <2>17 DEF Wide
  <2> QED BY <2>18, InnerWide
<1> QED BY <1>13, <1>14

\* What insert() returns for an inner node n, when it has returned r for its child.
GoUp(order, nodes, n, key, r) ==
  IF r.split = NoSplit THEN r
  ELSE InsertIntoInner(order, r.nodes, n, FindChildIndex(nodes[n], key), r.split)

\* The recursive function of the insertion unfolds, since levels are finite.
LEMMA InsertBelowUnfolds ==
  ASSUME NEW tree, NEW level, NEW range, NEW pos, NEW m, IsTreeBy(tree, level, range, pos, m),
         NEW key \in Int, NEW row, NEW x \in DOMAIN tree.nodes
  PROVE  InsertBelow(tree.order, tree.nodes, x, key, row) =
           IF tree.nodes[x].leaf THEN InsertIntoLeaf(tree.order, tree.nodes, x, key, row)
           ELSE GoUp(tree.order, tree.nodes, x, key,
                     InsertBelow(tree.order, tree.nodes, Child(tree.nodes[x], key), key, row))
<1> DEFINE D == DOMAIN tree.nodes
           H == level[tree.root]
           AtLeaf(n) == InsertIntoLeaf(tree.order, tree.nodes, n, key, row)
           Step(f, n) == IF tree.nodes[n].leaf THEN AtLeaf(n)
                         ELSE GoUp(tree.order, tree.nodes, n, key, f[Child(tree.nodes[n], key)])
           Good(f, l) == \A n \in D : level[n] <= l => f[n] = Step(f, n)
           Bad == {l \in 0..H : ~ \E f : Good(f, l)}
           Body(h) == [n \in D |-> IF tree.nodes[n].leaf THEN AtLeaf(n)
                                   ELSE GoUp(tree.order, tree.nodes, n, key,
                                             h[Child(tree.nodes[n], key)])]
           below == CHOOSE h : h = Body(h)
<1> HIDE DEF AtLeaf
<1>1. /\ H \in Nat /\ \A n \in D : level[n] \in 0..H
      /\ \A n \in D : tree.nodes[n].leaf <=> level[n] = 0
  <2>1. tree.root \in D
    BY DEF IsTreeBy
  <2> QED BY <2>1, TreeNode
<1>2. \A n \in D : ~tree.nodes[n].leaf =>
        Child(tree.nodes[n], key) \in D /\ level[Child(tree.nodes[n], key)] = level[n] - 1
  BY WayDown
<1>3. Bad = {}
  <2> SUFFICES ASSUME Bad # {} PROVE FALSE
    OBVIOUS
  <2>1. PICK l \in Bad : \A k \in Bad : l <= k
    <3>1. Bad \subseteq Nat
      BY <1>1
    <3> HIDE DEF Bad
    <3> QED BY <3>1, LeastNumber
  <2>6. l \in 0..H /\ l \in Nat /\ ~ \E f : Good(f, l)
    BY <1>1
  <2>7. \A n \in D : level[n] \in Nat
    BY <1>1
  <2> HIDE DEF Bad, H
  <2>2. \E f : \A n \in D : level[n] < l => f[n] = Step(f, n)
    <3>1. CASE l = 0
      <4>1. \A n \in D : ~(level[n] < 0)
        BY <2>7
      <4> QED BY <3>1, <4>1
    <3>2. CASE l # 0
      <4>1. l - 1 \in 0..H /\ ~(l <= l - 1)
        <5>1. H \in Nat /\ l \in 0..H
          BY <1>1, <2>6
        <5> QED BY <3>2, <5>1
      <4>2. l - 1 \notin Bad
        BY <2>1, <4>1
      <4>3. PICK f : Good(f, l - 1)
        <5> HIDE DEF Good
        <5> QED BY <4>1, <4>2 DEF Bad
      <4>4. \A n \in D : level[n] < l => level[n] <= l - 1
        BY <2>6, <2>7
      <4> QED BY <4>3, <4>4
    <3> QED BY <3>1, <3>2
  <2>3. PICK f : \A n \in D : level[n] < l => f[n] = Step(f, n)
    BY <2>2
  <2> DEFINE g == [n \in D |-> IF level[n] < l THEN f[n] ELSE Step(f, n)]
  <2>4. ASSUME NEW n \in D, level[n] <= l PROVE g[n] = Step(g, n)
    <3>1. g[n] = Step(f, n)
      BY <2>3
    <3>2. ~tree.nodes[n].leaf => /\ Child(tree.nodes[n], key) \in D
                                 /\ level[Child(tree.nodes[n], key)] < l
      <4>1. level[n] \in Nat /\ level[n] - 1 < l
        BY <2>4, <2>6, <2>7
      <4> QED BY <1>2, <4>1
    <3>3. ~tree.nodes[n].leaf => g[Child(tree.nodes[n], key)] = f[Child(tree.nodes[n], key)]
      BY <3>2
    <3> HIDE DEF g
    <3> QED BY <3>1, <3>3
  <2>5. Good(g, l)
    <3> HIDE DEF g
    <3> QED BY <2>4
  <2> QED BY <2>5, <2>6
<1>4. PICK f : Good(f, H)
  <2>1. H \in 0..H
    BY <1>1
  <2> HIDE DEF Good
  <2> QED BY <1>3, <2>1
<1> DEFINE F == [n \in D |-> f[n]]
<1>5. F = Body(F)
  <2>1. ASSUME NEW n \in D PROVE F[n] = Step(F, n)
    <3>1. f[n] = Step(f, n)
      BY <1>1, <1>4
    <3>2. ~tree.nodes[n].leaf => F[Child(tree.nodes[n], key)] = f[Child(tree.nodes[n], key)]
      BY <1>2
    <3>3. F[n] = f[n]
      OBVIOUS
    <3> HIDE DEF F
    <3> QED BY <3>1, <3>2, <3>3
  <2>2. Body(F) = [n \in D |-> F[n]]
    <3> HIDE DEF F
    <3> QED BY <2>1
  <2> QED BY <2>2
<1>6. below = Body(below)
  <2> HIDE DEF Body, F
  <2> QED BY <1>5
<1>7. \A n \in D : InsertBelow(tree.order, tree.nodes, n, key, row) = below[n]
  BY DEF InsertBelow, GoUp, Child, AtLeaf
<1> HIDE DEF below
<1>8. below[x] = Step(below, x)
  BY <1>6
<1> QED BY <1>2, <1>7, <1>8 DEF AtLeaf


\* insert() below the root puts the key in the map, and may have split the root.
LEMMA InsertedBelow ==
  ASSUME NEW tree, NEW level, NEW range, NEW pos, NEW m, IsTreeBy(tree, level, range, pos, m),
         NEW key \in Int, key \notin DOMAIN m, NEW row \in Nat
  PROVE  GrownUnder(tree.order, tree.nodes, tree.root, level, range,
                    InsertBelow(tree.order, tree.nodes, tree.root, key, row), Put(m, key, row))
<1> DEFINE D == DOMAIN tree.nodes
           H == level[tree.root]
           below(n) == InsertBelow(tree.order, tree.nodes, n, key, row)
           Done(n) == GrownUnder(tree.order, tree.nodes, n, level, range, below(n), Put(m, key, row))
           Wrong == {l \in 0..H : ~ \A n \in D : level[n] = l /\ key \in range[n] => Done(n)}
<1>1. /\ H \in Nat /\ \A n \in D : level[n] \in 0..H
      /\ \A n \in D : tree.nodes[n].leaf <=> level[n] = 0
      /\ tree.root \in D /\ key \in range[tree.root]
  <2>1. tree.root \in D /\ range[tree.root] = Int
    BY DEF IsTreeBy
  <2> QED BY <2>1, TreeNode
<1>2. /\ tree.order \in Nat /\ tree.order >= 2
      /\ UpTo(tree.order, tree.nodes, H, level, range, pos, m)
  BY DEF IsTreeBy
<1>3. Wrong = {}
  <2> SUFFICES ASSUME Wrong # {} PROVE FALSE
    OBVIOUS
  <2>1. PICK l \in Wrong : \A k \in Wrong : l <= k
    <3>1. Wrong \subseteq Nat
      BY <1>1
    <3> HIDE DEF Wrong
    <3> QED BY <3>1, LeastNumber
  <2>2. PICK n \in D : level[n] = l /\ key \in range[n] /\ ~Done(n)
    BY <2>1
  <2>3. CASE tree.nodes[n].leaf
    <3>1. below(n) = InsertIntoLeaf(tree.order, tree.nodes, n, key, row)
      BY <2>3, InsertBelowUnfolds
    <3>2. GrownUnder(tree.order, tree.nodes, n, level, range,
                     InsertIntoLeaf(tree.order, tree.nodes, n, key, row), Put(m, key, row))
      <4> HIDE DEF H
      <4> QED BY <1>2, <2>2, <2>3, LeafStep
    <3> HIDE DEF below
    <3> QED BY <2>2, <3>1, <3>2
  <2>4. CASE ~tree.nodes[n].leaf
    <3>1. PICK c \in DOMAIN tree.nodes[n].children, child \in D :
            /\ c = FindChildIndex(tree.nodes[n], key) + 1
            /\ child = Child(tree.nodes[n], key) /\ child = tree.nodes[n].children[c]
            /\ level[child] = l - 1 /\ key \in range[child]
      BY <2>2, <2>4, WayDown
    <3>2. below(n) = GoUp(tree.order, tree.nodes, n, key, below(child))
      BY ZenonT(30), <2>4, <3>1, InsertBelowUnfolds
    <3>3. l - 1 \in 0..H /\ ~(l <= l - 1)
      BY <1>1, <2>2, <2>4
    <3>4. l - 1 \notin Wrong
      <4> HIDE DEF Wrong
      <4> QED BY <2>1, <3>3
    <3>5. Done(child)
      <4> HIDE DEF Done
      <4> QED BY <3>1, <3>3, <3>4
    <3>6. PICK r, r2, m2 : r = below(child) /\ r2 = below(n) /\ m2 = Put(m, key, row)
      OBVIOUS
    <3>7. c - 1 = FindChildIndex(tree.nodes[n], key)
      <4>1. FindChildIndex(tree.nodes[n], key) \in Nat
        <5>1. /\ tree.nodes[n].keys \in Seq(Int) /\ Ascending(tree.nodes[n].keys)
              /\ Len(tree.nodes[n].keys) \in Nat
          BY TreeNode
        <5>2. FindChildIndex(tree.nodes[n], key) \in 0..Len(tree.nodes[n].keys)
          BY <5>1, FindChildCounts
        <5> QED BY <5>1, <5>2
      <4> QED BY <3>1, <4>1
    <3>8. r2 = IF r.split = NoSplit THEN r
               ELSE InsertIntoInner(tree.order, r.nodes, n, c - 1, r.split)
      BY <3>2, <3>6, <3>7 DEF GoUp
    <3>9. GrownUnder(tree.order, tree.nodes, child, level, range, r, m2)
      BY <3>5, <3>6
    <3>10. level[n] \in 1..H
      BY <1>1, <2>4
    <3>11. GrownUnder(tree.order, tree.nodes, n, level, range, r2, m2)
      <4> HIDE DEF H, below
      <4> QED BY <1>2, <3>1, <3>8, <3>9, <3>10, InnerStep
    <3> QED BY <2>2, <3>6, <3>11
  <2> QED BY <2>3, <2>4
<1>4. Done(tree.root)
  <2>1. H \in 0..H
    BY <1>1
  <2> HIDE DEF Done
  <2> QED BY <1>1, <1>3, <2>1
<1> QED BY <1>4

\* A node with one key and two children.
LEMMA TwoChildren ==
  ASSUME NEW a \in Nat, NEW b \in Nat, NEW s \in Int, NEW I, I = Inner(<<s>>, <<a, b>>)
  PROVE  /\ I \in AllNodes /\ ~I.leaf /\ I.keys = <<s>> /\ I.children = <<a, b>>
         /\ Len(I.keys) = 1 /\ Len(I.children) = 2 /\ Ascending(I.keys)
         /\ Part(I, Int, 1) = {k \in Int : k < s} /\ Part(I, Int, 2) = {k \in Int : k >= s}
<1>1. <<s>> \in Seq(Int) /\ <<a, b>> \in Seq(Nat)
  OBVIOUS
<1>2. I \in AllNodes /\ ~I.leaf /\ I.keys = <<s>> /\ I.children = <<a, b>>
  BY <1>1, InnerFields
<1>3. Len(I.keys) = 1 /\ Len(I.children) = 2 /\ I.keys \in Seq(Int) /\ I.keys[1] = s
  <2>1. Len(<<s>>) = 1 /\ Len(<<a, b>>) = 2 /\ <<s>>[1] = s
    OBVIOUS
  <2> QED BY <1>1, <1>2, <2>1, Zenon
<1>4. Ascending(I.keys)
  <2>1. DOMAIN I.keys = 1..1
    BY <1>3, LenProperties
  <2> QED BY <2>1 DEF Ascending
<1>5. ASSUME NEW k \in Int PROVE FindChildIndex(I, k) = IF k < s THEN 0 ELSE 1
  <2>1. CASE k < s
    <3>1. \A i \in 1..Len(I.keys) : I.keys[i] <= k <=> i <= 0
      BY <1>3, <2>1
    <3>2. FindChildIndex(I, k) = 0
      BY SMTT(30), <1>3, <1>4, <3>1, FindChildIs
    <3> QED BY <2>1, <3>2
  <2>2. CASE ~(k < s)
    <3>1. \A i \in 1..Len(I.keys) : I.keys[i] <= k <=> i <= 1
      BY <1>3, <2>2
    <3>2. FindChildIndex(I, k) = 1
      BY SMTT(30), <1>3, <1>4, <3>1, FindChildIs
    <3> QED BY <2>2, <3>2
  <2> QED BY <2>1, <2>2
<1>6. Part(I, Int, 1) = {k \in Int : k < s} /\ Part(I, Int, 2) = {k \in Int : k >= s}
  <2>1. \A k \in Int : /\ FindChildIndex(I, k) + 1 = 1 <=> k < s
                       /\ FindChildIndex(I, k) + 1 = 2 <=> k >= s
    BY <1>5
  <2> QED BY <2>1 DEF Part
<1> QED BY <1>2, <1>3, <1>4, <1>6

\* A tree whose root a has been split at s, b being the new right half, gets a new root.
NewRoot(order, nodes, H, level, range, pos, m, a, b, s, nodes2, tree) ==
  /\ order \in Nat /\ order >= 2 /\ H \in Nat /\ UpTo(order, nodes, H, level, range, pos, m)
  /\ \A x \in DOMAIN nodes : level[x] <= H
  /\ a \in DOMAIN nodes /\ b \in DOMAIN nodes /\ level[a] = H /\ level[b] = H
  /\ s \in Int /\ range[a] = {k \in Int : k < s} /\ range[b] = {k \in Int : k >= s}
  /\ nodes2 = Append(nodes, Inner(<<s>>, <<a, b>>))
  /\ tree.order = order /\ tree.root = NewNode(nodes) /\ tree.nodes = nodes2

\* The root has been split: a new root above both halves.
LEMMA RootAdded ==
  ASSUME NEW order, NEW nodes, NEW H, NEW level, NEW range, NEW pos, NEW m, NEW a, NEW b, NEW s,
         NEW nodes2, NEW tree, NewRoot(order, nodes, H, level, range, pos, m, a, b, s, nodes2, tree)
  PROVE  IsTree(tree, m)
<1> USE DEF NewRoot
<1>1. /\ nodes \in Seq(AllNodes) /\ level \in [DOMAIN nodes -> Nat]
      /\ range \in [DOMAIN nodes -> SUBSET Int]
      /\ \A x \in DOMAIN nodes : nodes[x].leaf <=> level[x] = 0
      /\ \A x, y \in DOMAIN nodes : x # y /\ level[x] = level[y] => range[x] \cap range[y] = {}
      /\ \A x \in DOMAIN nodes : level[x] \in 1..H => GoodInner(order, nodes, level, range, x)
  BY DEF UpTo, Layered, GoodInners
<1>2. PICK I, new : I = Inner(<<s>>, <<a, b>>) /\ new = NewNode(nodes)
  OBVIOUS
<1>3. a \in Nat /\ b \in Nat
  BY <1>1, LenProperties
<1>4. /\ I \in AllNodes /\ ~I.leaf /\ I.keys = <<s>> /\ I.children = <<a, b>>
      /\ Len(I.keys) = 1 /\ Len(I.children) = 2 /\ Ascending(I.keys)
      /\ Part(I, Int, 1) = {k \in Int : k < s} /\ Part(I, Int, 2) = {k \in Int : k >= s}
  BY SMTT(30), <1>2, <1>3, TwoChildren
<1>5. /\ nodes2 \in Seq(AllNodes) /\ DOMAIN nodes2 = DOMAIN nodes \cup {new}
      /\ new \notin DOMAIN nodes /\ nodes2[new] = I
      /\ \A x \in DOMAIN nodes : nodes2[x] = nodes[x]
  <2>1. /\ nodes2 \in Seq(AllNodes) /\ Len(nodes2) = Len(nodes) + 1 /\ nodes2[Len(nodes) + 1] = I
        /\ \A x \in 1..Len(nodes) : nodes2[x] = nodes[x]
    BY <1>1, <1>2, <1>4, AppendProperties
  <2>2. /\ DOMAIN nodes = 1..Len(nodes) /\ DOMAIN nodes2 = 1..Len(nodes) + 1 /\ Len(nodes) \in Nat
        /\ new = Len(nodes) + 1
    BY <1>1, <1>2, <2>1, LenProperties DEF NewNode
  <2> QED BY <2>1, <2>2
<1> DEFINE level2 == [x \in DOMAIN nodes2 |-> IF x = new THEN H + 1 ELSE level[x]]
           range2 == [x \in DOMAIN nodes2 |-> IF x = new THEN Int ELSE range[x]]
<1>6. /\ \A x \in DOMAIN nodes : /\ x \in DOMAIN nodes2 /\ nodes2[x] = nodes[x]
                                 /\ level2[x] = level[x] /\ range2[x] = range[x]
      /\ level2[new] = H + 1 /\ range2[new] = Int
      /\ level2 \in [DOMAIN nodes2 -> Nat] /\ range2 \in [DOMAIN nodes2 -> SUBSET Int]
  BY SMTT(30), <1>1, <1>5
<1> HIDE DEF level2, range2
<1>7. Layered(nodes2, level2, range2)
  <2>1. \A x \in DOMAIN nodes2 : nodes2[x].leaf <=> level2[x] = 0
    BY SMTT(30), <1>1, <1>4, <1>5, <1>6
  <2>2. \A x, y \in DOMAIN nodes2 : x # y /\ level2[x] = level2[y] => range2[x] \cap range2[y] = {}
    <3>1. \A x \in DOMAIN nodes : level2[x] # H + 1
      <4> SUFFICES ASSUME NEW x \in DOMAIN nodes, level[x] = H + 1 PROVE FALSE
        BY <1>6
      <4>1. level[x] <= H
        OBVIOUS
      <4> QED BY <4>1
    <3> SUFFICES ASSUME NEW x \in DOMAIN nodes2, NEW y \in DOMAIN nodes2,
                        x # y, level2[x] = level2[y]
                 PROVE  range2[x] \cap range2[y] = {}
      OBVIOUS
    <3>2. x # new /\ y # new
      BY <1>5, <1>6, <3>1
    <3>3. /\ x \in DOMAIN nodes /\ y \in DOMAIN nodes /\ level[x] = level[y]
          /\ range2[x] = range[x] /\ range2[y] = range[y]
      BY <1>5, <1>6, <3>2
    <3> QED BY <1>1, <3>3
  <2> QED BY <1>5, <1>6, <2>1, <2>2 DEF Layered
<1>8. LeavesStay(nodes, range, nodes2, range2)
  BY <1>4, <1>5, <1>6 DEF LeavesStay
<1>9. PICK pos2 : /\ GoodLeaves(order, nodes2, range2) /\ Linked(nodes2, range2, pos2)
                  /\ Filed(nodes2, m)
  BY <1>8, SameLeaves
<1>10. GoodInners(order, nodes2, level2, range2, H + 1)
  <2> SUFFICES ASSUME NEW x \in DOMAIN nodes2, level2[x] \in 1..H + 1
               PROVE  GoodInner(order, nodes2, level2, range2, x)
    BY DEF GoodInners
  <2>1. CASE x = new
    <3>1. Fit(I, nodes2, Int, H, level2, range2)
      <4>1. \A i \in DOMAIN I.keys : I.keys[i] \in Int
        BY <1>4
      <4>2. ASSUME NEW d \in 1..Len(I.keys) + 1
            PROVE  /\ I.children[d] \in DOMAIN nodes2 /\ level2[I.children[d]] = H
                   /\ range2[I.children[d]] = Part(I, Int, d)
        <5>1. d = 1 \/ d = 2
          BY <1>4
        <5>2. CASE d = 1
          <6>1. I.children[d] = a
            BY <1>4, <5>2
          <6> QED BY <1>4, <1>6, <5>2, <6>1
        <5>3. CASE d = 2
          <6>1. I.children[d] = b
            BY <1>4, <5>3
          <6> QED BY <1>4, <1>6, <5>3, <6>1
        <5> QED BY <5>1, <5>2, <5>3
      <4> QED BY <1>4, <4>1, <4>2 DEF Fit
    <3>2. Len(I.keys) \in 1..order
      BY <1>4
    <3>3. /\ nodes2[x] = I /\ range2[x] = Int /\ level2[x] - 1 = H /\ nodes2 \in Seq(AllNodes)
      BY SMTT(30), <1>5, <1>6, <2>1
    <3> QED BY <3>1, <3>2, <3>3, InnerFits
  <2>2. CASE x # new
    <3>1. x \in DOMAIN nodes /\ level[x] \in 1..H
      BY <1>1, <1>5, <1>6, <2>2
    <3>2. GoodInner(order, nodes, level, range, x)
      BY <1>1, <3>1
    <3>3. \A d \in DOMAIN nodes[x].children : nodes[x].children[d] \in DOMAIN nodes
      BY <3>2 DEF GoodInner
    <3>4. nodes2[x] = nodes[x] /\ level2[x] = level[x] /\ range2[x] = range[x]
      BY <1>6, <3>1
    <3>5. \A d \in DOMAIN nodes[x].children :
            /\ nodes[x].children[d] \in DOMAIN nodes2
            /\ level2[nodes[x].children[d]] = level[nodes[x].children[d]]
            /\ range2[nodes[x].children[d]] = range[nodes[x].children[d]]
      BY <1>6, <3>3
    <3> HIDE DEF NewRoot
    <3> QED BY ZenonT(30), <3>2, <3>4, <3>5, ParentKept, Zenon
  <2> QED BY <2>1, <2>2
<1>11. /\ tree.nodes = nodes2 /\ tree.order = order /\ tree.root = new
       /\ new \in DOMAIN nodes2 /\ range2[new] = Int /\ level2[new] = H + 1
       /\ \A x \in DOMAIN nodes2 : level2[x] <= H + 1
  <2>1. ASSUME NEW x \in DOMAIN nodes2 PROVE level2[x] <= H + 1
    <3>1. CASE x = new
      BY <1>6, <3>1
    <3>2. CASE x # new
      BY SMTT(30), <1>1, <1>5, <1>6, <3>2
    <3> QED BY <3>1, <3>2
  <2> QED BY <1>2, <1>5, <1>6, <2>1
<1>12. IsTreeBy(tree, level2, range2, pos2, m)
  BY <1>7, <1>9, <1>10, <1>11 DEF IsTreeBy, UpTo
<1> QED BY <1>12 DEF IsTree

\* insert() adds the key to the map, or leaves a map that has the key.
LEMMA InsertIsPut ==
  ASSUME NEW tree, NEW m, IsTree(tree, m), NEW key \in Int, NEW row \in Nat
  PROVE  IsTree(Insert(tree, key, row), IF key \in DOMAIN m THEN m ELSE Put(m, key, row))
<1>1. PICK level, range, pos : IsTreeBy(tree, level, range, pos, m)
  BY DEF IsTree
<1>2. /\ Find(tree, key) = IF key \in DOMAIN m THEN m[key] ELSE -1
      /\ key \in DOMAIN m => m[key] \in Nat
  BY <1>1, FindIsLookup
<1>3. CASE key \in DOMAIN m
  <2>1. Find(tree, key) # -1
    BY <1>2, <1>3
  <2> QED BY <1>3, <2>1 DEF Insert
<1>4. CASE key \notin DOMAIN m
  <2>1. PICK r, m2 : /\ r = InsertBelow(tree.order, tree.nodes, tree.root, key, row)
                     /\ m2 = Put(m, key, row)
    OBVIOUS
  <2>2. Insert(tree, key, row) = Grown(tree, r)
    BY <1>2, <1>4, <2>1 DEF Insert
  <2>3. GrownUnder(tree.order, tree.nodes, tree.root, level, range, r, m2)
    BY <1>1, <1>4, <2>1, InsertedBelow
  <2>4. PICK level2, range2, pos2 :
          /\ Grows(tree.nodes, tree.root, level, range, r, level2, range2)
          /\ UpTo(tree.order, r.nodes, level[tree.root], level2, range2, pos2, m2)
    BY <2>3 DEF GrownUnder
  <2>5. PICK H, root : H = level[tree.root] /\ root = tree.root
    OBVIOUS
  <2>6. /\ tree.order \in Nat /\ tree.order >= 2 /\ root \in DOMAIN tree.nodes /\ range[root] = Int
        /\ \A n \in DOMAIN tree.nodes : level[n] <= H
        /\ H \in Nat
    BY <1>1, <2>5 DEF IsTreeBy, UpTo, Layered
  <2>7. /\ DOMAIN tree.nodes \subseteq DOMAIN r.nodes
        /\ \A x \in DOMAIN tree.nodes : level2[x] = level[x]
        /\ \A x \in DOMAIN r.nodes \ DOMAIN tree.nodes : level2[x] <= H
        /\ r.split = NoSplit => range2[root] = Int
        /\ r.split # NoSplit =>
             /\ r.split.node \in DOMAIN r.nodes
             /\ level2[r.split.node] = H /\ r.split.key \in Int
             /\ range2[root] = {k \in Int : k < r.split.key}
             /\ range2[r.split.node] = {k \in Int : k >= r.split.key}
    BY <2>4, <2>5, <2>6 DEF Grows
  <2>8. \A x \in DOMAIN r.nodes : level2[x] <= H
    BY <2>6, <2>7
  <2>9. /\ root \in DOMAIN r.nodes /\ level2[root] = H
        /\ UpTo(tree.order, r.nodes, H, level2, range2, pos2, m2)
    BY <2>4, <2>5, <2>6, <2>7
  <2>10. PICK g : g = Grown(tree, r)
    OBVIOUS
  <2>11. CASE r.split = NoSplit
    <3>1. g.order = tree.order /\ g.root = root /\ g.nodes = r.nodes
      BY <2>5, <2>10, <2>11 DEF Grown
    <3>2. IsTreeBy(g, level2, range2, pos2, m2)
      BY <2>6, <2>7, <2>8, <2>9, <2>11, <3>1 DEF IsTreeBy
    <3> QED BY <1>4, <2>1, <2>2, <2>10, <3>2 DEF IsTree
  <2>12. CASE r.split # NoSplit
    <3>1. PICK order, nodes, s, b, nodes2 :
            /\ order = tree.order /\ nodes = r.nodes /\ s = r.split.key /\ b = r.split.node
            /\ nodes2 = Append(nodes, Inner(<<s>>, <<root, b>>))
      OBVIOUS
    <3>2. g.order = order /\ g.root = NewNode(nodes) /\ g.nodes = nodes2
      BY <2>5, <2>10, <2>12, <3>1 DEF Grown
    <3>3. /\ s \in Int /\ b \in DOMAIN nodes /\ level2[b] = H
          /\ range2[root] = {k \in Int : k < s} /\ range2[b] = {k \in Int : k >= s}
      BY <2>7, <2>12, <3>1
    <3>4. /\ order \in Nat /\ order >= 2 /\ root \in DOMAIN nodes /\ level2[root] = H
          /\ UpTo(order, nodes, H, level2, range2, pos2, m2)
          /\ \A x \in DOMAIN nodes : level2[x] <= H
      BY <2>6, <2>8, <2>9, <3>1
    <3>5. NewRoot(order, nodes, H, level2, range2, pos2, m2, root, b, s, nodes2, g)
      BY <2>6, <3>1, <3>2, <3>3, <3>4 DEF NewRoot
    <3>6. IsTree(g, m2)
      BY <3>5, RootAdded
    <3> QED BY <1>4, <2>1, <2>2, <2>10, <3>6
  <2> QED BY <2>11, <2>12
<1> QED BY <1>3, <1>4
-----------------------------------------------------------------------------
(* The empty tree, and removal.                                            *)

\* Only what the map gives for its keys matters.
LEMMA SameMap ==
  ASSUME NEW tree, NEW m, IsTree(tree, m), NEW m2, DOMAIN m2 = DOMAIN m,
         \A k \in DOMAIN m : m2[k] = m[k]
  PROVE  IsTree(tree, m2)
<1>1. PICK level, range, pos : IsTreeBy(tree, level, range, pos, m)
  BY DEF IsTree
<1>2. Filed(tree.nodes, m)
  BY <1>1 DEF IsTreeBy, UpTo
<1>3. Filed(tree.nodes, m2)
  BY <1>2 DEF Filed
<1>4. IsTreeBy(tree, level, range, pos, m2)
  BY <1>1, <1>3 DEF IsTreeBy, UpTo
<1> QED BY <1>4 DEF IsTree

\* A new tree holds the empty map.
LEMMA EmptyIsTree ==
  ASSUME NEW order \in Nat, order >= 2, NEW m, DOMAIN m = {}
  PROVE  IsTree(EmptyTree(order), m)
<1>1. PICK nodes, L, tree : /\ L = Leaf(<<>>, <<>>, NoNode) /\ nodes = <<L>>
                            /\ tree = EmptyTree(order)
  OBVIOUS
<1>2. /\ <<>> \in Seq(Int) /\ <<>> \in Seq(Nat) /\ NoNode \in Nat
      /\ Len(<<>>) = 0 /\ DOMAIN <<>> = {}
  BY EmptySeq DEF NoNode
<1>3. /\ L \in AllNodes /\ L.leaf /\ L.keys = <<>> /\ L.values = <<>> /\ L.children = <<>>
      /\ L.next = NoNode
  <2>1. PICK keys, values : keys = <<>> /\ values = <<>>
    OBVIOUS
  <2>2. keys \in Seq(Int) /\ values \in Seq(Nat) /\ L = Leaf(keys, values, NoNode)
    BY <1>1, <1>2, <2>1
  <2>3. /\ L \in AllNodes /\ L.leaf /\ L.keys = keys /\ L.values = values /\ L.children = <<>>
        /\ L.next = NoNode
    BY <1>2, <2>2, LeafFields
  <2> QED BY <2>1, <2>3
<1>4. nodes \in Seq(AllNodes) /\ DOMAIN nodes = {1} /\ nodes[1] = L
  <2>1. <<L>> \in Seq(AllNodes) /\ <<L>>[1] = L /\ DOMAIN <<L>> = {1}
    BY <1>3
  <2> QED BY <1>1, <2>1
<1>5. tree.order = order /\ tree.root = 1 /\ tree.nodes = nodes
  BY <1>1 DEF EmptyTree
<1>6. PICK level, range, pos : /\ level = [n \in {1} |-> 0] /\ range = [n \in {1} |-> Int]
                               /\ pos = [n \in {1} |-> 0]
  OBVIOUS
<1>7. Layered(nodes, level, range)
  BY <1>3, <1>4, <1>6 DEF Layered
<1>8. GoodLeaves(order, nodes, range)
  <2>1. Ascending(<<>>) /\ 0 <= order
    BY <1>2 DEF Ascending
  <2>2. IsLeaf(order, L)
    BY <1>2, <1>3, <2>1 DEF IsLeaf
  <2>3. KeysInRange(nodes, range, 1)
    BY <1>2, <1>3, <1>4 DEF KeysInRange
  <2> QED BY <1>4, <2>2, <2>3 DEF GoodLeaves
<1>9. level[1] = 0 /\ range[1] = Int /\ \A n \in DOMAIN nodes : level[n] <= 0 /\ level[n] \notin 1..0
  BY <1>4, <1>6
<1>10. Linked(nodes, range, pos)
  BY <1>3, <1>4, <1>6 DEF Linked
<1>11. Filed(nodes, m)
  BY <1>2, <1>3, <1>4 DEF Filed
<1>12. IsTreeBy(tree, level, range, pos, m)
  BY <1>4, <1>5, <1>7, <1>8, <1>9, <1>10, <1>11 DEF IsTreeBy, UpTo, GoodInners
<1> QED BY <1>1, <1>12 DEF IsTree

\* keys and values are those of a node without one key and its row id.
WithoutKey(keys, values, node, key) ==
  /\ keys \in Seq(Int) /\ values \in Seq(Nat) /\ Ascending(keys)
  /\ Len(keys) <= Len(node.keys) /\ Len(values) = Len(keys)
  /\ \A i \in DOMAIN keys : /\ keys[i] # key
                            /\ \E j \in DOMAIN node.keys : /\ keys[i] = node.keys[j]
                                                           /\ values[i] = node.values[j]
  /\ \A j \in DOMAIN node.keys : node.keys[j] # key => \E i \in DOMAIN keys : keys[i] = node.keys[j]

\* The places left when place p of N is taken out.
LEMMA BehindSkipped ==
  ASSUME NEW N \in Nat, NEW p \in 1..N
  PROVE  /\ \A i \in 1..N - 1 : /\ (IF i < p THEN i ELSE i + 1) \in 1..N
                               /\ (IF i < p THEN i ELSE i + 1) # p
         /\ \A i, j \in 1..N - 1 : i < j => (IF i < p THEN i ELSE i + 1) < (IF j < p THEN j ELSE j + 1)
         /\ \A j \in 1..N : j < p => j \in 1..N - 1
         /\ \A j \in 1..N : j # p /\ ~(j < p) =>
              j - 1 \in 1..N - 1 /\ (IF j - 1 < p THEN j - 1 ELSE j - 1 + 1) = j
<1>1. p \in Int /\ p <= N /\ 1 <= p
  OBVIOUS
<1>2. \A i \in 1..N - 1 : /\ (IF i < p THEN i ELSE i + 1) \in 1..N
                          /\ (IF i < p THEN i ELSE i + 1) # p
  BY <1>1
<1>3. \A i, j \in 1..N - 1 : i < j => (IF i < p THEN i ELSE i + 1) < (IF j < p THEN j ELSE j + 1)
  BY <1>1
<1>4. \A j \in 1..N : j < p => j \in 1..N - 1
  BY <1>1
<1>5. \A j \in 1..N : j # p /\ ~(j < p) => j - 1 \in 1..N - 1 /\ ~(j - 1 < p) /\ j - 1 + 1 = j
  BY <1>1
<1> QED BY <1>2, <1>3, <1>4, <1>5

\* The other keys stay in order, and each keeps its row id.
LEMMA LeafEmptied ==
  ASSUME NEW node, node.keys \in Seq(Int), node.values \in Seq(Nat), Ascending(node.keys),
         Len(node.values) = Len(node.keys), NEW p \in DOMAIN node.keys
  PROVE  WithoutKey(RemoveAt(node.keys, p), RemoveAt(node.values, p), node, node.keys[p])
<1>1. PICK s, v, N, key : s = node.keys /\ v = node.values /\ N = Len(s) /\ key = s[p]
  OBVIOUS
<1>2. PICK keys, values : keys = RemoveAt(s, p) /\ values = RemoveAt(v, p)
  OBVIOUS
<1>3. /\ s \in Seq(Int) /\ v \in Seq(Nat) /\ Len(s) = N /\ Len(v) = N /\ N \in Nat
      /\ DOMAIN s = 1..N /\ p \in 1..N /\ Ascending(s)
  BY <1>1, LenProperties
<1>4. keys \in Seq(Int) /\ Removed(keys, s, p)
  BY <1>2, <1>3, RemovedAt
<1>5. values \in Seq(Nat) /\ Removed(values, v, p)
  BY <1>2, <1>3, RemovedAt
<1>6. /\ Len(keys) = N - 1 /\ Len(values) = N - 1
      /\ DOMAIN keys = 1..N - 1
      /\ \A i \in 1..N - 1 : /\ keys[i] = IF i < p THEN s[i] ELSE s[i + 1]
                             /\ values[i] = IF i < p THEN v[i] ELSE v[i + 1]
  <2>1. Len(keys) = N - 1 /\ Len(values) = N - 1
    BY <1>3, <1>4, <1>5 DEF Removed
  <2>2. DOMAIN keys = 1..N - 1
    BY <1>4, <2>1, LenProperties
  <2> QED BY <1>3, <1>4, <1>5, <2>1, <2>2 DEF Removed
<1> DEFINE At(i) == IF i < p THEN i ELSE i + 1
<1>0. p \in 1..N /\ N \in Nat
  BY <1>3
<1>7. ASSUME NEW i \in 1..N - 1
      PROVE  /\ At(i) \in 1..N /\ At(i) # p
             /\ keys[i] = s[At(i)] /\ values[i] = v[At(i)]
  <2>1. At(i) \in 1..N /\ At(i) # p
    BY <1>0, BehindSkipped
  <2> QED BY <1>6, <2>1
<1>8. \A i, j \in 1..N - 1 : i < j => At(i) < At(j)
  BY <1>0, BehindSkipped
<1>9. \A i \in 1..N : i # p => s[i] # key
  <2> SUFFICES ASSUME NEW i \in 1..N, i # p, s[i] = s[p] PROVE FALSE
    BY <1>1
  <2>1. i < p \/ p < i
    BY <1>3
  <2>2. s[i] < s[p] \/ s[p] < s[i]
    BY <1>3, <2>1 DEF Ascending
  <2>3. s[i] \in Int /\ s[p] \in Int
    BY <1>3, ElementOfSeq
  <2> QED BY <2>2, <2>3
<1>10. ASSUME NEW j \in 1..N, j # p PROVE \E i \in 1..N - 1 : keys[i] = s[j]
  <2>1. CASE j < p
    <3>1. j \in 1..N - 1 /\ At(j) = j
      BY <1>0, <2>1, BehindSkipped
    <3> HIDE DEF At
    <3> QED BY <1>7, <3>1
  <2>2. CASE ~(j < p)
    <3>1. j - 1 \in 1..N - 1 /\ At(j - 1) = j
      BY <1>0, <1>10, <2>2, BehindSkipped
    <3> HIDE DEF At
    <3> QED BY <1>7, <3>1
  <2> QED BY <2>1, <2>2
<1> HIDE DEF At
<1>11. Ascending(keys)
  BY <1>3, <1>6, <1>7, <1>8 DEF Ascending
<1>12. /\ Len(keys) <= Len(s) /\ Len(values) = Len(keys)
  BY <1>3, <1>6
<1>13. \A i \in DOMAIN keys : /\ keys[i] # key
                              /\ \E j \in DOMAIN s : keys[i] = s[j] /\ values[i] = v[j]
  BY <1>3, <1>6, <1>7, <1>9
<1>14. \A j \in DOMAIN s : s[j] # key => \E i \in DOMAIN keys : keys[i] = s[j]
  BY <1>1, <1>3, <1>6, <1>10
<1>15. WithoutKey(keys, values, node, key)
  BY <1>1, <1>4, <1>5, <1>11, <1>12, <1>13, <1>14 DEF WithoutKey
<1> QED BY <1>1, <1>2, <1>15

\* The end of remove(): a root with one child would give way to it.
RootLowered(tree, nodes) ==
  [order |-> tree.order, nodes |-> nodes,
   root |-> IF ~nodes[tree.root].leaf /\ Len(nodes[tree.root].children) = 1
            THEN nodes[tree.root].children[1] ELSE tree.root]

\* remove() takes the key out of the map.
LEMMA RemoveIsRestrict ==
  ASSUME NEW tree, NEW m, IsTree(tree, m), NEW key \in Int,
         NEW m2, DOMAIN m2 = DOMAIN m \ {key}, \A k \in DOMAIN m2 : m2[k] = m[k]
  PROVE  IsTree(RemoveKey(tree, key), m2)
<1>1. PICK level, range, pos : IsTreeBy(tree, level, range, pos, m)
  BY DEF IsTree
<1>2. PICK n, node, p : /\ n = LeafFor(tree.nodes, tree.root, key) /\ node = tree.nodes[n]
                        /\ p = FindKey(node, key) + 1
  OBVIOUS
<1>3. /\ Find(tree, key) = IF key \in DOMAIN m THEN m[key] ELSE -1
      /\ key \in DOMAIN m => m[key] \in Nat
      /\ key \in DOMAIN m => p \in DOMAIN node.keys /\ node.keys[p] = key
  BY <1>1, <1>2, FindIsLookup
<1>4. CASE key \notin DOMAIN m
  <2>1. RemoveKey(tree, key) = tree
    BY <1>3, <1>4 DEF RemoveKey
  <2>2. DOMAIN m2 = DOMAIN m
    BY <1>4
  <2> QED BY <2>1, <2>2, SameMap
<1>5. CASE key \in DOMAIN m
  <2>1. PICK keys, values, L, nodes2, g :
          /\ keys = RemoveAt(node.keys, p) /\ values = RemoveAt(node.values, p)
          /\ L = Leaf(keys, values, node.next) /\ nodes2 = [tree.nodes EXCEPT ![n] = L]
          /\ g = RemoveKey(tree, key)
    OBVIOUS
  <2>2. Find(tree, key) # -1
    BY <1>3, <1>5
  <2>3. g = RootLowered(tree, nodes2)
    <3> DEFINE a == LeafFor(tree.nodes, tree.root, key)
               q == FindKey(tree.nodes[a], key) + 1
               b == Leaf(RemoveAt(tree.nodes[a].keys, q), RemoveAt(tree.nodes[a].values, q),
                         tree.nodes[a].next)
    <3>1. RemoveKey(tree, key) = RootLowered(tree, [tree.nodes EXCEPT ![a] = b])
      BY <2>2 DEF RemoveKey, RootLowered
    <3>2. a = n
      BY <1>2
    <3> HIDE DEF a
    <3>3. q = p
      BY SMTT(30), <1>2, <3>2
    <3> HIDE DEF q
    <3>4. b = L
      BY <1>2, <2>1, <3>2, <3>3
    <3> HIDE DEF b
    <3> QED BY <2>1, <3>1, <3>2, <3>4
  <2>4. n \in DOMAIN tree.nodes /\ node.leaf /\ key \in range[n]
    BY <1>1, <1>2, LeafForKey
  <2>5. /\ node \in AllNodes /\ node.keys \in Seq(Int) /\ node.values \in Seq(Nat)
        /\ node.next \in Nat /\ Ascending(node.keys) /\ IsLeaf(tree.order, node)
        /\ Len(node.values) = Len(node.keys) /\ KeysInRange(tree.nodes, range, n)
    BY <1>1, <1>2, <2>4, TreeNode DEF IsLeaf, AllNodes
  <2>6. WithoutKey(keys, values, node, key)
    BY <1>3, <1>5, <2>1, <2>5, LeafEmptied
  <2>7. /\ L \in AllNodes /\ L.leaf /\ L.keys = keys /\ L.values = values
        /\ L.next = node.next /\ L.children = <<>>
    BY <2>1, <2>5, <2>6, LeafFields DEF WithoutKey
  <2>8. tree.order \in Nat
    BY <1>1 DEF IsTreeBy
  <2>9. IsLeaf(tree.order, L)
    <3>1. Len(keys) <= tree.order
      <4>1. /\ Len(keys) \in Nat /\ Len(node.keys) \in Nat
            /\ Len(keys) <= Len(node.keys) /\ Len(node.keys) <= tree.order
        BY <2>5, <2>6, LenProperties DEF WithoutKey, IsLeaf
      <4> QED BY <2>8, <4>1
    <3> QED BY <2>6, <2>7, <3>1 DEF IsLeaf, WithoutKey
  <2>10. \A i \in DOMAIN L.keys : L.keys[i] \in range[n]
    <3>1. \A j \in DOMAIN node.keys : node.keys[j] \in range[n]
      BY <1>2, <2>5 DEF KeysInRange
    <3>2. \A i \in DOMAIN keys : \E j \in DOMAIN node.keys : keys[i] = node.keys[j]
      BY <2>6 DEF WithoutKey
    <3> QED BY <2>7, <3>1, <3>2
  <2>11. /\ DOMAIN nodes2 = DOMAIN tree.nodes /\ nodes2[n] = L
         /\ \A x \in DOMAIN tree.nodes : x # n => nodes2[x] = tree.nodes[x]
    BY <2>1, <2>4
  <2>12. Filed(tree.nodes, m)
    BY <1>1 DEF IsTreeBy, UpTo
  <2>13. Filed(nodes2, m2)
    <3>1. ASSUME NEW x \in DOMAIN nodes2, nodes2[x].leaf, NEW i \in DOMAIN nodes2[x].keys
          PROVE  nodes2[x].keys[i] \in DOMAIN m2 /\ m2[nodes2[x].keys[i]] = nodes2[x].values[i]
      <4>1. CASE x = n
        <5>1. PICK j \in DOMAIN node.keys : keys[i] = node.keys[j] /\ values[i] = node.values[j]
          BY <2>6, <2>7, <2>11, <3>1, <4>1 DEF WithoutKey
        <5>2. keys[i] # key
          BY <2>6, <2>7, <2>11, <3>1, <4>1 DEF WithoutKey
        <5>3. node.keys[j] \in DOMAIN m /\ m[node.keys[j]] = node.values[j]
          BY <1>2, <2>4, <2>12 DEF Filed
        <5> QED BY <2>7, <2>11, <4>1, <5>1, <5>2, <5>3
      <4>2. CASE x # n
        <5>1. x \in DOMAIN tree.nodes /\ nodes2[x] = tree.nodes[x]
          BY <2>11, <4>2
        <5>2. tree.nodes[x].keys[i] \in DOMAIN m /\ m[tree.nodes[x].keys[i]] = tree.nodes[x].values[i]
          BY <2>12, <3>1, <5>1 DEF Filed
        <5>3. tree.nodes[x].keys[i] # key
          <6> SUFFICES ASSUME tree.nodes[x].keys[i] = key PROVE FALSE
            OBVIOUS
          <6>1. key \in range[x]
            BY <1>1, <3>1, <5>1, TreeNode DEF KeysInRange
          <6>2. tree.nodes[x].leaf /\ tree.nodes[n].leaf
            BY <1>2, <2>4, <3>1, <5>1
          <6> QED BY <1>1, <2>4, <4>2, <5>1, <6>1, <6>2, OneLeaf
        <5> QED BY <5>1, <5>2, <5>3
      <4> QED BY <4>1, <4>2
    <3>2. ASSUME NEW k \in DOMAIN m2
          PROVE  \E x \in DOMAIN nodes2 :
                   nodes2[x].leaf /\ \E i \in DOMAIN nodes2[x].keys : nodes2[x].keys[i] = k
      <4>1. PICK x \in DOMAIN tree.nodes :
              tree.nodes[x].leaf /\ \E i \in DOMAIN tree.nodes[x].keys : tree.nodes[x].keys[i] = k
        BY <2>12 DEF Filed
      <4>2. CASE x = n
        <5>1. \E i \in DOMAIN keys : keys[i] = k
          BY <1>2, <2>6, <4>1, <4>2 DEF WithoutKey
        <5> QED BY SMTT(30), <2>4, <2>7, <2>11, <5>1
      <4>3. CASE x # n
        BY <2>11, <4>1, <4>3
      <4> QED BY <4>2, <4>3
    <3> QED BY <3>1, <3>2 DEF Filed
  <2>14. UpTo(tree.order, tree.nodes, level[tree.root], level, range, pos, m)
    BY <1>1 DEF IsTreeBy
  <2>15. UpTo(tree.order, nodes2, level[tree.root], level, range, pos, m2)
    <3>1. tree.nodes[n].leaf /\ L.next = tree.nodes[n].next
      BY <1>2, <2>4, <2>7
    <3>2. L \in AllNodes /\ L.leaf /\ nodes2 = [tree.nodes EXCEPT ![n] = L]
      BY <2>1, <2>7
    <3> QED BY <2>4, <2>9, <2>10, <2>13, <2>14, <3>1, <3>2, LeafReplaced
  <2>16. tree.root \in DOMAIN tree.nodes
    BY <1>1 DEF IsTreeBy
  <2>17. ~(~nodes2[tree.root].leaf /\ Len(nodes2[tree.root].children) = 1)
    <3> SUFFICES ASSUME ~nodes2[tree.root].leaf, Len(nodes2[tree.root].children) = 1 PROVE FALSE
      OBVIOUS
    <3>1. tree.root # n /\ nodes2[tree.root] = tree.nodes[tree.root]
      BY <2>7, <2>11, <2>16
    <3>2. IsInner(tree.order, tree.nodes[tree.root])
      BY <1>1, <2>16, <3>1, TreeNode
    <3>3. PICK N : N = Len(tree.nodes[tree.root].keys)
      OBVIOUS
    <3>4. N \in 1..tree.order /\ Len(tree.nodes[tree.root].children) = N + 1
      BY <3>2, <3>3 DEF IsInner
    <3>5. N + 1 = 1
      BY <3>1, <3>4
    <3> QED BY <2>8, <3>4, <3>5
  <2>18. g.order = tree.order /\ g.root = tree.root /\ g.nodes = nodes2
    BY <2>3, <2>17 DEF RootLowered
  <2>19. IsTreeBy(g, level, range, pos, m2)
    BY <1>1, <2>11, <2>15, <2>18 DEF IsTreeBy
  <2> QED BY <2>1, <2>19 DEF IsTree
<1> QED BY <1>4, <1>5
-----------------------------------------------------------------------------
(* The levels of a tree, and the nodes below a node.                       *)

\* The children of an inner node are one level below it, in parts of its range.
LEMMA Children ==
  ASSUME NEW tree, NEW level, NEW range, NEW pos, NEW m, IsTreeBy(tree, level, range, pos, m),
         NEW n \in DOMAIN tree.nodes, ~tree.nodes[n].leaf
  PROVE  /\ DOMAIN tree.nodes[n].children = 1..Len(tree.nodes[n].children)
         /\ Len(tree.nodes[n].children) = Len(tree.nodes[n].keys) + 1
         /\ Len(tree.nodes[n].keys) \in Nat /\ Len(tree.nodes[n].children) \in Nat
         /\ Len(tree.nodes[n].keys) # 0 /\ 1 \in DOMAIN tree.nodes[n].children
         /\ \A c \in DOMAIN tree.nodes[n].children :
              /\ tree.nodes[n].children[c] \in DOMAIN tree.nodes
              /\ level[tree.nodes[n].children[c]] = level[n] - 1
              /\ range[tree.nodes[n].children[c]] = Part(tree.nodes[n], range[n], c)
<1>1. /\ IsInner(tree.order, tree.nodes[n])
      /\ GoodInner(tree.order, tree.nodes, level, range, n)
      /\ tree.nodes[n].children \in Seq(Nat) /\ Len(tree.nodes[n].keys) \in Nat
  BY TreeNode
<1>2. PICK N : N = Len(tree.nodes[n].keys)
  OBVIOUS
<1>3. N \in 1..tree.order /\ Len(tree.nodes[n].children) = N + 1 /\ N \in Nat
  BY <1>1, <1>2 DEF IsInner
<1>4. N # 0 /\ 1 \in 1..N + 1 /\ N + 1 \in Nat
  BY <1>3
<1>5. DOMAIN tree.nodes[n].children = 1..N + 1
  BY <1>1, <1>3, LenProperties
<1>6. \A c \in DOMAIN tree.nodes[n].children :
        /\ tree.nodes[n].children[c] \in DOMAIN tree.nodes
        /\ level[tree.nodes[n].children[c]] = level[n] - 1
        /\ range[tree.nodes[n].children[c]] = Part(tree.nodes[n], range[n], c)
  BY <1>1 DEF GoodInner
<1> QED BY <1>2, <1>3, <1>4, <1>5, <1>6

\* The recursive function of the height unfolds, since levels are finite.
LEMMA HeightBelowUnfolds ==
  ASSUME NEW tree, NEW level, NEW range, NEW pos, NEW m, IsTreeBy(tree, level, range, pos, m),
         NEW x \in DOMAIN tree.nodes
  PROVE  HeightBelow(tree.nodes, x) =
           IF tree.nodes[x].leaf THEN 1 ELSE 1 + HeightBelow(tree.nodes, tree.nodes[x].children[1])
<1> DEFINE D == DOMAIN tree.nodes
           H == level[tree.root]
           First(n) == tree.nodes[n].children[1]
           Step(f, n) == IF tree.nodes[n].leaf THEN 1 ELSE 1 + f[First(n)]
           Good(f, l) == \A n \in D : level[n] <= l => f[n] = Step(f, n)
           Bad == {l \in 0..H : ~ \E f : Good(f, l)}
           Body(h) == [n \in D |-> IF tree.nodes[n].leaf THEN 1 ELSE 1 + h[First(n)]]
           height == CHOOSE h : h = Body(h)
<1>1. /\ H \in Nat /\ \A n \in D : level[n] \in 0..H
      /\ \A n \in D : tree.nodes[n].leaf <=> level[n] = 0
  <2>1. tree.root \in D
    BY DEF IsTreeBy
  <2> QED BY <2>1, TreeNode
<1>2. \A n \in D : ~tree.nodes[n].leaf =>
        First(n) \in D /\ level[First(n)] = level[n] - 1
  BY SMTT(30), Children
<1>3. Bad = {}
  <2> SUFFICES ASSUME Bad # {} PROVE FALSE
    OBVIOUS
  <2>1. PICK l \in Bad : \A k \in Bad : l <= k
    <3>1. Bad \subseteq Nat
      BY <1>1
    <3> HIDE DEF Bad
    <3> QED BY <3>1, LeastNumber
  <2>6. l \in 0..H /\ l \in Nat /\ ~ \E f : Good(f, l)
    BY <1>1
  <2>7. \A n \in D : level[n] \in Nat
    BY <1>1
  <2> HIDE DEF Bad, H
  <2>2. \E f : \A n \in D : level[n] < l => f[n] = Step(f, n)
    <3>1. CASE l = 0
      <4>1. \A n \in D : ~(level[n] < 0)
        BY <2>7
      <4> QED BY <3>1, <4>1
    <3>2. CASE l # 0
      <4>1. l - 1 \in 0..H /\ ~(l <= l - 1)
        <5>1. H \in Nat /\ l \in 0..H
          BY <1>1, <2>6
        <5> QED BY <3>2, <5>1
      <4>2. l - 1 \notin Bad
        BY <2>1, <4>1
      <4>3. PICK f : Good(f, l - 1)
        <5> HIDE DEF Good
        <5> QED BY <4>1, <4>2 DEF Bad
      <4>4. \A n \in D : level[n] < l => level[n] <= l - 1
        BY <2>6, <2>7
      <4> QED BY <4>3, <4>4
    <3> QED BY <3>1, <3>2
  <2>3. PICK f : \A n \in D : level[n] < l => f[n] = Step(f, n)
    BY <2>2
  <2> DEFINE g == [n \in D |-> IF level[n] < l THEN f[n] ELSE Step(f, n)]
  <2>4. ASSUME NEW n \in D, level[n] <= l PROVE g[n] = Step(g, n)
    <3>1. g[n] = Step(f, n)
      BY <2>3
    <3>2. ~tree.nodes[n].leaf => /\ First(n) \in D
                                 /\ level[First(n)] < l
      <4>1. level[n] \in Nat /\ level[n] - 1 < l
        BY SMTT(30), <2>4, <2>6, <2>7
      <4> QED BY <1>2, <4>1
    <3>3. ~tree.nodes[n].leaf => g[First(n)] = f[First(n)]
      BY <3>2
    <3> HIDE DEF g
    <3> QED BY <3>1, <3>3
  <2>5. Good(g, l)
    <3> HIDE DEF g
    <3> QED BY <2>4
  <2> QED BY ZenonT(30), <2>5, <2>6
<1>4. PICK f : Good(f, H)
  <2>1. H \in 0..H
    BY <1>1
  <2> HIDE DEF Good
  <2> QED BY <1>3, <2>1
<1> DEFINE F == [n \in D |-> f[n]]
<1>5. F = Body(F)
  <2>1. ASSUME NEW n \in D PROVE F[n] = Step(F, n)
    <3>1. f[n] = Step(f, n)
      BY <1>1, <1>4
    <3>2. ~tree.nodes[n].leaf => F[First(n)] = f[First(n)]
      BY <1>2
    <3>3. F[n] = f[n]
      OBVIOUS
    <3> HIDE DEF F
    <3> QED BY <3>1, <3>2, <3>3
  <2>2. Body(F) = [n \in D |-> F[n]]
    <3> HIDE DEF F
    <3> QED BY <2>1
  <2> QED BY <2>2
<1>6. height = Body(height)
  <2> HIDE DEF Body, F
  <2> QED BY <1>5
<1>7. \A n \in D : HeightBelow(tree.nodes, n) = height[n]
  BY SMTT(30) DEF HeightBelow
<1> HIDE DEF height
<1>8. height[x] = Step(height, x)
  BY <1>6
<1> QED BY <1>2, <1>7, <1>8

\* The height below a node is its level, counted from 1.
LEMMA HeightIsLevel ==
  ASSUME NEW tree, NEW level, NEW range, NEW pos, NEW m, IsTreeBy(tree, level, range, pos, m),
         NEW x \in DOMAIN tree.nodes
  PROVE  HeightBelow(tree.nodes, x) = level[x] + 1
<1> DEFINE D == DOMAIN tree.nodes
           H == level[tree.root]
           height(n) == HeightBelow(tree.nodes, n)
           Wrong == {l \in 0..H : ~ \A n \in D : level[n] = l => height(n) = l + 1}
<1>1. /\ H \in Nat /\ \A n \in D : level[n] \in 0..H
      /\ \A n \in D : tree.nodes[n].leaf <=> level[n] = 0
  <2>1. tree.root \in D
    BY DEF IsTreeBy
  <2> QED BY <2>1, TreeNode
<1>2. Wrong = {}
  <2> SUFFICES ASSUME Wrong # {} PROVE FALSE
    OBVIOUS
  <2>1. PICK l \in Wrong : \A k \in Wrong : l <= k
    <3>1. Wrong \subseteq Nat
      BY <1>1
    <3> HIDE DEF Wrong
    <3> QED BY <3>1, LeastNumber
  <2>2. PICK n \in D : level[n] = l /\ height(n) # l + 1
    BY <2>1
  <2>3. CASE tree.nodes[n].leaf
    <3>1. height(n) = 1
      BY <2>3, HeightBelowUnfolds
    <3>2. l = 0
      BY <1>1, <2>2, <2>3
    <3> HIDE DEF height
    <3> QED BY <2>2, <3>1, <3>2
  <2>4. CASE ~tree.nodes[n].leaf
    <3>1. PICK child \in D : /\ child = tree.nodes[n].children[1] /\ level[child] = l - 1
      BY SMTT(30), <2>2, <2>4, Children
    <3>2. height(n) = 1 + height(child)
      BY <2>4, <3>1, HeightBelowUnfolds
    <3>3. l - 1 \in 0..H /\ ~(l <= l - 1) /\ l \in Nat
      BY <1>1, <2>2, <2>4
    <3> HIDE DEF height
    <3>4. l - 1 \notin Wrong
      <4> HIDE DEF Wrong
      <4> QED BY <2>1, <3>3
    <3>5. height(child) = l - 1 + 1
      BY <3>1, <3>3, <3>4
    <3> HIDE DEF Wrong
    <3> QED BY <2>2, <3>2, <3>3, <3>5
  <2> QED BY <2>3, <2>4
<1>3. height(x) = level[x] + 1
  <2> HIDE DEF height
  <2> QED BY <1>1, <1>2
<1> QED BY <1>3

\* The recursive function of FlattenSeq unfolds.
LEMMA FlattenUnfolds ==
  ASSUME NEW s, NEW N \in Nat, N # 0, Len(s) = N
  PROVE  \E f : /\ FlattenSeq(s) = f[N]
                /\ \A i \in 1..N : f[i] = IF i = 1 THEN s[1] ELSE f[i - 1] \o s[i]
<1> DEFINE Step(f, i) == IF i = 1 THEN s[1] ELSE f[i - 1] \o s[i]
           Good(f, k) == \A i \in 1..N : i <= k => f[i] = Step(f, i)
           Bad == {k \in 0..N : ~ \E f : Good(f, k)}
           Body(h) == [i \in 1..N |-> IF i = 1 THEN s[i] ELSE h[i - 1] \o s[i]]
           flatten == CHOOSE h : h = Body(h)
<1>1. Bad = {}
  <2> SUFFICES ASSUME Bad # {} PROVE FALSE
    OBVIOUS
  <2>1. PICK k \in Bad : \A j \in Bad : k <= j
    <3>1. Bad \subseteq Nat
      OBVIOUS
    <3> HIDE DEF Bad
    <3> QED BY <3>1, LeastNumber
  <2>2. k \in 0..N /\ k \in Nat /\ ~ \E f : Good(f, k)
    OBVIOUS
  <2> HIDE DEF Bad
  <2>3. k # 0
    <3>1. \A i \in 1..N : ~(i <= 0)
      OBVIOUS
    <3> QED BY <2>2, <3>1
  <2>4. k - 1 \in 0..N /\ ~(k <= k - 1)
    BY <2>2, <2>3
  <2>5. k - 1 \notin Bad
    BY <2>1, <2>4
  <2>6. PICK f : Good(f, k - 1)
    <3> HIDE DEF Good
    <3> QED BY <2>4, <2>5 DEF Bad
  <2>7. PICK g : g = [i \in 1..N |-> IF i <= k - 1 THEN f[i] ELSE Step(f, i)]
    OBVIOUS
  <2>8. ASSUME NEW i \in 1..N, i <= k PROVE g[i] = Step(g, i)
    <3>1. g[i] = Step(f, i)
      BY <2>6, <2>7
    <3>2. CASE i = 1
      BY <3>1, <3>2
    <3>3. CASE i # 1
      <4>1. i - 1 \in 1..N /\ i - 1 <= k - 1
        BY <2>2, <2>8, <3>3
      <4>2. g[i - 1] = f[i - 1]
        BY <2>7, <4>1
      <4> QED BY <3>1, <3>3, <4>2
    <3> QED BY <3>2, <3>3
  <2> QED BY <2>2, <2>8
<1>2. PICK f : Good(f, N)
  <2>1. N \in 0..N
    OBVIOUS
  <2> HIDE DEF Good
  <2> QED BY <1>1, <2>1
<1>3. PICK F : F = [i \in 1..N |-> f[i]]
  OBVIOUS
<1>4. F = Body(F)
  <2>1. ASSUME NEW i \in 1..N PROVE F[i] = IF i = 1 THEN s[i] ELSE F[i - 1] \o s[i]
    <3>1. f[i] = Step(f, i)
      BY <1>2
    <3>2. i # 1 => i - 1 \in 1..N
      OBVIOUS
    <3> QED BY <1>3, <3>1, <3>2
  <2>2. Body(F) = [i \in 1..N |-> F[i]]
    BY <2>1
  <2> QED BY <1>3, <2>2
<1>5. flatten = Body(flatten)
  <2> HIDE DEF Body
  <2> QED BY <1>4
<1>6. FlattenSeq(s) = flatten[N]
  BY DEF FlattenSeq
<1> HIDE DEF flatten
<1>7. \A i \in 1..N : flatten[i] = IF i = 1 THEN s[1] ELSE flatten[i - 1] \o s[i]
  BY <1>5
<1> QED BY <1>6, <1>7

\* What the parts have, and nothing else, is in the flattened sequence.
LEMMA FlattenElements ==
  ASSUME NEW S, NEW s, NEW N \in Nat, Len(s) = N, s \in Seq(Seq(S))
  PROVE  FlattenSeq(s) \in Seq(S)
<1>1. CASE N = 0
  <2>1. FlattenSeq(s) = s
    BY <1>1 DEF FlattenSeq
  <2>2. s = <<>>
    BY <1>1, EmptySeq
  <2> QED BY <2>1, <2>2, EmptySeq
<1>2. CASE N # 0
  <2>1. PICK f : /\ FlattenSeq(s) = f[N]
                 /\ \A i \in 1..N : f[i] = IF i = 1 THEN s[1] ELSE f[i - 1] \o s[i]
    BY <1>2, FlattenUnfolds
  <2>2. \A i \in 1..N : s[i] \in Seq(S)
    BY ElementOfSeq, LenProperties
  <2> DEFINE Bad == {i \in 1..N : f[i] \notin Seq(S)}
  <2>3. Bad = {}
    <3> SUFFICES ASSUME Bad # {} PROVE FALSE
      OBVIOUS
    <3>1. PICK i \in Bad : \A j \in Bad : i <= j
      <4>1. Bad \subseteq Nat
        OBVIOUS
      <4> HIDE DEF Bad
      <4> QED BY <4>1, LeastNumber
    <3>2. i \in 1..N /\ f[i] \notin Seq(S)
      OBVIOUS
    <3>3. i # 1
      BY <2>1, <2>2, <3>2
    <3>4. i - 1 \in 1..N /\ ~(i <= i - 1)
      BY <3>2, <3>3
    <3>5. f[i - 1] \in Seq(S)
      BY <3>1, <3>4
    <3>6. f[i] = f[i - 1] \o s[i]
      BY <2>1, <3>2, <3>3
    <3>7. f[i - 1] \o s[i] \in Seq(S)
      BY <2>2, <3>2, <3>5, ConcatProperties
    <3> QED BY <3>2, <3>6, <3>7
  <2>4. N \in 1..N
    BY <1>2
  <2> QED BY ZenonT(30), <2>1, <2>3, <2>4
<1> QED BY <1>1, <1>2

\* A sequence of sequences of one element each.
LEMMA FlattenOnes ==
  ASSUME NEW S, NEW t \in Seq(S), NEW N \in Nat, N # 0, Len(t) = N,
         NEW s, Len(s) = N, \A i \in 1..N : s[i] = <<t[i]>>
  PROVE  FlattenSeq(s) = t
<1>1. /\ DOMAIN t = 1..N /\ \A i \in 1..N : t[i] \in S
  BY LenProperties, ElementOfSeq
<1>3. PICK f : /\ FlattenSeq(s) = f[N]
               /\ \A i \in 1..N : f[i] = IF i = 1 THEN s[1] ELSE f[i - 1] \o s[i]
  BY FlattenUnfolds
<1> DEFINE Right(i) == /\ f[i] \in Seq(S) /\ Len(f[i]) = i
                       /\ \A j \in 1..i : f[i][j] = t[j]
           Bad == {i \in 1..N : ~Right(i)}
<1>4. Bad = {}
  <2> SUFFICES ASSUME Bad # {} PROVE FALSE
    OBVIOUS
  <2>1. PICK i \in Bad : \A j \in Bad : i <= j
    <3>1. Bad \subseteq Nat
      OBVIOUS
    <3> HIDE DEF Bad
    <3> QED BY <3>1, LeastNumber
  <2>2. i \in 1..N /\ i \in Nat /\ ~Right(i)
    OBVIOUS
  <2>3. s[i] = <<t[i]>> /\ <<t[i]>> \in Seq(S) /\ Len(<<t[i]>>) = 1 /\ <<t[i]>>[1] = t[i]
    BY <1>1, <2>2
  <2>4. CASE i = 1
    <3>1. f[i] = <<t[1]>>
      BY <1>3, <2>2, <2>3, <2>4
    <3> QED BY <2>2, <2>3, <2>4, <3>1
  <2>5. CASE i # 1
    <3>1. i - 1 \in 1..N /\ ~(i <= i - 1) /\ i - 1 + 1 = i
      BY <2>2, <2>5
    <3>2. Right(i - 1)
      BY <2>1, <3>1
    <3>3. PICK a, b : a = f[i - 1] /\ b = s[i]
      OBVIOUS
    <3>4. f[i] = a \o b
      BY <1>3, <2>2, <2>5, <3>3
    <3>5. /\ a \in Seq(S) /\ Len(a) = i - 1 /\ \A j \in 1..i - 1 : a[j] = t[j]
          /\ b \in Seq(S) /\ Len(b) = 1 /\ b[1] = t[i]
      BY <2>3, <3>2, <3>3
    <3>6. /\ f[i] \in Seq(S) /\ Len(f[i]) = Len(a) + Len(b)
          /\ \A j \in 1..Len(a) + Len(b) : f[i][j] = IF j <= Len(a) THEN a[j] ELSE b[j - Len(a)]
      <4>1. PICK v : v = a \o b
        OBVIOUS
      <4> HIDE DEF Right, Bad
      <4>2. /\ v \in Seq(S) /\ Len(v) = Len(a) + Len(b)
            /\ \A j \in 1..Len(a) + Len(b) : v[j] = IF j <= Len(a) THEN a[j] ELSE b[j - Len(a)]
        BY <3>5, <4>1, ConcatProperties
      <4> QED BY <3>4, <4>1, <4>2
    <3>7. Len(f[i]) = i
      BY <3>1, <3>5, <3>6
    <3>8. ASSUME NEW j \in 1..i PROVE f[i][j] = t[j]
      <4>1. f[i][j] = IF j <= i - 1 THEN a[j] ELSE b[j - (i - 1)]
        BY <3>1, <3>5, <3>6
      <4>2. j <= i - 1 => j \in 1..i - 1
        BY <2>2
      <4>3. ~(j <= i - 1) => j = i /\ j - (i - 1) = 1
        BY <2>2
      <4> QED BY <3>5, <4>1, <4>2, <4>3
    <3> QED BY <2>2, <3>6, <3>7, <3>8
  <2> QED BY <2>4, <2>5
<1>5. Right(N)
  <2>1. N \in 1..N
    OBVIOUS
  <2> HIDE DEF Right
  <2> QED BY <1>4, <2>1
<1> QED BY <1>1, <1>3, <1>5, SeqEqual

\* The recursive function of the preorder unfolds, since levels are finite.
LEMMA PreorderUnfolds ==
  ASSUME NEW tree, NEW level, NEW range, NEW pos, NEW m, IsTreeBy(tree, level, range, pos, m),
         NEW x \in DOMAIN tree.nodes
  PROVE  Preorder(tree.nodes, x) =
           <<x>> \o FlattenSeq([c \in DOMAIN tree.nodes[x].children |->
                                  Preorder(tree.nodes, tree.nodes[x].children[c])])
<1> DEFINE D == DOMAIN tree.nodes
           H == level[tree.root]
           kids(n) == tree.nodes[n].children
           Kids(f, n) == [c \in DOMAIN kids(n) |-> f[kids(n)[c]]]
           Step(f, n) == <<n>> \o FlattenSeq(Kids(f, n))
           Good(f, l) == \A n \in D : level[n] <= l => f[n] = Step(f, n)
           Bad == {l \in 0..H : ~ \E f : Good(f, l)}
           Body(h) == [n \in D |-> <<n>> \o FlattenSeq([c \in DOMAIN kids(n) |-> h[kids(n)[c]]])]
           from == CHOOSE h : h = Body(h)
<1>1. /\ H \in Nat /\ \A n \in D : level[n] \in 0..H
  <2>1. tree.root \in D
    BY DEF IsTreeBy
  <2> QED BY <2>1, TreeNode
<1>2. ASSUME NEW n \in D, NEW c \in DOMAIN kids(n)
      PROVE  kids(n)[c] \in D /\ level[kids(n)[c]] = level[n] - 1
  <2>1. ~tree.nodes[n].leaf
    <3> SUFFICES ASSUME tree.nodes[n].leaf PROVE FALSE
      OBVIOUS
    <3>1. tree.nodes[n].children = <<>>
      BY SMTT(30), TreeNode DEF IsLeaf
    <3> QED BY <1>2, <3>1
  <2> QED BY <1>2, <2>1, Children
<1>3. Bad = {}
  <2> SUFFICES ASSUME Bad # {} PROVE FALSE
    BY ZenonT(30)
  <2>1. PICK l \in Bad : \A k \in Bad : l <= k
    <3>1. Bad \subseteq Nat
      BY <1>1
    <3> HIDE DEF Bad
    <3> QED BY <3>1, LeastNumber
  <2>5. l \in 0..H /\ ~ \E f : Good(f, l)
    <3> HIDE DEF Good
    <3> QED OBVIOUS
  <2> HIDE DEF Good, Body
  <2>6. l \in 0..H /\ l \in Nat /\ ~ \E f : Good(f, l)
    <3> HIDE DEF Bad, H
    <3> QED BY <1>1, <2>5
  <2>7. \A n \in D : level[n] \in Nat
    <3> HIDE DEF Bad, H, Step
    <3> QED BY <1>1
  <2> USE DEF Good
  <2> HIDE DEF Bad, H
  <2>2. \E f : \A n \in D : level[n] < l => f[n] = Step(f, n)
    <3> HIDE DEF Step
    <3>1. CASE l = 0
      <4>1. \A n \in D : ~(level[n] < 0)
        BY <2>7
      <4> QED BY <3>1, <4>1
    <3>2. CASE l # 0
      <4>1. l - 1 \in 0..H /\ ~(l <= l - 1)
        <5>1. H \in Nat /\ l \in 0..H
          BY <1>1, <2>6
        <5> QED BY <3>2, <5>1
      <4>2. l - 1 \notin Bad
        BY <2>1, <4>1
      <4>3. PICK f : Good(f, l - 1)
        <5> HIDE DEF Good
        <5> QED BY <4>1, <4>2 DEF Bad
      <4>4. \A n \in D : level[n] < l => level[n] <= l - 1
        BY SMTT(30), <2>6, <2>7
      <4> QED BY <4>3, <4>4
    <3> QED BY <3>1, <3>2
  <2>3. PICK f : \A n \in D : level[n] < l => f[n] = Step(f, n)
    BY <2>2
  <2> DEFINE g == [n \in D |-> IF level[n] < l THEN f[n] ELSE Step(f, n)]
  <2>4. ASSUME NEW n \in D, level[n] <= l PROVE g[n] = Step(g, n)
    <3>1. g[n] = Step(f, n)
      <4> HIDE DEF Step
      <4> QED BY <2>3
    <3>2. \A c \in DOMAIN kids(n) : g[kids(n)[c]] = f[kids(n)[c]]
      <4> SUFFICES ASSUME NEW c \in DOMAIN kids(n) PROVE g[kids(n)[c]] = f[kids(n)[c]]
        BY ZenonT(30)
      <4>1. kids(n)[c] \in D /\ level[kids(n)[c]] = level[n] - 1
        BY <1>2
      <4> HIDE DEF Step
      <4>2. level[n] \in Nat /\ level[n] - 1 < l
        <5> HIDE DEF Good, g
        <5> QED BY <2>4, <2>6, <2>7
      <4> QED BY <4>1, <4>2
    <3> HIDE DEF g
    <3>3. Kids(g, n) = Kids(f, n)
      BY <3>2
    <3> HIDE DEF Kids
    <3> QED BY <3>1, <3>3
  <2>8. Good(g, l)
    <3> HIDE DEF g, Step
    <3> QED BY <2>4
  <2> QED BY ZenonT(30), <2>6, <2>8
<1>4. PICK f : Good(f, H)
  <2>1. H \in 0..H
    BY <1>1
  <2> HIDE DEF Good
  <2> QED BY <1>3, <2>1
<1>5. PICK F : F = [n \in D |-> f[n]]
  BY ZenonT(30)
<1>6. F = Body(F)
  <2>1. ASSUME NEW n \in D PROVE F[n] = Step(F, n)
    <3>1. f[n] = Step(f, n)
      <4> HIDE DEF Step
      <4> QED BY <1>1, <1>4
    <3>2. \A c \in DOMAIN kids(n) : F[kids(n)[c]] = f[kids(n)[c]]
      BY <1>2, <1>5
    <3>3. Kids(F, n) = Kids(f, n)
      BY SMTT(30), <3>2
    <3> HIDE DEF Kids
    <3> QED BY <1>5, <3>1, <3>3
  <2>2. Body(F) = [n \in D |-> F[n]]
    BY SMTT(30), <2>1
  <2> QED BY <1>5, <2>2
<1>7. from = Body(from)
  <2> HIDE DEF Body
  <2> QED BY <1>6
<1>8. \A n \in D : Preorder(tree.nodes, n) = from[n]
  BY DEF Preorder
<1> HIDE DEF from
<1>9. from[x] = Step(from, x)
  BY ZenonT(30), <1>7
<1>10. Kids(from, x) = [c \in DOMAIN kids(x) |-> Preorder(tree.nodes, kids(x)[c])]
  BY <1>2, <1>8
<1> HIDE DEF Kids
<1> QED BY <1>8, <1>9, <1>10

\* The nodes below a node have parts of its range.
LEMMA PreorderInRange ==
  ASSUME NEW tree, NEW level, NEW range, NEW pos, NEW m, IsTreeBy(tree, level, range, pos, m),
         NEW x \in DOMAIN tree.nodes
  PROVE  /\ Preorder(tree.nodes, x) \in Seq(DOMAIN tree.nodes)
         /\ \A y \in ToSet(Preorder(tree.nodes, x)) :
              y \in DOMAIN tree.nodes /\ range[y] \subseteq range[x]
<1> DEFINE D == DOMAIN tree.nodes
           H == level[tree.root]
           before(n) == Preorder(tree.nodes, n)
           Sub(n) == {y \in D : range[y] \subseteq range[n]}
           Wrong == {l \in 0..H : ~ \A n \in D : level[n] = l => before(n) \in Seq(Sub(n))}
<1>1. /\ H \in Nat /\ \A n \in D : level[n] \in 0..H
      /\ \A n \in D : tree.nodes[n].leaf <=> level[n] = 0
  <2>1. tree.root \in D
    BY DEF IsTreeBy
  <2> QED BY <2>1, TreeNode
<1>2. Wrong = {}
  <2> SUFFICES ASSUME Wrong # {} PROVE FALSE
    OBVIOUS
  <2>1. PICK l \in Wrong : \A k \in Wrong : l <= k
    <3>1. Wrong \subseteq Nat
      BY <1>1
    <3> HIDE DEF Wrong
    <3> QED BY <3>1, LeastNumber
  <2>2. PICK n \in D : level[n] = l /\ before(n) \notin Seq(Sub(n))
    BY <2>1
  <2>3. PICK kids, s, N : /\ kids = tree.nodes[n].children /\ s = [c \in DOMAIN kids |-> before(kids[c])]
                          /\ N = Len(kids)
    OBVIOUS
  <2>4. before(n) = <<n>> \o FlattenSeq(s)
    <3>1. Preorder(tree.nodes, n) =
            <<n>> \o FlattenSeq([c \in DOMAIN tree.nodes[n].children |->
                                   Preorder(tree.nodes, tree.nodes[n].children[c])])
      BY PreorderUnfolds
    <3> QED BY <2>3, <3>1
  <2>5. DOMAIN kids = 1..N /\ N \in Nat
    <3>1. kids \in Seq(Nat)
      BY <2>3, TreeNode
    <3> QED BY <2>3, <3>1, LenProperties
  <2>6. \A c \in 1..N : s[c] \in Seq(Sub(n))
    <3> SUFFICES ASSUME NEW c \in 1..N PROVE s[c] \in Seq(Sub(n))
      OBVIOUS
    <3>1. ~tree.nodes[n].leaf
      <4> SUFFICES ASSUME tree.nodes[n].leaf PROVE FALSE
        OBVIOUS
      <4>1. kids = <<>>
        BY <2>3, TreeNode DEF IsLeaf
      <4> QED BY <2>5, <4>1
    <3>2. PICK child \in D : /\ child = kids[c] /\ level[child] = l - 1
                             /\ range[child] = Part(tree.nodes[n], range[n], c)
      <4>1. \A d \in DOMAIN tree.nodes[n].children :
              /\ tree.nodes[n].children[d] \in DOMAIN tree.nodes
              /\ level[tree.nodes[n].children[d]] = level[n] - 1
              /\ range[tree.nodes[n].children[d]] = Part(tree.nodes[n], range[n], d)
        BY <3>1, Children
      <4> HIDE DEF Wrong, before, Sub
      <4> QED BY <2>2, <2>3, <2>5, <4>1
    <3>3. l - 1 \in 0..H /\ ~(l <= l - 1)
      BY <1>1, <2>2, <3>1
    <3>4. l - 1 \notin Wrong
      <4> HIDE DEF Wrong
      <4> QED BY <2>1, <3>3
    <3>5. before(child) \in Seq(Sub(child))
      <4> HIDE DEF before, Sub
      <4> QED BY <3>2, <3>3, <3>4
    <3>6. Sub(child) \subseteq Sub(n)
      BY <3>2 DEF Part
    <3>7. s[c] = before(child)
      BY <2>3, <2>5, <3>2
    <3> HIDE DEF Sub, before
    <3>8. Seq(Sub(child)) \subseteq Seq(Sub(n))
      BY <3>6, SeqMonotonic
    <3> QED BY <3>5, <3>7, <3>8
  <2> HIDE DEF Sub, before
  <2>7. s \in Seq(Seq(Sub(n))) /\ Len(s) = N
    <3>1. s = [c \in 1..N |-> s[c]]
      BY <2>3, <2>5
    <3>2. s \in Seq(Seq(Sub(n)))
      BY <2>5, <2>6, <3>1, IsASeq
    <3>3. DOMAIN s = 1..N
      BY <2>3, <2>5
    <3> QED BY <2>5, <3>2, <3>3, LenProperties
  <2>8. FlattenSeq(s) \in Seq(Sub(n))
    BY <2>5, <2>7, FlattenElements
  <2>9. <<n>> \in Seq(Sub(n))
    <3>1. n \in Sub(n)
      BY DEF Sub
    <3> QED BY <3>1
  <2>10. before(n) \in Seq(Sub(n))
    BY <2>4, <2>8, <2>9, ConcatProperties
  <2> QED BY <2>2, <2>10
<1>3. before(x) \in Seq(Sub(x))
  <2> HIDE DEF before, Sub
  <2> QED BY <1>1, <1>2
<1>4. \A y \in ToSet(before(x)) : y \in Sub(x)
  <2> HIDE DEF before, Sub
  <2> QED BY <1>3, ElementOfSeq, LenProperties DEF ToSet
<1>5. Seq(Sub(x)) \subseteq Seq(D)
  <2>1. Sub(x) \subseteq D
    OBVIOUS
  <2> HIDE DEF Sub, D
  <2> QED BY <2>1, SeqMonotonic
<1> QED BY <1>3, <1>4, <1>5
=============================================================================
