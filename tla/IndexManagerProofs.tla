------------------------- MODULE IndexManagerProofs -------------------------
(***************************************************************************)
(* Proofs about the indexes of a database, for any names, keys, row ids   *)
(* and tables and any order of the trees: what a file gives back, what a   *)
(* range search answers, and that each index holds its map. A file of a    *)
(* tree of three levels does not give it back; files are taken to have two *)
(* at most.                                                                *)
(***************************************************************************)
EXTENDS IndexManager, BPlusTreeProofs
-----------------------------------------------------------------------------
(* Saving and loading: a tree of one or two levels.                        *)

\* A larger key does not go to an earlier child.
LEMMA PartsAscend ==
  ASSUME NEW node, node.keys \in Seq(Int), Ascending(node.keys), NEW R \in SUBSET Int,
         NEW a \in Int, NEW b \in Int, a < b, NEW x \in Part(node, R, a), NEW y \in Part(node, R, b)
  PROVE  x < y
<1>1. x \in Int /\ y \in Int /\ FindChildIndex(node, x) + 1 = a /\ FindChildIndex(node, y) + 1 = b
  BY DEF Part
<1>2. PICK N, p, q : N = Len(node.keys) /\ p = FindChildIndex(node, x) /\ q = FindChildIndex(node, y)
  OBVIOUS
<1>3. N \in Nat
  BY <1>2, LenProperties
<1>4. p \in 0..N /\ \A i \in 1..N : node.keys[i] <= x <=> i <= p
  BY <1>1, <1>2, FindChildCounts
<1>5. q \in 0..N /\ \A i \in 1..N : node.keys[i] <= y <=> i <= q
  BY <1>1, <1>2, FindChildCounts
<1>6. p < q
  BY <1>1, <1>2, <1>3, <1>4, <1>5
<1>7. q \in 1..N /\ q <= q /\ ~(q <= p)
  BY <1>3, <1>4, <1>5, <1>6
<1>8. PICK k \in Int : k = node.keys[q]
  <2>1. node.keys[q] \in Int
    BY <1>2, <1>7, ElementOfSeq
  <2> QED BY <2>1
<1>9. k <= y /\ ~(k <= x)
  BY SMTT(30), <1>4, <1>5, <1>7, <1>8
<1> QED BY <1>1, <1>9

\* nodes2 is a root with N + 1 leaves, numbered in order: those of a tree with two levels.
Flat(tree, N, nodes2) ==
  LET top == tree.nodes[tree.root]
  IN  /\ N \in Nat /\ N = Len(top.keys)
      /\ nodes2 = [x \in 1..N + 2 |-> nodes2[x]]
      /\ nodes2[1] = Inner(top.keys, [c \in 1..N + 1 |-> 1 + c])
      /\ \A c \in 1..N + 1 :
           nodes2[c + 1] = Leaf(tree.nodes[top.children[c]].keys, tree.nodes[top.children[c]].values,
                                IF c = N + 1 THEN NoNode ELSE c + 2)

\* The root and the leaves of a flat tree, field by field.
LEMMA FlatNodes ==
  ASSUME NEW tree, NEW level, NEW range, NEW pos, NEW m, IsTreeBy(tree, level, range, pos, m),
         ~tree.nodes[tree.root].leaf, level[tree.root] = 1,
         NEW N, NEW nodes2, Flat(tree, N, nodes2)
  PROVE  LET top == tree.nodes[tree.root]
         IN  /\ nodes2[1] \in AllNodes /\ ~nodes2[1].leaf /\ nodes2[1].keys = top.keys
             /\ nodes2[1].children \in Seq(Nat) /\ Len(nodes2[1].children) = N + 1
             /\ DOMAIN nodes2[1].children = 1..N + 1
             /\ \A c \in 1..N + 1 : nodes2[1].children[c] = c + 1
             /\ top.keys \in Seq(Int) /\ Ascending(top.keys) /\ N \in 1..tree.order
             /\ \A c \in 1..N + 1 :
                  /\ nodes2[c + 1] \in AllNodes /\ nodes2[c + 1].leaf
                  /\ IsLeaf(tree.order, nodes2[c + 1])
                  /\ nodes2[c + 1].keys = tree.nodes[top.children[c]].keys
                  /\ nodes2[c + 1].values = tree.nodes[top.children[c]].values
                  /\ nodes2[c + 1].next = IF c = N + 1 THEN NoNode ELSE c + 2
                  /\ top.children[c] \in DOMAIN tree.nodes /\ tree.nodes[top.children[c]].leaf
                  /\ range[top.children[c]] = Part(top, Int, c)
<1>1. PICK top : top = tree.nodes[tree.root]
  OBVIOUS
<1>2. tree.root \in DOMAIN tree.nodes /\ range[tree.root] = Int
  BY DEF IsTreeBy
<1>3. top.keys \in Seq(Int) /\ Ascending(top.keys) /\ IsInner(tree.order, top)
  BY <1>1, <1>2, TreeNode
<1>4. N \in Nat /\ N = Len(top.keys) /\ N \in 1..tree.order
  BY ZenonT(30), <1>1, <1>3 DEF Flat, IsInner
<1>5. \A c \in 1..N + 1 : /\ top.children[c] \in DOMAIN tree.nodes
                          /\ level[top.children[c]] = level[tree.root] - 1
                          /\ range[top.children[c]] = Part(top, Int, c)
  BY SMTT(30), <1>1, <1>2, <1>4, Children
<1>6. PICK kids : kids = [c \in 1..N + 1 |-> 1 + c]
  OBVIOUS
<1>7. kids \in Seq(Nat) /\ Len(kids) = N + 1 /\ DOMAIN kids = 1..N + 1
  <2>1. N + 1 \in Nat /\ \A c \in 1..N + 1 : 1 + c \in Nat
    BY <1>4
  <2>2. kids \in Seq(Nat)
    BY <1>6, <2>1, IsASeq
  <2>3. DOMAIN kids = 1..N + 1
    BY <1>6
  <2> QED BY <2>1, <2>2, <2>3, LenProperties
<1>8. \A c \in 1..N + 1 : kids[c] = c + 1
  BY SMTT(30), <1>4, <1>6
<1>9. nodes2[1] = Inner(top.keys, kids)
  BY ZenonT(30), <1>1, <1>6 DEF Flat
<1>10. nodes2[1] \in AllNodes /\ ~nodes2[1].leaf /\ nodes2[1].keys = top.keys /\ nodes2[1].children = kids
  BY <1>3, <1>7, <1>9, InnerFields
<1>11. ASSUME NEW c \in 1..N + 1
       PROVE  /\ nodes2[c + 1] \in AllNodes /\ nodes2[c + 1].leaf
              /\ IsLeaf(tree.order, nodes2[c + 1])
              /\ nodes2[c + 1].keys = tree.nodes[top.children[c]].keys
              /\ nodes2[c + 1].values = tree.nodes[top.children[c]].values
              /\ nodes2[c + 1].next = IF c = N + 1 THEN NoNode ELSE c + 2
              /\ tree.nodes[top.children[c]].leaf
  <2>1. PICK x, node : /\ x = top.children[c] /\ x \in DOMAIN tree.nodes
                       /\ level[x] = level[tree.root] - 1 /\ node = tree.nodes[x]
    BY <1>5
  <2>2. node.leaf
    <3>1. level[x] = 0
      BY <2>1
    <3> QED BY <2>1, <3>1, TreeNode
  <2>3. /\ node.keys \in Seq(Int) /\ node.values \in Seq(Nat) /\ IsLeaf(tree.order, node)
    BY <2>1, <2>2, TreeNode
  <2>4. PICK next : next = IF c = N + 1 THEN NoNode ELSE c + 2
    OBVIOUS
  <2>5. next \in Nat
    BY SMTT(30), <1>4, <2>4 DEF NoNode
  <2>6. nodes2[c + 1] = Leaf(node.keys, node.values, next)
    BY ZenonT(30), <1>1, <2>1, <2>4 DEF Flat
  <2>7. PICK L : L = nodes2[c + 1]
    OBVIOUS
  <2>8. /\ L \in AllNodes /\ L.leaf /\ L.keys = node.keys /\ L.values = node.values
        /\ L.next = next /\ L.children = <<>>
    BY <2>3, <2>5, <2>6, <2>7, LeafFields
  <2>9. IsLeaf(tree.order, L)
    BY <2>3, <2>8 DEF IsLeaf
  <2> QED BY <2>1, <2>2, <2>4, <2>7, <2>8, <2>9
<1> QED BY ZenonT(30), <1>1, <1>3, <1>4, <1>5, <1>7, <1>8, <1>10, <1>11

\* A function on the numbers up to n is a sequence.
LEMMA SequenceOfLength ==
  ASSUME NEW S, NEW n \in Nat, NEW f \in [1..n -> S]
  PROVE  f \in Seq(S) /\ Len(f) = n
<1>1. f \in Seq(S)
  BY SeqDef
<1> QED BY <1>1, LenProperties

\* What FlatNodes says, with nothing else in sight.
FlatParts(top, N, nodes, order, range, nodes2) ==
  /\ nodes2[1] \in AllNodes /\ ~nodes2[1].leaf /\ nodes2[1].keys = top.keys
  /\ nodes2[1].children \in Seq(Nat) /\ Len(nodes2[1].children) = N + 1
  /\ DOMAIN nodes2[1].children = 1..N + 1
  /\ \A c \in 1..N + 1 : nodes2[1].children[c] = c + 1
  /\ top.keys \in Seq(Int) /\ Ascending(top.keys) /\ N \in 1..order /\ N = Len(top.keys)
  /\ DOMAIN nodes2 = 1..N + 2 /\ nodes2 \in [DOMAIN nodes2 -> AllNodes]
  /\ \A c \in 1..N + 1 :
       /\ nodes2[c + 1] \in AllNodes /\ nodes2[c + 1].leaf
       /\ IsLeaf(order, nodes2[c + 1])
       /\ nodes2[c + 1].keys = nodes[top.children[c]].keys
       /\ nodes2[c + 1].values = nodes[top.children[c]].values
       /\ nodes2[c + 1].next = IF c = N + 1 THEN NoNode ELSE c + 2
       /\ top.children[c] \in DOMAIN nodes /\ nodes[top.children[c]].leaf
       /\ range[top.children[c]] = Part(top, Int, c)

\* The number before the next.
LEMMA OneMore ==
  ASSUME NEW c \in Nat, NEW d, d = c + 1
  PROVE  d - 1 = c
OBVIOUS

\* A flat tree is in order.
LEMMA FlatIsLayered ==
  ASSUME NEW order \in Nat, NEW top, NEW N, NEW nodes, NEW range, NEW nodes2,
         FlatParts(top, N, nodes, order, range, nodes2),
         NEW level2, level2 = [x \in 1..N + 2 |-> IF x = 1 THEN 1 ELSE 0],
         NEW range2, range2 = [x \in 1..N + 2 |-> IF x = 1 THEN Int ELSE Part(top, Int, x - 1)],
         NEW pos2, pos2 = [x \in 1..N + 2 |-> x],
         \A c \in 1..N + 1 : KeysInRange(nodes, range, top.children[c])
  PROVE  /\ Layered(nodes2, level2, range2) /\ GoodLeaves(order, nodes2, range2)
         /\ GoodInners(order, nodes2, level2, range2, 1) /\ Linked(nodes2, range2, pos2)
<1>1. N \in Nat /\ N \in 1..order /\ DOMAIN nodes2 = 1..N + 2
  BY DEF FlatParts
<1>2. \A x \in 1..N + 2 : x # 1 => x - 1 \in 1..N + 1 /\ x - 1 + 1 = x
  BY <1>1
<1>3. /\ \A c \in 1..N + 1 : c + 1 \in 1..N + 2 /\ c + 1 # 1 /\ c + 1 - 1 = c
      /\ 1 \in 1..N + 2
  BY <1>1
<1>4. \A x \in 1..N + 2 : x # 1 =>
        /\ nodes2[x] \in AllNodes /\ nodes2[x].leaf /\ IsLeaf(order, nodes2[x])
        /\ nodes2[x].keys = nodes[top.children[x - 1]].keys
        /\ nodes2[x].next = IF x - 1 = N + 1 THEN NoNode ELSE x - 1 + 2
        /\ range[top.children[x - 1]] = Part(top, Int, x - 1)
  <2> SUFFICES ASSUME NEW x \in 1..N + 2, x # 1
               PROVE  /\ nodes2[x] \in AllNodes /\ nodes2[x].leaf /\ IsLeaf(order, nodes2[x])
                      /\ nodes2[x].keys = nodes[top.children[x - 1]].keys
                      /\ nodes2[x].next = IF x - 1 = N + 1 THEN NoNode ELSE x - 1 + 2
                      /\ range[top.children[x - 1]] = Part(top, Int, x - 1)
    OBVIOUS
  <2>1. PICK c : c = x - 1
    OBVIOUS
  <2>2. c \in 1..N + 1 /\ c + 1 = x
    BY <1>2, <2>1
  <2>3. /\ nodes2[c + 1] \in AllNodes /\ nodes2[c + 1].leaf /\ IsLeaf(order, nodes2[c + 1])
        /\ nodes2[c + 1].keys = nodes[top.children[c]].keys
        /\ nodes2[c + 1].next = IF c = N + 1 THEN NoNode ELSE c + 2
        /\ range[top.children[c]] = Part(top, Int, c)
    BY <2>2 DEF FlatParts
  <2> QED BY <2>1, <2>2, <2>3
<1>5. nodes2[1] \in AllNodes /\ ~nodes2[1].leaf
  BY DEF FlatParts
<1>6. /\ \A x \in 1..N + 2 : /\ level2[x] = IF x = 1 THEN 1 ELSE 0
                             /\ range2[x] = IF x = 1 THEN Int ELSE Part(top, Int, x - 1)
                             /\ pos2[x] = x
      /\ DOMAIN level2 = 1..N + 2 /\ DOMAIN range2 = 1..N + 2 /\ DOMAIN pos2 = 1..N + 2
  OBVIOUS
<1>7. nodes2 \in Seq(AllNodes)
  <2>1. nodes2 \in [1..N + 2 -> AllNodes] /\ N + 2 \in Nat
    BY <1>1 DEF FlatParts
  <2> QED BY <2>1, SequenceOfLength
<1>8. Layered(nodes2, level2, range2)
  <2>1. level2 \in [DOMAIN nodes2 -> Nat]
    BY <1>1
  <2>2. range2 \in [DOMAIN nodes2 -> SUBSET Int]
    <3>1. \A x \in 1..N + 2 : (IF x = 1 THEN Int ELSE Part(top, Int, x - 1)) \in SUBSET Int
      BY DEF Part
    <3> QED BY <1>1, <3>1
  <2>3. \A x \in DOMAIN nodes2 : nodes2[x].leaf <=> level2[x] = 0
    BY <1>1, <1>4, <1>5, <1>6
  <2>4. ASSUME NEW x \in DOMAIN nodes2, NEW y \in DOMAIN nodes2, x # y, level2[x] = level2[y]
        PROVE  range2[x] \cap range2[y] = {}
    <3>1. x # 1 /\ y # 1
      BY <1>1, <1>6, <2>4
    <3>2. PICK a, b : a = x - 1 /\ b = y - 1
      OBVIOUS
    <3>3. a # b
      BY <1>1, <2>4, <3>2
    <3>4. range2[x] = Part(top, Int, a) /\ range2[y] = Part(top, Int, b)
      BY <1>1, <1>6, <3>1, <3>2
    <3> QED BY <3>3, <3>4 DEF Part
  <2> QED BY ZenonT(30), <1>7, <2>1, <2>2, <2>3, <2>4 DEF Layered
<1>9. GoodLeaves(order, nodes2, range2)
  <2> SUFFICES ASSUME NEW x \in DOMAIN nodes2, nodes2[x].leaf
               PROVE  IsLeaf(order, nodes2[x]) /\ KeysInRange(nodes2, range2, x)
    BY DEF GoodLeaves
  <2>1. x # 1 /\ x \in 1..N + 2 /\ x - 1 \in 1..N + 1
    BY <1>1, <1>2, <1>5
  <2>2. PICK d : d = top.children[x - 1]
    OBVIOUS
  <2>3. KeysInRange(nodes, range, d) /\ nodes2[x].keys = nodes[d].keys /\ range2[x] = range[d]
    BY <1>4, <1>6, <2>1, <2>2
  <2>4. KeysInRange(nodes2, range2, x)
    BY <2>3 DEF KeysInRange
  <2> QED BY <1>4, <2>1, <2>4
<1>10. GoodInners(order, nodes2, level2, range2, 1)
  <2> SUFFICES ASSUME NEW x \in DOMAIN nodes2, level2[x] \in 1..1
               PROVE  GoodInner(order, nodes2, level2, range2, x)
    BY DEF GoodInners
  <2>1. x = 1
    BY <1>1, <1>6
  <2>2. PICK I : I = nodes2[1]
    OBVIOUS
  <2>3. /\ I.keys = top.keys /\ I.children \in Seq(Nat) /\ Len(I.children) = N + 1
        /\ DOMAIN I.children = 1..N + 1 /\ \A c \in 1..N + 1 : I.children[c] = c + 1
        /\ top.keys \in Seq(Int) /\ Ascending(top.keys) /\ N \in 1..order /\ N = Len(top.keys)
    BY <2>2 DEF FlatParts
  <2>4. IsInner(order, I)
    BY <2>3 DEF IsInner
  <2>5. KeysInRange(nodes2, range2, 1)
    <3>1. range2[1] = Int
      BY <1>3, <1>6
    <3>2. \A i \in DOMAIN I.keys : I.keys[i] \in Int
      BY <2>3, ElementOfSeq, LenProperties
    <3> QED BY <2>2, <3>1, <3>2 DEF KeysInRange
  <2>6. ASSUME NEW c \in DOMAIN I.children
        PROVE  /\ I.children[c] \in DOMAIN nodes2 /\ level2[I.children[c]] = level2[1] - 1
               /\ range2[I.children[c]] = Part(I, range2[1], c)
    <3>1. c \in 1..N + 1 /\ I.children[c] = c + 1
      BY <2>3
    <3>2. c + 1 \in 1..N + 2 /\ c + 1 # 1 /\ c + 1 - 1 = c
      BY <1>3, <3>1
    <3>3. level2[c + 1] = 0 /\ level2[1] = 1 /\ range2[1] = Int /\ range2[c + 1] = Part(top, Int, c)
      <4>1. PICK d : d = c + 1
        OBVIOUS
      <4>2. d \in 1..N + 2 /\ d # 1 /\ d - 1 = c
        <5>1. d \in 1..N + 2 /\ d # 1
          BY <3>2, <4>1
        <5>2. c \in Nat
          BY <1>1, <3>1
        <5>3. d - 1 = c
          BY <4>1, <5>2, OneMore
        <5> QED BY <5>1, <5>3
      <4>3. level2[d] = 0 /\ range2[d] = Part(top, Int, c)
        BY <1>6, <4>2
      <4> QED BY <1>3, <1>6, <4>1, <4>3
    <3>4. Part(top, Int, c) = Part(I, Int, c)
      BY <2>3 DEF Part, FindChildIndex
    <3> QED BY <1>1, <3>1, <3>2, <3>3, <3>4
  <2> QED BY ZenonT(30), <2>1, <2>2, <2>4, <2>5, <2>6 DEF GoodInner
<1>11. Linked(nodes2, range2, pos2)
  <2>1. pos2 \in [DOMAIN nodes2 -> Nat]
    BY <1>1
  <2>2. ASSUME NEW a \in DOMAIN nodes2, NEW b \in DOMAIN nodes2, nodes2[a].leaf, nodes2[b].leaf
        PROVE  /\ a # b => pos2[a] # pos2[b]
               /\ pos2[a] < pos2[b] => \A x \in range2[a], y \in range2[b] : x < y
    <3>1. a # 1 /\ b # 1 /\ pos2[a] = a /\ pos2[b] = b
      BY <1>1, <1>5, <1>6, <2>2
    <3>2. PICK c, d : c = a - 1 /\ d = b - 1
      OBVIOUS
    <3>3. range2[a] = Part(top, Int, c) /\ range2[b] = Part(top, Int, d)
      BY <1>1, <1>6, <3>1, <3>2
    <3>4. c \in Int /\ d \in Int /\ (a < b => c < d)
      BY <1>1, <3>2
    <3>5. top.keys \in Seq(Int) /\ Ascending(top.keys)
      BY DEF FlatParts
    <3>6. a < b => \A x \in range2[a], y \in range2[b] : x < y
      <4> SUFFICES ASSUME c < d, NEW x \in Part(top, Int, c), NEW y \in Part(top, Int, d) PROVE x < y
        BY <3>3, <3>4
      <4> QED BY <3>4, <3>5, PartsAscend
    <3> QED BY <3>1, <3>6
  <2>3. ASSUME NEW x \in DOMAIN nodes2, nodes2[x].leaf
        PROVE  IF nodes2[x].next = NoNode
               THEN \A l \in DOMAIN nodes2 : nodes2[l].leaf => pos2[l] <= pos2[x]
               ELSE /\ nodes2[x].next \in DOMAIN nodes2 /\ nodes2[nodes2[x].next].leaf
                    /\ pos2[nodes2[x].next] = pos2[x] + 1
    <3>1. x # 1 /\ x \in 1..N + 2
      BY <1>1, <1>5, <2>3
    <3>2. nodes2[x].next = IF x - 1 = N + 1 THEN NoNode ELSE x - 1 + 2
      BY <1>4, <3>1
    <3>3. CASE x = N + 2
      <4>1. x - 1 = N + 1 /\ \A l \in 1..N + 2 : l <= x
        BY <1>1, <3>3
      <4>2. nodes2[x].next = NoNode
        BY <3>2, <4>1
      <4> QED BY <1>1, <1>6, <3>1, <4>1, <4>2
    <3>4. CASE x # N + 2
      <4>1. /\ x - 1 # N + 1 /\ x - 1 + 2 = x + 1 /\ x + 1 # 0 /\ x + 1 \in 1..N + 2 /\ x + 1 # 1
        BY <1>1, <3>1, <3>4
      <4>2. nodes2[x].next = x + 1
        BY <3>2, <4>1
      <4>3. nodes2[x + 1].leaf /\ pos2[x + 1] = x + 1 /\ pos2[x] = x
        BY <1>4, <1>6, <3>1, <4>1
      <4> QED BY <1>1, <4>1, <4>2, <4>3 DEF NoNode
    <3> QED BY <3>3, <3>4
  <2> QED BY <2>1, <2>2, <2>3 DEF Linked
<1> QED BY <1>8, <1>9, <1>10, <1>11

\* A flat tree with the root and the leaves of a tree of two levels holds the same map.
LEMMA FlatIsTree ==
  ASSUME NEW tree, NEW level, NEW range, NEW pos, NEW m, IsTreeBy(tree, level, range, pos, m),
         ~tree.nodes[tree.root].leaf, level[tree.root] = 1,
         NEW N, NEW nodes2, Flat(tree, N, nodes2),
         NEW t2, t2.order = tree.order, t2.root = 1, t2.nodes = nodes2
  PROVE  IsTree(t2, m)
<1>1. PICK top, nodes, order : top = tree.nodes[tree.root] /\ nodes = tree.nodes /\ order = tree.order
  OBVIOUS
<1>2. /\ order \in Nat /\ order >= 2 /\ tree.root \in DOMAIN nodes /\ range[tree.root] = Int
      /\ Filed(nodes, m)
  BY SMTT(30), <1>1 DEF IsTreeBy, UpTo
<1>3. /\ nodes2[1] \in AllNodes /\ ~nodes2[1].leaf /\ nodes2[1].keys = top.keys
      /\ nodes2[1].children \in Seq(Nat) /\ Len(nodes2[1].children) = N + 1
      /\ DOMAIN nodes2[1].children = 1..N + 1
      /\ \A c \in 1..N + 1 : nodes2[1].children[c] = c + 1
      /\ top.keys \in Seq(Int) /\ Ascending(top.keys) /\ N \in 1..order
      /\ \A c \in 1..N + 1 :
           /\ nodes2[c + 1] \in AllNodes /\ nodes2[c + 1].leaf
           /\ IsLeaf(order, nodes2[c + 1])
           /\ nodes2[c + 1].keys = nodes[top.children[c]].keys
           /\ nodes2[c + 1].values = nodes[top.children[c]].values
           /\ nodes2[c + 1].next = IF c = N + 1 THEN NoNode ELSE c + 2
           /\ top.children[c] \in DOMAIN nodes /\ nodes[top.children[c]].leaf
           /\ range[top.children[c]] = Part(top, Int, c)
  BY SMTT(30), <1>1, FlatNodes
<1>4. N \in Nat /\ N = Len(top.keys) /\ nodes2 = [x \in 1..N + 2 |-> nodes2[x]]
  BY ZenonT(30), <1>1 DEF Flat
<1>5. DOMAIN nodes2 = 1..N + 2
  BY <1>4
<1>6. \A x \in 1..N + 2 : x = 1 \/ (x - 1 \in 1..N + 1 /\ x - 1 + 1 = x)
  BY <1>4
<1>7. nodes2 \in [DOMAIN nodes2 -> AllNodes]
  <2>1. ASSUME NEW x \in 1..N + 2 PROVE nodes2[x] \in AllNodes
    <3>1. CASE x = 1
      BY <1>3, <3>1
    <3>2. CASE x # 1
      <4>1. PICK c \in 1..N + 1 : c + 1 = x
        BY <1>6, <3>2
      <4> QED BY <1>3, <4>1
    <3> QED BY <3>1, <3>2
  <2> QED BY <1>4, <1>5, <2>1
<1>8. FlatParts(top, N, nodes, order, range, nodes2)
  BY <1>3, <1>4, <1>5, <1>7 DEF FlatParts
<1>9. PICK level2, range2, pos2 :
        /\ level2 = [x \in 1..N + 2 |-> IF x = 1 THEN 1 ELSE 0]
        /\ range2 = [x \in 1..N + 2 |-> IF x = 1 THEN Int ELSE Part(top, Int, x - 1)]
        /\ pos2 = [x \in 1..N + 2 |-> x]
  BY ZenonT(30)
<1>10. \A c \in 1..N + 1 : KeysInRange(nodes, range, top.children[c])
  BY SMTT(30), <1>1, <1>3, TreeNode
<1>11. /\ Layered(nodes2, level2, range2) /\ GoodLeaves(order, nodes2, range2)
       /\ GoodInners(order, nodes2, level2, range2, 1) /\ Linked(nodes2, range2, pos2)
  BY <1>2, <1>8, <1>9, <1>10, FlatIsLayered
<1>12. Filed(nodes2, m)
  <2>1. ASSUME NEW x \in DOMAIN nodes2, nodes2[x].leaf, NEW i \in DOMAIN nodes2[x].keys
        PROVE  nodes2[x].keys[i] \in DOMAIN m /\ m[nodes2[x].keys[i]] = nodes2[x].values[i]
    <3>0. ~nodes2[1].leaf
      BY <1>3
    <3>1. PICK c \in 1..N + 1 : c + 1 = x
      BY <1>5, <1>6, <2>1, <3>0
    <3>2. PICK d \in DOMAIN nodes : d = top.children[c]
      BY <1>3
    <3>3. nodes2[x].keys = nodes[d].keys /\ nodes2[x].values = nodes[d].values /\ nodes[d].leaf
      BY <1>3, <3>1, <3>2
    <3>4. \A j \in DOMAIN nodes[d].keys :
            nodes[d].keys[j] \in DOMAIN m /\ m[nodes[d].keys[j]] = nodes[d].values[j]
      BY <1>2, <3>2, <3>3 DEF Filed
    <3> QED BY <2>1, <3>3, <3>4
  <2>2. ASSUME NEW k \in DOMAIN m
        PROVE  \E x \in DOMAIN nodes2 :
                 nodes2[x].leaf /\ \E i \in DOMAIN nodes2[x].keys : nodes2[x].keys[i] = k
    <3>1. PICK n \in DOMAIN nodes : nodes[n].leaf /\ \E i \in DOMAIN nodes[n].keys : nodes[n].keys[i] = k
      BY <1>2 DEF Filed
    <3>2. k \in range[n] /\ range[n] \in SUBSET Int
      BY <1>1, <3>1, TreeNode DEF KeysInRange
    <3>3. k \in Int
      BY <3>2
    <3>4. PICK c : c \in DOMAIN top.children /\ k \in range[top.children[c]]
      BY <1>1, <1>2, <3>3, WayDown
    <3>5. c \in 1..N + 1
      <4>1. DOMAIN top.children = 1..Len(top.keys) + 1
        BY <1>1, <1>2, Children
      <4> QED BY <1>4, <3>4, <4>1
    <3>6. PICK d \in DOMAIN nodes : d = top.children[c] /\ nodes[d].leaf
      BY <1>3, <3>5
    <3>7. d = n
      BY <1>1, <3>1, <3>2, <3>4, <3>6, OneLeaf
    <3>8. c + 1 \in DOMAIN nodes2 /\ nodes2[c + 1].leaf /\ nodes2[c + 1].keys = nodes[n].keys
      <4>1. c + 1 \in 1..N + 2
        BY <1>4, <3>5
      <4>2. nodes2[c + 1].leaf /\ nodes2[c + 1].keys = nodes[top.children[c]].keys
        BY <1>3, <3>5
      <4>3. top.children[c] = n
        BY <3>6, <3>7
      <4> QED BY <1>5, <4>1, <4>2, <4>3
    <3> QED BY <3>1, <3>8
  <2> QED BY <2>1, <2>2 DEF Filed
<1>13. /\ 1 \in DOMAIN nodes2 /\ range2[1] = Int /\ level2[1] = 1
       /\ \A x \in DOMAIN nodes2 : level2[x] <= 1
  BY <1>4, <1>5, <1>9
<1>14. /\ t2.order \in Nat /\ t2.order >= 2 /\ t2.root \in DOMAIN t2.nodes /\ range2[t2.root] = Int
       /\ t2.nodes = nodes2 /\ t2.order = order /\ level2[t2.root] = 1
       /\ \A x \in DOMAIN t2.nodes : level2[x] <= level2[t2.root]
  BY <1>1, <1>2, <1>13
<1>15. UpTo(t2.order, t2.nodes, level2[t2.root], level2, range2, pos2, m)
  BY <1>11, <1>12, <1>14 DEF UpTo
<1>16. IsTreeBy(t2, level2, range2, pos2, m)
  BY <1>14, <1>15 DEF IsTreeBy
<1> QED BY <1>16 DEF IsTree

\* So does the root alone, of a tree that has one level.
LEMMA LeafIsTree ==
  ASSUME NEW tree, NEW level, NEW range, NEW pos, NEW m, IsTreeBy(tree, level, range, pos, m),
         tree.nodes[tree.root].leaf,
         NEW nodes2, nodes2 = [x \in 1..1 |-> nodes2[x]],
         nodes2[1] = Leaf(tree.nodes[tree.root].keys, tree.nodes[tree.root].values, NoNode),
         NEW t2, t2.order = tree.order, t2.root = 1, t2.nodes = nodes2
  PROVE  IsTree(t2, m)
<1>1. PICK top, nodes, order, L :
        /\ top = tree.nodes[tree.root] /\ nodes = tree.nodes /\ order = tree.order /\ L = nodes2[1]
  OBVIOUS
<1>2. /\ order \in Nat /\ order >= 2 /\ tree.root \in DOMAIN nodes /\ range[tree.root] = Int
      /\ Filed(nodes, m)
  BY <1>1 DEF IsTreeBy, UpTo
<1>3. /\ top.keys \in Seq(Int) /\ top.values \in Seq(Nat) /\ IsLeaf(order, top) /\ NoNode \in Nat
  BY SMTT(30), <1>1, <1>2, TreeNode DEF NoNode
<1>4. /\ L \in AllNodes /\ L.leaf /\ L.keys = top.keys /\ L.values = top.values /\ L.next = NoNode
      /\ L.children = <<>>
  BY <1>1, <1>3, LeafFields
<1>5. DOMAIN nodes2 = {1} /\ nodes2[1] = L /\ nodes2 \in Seq(AllNodes)
  <2>1. DOMAIN nodes2 = 1..1
    OBVIOUS
  <2>2. nodes2 \in [1..1 -> AllNodes]
    <3>1. \A x \in 1..1 : nodes2[x] \in AllNodes
      BY <1>1, <1>4
    <3> QED BY <3>1
  <2> QED BY <1>1, <2>1, <2>2, SequenceOfLength
<1>6. PICK level2, range2, pos2 : /\ level2 = [n \in {1} |-> 0] /\ range2 = [n \in {1} |-> Int]
                                  /\ pos2 = [n \in {1} |-> 0]
  OBVIOUS
<1>7. Layered(nodes2, level2, range2)
  BY <1>4, <1>5, <1>6 DEF Layered
<1>8. GoodLeaves(order, nodes2, range2)
  <2>1. IsLeaf(order, L)
    BY <1>3, <1>4 DEF IsLeaf
  <2>2. \A i \in DOMAIN L.keys : L.keys[i] \in Int
    BY <1>3, <1>4, ElementOfSeq, LenProperties
  <2>3. KeysInRange(nodes2, range2, 1)
    BY <1>5, <1>6, <2>2 DEF KeysInRange
  <2> QED BY <1>5, <2>1, <2>3 DEF GoodLeaves
<1>9. level2[1] = 0 /\ range2[1] = Int /\ \A n \in DOMAIN nodes2 : level2[n] <= 0 /\ level2[n] \notin 1..0
  BY <1>5, <1>6
<1>10. Linked(nodes2, range2, pos2)
  BY <1>4, <1>5, <1>6 DEF Linked
<1>11. Filed(nodes2, m)
  <2>1. \A i \in DOMAIN L.keys : L.keys[i] \in DOMAIN m /\ m[L.keys[i]] = L.values[i]
    BY SMTT(30), <1>1, <1>2, <1>4 DEF Filed
  <2>2. ASSUME NEW k \in DOMAIN m PROVE \E i \in DOMAIN L.keys : L.keys[i] = k
    <3>1. PICK n \in DOMAIN nodes : nodes[n].leaf /\ \E i \in DOMAIN nodes[n].keys : nodes[n].keys[i] = k
      BY <1>2 DEF Filed
    <3>2. k \in range[n] /\ range[n] \in SUBSET Int
      BY <1>1, <3>1, TreeNode DEF KeysInRange
    <3>3. n = tree.root
      BY <1>1, <1>2, <3>1, <3>2, OneLeaf
    <3> QED BY <1>1, <1>4, <3>1, <3>3
  <2> QED BY SMTT(30), <1>4, <1>5, <2>1, <2>2 DEF Filed
<1>12. IsTreeBy(t2, level2, range2, pos2, m)
  BY <1>1, <1>2, <1>5, <1>7, <1>8, <1>9, <1>10, <1>11 DEF IsTreeBy, UpTo, GoodInners
<1> QED BY <1>12 DEF IsTree

\* The order in which the file has the nodes: a leaf has no other node below it.
LEMMA LeafPreorder ==
  ASSUME NEW tree, NEW level, NEW range, NEW pos, NEW m, IsTreeBy(tree, level, range, pos, m),
         NEW x \in DOMAIN tree.nodes, tree.nodes[x].leaf
  PROVE  Preorder(tree.nodes, x) = <<x>>
<1>1. PICK s : s = [c \in DOMAIN tree.nodes[x].children |->
                      Preorder(tree.nodes, tree.nodes[x].children[c])]
  OBVIOUS
<1>2. Preorder(tree.nodes, x) = <<x>> \o FlattenSeq(s)
  <2>1. Preorder(tree.nodes, x) =
          <<x>> \o FlattenSeq([c \in DOMAIN tree.nodes[x].children |->
                                 Preorder(tree.nodes, tree.nodes[x].children[c])])
    BY PreorderUnfolds
  <2> QED BY <1>1, <2>1
<1>3. tree.nodes[x].children = <<>>
  BY TreeNode DEF IsLeaf
<1>4. s \in Seq(Nat) /\ Len(s) = 0
  <2>1. DOMAIN s = {}
    BY <1>1, <1>3
  <2>2. s \in [1..0 -> Nat]
    BY <1>1, <2>1
  <2> QED BY <2>2, SequenceOfLength
<1>5. s = <<>> /\ FlattenSeq(s) = <<>>
  BY <1>4, EmptySeq DEF FlattenSeq
<1>6. <<x>> \in Seq({x})
  OBVIOUS
<1> QED BY <1>2, <1>5, <1>6, ConcatEmptySeq

\* One element, and the flattened sequence of others.
Ones(S, N, kids, first, s, order) ==
  /\ N \in Nat /\ N # 0 /\ kids \in Seq(S) /\ Len(kids) = N /\ first \in S
  /\ Len(s) = N /\ \A c \in 1..N : s[c] = <<kids[c]>>
  /\ order = <<first>> \o FlattenSeq(s)

\* A node before its children.
LEMMA OneBefore ==
  ASSUME NEW S, NEW N, NEW kids, NEW first, NEW s, NEW order, Ones(S, N, kids, first, s, order)
  PROVE  /\ order \in Seq(S) /\ Len(order) = N + 1 /\ DOMAIN order = 1..N + 1
         /\ order[1] = first /\ \A c \in 1..N : order[c + 1] = kids[c]
<1> USE DEF Ones
<1>1. FlattenSeq(s) = kids
  BY FlattenOnes
<1>2. PICK a : a = <<first>>
  OBVIOUS
<1>3. a \in Seq(S) /\ Len(a) = 1 /\ a[1] = first
  BY <1>2
<1>4. order = a \o kids
  BY <1>1, <1>2
<1>5. /\ order \in Seq(S) /\ Len(order) = Len(a) + Len(kids)
      /\ \A i \in 1..Len(a) + Len(kids) :
           order[i] = IF i <= Len(a) THEN a[i] ELSE kids[i - Len(a)]
  <2>1. PICK v : v = a \o kids
    OBVIOUS
  <2>2. /\ v \in Seq(S) /\ Len(v) = Len(a) + Len(kids)
        /\ \A i \in 1..Len(a) + Len(kids) :
             v[i] = IF i <= Len(a) THEN a[i] ELSE kids[i - Len(a)]
    BY <1>3, <2>1, ConcatProperties
  <2> QED BY <1>4, <2>1, <2>2
<1>6. Len(order) = N + 1 /\ DOMAIN order = 1..N + 1
  <2>1. Len(order) = N + 1
    BY <1>3, <1>5
  <2> QED BY <1>5, <2>1, LenProperties
<1>7. order[1] = first
  <2>1. 1 \in 1..Len(a) + Len(kids) /\ 1 <= Len(a)
    BY <1>3
  <2> QED BY <1>3, <1>5, <2>1
<1>8. ASSUME NEW c \in 1..N PROVE order[c + 1] = kids[c]
  <2>1. c + 1 \in 1..Len(a) + Len(kids) /\ ~(c + 1 <= Len(a)) /\ c + 1 - Len(a) = c
    BY <1>3
  <2> QED BY SMTT(30), <1>5, <2>1
<1> QED BY <1>5, <1>6, <1>7, <1>8

\* The root and the leaves of a tree with two levels, from left to right.
TwoLevels(tree, level, kids, N, order) ==
  /\ ~tree.nodes[tree.root].leaf /\ level[tree.root] = 1
  /\ kids = tree.nodes[tree.root].children /\ N = Len(tree.nodes[tree.root].keys)
  /\ order = Preorder(tree.nodes, tree.root)

\* The preorder of a tree with two levels is its root and then the leaves, in order.
LEMMA FlatPreorder ==
  ASSUME NEW tree, NEW level, NEW range, NEW pos, NEW m, IsTreeBy(tree, level, range, pos, m),
         NEW kids, NEW N, NEW order, TwoLevels(tree, level, kids, N, order)
  PROVE  /\ N \in Nat /\ kids \in Seq(Nat) /\ Len(kids) = N + 1
         /\ \A c \in 1..N + 1 : kids[c] \in DOMAIN tree.nodes /\ tree.nodes[kids[c]].leaf
         /\ order \in Seq(Nat) /\ Len(order) = N + 2 /\ DOMAIN order = 1..N + 2
         /\ order[1] = tree.root
         /\ \A c \in 1..N + 1 : order[c + 1] = kids[c]
<1>1. tree.root \in DOMAIN tree.nodes /\ tree.nodes \in Seq(AllNodes)
  BY SMTT(30) DEF IsTreeBy, UpTo, Layered
<1>2. /\ DOMAIN kids = 1..Len(kids) /\ Len(kids) = N + 1 /\ N \in Nat /\ N # 0
      /\ kids \in Seq(Nat)
      /\ \A c \in DOMAIN kids : kids[c] \in DOMAIN tree.nodes /\ level[kids[c]] = level[tree.root] - 1
  <2>1. PICK n : n = tree.root /\ n \in DOMAIN tree.nodes
    BY <1>1
  <2>2. ~tree.nodes[n].leaf /\ kids = tree.nodes[n].children /\ N = Len(tree.nodes[n].keys)
    BY SMTT(30), <2>1 DEF TwoLevels
  <2>3. /\ DOMAIN tree.nodes[n].children = 1..Len(tree.nodes[n].children)
        /\ Len(tree.nodes[n].children) = Len(tree.nodes[n].keys) + 1
        /\ Len(tree.nodes[n].keys) \in Nat /\ Len(tree.nodes[n].children) \in Nat
        /\ Len(tree.nodes[n].keys) # 0 /\ 1 \in DOMAIN tree.nodes[n].children
        /\ \A c \in DOMAIN tree.nodes[n].children :
             /\ tree.nodes[n].children[c] \in DOMAIN tree.nodes
             /\ level[tree.nodes[n].children[c]] = level[n] - 1
             /\ range[tree.nodes[n].children[c]] = Part(tree.nodes[n], range[n], c)
    BY SMTT(30), <2>1, <2>2, Children
  <2>4. tree.nodes[n].children \in Seq(Nat)
    BY <2>1, TreeNode
  <2> QED BY <2>1, <2>2, <2>3, <2>4
<1>3. N + 1 \in Nat /\ N + 1 # 0 /\ N + 1 + 1 = N + 2 /\ DOMAIN kids = 1..N + 1
  BY <1>2
<1>4. ASSUME NEW c \in 1..N + 1
      PROVE  /\ kids[c] \in DOMAIN tree.nodes /\ tree.nodes[kids[c]].leaf
             /\ Preorder(tree.nodes, kids[c]) = <<kids[c]>>
  <2>1. PICK k : k = kids[c] /\ k \in DOMAIN tree.nodes /\ level[k] = level[tree.root] - 1
    BY <1>2, <1>3
  <2>2. level[k] = 0
    BY <2>1 DEF TwoLevels
  <2>3. tree.nodes[k].leaf
    BY <2>1, <2>2, TreeNode
  <2>4. Preorder(tree.nodes, k) = <<k>>
    BY <2>1, <2>3, LeafPreorder
  <2> QED BY <2>1, <2>3, <2>4
<1>5. PICK s : s = [c \in DOMAIN kids |-> Preorder(tree.nodes, kids[c])]
  BY ZenonT(30)
<1>6. order = <<tree.root>> \o FlattenSeq(s)
  <2>1. Preorder(tree.nodes, tree.root) =
          <<tree.root>> \o FlattenSeq([c \in DOMAIN tree.nodes[tree.root].children |->
                                         Preorder(tree.nodes, tree.nodes[tree.root].children[c])])
    BY <1>1, PreorderUnfolds
  <2> QED BY ZenonT(30), <1>5, <2>1 DEF TwoLevels
<1>7. \A c \in 1..N + 1 : s[c] = <<kids[c]>> /\ kids[c] \in Nat
  <2>1. \A c \in 1..N + 1 : kids[c] \in Nat
    BY <1>2, <1>3, ElementOfSeq
  <2> QED BY <1>3, <1>4, <1>5, <2>1
<1>8. Len(s) = N + 1
  <2>1. \A c \in 1..N + 1 : s[c] \in Seq(Nat)
    <3> SUFFICES ASSUME NEW c \in 1..N + 1 PROVE s[c] \in Seq(Nat)
      OBVIOUS
    <3>1. PICK k \in Nat : s[c] = <<k>>
      BY <1>7
    <3> QED BY <3>1
  <2>2. s \in [1..N + 1 -> Seq(Nat)]
    BY <1>3, <1>5, <2>1
  <2> QED BY <1>3, <2>2, SequenceOfLength
<1>9. PICK first : first = tree.root /\ first \in Nat
  BY <1>1, LenProperties
<1>10. PICK M \in Nat : M = N + 1 /\ M # 0 /\ M + 1 = N + 2
  BY <1>3
<1>11. /\ order \in Seq(Nat) /\ Len(order) = M + 1 /\ DOMAIN order = 1..M + 1
       /\ order[1] = first /\ \A c \in 1..M : order[c + 1] = kids[c]
  <2>1. Len(kids) = M /\ Len(s) = M /\ \A c \in 1..M : s[c] = <<kids[c]>>
    BY <1>2, <1>7, <1>8, <1>10
  <2>2. order = <<first>> \o FlattenSeq(s)
    BY <1>6, <1>9
  <2>3. kids \in Seq(Nat)
    BY <1>2
  <2>4. Ones(Nat, M, kids, first, s, order)
    BY <1>9, <1>10, <2>1, <2>2, <2>3 DEF Ones
  <2> QED BY <2>4, OneBefore
<1> QED BY ZenonT(30), <1>2, <1>4, <1>9, <1>10, <1>11 DEF TwoLevels
-----------------------------------------------------------------------------
(* Files.                                                                  *)

\* The least of a set of numbers.
LEMMA LeastIs ==
  ASSUME NEW A, A \subseteq Int, NEW x \in A, \A y \in A : x <= y
  PROVE  Min(A) = x
<1>1. \A y \in A : (\A z \in A : y <= z) => y = x
  BY SMT
<1> QED BY <1>1 DEF Min

\* What the file of a tree says of the node at each place of the preorder.
SavedAs(tree, order, data) ==
  /\ data.order = tree.order /\ Len(data.nodes) = Len(order)
  /\ \A i \in 1..Len(order) :
       /\ data.nodes[i].leaf = tree.nodes[order[i]].leaf
       /\ data.nodes[i].keys = tree.nodes[order[i]].keys
       /\ data.nodes[i].values = tree.nodes[order[i]].values
       /\ data.nodes[i].childCount = Len(tree.nodes[order[i]].children)

\* serialize() writes the nodes in preorder.
LEMMA SerializedNodes ==
  ASSUME NEW tree, NEW order \in Seq(Nat), order = Preorder(tree.nodes, tree.root)
  PROVE  SavedAs(tree, order, Serialize(tree))
<1>0. PICK data : data = Serialize(tree)
  OBVIOUS
<1>1. DOMAIN order = 1..Len(order) /\ Len(order) \in Nat
  BY LenProperties
<1> DEFINE Item(i) == [leaf |-> tree.nodes[order[i]].leaf, keys |-> tree.nodes[order[i]].keys,
                       values |-> tree.nodes[order[i]].values,
                       childCount |-> Len(tree.nodes[order[i]].children)]
<1>2. data = [order |-> tree.order, nodes |-> [i \in DOMAIN order |-> Item(i)]]
  BY <1>0, Zenon DEF Serialize
<1>3. data.order = tree.order /\ data.nodes = [i \in DOMAIN order |-> Item(i)]
  <2> HIDE DEF Item
  <2> QED BY <1>2
<1>4. Len(data.nodes) = Len(order)
  <2>1. PICK f : f = [i \in 1..Len(order) |-> Item(i)]
    OBVIOUS
  <2>2. f \in [1..Len(order) -> {Item(i) : i \in 1..Len(order)}]
    <3> HIDE DEF Item
    <3> QED BY <2>1
  <2>3. Len(f) = Len(order)
    BY <1>1, <2>2, SequenceOfLength
  <2> HIDE DEF Item
  <2> QED BY <1>1, <1>3, <2>1, <2>3
<1>5. ASSUME NEW i \in 1..Len(order) PROVE data.nodes[i] = Item(i)
  <2> HIDE DEF Item
  <2> QED BY <1>1, <1>3
<1>6. ASSUME NEW i PROVE /\ Item(i).leaf = tree.nodes[order[i]].leaf
                         /\ Item(i).keys = tree.nodes[order[i]].keys
                         /\ Item(i).values = tree.nodes[order[i]].values
                         /\ Item(i).childCount = Len(tree.nodes[order[i]].children)
  OBVIOUS
<1> QED
  <2> HIDE DEF Item
  <2>1. SavedAs(tree, order, data)
    BY <1>3, <1>4, <1>5, <1>6 DEF SavedAs
  <2> QED BY <1>0, <2>1

\* The nodes that are made of a file.
MadeOf(data, size, t2) ==
  /\ t2.order = data.order /\ t2.root = 1
  /\ t2.nodes = [i \in 1..size |-> t2.nodes[i]]
  /\ \A i \in 1..size :
       LET later == {j \in (i + 1)..size : data.nodes[j].leaf}
       IN  t2.nodes[i] =
             IF data.nodes[i].leaf
             THEN Leaf(data.nodes[i].keys, data.nodes[i].values,
                       IF later = {} THEN NoNode ELSE Min(later))
             ELSE Inner(data.nodes[i].keys,
                        [c \in 1..Min({data.nodes[i].childCount, size - i}) |-> i + c])

\* deserialize() makes the nodes from the file in order.
LEMMA RebuiltNodes ==
  ASSUME NEW data, NEW size \in Nat, Len(data.nodes) = size
  PROVE  MadeOf(data, size, Deserialize(data))
<1>0. PICK t2 : t2 = Deserialize(data)
  OBVIOUS
<1> DEFINE later(i) == {j \in (i + 1)..size : data.nodes[j].leaf}
           Made(i) == IF data.nodes[i].leaf
                      THEN Leaf(data.nodes[i].keys, data.nodes[i].values,
                                IF later(i) = {} THEN NoNode ELSE Min(later(i)))
                      ELSE Inner(data.nodes[i].keys,
                                 [c \in 1..Min({data.nodes[i].childCount, size - i}) |-> i + c])
<1>1. t2 = [order |-> data.order, root |-> 1, nodes |-> [i \in 1..size |-> Made(i)]]
  BY <1>0, Zenon DEF Deserialize
<1>2. /\ t2.order = data.order /\ t2.root = 1
      /\ t2.nodes = [i \in 1..size |-> Made(i)]
  <2> HIDE DEF Made
  <2> QED BY <1>1
<1>3. t2.nodes = [i \in 1..size |-> t2.nodes[i]] /\ \A i \in 1..size : t2.nodes[i] = Made(i)
  <2> HIDE DEF Made
  <2> QED BY <1>2
<1> QED
  <2>1. MadeOf(data, size, t2)
    BY <1>2, <1>3 DEF MadeOf
  <2> QED BY <1>0, <2>1

\* What FlatPreorder says of a tree of two levels.
Rooted(tree, kids, N, order) ==
  LET top == tree.nodes[tree.root]
  IN  /\ N \in Nat /\ N # 0 /\ Len(kids) = N + 1
      /\ kids = top.children /\ N = Len(top.keys) /\ ~top.leaf
      /\ \A c \in 1..N + 1 : tree.nodes[kids[c]].leaf
      /\ order \in Seq(Nat) /\ Len(order) = N + 2 /\ order[1] = tree.root
      /\ \A c \in 1..N + 1 : order[c + 1] = kids[c]

\* The least of one number.
LEMMA OneElement ==
  ASSUME NEW x \in Int
  PROVE  Min({x}) = x
<1>1. {x} \subseteq Int /\ x \in {x} /\ \A y \in {x} : x <= y
  OBVIOUS
<1> QED BY <1>1, LeastIs

\* The leaf after leaf c.
LEMMA LeafAfter ==
  ASSUME NEW N \in Nat, NEW c \in 1..N + 1, NEW later, later = (c + 1 + 1)..(N + 2)
  PROVE  IF c = N + 1 THEN later = {} ELSE later # {} /\ Min(later) = c + 2
<1>1. CASE c = N + 1
  <2>1. ~ \E j \in Int : c + 1 + 1 <= j /\ j <= N + 2
    BY <1>1
  <2>2. later = {}
    BY <2>1
  <2> QED BY <1>1, <2>2
<1>2. CASE c # N + 1
  <2>1. c + 2 \in (c + 1 + 1)..(N + 2) /\ c + 1 \in 1..N + 1 /\ c + 1 + 1 = c + 2
    BY <1>2
  <2>2. c + 2 \in later
    BY <2>1
  <2>3. later \subseteq Int /\ \A y \in later : c + 2 <= y
    <3>1. \A y \in (c + 1 + 1)..(N + 2) : y \in Int /\ c + 2 <= y
      OBVIOUS
    <3> QED BY <3>1
  <2>4. Min(later) = c + 2
    BY ZenonT(30), <2>2, <2>3, LeastIs
  <2> QED BY <1>2, <2>2, <2>4
<1> QED BY <1>1, <1>2

\* A file of a root and leaves gives them back, linked in order.
LEMMA RebuiltFlat ==
  ASSUME NEW tree, NEW kids, NEW N, NEW order, NEW data, NEW t2,
         Rooted(tree, kids, N, order), SavedAs(tree, order, data), MadeOf(data, N + 2, t2)
  PROVE  Flat(tree, N, t2.nodes) /\ t2.order = tree.order /\ t2.root = 1
<1>1. PICK top, nodes : top = tree.nodes[tree.root] /\ nodes = tree.nodes
  OBVIOUS
<1>2. /\ N \in Nat /\ N # 0 /\ Len(kids) = N + 1 /\ kids = top.children /\ N = Len(top.keys)
      /\ ~top.leaf /\ \A c \in 1..N + 1 : nodes[kids[c]].leaf
      /\ Len(order) = N + 2 /\ nodes[order[1]] = top /\ \A c \in 1..N + 1 : order[c + 1] = kids[c]
  BY <1>1 DEF Rooted
<1>3. PICK size \in Nat : size = N + 2
  BY SMTT(30), <1>2
<1>4. /\ data.order = tree.order
      /\ \A i \in 1..size :
           /\ data.nodes[i].leaf = nodes[order[i]].leaf
           /\ data.nodes[i].keys = nodes[order[i]].keys
           /\ data.nodes[i].values = nodes[order[i]].values
           /\ data.nodes[i].childCount = Len(nodes[order[i]].children)
  BY ZenonT(30), <1>1, <1>2, <1>3 DEF SavedAs
<1>5. /\ 1 \in 1..size /\ ~data.nodes[1].leaf /\ data.nodes[1].keys = top.keys
      /\ data.nodes[1].childCount = N + 1
  <2>1. 1 \in 1..size
    BY <1>2, <1>3
  <2> QED BY ZenonT(30), <1>2, <1>4, <2>1
<1>6. ASSUME NEW c \in 1..N + 1
      PROVE  /\ c + 1 \in 1..size /\ data.nodes[c + 1].leaf
             /\ data.nodes[c + 1].keys = nodes[top.children[c]].keys
             /\ data.nodes[c + 1].values = nodes[top.children[c]].values
  <2>1. c + 1 \in 1..size
    BY <1>2, <1>3
  <2>2. PICK k : k = kids[c]
    OBVIOUS
  <2>3. order[c + 1] = k /\ nodes[k].leaf /\ top.children[c] = k
    BY <1>2, <2>2
  <2>4. /\ data.nodes[c + 1].leaf = nodes[k].leaf
        /\ data.nodes[c + 1].keys = nodes[k].keys
        /\ data.nodes[c + 1].values = nodes[k].values
    BY <1>4, <2>1, <2>3
  <2> QED BY <2>1, <2>3, <2>4
<1>7. t2.nodes[1] = Inner(top.keys, [c \in 1..N + 1 |-> 1 + c])
  <2>1. Min({data.nodes[1].childCount, size - 1}) = N + 1
    <3>1. N + 1 \in Int /\ size - 1 = N + 1
      BY <1>2, <1>3
    <3>2. {data.nodes[1].childCount, size - 1} = {N + 1}
      BY <1>5, <3>1
    <3> QED BY <3>1, <3>2, OneElement
  <2>2. t2.nodes[1] = Inner(data.nodes[1].keys,
                            [c \in 1..Min({data.nodes[1].childCount, size - 1}) |-> 1 + c])
    BY <1>3, <1>5 DEF MadeOf
  <2> QED BY <1>5, <2>1, <2>2
<1>8. ASSUME NEW c \in 1..N + 1
      PROVE  t2.nodes[c + 1] = Leaf(nodes[top.children[c]].keys, nodes[top.children[c]].values,
                                    IF c = N + 1 THEN NoNode ELSE c + 2)
  <2>1. PICK i \in 1..size : i = c + 1
    BY <1>6
  <2>2. PICK later : later = {j \in (i + 1)..size : data.nodes[j].leaf}
    OBVIOUS
  <2>3. PICK keys, values, next :
          /\ keys = data.nodes[i].keys /\ values = data.nodes[i].values
          /\ next = IF later = {} THEN NoNode ELSE Min(later)
    OBVIOUS
  <2>4. data.nodes[i].leaf
    BY <1>6, <2>1
  <2>5. t2.nodes[i] =
          IF data.nodes[i].leaf
          THEN Leaf(data.nodes[i].keys, data.nodes[i].values,
                    IF {j \in (i + 1)..size : data.nodes[j].leaf} = {} THEN NoNode
                    ELSE Min({j \in (i + 1)..size : data.nodes[j].leaf}))
          ELSE Inner(data.nodes[i].keys,
                     [d \in 1..Min({data.nodes[i].childCount, size - i}) |-> i + d])
    <3>1. \A x \in 1..size : t2.nodes[x] =
            IF data.nodes[x].leaf
            THEN Leaf(data.nodes[x].keys, data.nodes[x].values,
                      IF {j \in (x + 1)..size : data.nodes[j].leaf} = {} THEN NoNode
                      ELSE Min({j \in (x + 1)..size : data.nodes[j].leaf}))
            ELSE Inner(data.nodes[x].keys,
                       [d \in 1..Min({data.nodes[x].childCount, size - x}) |-> x + d])
      BY <1>3, Zenon DEF MadeOf
    <3> QED BY <2>1, <3>1
  <2>6. t2.nodes[i] = Leaf(keys, values, next)
    BY <2>2, <2>3, <2>4, <2>5
  <2>7. next = IF c = N + 1 THEN NoNode ELSE c + 2
    <3>1. \A j \in (c + 1 + 1)..(N + 2) : data.nodes[j].leaf
      <4> SUFFICES ASSUME NEW j \in (c + 1 + 1)..(N + 2) PROVE data.nodes[j].leaf
        OBVIOUS
      <4>1. j - 1 \in 1..N + 1 /\ j - 1 + 1 = j
        BY <1>2
      <4> QED BY <1>6, <4>1
    <3>2. later = (c + 1 + 1)..(N + 2)
      BY <1>3, <2>1, <2>2, <3>1
    <3>3. N \in Nat
      BY <1>2
    <3>4. IF c = N + 1 THEN later = {} ELSE later # {} /\ Min(later) = c + 2
      BY SMTT(30), <3>2, <3>3, LeafAfter
    <3> QED BY <2>3, <3>4
  <2> QED BY <1>6, <2>1, <2>3, <2>6, <2>7
<1>9. /\ t2.nodes = [i \in 1..N + 2 |-> t2.nodes[i]]
      /\ t2.order = tree.order /\ t2.root = 1
  BY <1>4 DEF MadeOf
<1> QED BY ZenonT(30), <1>1, <1>2, <1>7, <1>8, <1>9 DEF Flat

\* Saving and loading keeps the map of a tree of at most two levels.
LEMMA FileKeepsMap ==
  ASSUME NEW tree, NEW m, IsTree(tree, m), Height(tree) <= 2
  PROVE  IsTree(Deserialize(Serialize(tree)), m)
<1>1. PICK level, range, pos : IsTreeBy(tree, level, range, pos, m)
  BY DEF IsTree
<1>2. tree.root \in DOMAIN tree.nodes
  BY <1>1 DEF IsTreeBy
<1>3. level[tree.root] \in Nat /\ (tree.nodes[tree.root].leaf <=> level[tree.root] = 0)
  BY <1>1, <1>2, TreeNode
<1>4. level[tree.root] \in {0, 1}
  <2>1. Height(tree) = level[tree.root] + 1
    BY <1>1, <1>2, HeightIsLevel DEF Height
  <2> QED BY <1>3, <2>1
<1>5. PICK data, t2 : data = Serialize(tree) /\ t2 = Deserialize(data)
  OBVIOUS
<1>6. CASE tree.nodes[tree.root].leaf
  <2>1. PICK order : order = Preorder(tree.nodes, tree.root) /\ order = <<tree.root>>
    BY <1>1, <1>2, <1>6, LeafPreorder
  <2>2. order \in Seq(Nat) /\ Len(order) = 1 /\ order[1] = tree.root
    <3>1. tree.root \in Nat
      <4>1. tree.nodes \in Seq(AllNodes)
        BY <1>1 DEF IsTreeBy, UpTo, Layered
      <4> QED BY <1>2, <4>1, LenProperties
    <3> QED BY <2>1, <3>1
  <2>3. SavedAs(tree, order, data)
    BY <1>5, <2>1, <2>2, SerializedNodes
  <2>4. /\ data.order = tree.order /\ Len(data.nodes) = 1
        /\ data.nodes[1].leaf = tree.nodes[tree.root].leaf
        /\ data.nodes[1].keys = tree.nodes[tree.root].keys
        /\ data.nodes[1].values = tree.nodes[tree.root].values
    BY <2>2, <2>3 DEF SavedAs
  <2>9. MadeOf(data, 1, t2)
    BY <1>5, <2>4, RebuiltNodes
  <2>10. /\ t2.order = data.order /\ t2.root = 1 /\ t2.nodes = [i \in 1..1 |-> t2.nodes[i]]
         /\ t2.nodes[1] = Leaf(data.nodes[1].keys, data.nodes[1].values, NoNode)
    <3>1. {j \in (1 + 1)..1 : data.nodes[j].leaf} = {} /\ 1 \in 1..1
      OBVIOUS
    <3> QED BY ZenonT(30), <1>6, <2>4, <2>9, <3>1 DEF MadeOf
  <2>5. PICK nodes2 : nodes2 = t2.nodes
    OBVIOUS
  <2>6. /\ nodes2 = [x \in 1..1 |-> nodes2[x]]
        /\ nodes2[1] = Leaf(tree.nodes[tree.root].keys, tree.nodes[tree.root].values, NoNode)
        /\ t2.order = tree.order /\ t2.root = 1 /\ t2.nodes = nodes2
    BY <2>4, <2>5, <2>10
  <2>7. IsTree(t2, m)
    BY <1>1, <1>6, <2>6, LeafIsTree
  <2> QED BY <1>5, <2>7
<1>7. CASE ~tree.nodes[tree.root].leaf
  <2>1. PICK kids, N, order : TwoLevels(tree, level, kids, N, order)
    BY <1>3, <1>4, <1>7 DEF TwoLevels
  <2>2. /\ N \in Nat /\ kids \in Seq(Nat) /\ Len(kids) = N + 1
        /\ \A c \in 1..N + 1 : kids[c] \in DOMAIN tree.nodes /\ tree.nodes[kids[c]].leaf
        /\ order \in Seq(Nat) /\ Len(order) = N + 2 /\ DOMAIN order = 1..N + 2
        /\ order[1] = tree.root
        /\ \A c \in 1..N + 1 : order[c + 1] = kids[c]
    BY <1>1, <2>1, FlatPreorder
  <2>3. N # 0
    <3>1. Len(tree.nodes[tree.root].keys) # 0
      BY <1>1, <1>2, <1>7, Children
    <3> QED BY <2>1, <3>1 DEF TwoLevels
  <2>4. Flat(tree, N, t2.nodes) /\ t2.order = tree.order /\ t2.root = 1
    <3>1. Rooted(tree, kids, N, order)
      BY <1>7, <2>1, <2>2, <2>3 DEF TwoLevels, Rooted
    <3>2. order = Preorder(tree.nodes, tree.root)
      BY <2>1 DEF TwoLevels
    <3>3. SavedAs(tree, order, data)
      BY <1>5, <2>2, <3>2, SerializedNodes
    <3>4. Len(data.nodes) = N + 2 /\ N + 2 \in Nat
      BY <2>2, <3>3 DEF SavedAs
    <3>5. MadeOf(data, N + 2, t2)
      BY <1>5, <3>4, RebuiltNodes
    <3> QED BY SMTT(30), <3>1, <3>3, <3>5, RebuiltFlat
  <2>5. PICK nodes2 : nodes2 = t2.nodes /\ Flat(tree, N, nodes2)
    BY <2>4
  <2>6. level[tree.root] = 1
    BY <1>3, <1>4, <1>7
  <2>7. IsTree(t2, m)
    BY <1>1, <1>7, <2>4, <2>5, <2>6, FlatIsTree
  <2> QED BY <1>5, <2>7
<1> QED BY <1>6, <1>7
-----------------------------------------------------------------------------
(* The walk along the leaves.                                              *)

\* The links lead from each leaf to one that is nearer to the end: d is how far it can be.
Chain(nodes, b, d) ==
  /\ b \in Nat /\ d \in [Leaves(nodes) -> 0..b] /\ NoNode \notin Leaves(nodes)
  /\ \A n \in Leaves(nodes) :
       nodes[n].next # NoNode => nodes[n].next \in Leaves(nodes) /\ d[nodes[n].next] = d[n] - 1

\* The recursive function of the scan unfolds, since the links end.
LEMMA ScanUnfolds ==
  ASSUME NEW nodes, NEW b, NEW d, Chain(nodes, b, d), NEW min, NEW max
  PROVE  /\ ScanFrom(nodes, NoNode, min, max) = <<>>
         /\ \A n \in Leaves(nodes) :
              ScanFrom(nodes, n, min, max)
                = Hits(nodes[n], min, max) \o ScanFrom(nodes, nodes[n].next, min, max)
<1> DEFINE L == Leaves(nodes)
           D == L \cup {NoNode}
           Step(f, n) == IF n = NoNode THEN <<>> ELSE Hits(nodes[n], min, max) \o f[nodes[n].next]
           e(n) == IF n = NoNode THEN 0 ELSE d[n] + 1
           Good(f, l) == \A n \in D : e(n) <= l => f[n] = Step(f, n)
           Bad == {l \in 0..b + 1 : ~ \E f : Good(f, l)}
           Body(h) == [n \in D |-> IF n = NoNode THEN <<>>
                                   ELSE Hits(nodes[n], min, max) \o h[nodes[n].next]]
           scan == CHOOSE h : h = Body(h)
<1>1. /\ b \in Nat /\ \A n \in D : e(n) \in 0..b + 1
      /\ \A n \in D : n # NoNode =>
           nodes[n].next \in D /\ e(nodes[n].next) < e(n)
  <2>1. b \in Nat /\ NoNode \notin L /\ \A n \in L : d[n] \in 0..b
    BY DEF Chain
  <2>2. \A n \in D : e(n) \in 0..b + 1
    BY <2>1
  <2>3. ASSUME NEW n \in D, n # NoNode PROVE nodes[n].next \in D /\ e(nodes[n].next) < e(n)
    <3>1. n \in L
      BY <2>3
    <3>2. CASE nodes[n].next = NoNode
      BY <2>1, <3>1, <3>2
    <3>3. CASE nodes[n].next # NoNode
      <4>1. nodes[n].next \in L /\ d[nodes[n].next] = d[n] - 1
        BY <3>1, <3>3 DEF Chain
      <4> QED BY <2>1, <3>1, <3>3, <4>1
    <3> QED BY <3>2, <3>3
  <2> QED BY <2>1, <2>2, <2>3
<1> HIDE DEF L, D, e
<1>2. Bad = {}
  <2> SUFFICES ASSUME Bad # {} PROVE FALSE
    OBVIOUS
  <2>1. PICK l \in Bad : \A k \in Bad : l <= k
    <3>1. Bad \subseteq Nat
      BY <1>1
    <3> HIDE DEF Bad
    <3> QED BY <3>1, LeastNumber
  <2>2. l \in 0..b + 1 /\ l \in Nat /\ ~ \E f : Good(f, l)
    <3> HIDE DEF Good
    <3> QED BY <1>1
  <2> HIDE DEF Bad, Body
  <2>3. \E f : \A n \in D : e(n) < l => f[n] = Step(f, n)
    <3> HIDE DEF Step
    <3>1. CASE l = 0
      <4>1. \A n \in D : ~(e(n) < 0)
        BY <1>1
      <4> QED BY <3>1, <4>1
    <3>2. CASE l # 0
      <4>1. l - 1 \in 0..b + 1 /\ ~(l <= l - 1)
        BY <1>1, <2>2, <3>2
      <4>2. l - 1 \notin Bad
        BY <2>1, <4>1
      <4>3. PICK f : Good(f, l - 1)
        <5> HIDE DEF Good
        <5> QED BY <4>1, <4>2 DEF Bad
      <4>4. \A n \in D : e(n) < l => e(n) <= l - 1
        BY <1>1, <2>2
      <4> QED BY <4>3, <4>4
    <3> QED BY <3>1, <3>2
  <2>4. PICK f : \A n \in D : e(n) < l => f[n] = Step(f, n)
    BY <2>3
  <2> DEFINE g == [n \in D |-> IF e(n) < l THEN f[n] ELSE Step(f, n)]
  <2>5. ASSUME NEW n \in D, e(n) <= l PROVE g[n] = Step(g, n)
    <3>1. g[n] = Step(f, n)
      <4> HIDE DEF Step
      <4> QED BY <2>4
    <3>2. n # NoNode => g[nodes[n].next] = f[nodes[n].next]
      <4> SUFFICES ASSUME n # NoNode PROVE g[nodes[n].next] = f[nodes[n].next]
        OBVIOUS
      <4>1. nodes[n].next \in D /\ e(nodes[n].next) < e(n) /\ e(n) \in Nat /\ e(nodes[n].next) \in Nat
        BY <1>1
      <4>2. e(nodes[n].next) < l
        <5> HIDE DEF g, Good
        <5> QED BY <2>2, <2>5, <4>1
      <4> HIDE DEF Step
      <4> QED BY <4>1, <4>2
    <3> HIDE DEF g
    <3> QED BY <3>1, <3>2
  <2>6. Good(g, l)
    <3> HIDE DEF g, Step
    <3> QED BY <2>5
  <2> QED BY <2>2, <2>6
<1>3. PICK f : Good(f, b + 1)
  <2>1. b + 1 \in 0..b + 1
    BY <1>1
  <2> HIDE DEF Good
  <2> QED BY <1>2, <2>1
<1>4. PICK F : F = [n \in D |-> f[n]]
  OBVIOUS
<1>5. F = Body(F)
  <2>1. ASSUME NEW n \in D PROVE F[n] = Step(F, n)
    <3>1. f[n] = Step(f, n)
      <4> HIDE DEF Step
      <4> QED BY <1>1, <1>3
    <3>2. n # NoNode => F[nodes[n].next] = f[nodes[n].next]
      BY <1>1, <1>4
    <3> QED BY <1>4, <3>1, <3>2
  <2>2. Body(F) = [n \in D |-> F[n]]
    BY <2>1
  <2> QED BY <1>4, <2>2
<1>6. scan = Body(scan)
  <2> HIDE DEF Body
  <2> QED BY <1>5
<1>7. \A n : ScanFrom(nodes, n, min, max) = scan[n]
  BY DEF ScanFrom, D, L
<1> HIDE DEF scan
<1>8. \A n \in D : scan[n] = Step(scan, n)
  BY <1>6
<1>9. NoNode \in D /\ NoNode \notin L /\ \A n \in L : n \in D
  BY DEF D, L, Chain
<1>10. \A n \in L : n # NoNode
  BY <1>9
<1> QED BY <1>7, <1>8, <1>9, <1>10 DEF L

\* Finitely many numbers have a bound.
LEMMA Bounded ==
  ASSUME NEW N \in Nat, NEW pos \in [1..N -> Nat]
  PROVE  \E b \in Nat : \A n \in 1..N : pos[n] <= b
<1> DEFINE Up(k) == \E b \in Nat : \A n \in 1..k : pos[n] <= b
           Bad == {k \in 0..N : ~Up(k)}
<1>1. Bad = {}
  <2> SUFFICES ASSUME Bad # {} PROVE FALSE
    OBVIOUS
  <2>1. PICK k \in Bad : \A j \in Bad : k <= j
    <3>1. Bad \subseteq Nat
      OBVIOUS
    <3> HIDE DEF Bad
    <3> QED BY <3>1, LeastNumber
  <2>2. k \in 0..N /\ k \in Nat /\ ~Up(k)
    OBVIOUS
  <2> HIDE DEF Bad
  <2>3. k # 0
    <3>1. \A n : n \notin 1..0
      OBVIOUS
    <3> QED BY <2>2, <3>1
  <2>4. k - 1 \in 0..N /\ ~(k <= k - 1) /\ k \in 1..N
    BY <2>2, <2>3
  <2>5. PICK b \in Nat : \A n \in 1..k - 1 : pos[n] <= b
    <3>1. k - 1 \notin Bad
      BY <2>1, <2>4
    <3> QED BY <2>4, <3>1 DEF Bad
  <2>6. pos[k] \in Nat
    BY <2>4
  <2>7. PICK c \in Nat : c = b + pos[k]
    BY <2>6
  <2>8. ASSUME NEW n \in 1..k PROVE pos[n] <= c
    <3>1. CASE n = k
      BY <2>6, <2>7, <3>1
    <3>2. CASE n # k
      <4>1. n \in 1..k - 1 /\ n \in 1..N
        BY <2>2, <3>2
      <4>2. pos[n] <= b /\ pos[n] \in Nat
        BY <2>5, <4>1
      <4> QED BY SMTT(30), <2>6, <2>7, <4>2
    <3> QED BY <3>1, <3>2
  <2> QED BY <2>2, <2>8
<1>2. N \in 0..N
  OBVIOUS
<1> HIDE DEF Up
<1>3. Up(N)
  BY <1>1, <1>2
<1> QED BY <1>3 DEF Up

\* The leaves of a tree are such a chain.
LEMMA LeavesAreChain ==
  ASSUME NEW tree, NEW level, NEW range, NEW pos, NEW m, IsTreeBy(tree, level, range, pos, m)
  PROVE  \E b \in Nat :
           /\ \A n \in Leaves(tree.nodes) : pos[n] \in 0..b
           /\ Chain(tree.nodes, b, [n \in Leaves(tree.nodes) |-> b - pos[n]])
<1>1. PICK nodes : nodes = tree.nodes
  OBVIOUS
<1>2. nodes \in Seq(AllNodes) /\ Linked(nodes, range, pos)
  BY <1>1 DEF IsTreeBy, UpTo, Layered
<1>3. PICK N \in Nat : DOMAIN nodes = 1..N
  BY <1>2, LenProperties
<1>4. pos \in [1..N -> Nat]
  BY <1>2, <1>3 DEF Linked
<1>5. PICK b \in Nat : \A n \in 1..N : pos[n] <= b
  BY <1>4, Bounded
<1>12. PICK L : L = Leaves(nodes)
  OBVIOUS
<1>6. L = Leaves(nodes) /\ L \subseteq 1..N /\ \A n \in L : nodes[n].leaf
  BY <1>3, <1>12 DEF Leaves
<1>7. \A n \in L : pos[n] \in 0..b /\ b - pos[n] \in 0..b /\ pos[n] \in Nat
  BY <1>4, <1>5, <1>6
<1>8. PICK d : d = [n \in L |-> b - pos[n]]
  OBVIOUS
<1>9. d \in [L -> 0..b] /\ NoNode \notin L
  BY <1>6, <1>7, <1>8 DEF NoNode
<1>10. ASSUME NEW n \in L, nodes[n].next # NoNode
       PROVE  nodes[n].next \in L /\ d[nodes[n].next] = d[n] - 1
  <2>1. nodes[n].next \in DOMAIN nodes /\ nodes[nodes[n].next].leaf /\ pos[nodes[n].next] = pos[n] + 1
    BY <1>2, <1>3, <1>6, <1>10 DEF Linked
  <2>2. PICK x : x = nodes[n].next /\ x \in L
    BY <1>6, <2>1 DEF Leaves
  <2>3. d[x] = b - pos[x] /\ d[n] = b - pos[n] /\ pos[x] = pos[n] + 1 /\ pos[n] \in Nat
    BY <1>7, <1>8, <2>1, <2>2
  <2>4. d[x] = d[n] - 1
    BY <2>3
  <2> QED BY <2>2, <2>4
<1>11. Chain(nodes, b, d)
  BY <1>6, <1>9, <1>10 DEF Chain
<1> QED BY <1>1, <1>6, <1>7, <1>8, <1>11

\* The row ids r are those that m has for the keys in S, in ascending order of the keys.
AnswersBy(r, m, S, keys) ==
  /\ Lists(keys, S) /\ r \in Seq(Nat) /\ Len(r) = Len(keys)
  /\ \A i \in 1..Len(keys) : r[i] = m[keys[i]]

Answers(r, m, S) == \E keys : AnswersBy(r, m, S, keys)

\* What the scan takes from a leaf.
HitsOf(node, m) ==
  /\ node.keys \in Seq(Int) /\ node.values \in Seq(Nat) /\ Ascending(node.keys)
  /\ Len(node.values) = Len(node.keys)
  /\ \A i \in DOMAIN node.keys : m[node.keys[i]] = node.values[i]

\* The scan takes from a leaf what the map has for its keys in the range.
LEMMA HitsAnswer ==
  ASSUME NEW node, NEW m, HitsOf(node, m), NEW min \in Int, NEW max \in Int
  PROVE  Answers(Hits(node, min, max), m, {k \in ToSet(node.keys) : min <= k /\ k <= max})
<1>17. PICK keys, values : keys = node.keys /\ values = node.values
  OBVIOUS
<1>18. /\ keys \in Seq(Int) /\ values \in Seq(Nat) /\ Ascending(keys) /\ Len(values) = Len(keys)
       /\ \A i \in DOMAIN keys : m[keys[i]] = values[i]
  BY <1>17 DEF HitsOf
<1> DEFINE keep == {i \in DOMAIN keys : (\A j \in 1..i : keys[j] <= max) /\ keys[i] >= min}
<1>1. PICK N \in Nat : N = Len(keys) /\ DOMAIN keys = 1..N /\ DOMAIN values = 1..N
  BY <1>18, LenProperties
<1>2. \A i \in 1..N : keys[i] \in Int
  BY <1>1, <1>18, ElementOfSeq
<1>3. ASSUME NEW i \in 1..N PROVE i \in keep <=> min <= keys[i] /\ keys[i] <= max
  <2>1. ASSUME keys[i] <= max, NEW j \in 1..i PROVE keys[j] <= max
    <3>1. j \in 1..N /\ (j = i \/ j < i)
      BY <1>1
    <3>2. keys[j] = keys[i] \/ keys[j] < keys[i]
      BY <1>1, <1>18, <3>1 DEF Ascending
    <3> QED BY <1>2, <2>1, <3>1, <3>2
  <2>2. i \in 1..i /\ i \in DOMAIN keys
    BY <1>1
  <2> QED BY <1>2, <2>1, <2>2
<1>4. PICK r : r = Selected(values, keep)
  OBVIOUS
<1>5. Hits(node, min, max) = r
  BY <1>4, <1>17 DEF Hits
<1>6. keep \in SUBSET DOMAIN values
  BY <1>1
<1> HIDE DEF keep
<1>7. PICK places : /\ Lists(places, keep) /\ Len(r) = Len(places) /\ r \in Seq(Nat)
                    /\ \A i \in 1..Len(places) : places[i] \in keep /\ r[i] = values[places[i]]
  <2>1. PICK places : /\ Lists(places, keep) /\ Len(Selected(values, keep)) = Len(places)
                      /\ Selected(values, keep) \in Seq(Nat)
                      /\ \A i \in 1..Len(places) : /\ places[i] \in keep
                                                   /\ Selected(values, keep)[i] = values[places[i]]
    BY SMTT(30), <1>6, <1>18, SelectedInOrder
  <2> QED BY <1>4, <2>1
<1>8. PICK M \in Nat : M = Len(places) /\ DOMAIN places = 1..M
  BY <1>7, LenProperties DEF Lists
<1>9. /\ \A i \in 1..M : places[i] \in 1..N /\ places[i] \in keep
      /\ \A a, b \in 1..M : a < b => places[a] < places[b]
      /\ \A n \in keep : \E i \in 1..M : places[i] = n
  BY ZenonT(30), <1>1, <1>6, <1>7, <1>8 DEF Lists, Ascending, ToSet
<1>10. PICK taken : taken = [i \in 1..M |-> keys[places[i]]]
  OBVIOUS
<1>11. taken \in Seq(Int) /\ Len(taken) = M /\ DOMAIN taken = 1..M
  <2>1. taken \in [1..M -> Int]
    BY <1>2, <1>9, <1>10
  <2> QED BY <1>10, <2>1, SequenceOfLength
<1>12. Ascending(taken)
  BY ZenonT(30), <1>1, <1>9, <1>10, <1>11, <1>18 DEF Ascending
<1>13. ToSet(taken) = {k \in ToSet(keys) : min <= k /\ k <= max}
  <2>1. ASSUME NEW i \in 1..M
        PROVE  taken[i] \in ToSet(keys) /\ min <= taken[i] /\ taken[i] <= max
    BY <1>1, <1>3, <1>9, <1>10 DEF ToSet
  <2>2. ASSUME NEW k \in ToSet(keys), min <= k, k <= max PROVE \E i \in 1..M : taken[i] = k
    <3>1. PICK n \in 1..N : keys[n] = k
      BY <1>1 DEF ToSet
    <3>2. n \in keep
      BY <1>3, <2>2, <3>1
    <3>3. PICK i \in 1..M : places[i] = n
      BY <1>9, <3>2
    <3> QED BY <1>10, <3>1, <3>3
  <2>3. \A k : k \in ToSet(taken) <=> \E i \in 1..M : taken[i] = k
    BY <1>11 DEF ToSet
  <2> QED BY <2>1, <2>2, <2>3
<1>14. ASSUME NEW i \in 1..M PROVE r[i] = m[taken[i]]
  <2>1. places[i] \in DOMAIN keys /\ r[i] = values[places[i]] /\ taken[i] = keys[places[i]]
    BY <1>1, <1>7, <1>8, <1>9, <1>10
  <2> QED BY <1>18, <2>1
<1>15. Lists(taken, {k \in ToSet(keys) : min <= k /\ k <= max})
  BY <1>11, <1>12, <1>13 DEF Lists
<1>16. AnswersBy(r, m, {k \in ToSet(keys) : min <= k /\ k <= max}, taken)
  BY <1>7, <1>8, <1>11, <1>14, <1>15 DEF AnswersBy
<1> QED BY <1>5, <1>16, <1>17 DEF Answers

\* The scan goes on with larger keys.
LEMMA AnswersConcat ==
  ASSUME NEW r, NEW s, NEW m, NEW S, NEW T, Answers(r, m, S), Answers(s, m, T),
         \A x \in S, y \in T : x < y
  PROVE  Answers(r \o s, m, S \cup T)
<1>1. PICK a : /\ Lists(a, S) /\ r \in Seq(Nat) /\ Len(r) = Len(a)
               /\ \A i \in 1..Len(a) : r[i] = m[a[i]]
  BY DEF Answers, AnswersBy
<1>2. PICK b : /\ Lists(b, T) /\ s \in Seq(Nat) /\ Len(s) = Len(b)
               /\ \A i \in 1..Len(b) : s[i] = m[b[i]]
  BY DEF Answers, AnswersBy
<1>3. PICK p, q : p = Len(a) /\ q = Len(b)
  OBVIOUS
<1>4. p \in Nat /\ q \in Nat /\ a \in Seq(Int) /\ b \in Seq(Int)
  BY <1>1, <1>2, <1>3, LenProperties DEF Lists
<1>5. PICK c, u : c = a \o b /\ u = r \o s
  OBVIOUS
<1>6. Lists(c, S \cup T)
  BY <1>1, <1>2, <1>5, ListsConcat
<1>7. /\ Len(c) = p + q /\ \A i \in 1..p + q : c[i] = IF i <= p THEN a[i] ELSE b[i - p]
  BY <1>3, <1>4, <1>5, ConcatProperties
<1>8. /\ u \in Seq(Nat) /\ Len(u) = p + q
      /\ \A i \in 1..p + q : u[i] = IF i <= p THEN r[i] ELSE s[i - p]
  <2>1. r \in Seq(Nat) /\ s \in Seq(Nat) /\ Len(r) = p /\ Len(s) = q
    BY <1>1, <1>2, <1>3
  <2> QED BY <1>5, <2>1, ConcatProperties
<1>9. ASSUME NEW i \in 1..p + q PROVE u[i] = m[c[i]]
  <2>1. CASE i <= p
    <3>1. i \in 1..p
      BY <1>4, <2>1
    <3> QED BY <1>1, <1>3, <1>7, <1>8, <2>1, <3>1
  <2>2. CASE ~(i <= p)
    <3>1. i - p \in 1..q
      BY <1>4, <2>2
    <3> QED BY <1>2, <1>3, <1>7, <1>8, <2>2, <3>1
  <2> QED BY <2>1, <2>2
<1>11. AnswersBy(u, m, S \cup T, c)
  BY <1>6, <1>7, <1>8, <1>9 DEF AnswersBy
<1>10. Answers(u, m, S \cup T)
  BY <1>11 DEF Answers
<1> QED BY <1>5, <1>10

\* The keys of m, from min to max, that are in a leaf from n on.
From(nodes, pos, m, n, min, max) ==
  {k \in DOMAIN m : /\ min <= k /\ k <= max
                    /\ \E l \in Leaves(nodes) : pos[l] >= pos[n] /\ k \in ToSet(nodes[l].keys)}

\* What the scan from a leaf on needs of a tree.
Scanned(nodes, range, pos, m) ==
  /\ \A n \in Leaves(nodes) :
       /\ nodes[n].keys \in Seq(Int) /\ nodes[n].values \in Seq(Nat) /\ Ascending(nodes[n].keys)
       /\ Len(nodes[n].values) = Len(nodes[n].keys)
       /\ \A i \in DOMAIN nodes[n].keys : /\ nodes[n].keys[i] \in DOMAIN m
                                          /\ m[nodes[n].keys[i]] = nodes[n].values[i]
       /\ \A k \in ToSet(nodes[n].keys) : k \in range[n] /\ k \in Int /\ k \in DOMAIN m
       /\ pos[n] \in Nat
       /\ IF nodes[n].next = NoNode THEN \A l \in Leaves(nodes) : pos[l] <= pos[n]
          ELSE nodes[n].next \in Leaves(nodes) /\ pos[nodes[n].next] = pos[n] + 1
  /\ \A a, b \in Leaves(nodes) :
       /\ a # b => pos[a] # pos[b]
       /\ pos[a] < pos[b] => \A x \in range[a], y \in range[b] : x < y

\* The leaves of a tree are as the walk needs them.
LEMMA TreeIsScanned ==
  ASSUME NEW tree, NEW level, NEW range, NEW pos, NEW m, IsTreeBy(tree, level, range, pos, m)
  PROVE  Scanned(tree.nodes, range, pos, m)
<1>1. PICK nodes : nodes = tree.nodes
  OBVIOUS
<1>2. Linked(nodes, range, pos) /\ Filed(nodes, m)
  BY <1>1 DEF IsTreeBy, UpTo
<1>3. \A n \in Leaves(nodes) : n \in DOMAIN nodes /\ nodes[n].leaf
  BY DEF Leaves
<1>4. ASSUME NEW n \in Leaves(nodes)
      PROVE  /\ nodes[n].keys \in Seq(Int) /\ nodes[n].values \in Seq(Nat)
             /\ Ascending(nodes[n].keys) /\ Len(nodes[n].values) = Len(nodes[n].keys)
             /\ KeysInRange(nodes, range, n)
  <2>1. n \in DOMAIN tree.nodes /\ tree.nodes[n].leaf
    BY <1>1, <1>3
  <2>2. /\ tree.nodes[n].keys \in Seq(Int) /\ Ascending(tree.nodes[n].keys)
        /\ tree.nodes[n].values \in Seq(Nat)
        /\ tree.nodes[n].leaf => IsLeaf(tree.order, tree.nodes[n])
        /\ KeysInRange(tree.nodes, range, n)
    BY <2>1, TreeNode
  <2> QED BY <1>1, <2>1, <2>2 DEF IsLeaf
<1>5. ASSUME NEW n \in Leaves(nodes)
      PROVE  \A i \in DOMAIN nodes[n].keys : /\ nodes[n].keys[i] \in DOMAIN m
                                             /\ m[nodes[n].keys[i]] = nodes[n].values[i]
  BY <1>2, <1>3 DEF Filed
<1>6. ASSUME NEW n \in Leaves(nodes), NEW k \in ToSet(nodes[n].keys)
      PROVE  k \in range[n] /\ k \in Int /\ k \in DOMAIN m
  <2>1. PICK i \in DOMAIN nodes[n].keys : nodes[n].keys[i] = k
    BY DEF ToSet
  <2>2. k \in range[n] /\ k \in DOMAIN m
    BY <1>4, <1>5, <2>1 DEF KeysInRange
  <2>3. k \in Int
    BY <1>4, <2>1, ElementOfSeq, LenProperties
  <2> QED BY <2>2, <2>3
<1>7. ASSUME NEW n \in Leaves(nodes)
      PROVE  /\ pos[n] \in Nat
             /\ IF nodes[n].next = NoNode THEN \A l \in Leaves(nodes) : pos[l] <= pos[n]
                ELSE nodes[n].next \in Leaves(nodes) /\ pos[nodes[n].next] = pos[n] + 1
  BY <1>2, <1>3 DEF Linked, Leaves
<1>8. \A a, b \in Leaves(nodes) :
        /\ a # b => pos[a] # pos[b]
        /\ pos[a] < pos[b] => \A x \in range[a], y \in range[b] : x < y
  BY <1>2, <1>3 DEF Linked
<1>9. Scanned(nodes, range, pos, m)
  BY <1>4, <1>5, <1>6, <1>7, <1>8 DEF Scanned
<1> QED BY <1>1, <1>9

\* A leaf's own keys, and those of the leaves behind it.
LEMMA FromSplits ==
  ASSUME NEW nodes, NEW range, NEW pos, NEW m, Scanned(nodes, range, pos, m),
         NEW n \in Leaves(nodes), NEW min \in Int, NEW max \in Int
  PROVE  LET own == {k \in ToSet(nodes[n].keys) : min <= k /\ k <= max}
             rest == From(nodes, pos, m, nodes[n].next, min, max)
             all == From(nodes, pos, m, n, min, max)
         IN  /\ nodes[n].next = NoNode => all = own
             /\ nodes[n].next # NoNode => /\ all = own \cup rest
                                          /\ \A x \in own, y \in rest : x < y
<1> DEFINE own == {k \in ToSet(nodes[n].keys) : min <= k /\ k <= max}
           rest == From(nodes, pos, m, nodes[n].next, min, max)
           all == From(nodes, pos, m, n, min, max)
<1>1. PICK L : L = Leaves(nodes)
  OBVIOUS
<1>2. /\ \A l \in L : pos[l] \in Nat /\ \A k \in ToSet(nodes[l].keys) : k \in range[l] /\ k \in DOMAIN m
      /\ \A a, b \in L : /\ a # b => pos[a] # pos[b]
                         /\ pos[a] < pos[b] => \A x \in range[a], y \in range[b] : x < y
      /\ n \in L
      /\ nodes[n].next = NoNode => \A l \in L : pos[l] <= pos[n]
      /\ nodes[n].next # NoNode => nodes[n].next \in L /\ pos[nodes[n].next] = pos[n] + 1
  BY <1>1 DEF Scanned
<1>3. \A x : x \in all <=> /\ x \in DOMAIN m /\ min <= x /\ x <= max
                           /\ \E l \in L : pos[l] >= pos[n] /\ x \in ToSet(nodes[l].keys)
  BY <1>1 DEF From
<1>4. \A x : x \in rest <=> /\ x \in DOMAIN m /\ min <= x /\ x <= max
                            /\ \E l \in L : /\ pos[l] >= pos[nodes[n].next]
                                            /\ x \in ToSet(nodes[l].keys)
  BY <1>1 DEF From
<1>5. \A x : x \in own <=> x \in ToSet(nodes[n].keys) /\ min <= x /\ x <= max
  OBVIOUS
<1>6. own \subseteq all
  <2>1. pos[n] >= pos[n]
    BY <1>2
  <2> HIDE DEF own, all
  <2> QED BY <1>2, <1>3, <1>5, <2>1
<1> HIDE DEF own, rest, all
<1>7. ASSUME nodes[n].next = NoNode PROVE all = own
  <2>1. \A l \in L : pos[l] >= pos[n] => l = n
    BY <1>2, <1>7
  <2>2. all \subseteq own
    BY <1>3, <1>5, <2>1
  <2> QED BY <1>6, <2>2
<1>8. ASSUME nodes[n].next # NoNode PROVE all = own \cup rest /\ \A x \in own, y \in rest : x < y
  <2>1. PICK p \in Nat : p = pos[n]
    BY <1>2
  <2>2. nodes[n].next \in L /\ pos[nodes[n].next] = p + 1
    BY <1>2, <1>8, <2>1
  <2>3. \A l \in L : /\ pos[l] >= p => l = n \/ pos[l] >= p + 1
                     /\ pos[l] >= p + 1 => pos[l] >= p /\ p < pos[l]
    BY <1>2, <2>1
  <2>4. all \subseteq own \cup rest
    <3> SUFFICES ASSUME NEW x \in all, x \notin own PROVE x \in rest
      OBVIOUS
    <3>1. PICK l \in L : pos[l] >= p /\ x \in ToSet(nodes[l].keys)
      BY <1>3, <2>1
    <3>2. l # n
      BY <1>3, <1>5, <3>1
    <3> QED BY <1>3, <1>4, <2>2, <2>3, <3>1, <3>2
  <2>5. rest \subseteq all
    BY <1>3, <1>4, <2>1, <2>2, <2>3
  <2>6. ASSUME NEW x \in own, NEW y \in rest PROVE x < y
    <3>1. PICK l \in L : pos[l] >= p + 1 /\ y \in ToSet(nodes[l].keys)
      BY <1>4, <2>2
    <3>2. pos[n] < pos[l]
      BY <2>1, <2>3, <3>1
    <3>3. x \in range[n] /\ y \in range[l]
      BY <1>2, <1>5, <3>1
    <3> QED BY <1>2, <3>1, <3>2, <3>3
  <2> QED BY <1>6, <2>4, <2>5, <2>6
<1> QED BY <1>7, <1>8 DEF own, rest, all

\* The scan from a leaf on gives the keys from there on.
LEMMA ScanAnswers ==
  ASSUME NEW nodes, NEW range, NEW pos, NEW m, Scanned(nodes, range, pos, m),
         NEW b \in Nat, \A n \in Leaves(nodes) : pos[n] \in 0..b,
         NEW d, Chain(nodes, b, d), NEW min \in Int, NEW max \in Int, NEW x \in Leaves(nodes)
  PROVE  Answers(ScanFrom(nodes, x, min, max), m, From(nodes, pos, m, x, min, max))
<1> DEFINE L == Leaves(nodes)
           scan(n) == ScanFrom(nodes, n, min, max)
           Right(n) == Answers(scan(n), m, From(nodes, pos, m, n, min, max))
           Bad == {k \in 0..b : ~ \A n \in L : b - pos[n] = k => Right(n)}
<1>1. /\ scan(NoNode) = <<>>
      /\ \A n \in L : scan(n) = Hits(nodes[n], min, max) \o scan(nodes[n].next)
  BY ScanUnfolds
<1>2. \A n \in L : pos[n] \in Nat /\ b - pos[n] \in 0..b
  OBVIOUS
<1> HIDE DEF L, scan, Right
<1>3. Bad = {}
  <2> SUFFICES ASSUME Bad # {} PROVE FALSE
    OBVIOUS
  <2>1. PICK k \in Bad : \A j \in Bad : k <= j
    <3>1. Bad \subseteq Nat
      OBVIOUS
    <3> HIDE DEF Bad
    <3> QED BY <3>1, LeastNumber
  <2>2. PICK n \in L : b - pos[n] = k /\ ~Right(n) /\ k \in Nat
    OBVIOUS
  <2>3. PICK own : own = {y \in ToSet(nodes[n].keys) : min <= y /\ y <= max}
    OBVIOUS
  <2>4. PICK node : node = nodes[n]
    OBVIOUS
  <2>5. /\ node.keys \in Seq(Int) /\ node.values \in Seq(Nat) /\ Ascending(node.keys)
        /\ Len(node.values) = Len(node.keys)
        /\ \A i \in DOMAIN node.keys : m[node.keys[i]] = node.values[i]
    BY <2>4 DEF Scanned, L
  <2>10. HitsOf(node, m)
    BY <2>5 DEF HitsOf
  <2>6. Answers(Hits(node, min, max), m, own)
    BY <2>3, <2>4, <2>10, HitsAnswer
  <2>7. PICK r : r = Hits(node, min, max) /\ r \in Seq(Nat)
    BY <2>6 DEF Answers, AnswersBy
  <2>8. CASE nodes[n].next = NoNode
    <3>1. scan(n) = r \o <<>>
      BY <1>1, <2>4, <2>7, <2>8
    <3>2. scan(n) = r
      BY <2>7, <3>1, ConcatEmptySeq
    <3>3. From(nodes, pos, m, n, min, max) = own
      BY <2>3, <2>8, FromSplits DEF L
    <3> QED BY <2>2, <2>6, <2>7, <3>2, <3>3 DEF Right
  <2>9. CASE nodes[n].next # NoNode
    <3>1. PICK y, rest : y = nodes[n].next /\ rest = From(nodes, pos, m, y, min, max)
      OBVIOUS
    <3>2. y \in L /\ pos[y] = pos[n] + 1
      BY <2>9, <3>1 DEF Scanned, L
    <3>3. b - pos[y] = k - 1 /\ k - 1 \in 0..b /\ ~(k <= k - 1)
      BY <1>2, <2>2, <3>2
    <3>4. Right(y)
      <4>1. k - 1 \notin Bad
        <5> HIDE DEF Bad
        <5> QED BY <2>1, <3>3
      <4> QED BY <3>2, <3>3, <4>1
    <3>5. PICK s : s = scan(y) /\ Answers(s, m, rest)
      BY <3>1, <3>4 DEF Right
    <3>6. scan(n) = r \o s
      BY <1>1, <2>4, <2>7, <3>1, <3>5
    <3>7. /\ From(nodes, pos, m, n, min, max) = own \cup rest
          /\ \A u \in own, v \in rest : u < v
      BY <2>3, <2>9, <3>1, FromSplits DEF L
    <3>8. Answers(r \o s, m, own \cup rest)
      BY <2>6, <2>7, <3>5, <3>7, AnswersConcat
    <3> QED BY <2>2, <3>6, <3>7, <3>8 DEF Right
  <2> QED BY <2>8, <2>9
<1>4. x \in L /\ b - pos[x] \in 0..b
  BY <1>2 DEF L
<1>5. Right(x)
  BY <1>3, <1>4
<1> QED BY <1>5 DEF Right, scan

\* rangeSearch() starts at the leaf of min: no smaller leaf has a key of the range.
LEMMA RangeSearchAnswers ==
  ASSUME NEW tree, NEW m, IsTree(tree, m), NEW min \in Int, NEW max \in Int
  PROVE  Answers(RangeSearch(tree, min, max), m, {k \in DOMAIN m : min <= k /\ k <= max})
<1>1. PICK level, range, pos : IsTreeBy(tree, level, range, pos, m)
  BY DEF IsTree
<1>2. PICK nodes, x : nodes = tree.nodes /\ x = LeafFor(tree.nodes, tree.root, min)
  OBVIOUS
<1>3. x \in DOMAIN nodes /\ nodes[x].leaf /\ min \in range[x]
  BY <1>1, <1>2, LeafForKey
<1>4. x \in Leaves(nodes)
  BY <1>3 DEF Leaves
<1>5. Scanned(nodes, range, pos, m)
  BY <1>1, <1>2, TreeIsScanned
<1>6. PICK b \in Nat : /\ \A n \in Leaves(nodes) : pos[n] \in 0..b
                       /\ Chain(nodes, b, [n \in Leaves(nodes) |-> b - pos[n]])
  BY <1>1, <1>2, LeavesAreChain
<1>7. PICK d : d = [n \in Leaves(nodes) |-> b - pos[n]] /\ Chain(nodes, b, d)
  BY <1>6
<1>8. Answers(ScanFrom(nodes, x, min, max), m, From(nodes, pos, m, x, min, max))
  BY <1>4, <1>5, <1>6, <1>7, ScanAnswers
<1>9. Filed(nodes, m)
  BY <1>1, <1>2 DEF IsTreeBy, UpTo
<1>10. ASSUME NEW k \in DOMAIN m, min <= k, k <= max
       PROVE  \E l \in Leaves(nodes) : pos[l] >= pos[x] /\ k \in ToSet(nodes[l].keys)
  <2>1. PICK l \in DOMAIN nodes : nodes[l].leaf /\ \E i \in DOMAIN nodes[l].keys : nodes[l].keys[i] = k
    BY <1>9 DEF Filed
  <2>2. l \in Leaves(nodes) /\ k \in ToSet(nodes[l].keys)
    BY <2>1 DEF Leaves, ToSet
  <2>3. k \in range[l] /\ k \in Int /\ pos[l] \in Nat /\ pos[x] \in Nat
    BY <1>4, <1>5, <2>2 DEF Scanned
  <2>4. ~(pos[l] < pos[x])
    <3> SUFFICES ASSUME pos[l] < pos[x] PROVE FALSE
      OBVIOUS
    <3>1. k < min
      BY <1>3, <1>4, <1>5, <2>2, <2>3 DEF Scanned
    <3> QED BY <1>10, <2>3, <3>1
  <2> QED BY <2>2, <2>3, <2>4
<1>11. From(nodes, pos, m, x, min, max) = {k \in DOMAIN m : min <= k /\ k <= max}
  BY <1>10 DEF From
<1>12. RangeSearch(tree, min, max) = ScanFrom(nodes, x, min, max)
  BY <1>2 DEF RangeSearch
<1> QED BY <1>8, <1>11, <1>12
-----------------------------------------------------------------------------
(* Filling an index from a table.                                          *)

\* What Filled() computes, row by row.
Fills(f, tree, rows, count) ==
  \A n \in 0..count : f[n] = IF n = 0 THEN tree ELSE Insert(f[n - 1], rows[n], n - 1)

\* The recursive function of Filled unfolds.
LEMMA FilledUnfolds ==
  ASSUME NEW tree, NEW rows, NEW count \in Nat
  PROVE  \E f : Filled(tree, rows, count) = f[count] /\ Fills(f, tree, rows, count)
<1> DEFINE Step(f, i) == IF i = 0 THEN tree ELSE Insert(f[i - 1], rows[i], i - 1)
           Good(f, k) == \A i \in 0..count : i <= k => f[i] = Step(f, i)
           Bad == {k \in 0..count : ~ \E f : Good(f, k)}
           Body(h) == [i \in 0..count |-> IF i = 0 THEN tree ELSE Insert(h[i - 1], rows[i], i - 1)]
           filled == CHOOSE h : h = Body(h)
<1>1. Bad = {}
  <2> SUFFICES ASSUME Bad # {} PROVE FALSE
    OBVIOUS
  <2>1. PICK k \in Bad : \A j \in Bad : k <= j
    <3>1. Bad \subseteq Nat
      OBVIOUS
    <3> HIDE DEF Bad
    <3> QED BY <3>1, LeastNumber
  <2>2. k \in 0..count /\ k \in Nat /\ ~ \E f : Good(f, k)
    OBVIOUS
  <2> HIDE DEF Bad
  <2>3. k # 0
    <3>1. PICK f : f = [i \in {0} |-> tree]
      OBVIOUS
    <3>2. ASSUME NEW i \in 0..count, i <= 0 PROVE f[i] = Step(f, i)
      <4>1. i = 0
        BY <3>2
      <4> QED BY <3>1, <4>1
    <3> QED BY <2>2, <3>2
  <2>4. k - 1 \in 0..count /\ ~(k <= k - 1)
    BY <2>2, <2>3
  <2>5. k - 1 \notin Bad
    BY <2>1, <2>4
  <2>6. PICK f : Good(f, k - 1)
    <3> HIDE DEF Good
    <3> QED BY <2>4, <2>5 DEF Bad
  <2>7. PICK g : g = [i \in 0..count |-> IF i <= k - 1 THEN f[i] ELSE Step(f, i)]
    OBVIOUS
  <2>8. ASSUME NEW i \in 0..count, i <= k PROVE g[i] = Step(g, i)
    <3>1. g[i] = Step(f, i)
      BY <2>6, <2>7
    <3>2. CASE i = 0
      BY <3>1, <3>2
    <3>3. CASE i # 0
      <4>1. i - 1 \in 0..count /\ i - 1 <= k - 1
        BY <2>2, <2>8, <3>3
      <4>2. g[i - 1] = f[i - 1]
        BY <2>7, <4>1
      <4> QED BY <3>1, <3>3, <4>2
    <3> QED BY <3>2, <3>3
  <2> QED BY <2>2, <2>8
<1>2. PICK f : Good(f, count)
  <2>1. count \in 0..count
    OBVIOUS
  <2> HIDE DEF Good
  <2> QED BY <1>1, <2>1
<1>3. PICK F : F = [i \in 0..count |-> f[i]]
  OBVIOUS
<1>4. F = Body(F)
  <2>1. ASSUME NEW i \in 0..count PROVE F[i] = Step(F, i)
    <3>1. f[i] = Step(f, i)
      BY <1>2
    <3>2. i # 0 => i - 1 \in 0..count
      OBVIOUS
    <3> QED BY <1>3, <3>1, <3>2
  <2>2. Body(F) = [i \in 0..count |-> F[i]]
    BY <2>1
  <2> QED BY <1>3, <2>2
<1>5. filled = Body(filled)
  <2> HIDE DEF Body
  <2> QED BY <1>4
<1>6. Filled(tree, rows, count) = filled[count]
  BY DEF Filled
<1> HIDE DEF filled
<1>7. Fills(filled, tree, rows, count)
  BY <1>5 DEF Fills
<1> QED BY <1>6, <1>7

\* m holds the first of the first n rows of each key.
FirstOf(m, rows, n) ==
  /\ DOMAIN m = {rows[j] : j \in 1..n}
  /\ \A j \in 1..n : (\A l \in 1..n : rows[l] = rows[j] => j <= l) => m[rows[j]] = j - 1

\* What the first rows are does not depend on the function that holds them.
LEMMA SameFirstRows ==
  ASSUME NEW rows, NEW n \in Nat, NEW m, FirstOf(m, rows, n), NEW m2, FirstOf(m2, rows, n)
  PROVE  DOMAIN m2 = DOMAIN m /\ \A k \in DOMAIN m : m2[k] = m[k]
<1>1. DOMAIN m = {rows[j] : j \in 1..n} /\ DOMAIN m2 = {rows[j] : j \in 1..n}
  BY DEF FirstOf
<1>2. ASSUME NEW k \in DOMAIN m PROVE m2[k] = m[k]
  <2>1. PICK places : places = {j \in 1..n : rows[j] = k}
    OBVIOUS
  <2>2. places \subseteq Nat /\ places # {}
    BY <1>1, <2>1
  <2>3. PICK j \in places : \A l \in places : j <= l
    BY <2>2, LeastNumber
  <2>4. j \in 1..n /\ rows[j] = k /\ \A l \in 1..n : rows[l] = rows[j] => j <= l
    BY <2>1, <2>3
  <2> QED BY <2>4 DEF FirstOf
<1> QED BY <1>1, <1>2

\* One row more: its key counts when it is new.
LEMMA OneRowMore ==
  ASSUME NEW rows, NEW n \in Nat, n # 0, NEW m, FirstOf(m, rows, n - 1)
  PROVE  FirstOf(IF rows[n] \in DOMAIN m THEN m ELSE Put(m, rows[n], n - 1), rows, n)
<1>1. /\ n \in 1..n /\ n - 1 \in Nat /\ \A j : j \in 1..n <=> (j \in 1..n - 1 \/ j = n)
      /\ \A j \in 1..n - 1 : j \in 1..n /\ ~(n <= j) /\ j # n
  OBVIOUS
<1>2. DOMAIN m = {rows[j] : j \in 1..n - 1}
  BY DEF FirstOf
<1>3. {rows[j] : j \in 1..n} = DOMAIN m \cup {rows[n]}
  BY <1>1, <1>2
<1>4. ASSUME NEW j \in 1..n - 1, \A l \in 1..n : rows[l] = rows[j] => j <= l
      PROVE  m[rows[j]] = j - 1 /\ rows[j] \in DOMAIN m
  <2>1. \A l \in 1..n - 1 : rows[l] = rows[j] => j <= l
    BY <1>1, <1>4
  <2> QED BY <1>2, <2>1 DEF FirstOf
<1>5. CASE rows[n] \in DOMAIN m
  <2>1. DOMAIN m = {rows[j] : j \in 1..n}
    BY <1>3, <1>5
  <2>2. PICK j \in 1..n - 1 : rows[j] = rows[n]
    BY <1>2, <1>5
  <2>3. ~ \A l \in 1..n : rows[l] = rows[n] => n <= l
    BY <1>1, <2>2
  <2>4. ASSUME NEW i \in 1..n, \A l \in 1..n : rows[l] = rows[i] => i <= l
        PROVE  m[rows[i]] = i - 1
    BY <1>1, <1>4, <2>3, <2>4
  <2> QED BY <1>5, <2>1, <2>4 DEF FirstOf
<1>6. CASE rows[n] \notin DOMAIN m
  <2>1. PICK m2 : m2 = Put(m, rows[n], n - 1)
    OBVIOUS
  <2>2. /\ DOMAIN m2 = DOMAIN m \cup {rows[n]} /\ m2[rows[n]] = n - 1
        /\ \A k \in DOMAIN m : m2[k] = m[k]
    BY <1>6, <2>1 DEF Put
  <2>3. ASSUME NEW i \in 1..n, \A l \in 1..n : rows[l] = rows[i] => i <= l
        PROVE  m2[rows[i]] = i - 1
    BY <1>1, <1>4, <2>2, <2>3
  <2>4. FirstOf(m2, rows, n)
    BY <1>3, <2>2, <2>3 DEF FirstOf
  <2> QED BY <1>6, <2>1, <2>4
<1> QED BY <1>5, <1>6

\* FirstRows() is the map of the first rows.
LEMMA FirstRowsAreFirst ==
  ASSUME NEW rows \in Seq(Int)
  PROVE  FirstOf(FirstRows(rows), rows, Len(rows))
<1>1. DOMAIN rows = 1..Len(rows) /\ Len(rows) \in Nat
  BY LenProperties
<1>2. PICK m : m = FirstRows(rows)
  OBVIOUS
<1>3. m = [k \in {rows[j] : j \in 1..Len(rows)} |-> Min({n \in 1..Len(rows) : rows[n] = k}) - 1]
  BY <1>1, <1>2 DEF FirstRows, ToSet
<1>4. DOMAIN m = {rows[j] : j \in 1..Len(rows)}
  BY <1>3
<1>5. ASSUME NEW j \in 1..Len(rows), \A l \in 1..Len(rows) : rows[l] = rows[j] => j <= l
      PROVE  m[rows[j]] = j - 1
  <2>1. PICK A : A = {n \in 1..Len(rows) : rows[n] = rows[j]}
    OBVIOUS
  <2>2. A \subseteq Int /\ j \in A /\ \A y \in A : j <= y
    BY <1>5, <2>1
  <2>3. Min(A) = j
    BY <2>2, LeastIs
  <2>4. m[rows[j]] = Min(A) - 1
    BY <1>3, <2>1
  <2> QED BY <2>3, <2>4
<1>6. FirstOf(m, rows, Len(rows))
  BY <1>4, <1>5 DEF FirstOf
<1> QED BY <1>2, <1>6

\* Filling an index from the rows gives each key its first row.
LEMMA FilledIsFirstRows ==
  ASSUME NEW order \in Nat, order >= 2, NEW rows \in Seq(Int)
  PROVE  IsTree(Filled(EmptyTree(order), rows, Len(rows)), FirstRows(rows))
<1>1. PICK N \in Nat : N = Len(rows)
  BY LenProperties
<1>2. PICK f : Filled(EmptyTree(order), rows, N) = f[N] /\ Fills(f, EmptyTree(order), rows, N)
  BY FilledUnfolds
<1> DEFINE Right(n) == \E m : IsTree(f[n], m) /\ FirstOf(m, rows, n)
           Bad == {n \in 0..N : ~Right(n)}
<1>3. Bad = {}
  <2> SUFFICES ASSUME Bad # {} PROVE FALSE
    OBVIOUS
  <2>1. PICK n \in Bad : \A k \in Bad : n <= k
    <3>1. Bad \subseteq Nat
      OBVIOUS
    <3> HIDE DEF Bad
    <3> QED BY <3>1, LeastNumber
  <2>2. n \in 0..N /\ n \in Nat /\ ~Right(n)
    OBVIOUS
  <2> HIDE DEF Bad
  <2>3. CASE n = 0
    <3>1. f[0] = EmptyTree(order)
      BY <1>2, <2>2, <2>3 DEF Fills
    <3>2. PICK m : m = [k \in {} |-> 0]
      OBVIOUS
    <3>3. DOMAIN m = {} /\ {rows[j] : j \in 1..0} = {} /\ \A j : j \notin 1..0
      BY <3>2
    <3>4. FirstOf(m, rows, 0)
      BY <3>3 DEF FirstOf
    <3>5. IsTree(f[0], m)
      BY <3>1, <3>3, EmptyIsTree
    <3> QED BY <2>2, <2>3, <3>4, <3>5
  <2>4. CASE n # 0
    <3>1. n - 1 \in 0..N /\ ~(n <= n - 1) /\ n - 1 \in Nat /\ n \in 1..N
      BY <2>2, <2>4
    <3>2. n - 1 \notin Bad
      BY <2>1, <3>1
    <3>3. PICK m : IsTree(f[n - 1], m) /\ FirstOf(m, rows, n - 1)
      BY <3>1, <3>2 DEF Bad
    <3>4. f[n] = Insert(f[n - 1], rows[n], n - 1)
      BY <1>2, <2>2, <2>4 DEF Fills
    <3>5. rows[n] \in Int
      BY <1>1, <3>1, ElementOfSeq
    <3>6. PICK m2 : m2 = IF rows[n] \in DOMAIN m THEN m ELSE Put(m, rows[n], n - 1)
      OBVIOUS
    <3>7. IsTree(Insert(f[n - 1], rows[n], n - 1), m2)
      BY <3>1, <3>3, <3>5, <3>6, InsertIsPut
    <3>8. FirstOf(m2, rows, n)
      BY <2>2, <2>4, <3>3, <3>6, OneRowMore
    <3> QED BY <2>2, <3>4, <3>7, <3>8
  <2> QED BY <2>3, <2>4
<1>4. PICK m : IsTree(f[N], m) /\ FirstOf(m, rows, N)
  <2>1. N \in 0..N
    OBVIOUS
  <2> QED BY <1>3, <2>1
<1>5. PICK first : first = FirstRows(rows) /\ FirstOf(first, rows, N)
  BY <1>1, FirstRowsAreFirst
<1> HIDE DEF Right, Bad
<1>6. DOMAIN first = DOMAIN m /\ \A k \in DOMAIN m : first[k] = m[k]
  BY SMTT(30), <1>4, <1>5, SameFirstRows
<1>7. IsTree(f[N], first)
  BY <1>4, <1>6, SameMap
<1> QED BY <1>1, <1>2, <1>5, <1>7

\* The height of a tree is a number, and of a new one 1.
LEMMA HeightIsNat ==
  ASSUME NEW tree, NEW m, IsTree(tree, m)
  PROVE  Height(tree) \in Nat
<1>1. PICK level, range, pos : IsTreeBy(tree, level, range, pos, m)
  BY DEF IsTree
<1>2. tree.root \in DOMAIN tree.nodes
  BY <1>1 DEF IsTreeBy
<1>3. level[tree.root] \in Nat /\ Height(tree) = level[tree.root] + 1
  BY <1>1, <1>2, TreeNode, HeightIsLevel DEF Height
<1> QED BY <1>3

\* An empty tree is one leaf.
LEMMA EmptyHeight ==
  ASSUME NEW order \in Nat, order >= 2, NEW m, IsTree(EmptyTree(order), m)
  PROVE  Height(EmptyTree(order)) = 1
<1>1. PICK tree : tree = EmptyTree(order)
  OBVIOUS
<1>2. PICK level, range, pos : IsTreeBy(tree, level, range, pos, m)
  BY <1>1 DEF IsTree
<1>3. tree.root \in DOMAIN tree.nodes /\ tree.nodes[tree.root].leaf
  BY <1>1 DEF EmptyTree, Leaf
<1>4. level[tree.root] = 0
  BY <1>2, <1>3, TreeNode
<1>5. Height(tree) = level[tree.root] + 1
  BY <1>2, <1>3, HeightIsLevel DEF Height
<1> QED BY <1>1, <1>4, <1>5
-----------------------------------------------------------------------------
(* The indexes of a database. The invariant: each tree is in order and     *)
(* holds the map of its index, and each file gives back a tree in order    *)
(* that holds the map it was saved with.                                   *)

TreesHoldMaps == \A i \in Indexes : trees[i] # NoIndex => IsTree(trees[i], map[i])

FilesHoldSaved == \A i \in Indexes : files[i] # NoIndex => IsTree(Deserialize(files[i]), saved[i])

IndexInv ==
  /\ DOMAIN trees = Indexes /\ trees = [i \in Indexes |-> trees[i]]
  /\ DOMAIN files = Indexes /\ files = [i \in Indexes |-> files[i]]
  /\ DOMAIN map = Indexes /\ map = [i \in Indexes |-> map[i]]
  /\ DOMAIN saved = Indexes /\ saved = [i \in Indexes |-> saved[i]]
  /\ TreesHoldMaps /\ FilesHoldSaved

\* At first there is no index.
LEMMA InitHasIndexInv ==
  ASSUME Init
  PROVE  IndexInv
BY DEF Init, IndexInv, TreesHoldMaps, FilesHoldSaved

\* An index that gets a tree, a map or a file that fit leaves the others alone.
LEMMA OneIndexChanged ==
  ASSUME IndexInv, NEW i \in Indexes, NEW t, NEW f, NEW m, NEW s,
         trees' = [trees EXCEPT ![i] = t], files' = [files EXCEPT ![i] = f],
         map' = [map EXCEPT ![i] = m], saved' = [saved EXCEPT ![i] = s],
         t # NoIndex => IsTree(t, m), f # NoIndex => IsTree(Deserialize(f), s)
  PROVE  IndexInv'
<1>1. /\ DOMAIN trees' = Indexes /\ trees' = [j \in Indexes |-> trees'[j]]
      /\ DOMAIN files' = Indexes /\ files' = [j \in Indexes |-> files'[j]]
      /\ DOMAIN map' = Indexes /\ map' = [j \in Indexes |-> map'[j]]
      /\ DOMAIN saved' = Indexes /\ saved' = [j \in Indexes |-> saved'[j]]
  BY DEF IndexInv
<1>2. ASSUME NEW j \in Indexes
      PROVE  /\ trees'[j] = IF j = i THEN t ELSE trees[j]
             /\ files'[j] = IF j = i THEN f ELSE files[j]
             /\ map'[j] = IF j = i THEN m ELSE map[j]
             /\ saved'[j] = IF j = i THEN s ELSE saved[j]
  BY DEF IndexInv
<1>3. TreesHoldMaps'
  BY <1>2 DEF IndexInv, TreesHoldMaps
<1>4. FilesHoldSaved'
  BY <1>2 DEF IndexInv, FilesHoldSaved
<1> QED BY <1>1, <1>3, <1>4 DEF IndexInv

\* CREATE INDEX: the file has what the new tree holds.
LEMMA CreateIndexKeeps ==
  ASSUME IndexInv, FilesAreShallow, NEW i \in Indexes, NEW type, NEW rows \in Tables,
         NEW written \in BOOLEAN, CreateIndex(i, type, rows, written)
  PROVE  IndexInv'
<1>1. Order \in Nat /\ Order >= 2 /\ rows \in Seq(Int)
  BY OrderAssumption, DataAssumption
<1>2. PICK t, m : /\ t = IF type = "PRIMARY" THEN Filled(EmptyTree(Order), rows, Len(rows))
                         ELSE EmptyTree(Order)
                  /\ m = IF type = "PRIMARY" THEN FirstRows(rows) ELSE FirstRows(<<>>)
  OBVIOUS
<1>3. /\ trees' = [trees EXCEPT ![i] = t] /\ map' = [map EXCEPT ![i] = m]
      /\ files' = IF written THEN [files EXCEPT ![i] = Serialize(t)] ELSE files
      /\ saved' = IF written THEN [saved EXCEPT ![i] = map'[i]] ELSE saved
  BY <1>2 DEF CreateIndex
<1>4. map'[i] = m
  BY <1>3 DEF IndexInv
<1>5. IsTree(t, m) /\ Height(t) <= 2
  <2>1. CASE type = "PRIMARY"
    <3>1. IsTree(Filled(EmptyTree(Order), rows, Len(rows)), FirstRows(rows))
      BY <1>1, FilledIsFirstRows
    <3> QED BY <1>2, <2>1, <3>1 DEF FilesAreShallow
  <2>2. CASE type # "PRIMARY"
    <3>1. PICK none : none = <<>>
      OBVIOUS
    <3>2. DOMAIN FirstRows(none) = {}
      BY <3>1 DEF FirstRows, ToSet
    <3>3. IsTree(EmptyTree(Order), FirstRows(none))
      BY <1>1, <3>2, EmptyIsTree
    <3>4. Height(EmptyTree(Order)) = 1
      BY <1>1, <3>3, EmptyHeight
    <3> QED BY <1>2, <2>2, <3>1, <3>3, <3>4
  <2> QED BY <2>1, <2>2
<1>6. IsTree(Deserialize(Serialize(t)), m)
  BY <1>5, FileKeepsMap
<1>7. CASE written
  BY <1>3, <1>4, <1>5, <1>6, <1>7, OneIndexChanged
<1>8. CASE ~written
  <2>1. PICK f, s : f = files[i] /\ s = saved[i]
    OBVIOUS
  <2>2. files' = [files EXCEPT ![i] = f] /\ saved' = [saved EXCEPT ![i] = s]
    BY <1>3, <1>8, <2>1 DEF IndexInv
  <2>3. f # NoIndex => IsTree(Deserialize(f), s)
    BY <2>1 DEF IndexInv, FilesHoldSaved
  <2> QED BY <1>3, <1>5, <2>2, <2>3, OneIndexChanged
<1> QED BY <1>7, <1>8

\* DROP INDEX.
LEMMA DropIndexKeeps ==
  ASSUME IndexInv, NEW i \in Indexes, DropIndex(i)
  PROVE  IndexInv'
BY OneIndexChanged DEF DropIndex

\* A key is inserted into the tree and noted in the map.
LEMMA InsertKeyKeeps ==
  ASSUME IndexInv, NEW i \in Indexes, NEW key \in Keys, NEW row \in RowIds, InsertKey(i, key, row)
  PROVE  IndexInv'
<1>1. key \in Int /\ row \in Nat
  BY DataAssumption
<1>2. PICK t, m, t2, m2 : /\ t = trees[i] /\ m = map[i]
                          /\ t2 = Insert(t, key, row) /\ m2 = Noted(m, key, row)
  OBVIOUS
<1>3. /\ t # NoIndex /\ trees' = [trees EXCEPT ![i] = t2] /\ map' = [map EXCEPT ![i] = m2]
      /\ files' = files /\ saved' = saved
  BY <1>2 DEF InsertKey
<1>4. IsTree(t, m)
  BY <1>2, <1>3 DEF IndexInv, TreesHoldMaps
<1>5. PICK m3 : m3 = IF key \in DOMAIN m THEN m ELSE Put(m, key, row)
  OBVIOUS
<1>6. IsTree(t2, m3)
  BY <1>1, <1>2, <1>4, <1>5, InsertIsPut
<1>7. DOMAIN m2 = DOMAIN m3 /\ \A k \in DOMAIN m3 : m2[k] = m3[k]
  BY <1>2, <1>5 DEF Noted, Put
<1>8. IsTree(t2, m2)
  BY <1>6, <1>7, SameMap
<1>9. PICK f, s : f = files[i] /\ s = saved[i]
  OBVIOUS
<1>10. files' = [files EXCEPT ![i] = f] /\ saved' = [saved EXCEPT ![i] = s]
  BY <1>3, <1>9 DEF IndexInv
<1>11. f # NoIndex => IsTree(Deserialize(f), s)
  BY <1>9 DEF IndexInv, FilesHoldSaved
<1> QED BY <1>3, <1>8, <1>10, <1>11, OneIndexChanged

\* A key is removed from both.
LEMMA DeleteKeyKeeps ==
  ASSUME IndexInv, NEW i \in Indexes, NEW key \in Keys, DeleteKey(i, key)
  PROVE  IndexInv'
<1>1. key \in Int
  BY DataAssumption
<1>2. PICK t, m, t2, m2 : /\ t = trees[i] /\ m = map[i]
                          /\ t2 = RemoveKey(t, key) /\ m2 = Restrict(m, DOMAIN m \ {key})
  OBVIOUS
<1>3. /\ t # NoIndex /\ trees' = [trees EXCEPT ![i] = t2] /\ map' = [map EXCEPT ![i] = m2]
      /\ files' = files /\ saved' = saved
  BY <1>2 DEF DeleteKey
<1>4. IsTree(t, m)
  BY <1>2, <1>3 DEF IndexInv, TreesHoldMaps
<1>5. DOMAIN m2 = DOMAIN m \ {key} /\ \A k \in DOMAIN m2 : m2[k] = m[k]
  BY <1>2 DEF Restrict
<1>6. IsTree(t2, m2)
  BY <1>1, <1>2, <1>4, <1>5, RemoveIsRestrict
<1>7. PICK f, s : f = files[i] /\ s = saved[i]
  OBVIOUS
<1>8. files' = [files EXCEPT ![i] = f] /\ saved' = [saved EXCEPT ![i] = s]
  BY <1>3, <1>7 DEF IndexInv
<1>9. f # NoIndex => IsTree(Deserialize(f), s)
  BY <1>7 DEF IndexInv, FilesHoldSaved
<1> QED BY <1>3, <1>6, <1>8, <1>9, OneIndexChanged

\* The file gets what the tree holds.
LEMMA SaveIndexKeeps ==
  ASSUME IndexInv, FilesAreShallow, NEW i \in Indexes, SaveIndex(i)
  PROVE  IndexInv'
<1>1. PICK t, m : t = trees[i] /\ m = map[i]
  OBVIOUS
<1>2. /\ t # NoIndex /\ Height(t) <= MaxSavedHeight
      /\ files' = [files EXCEPT ![i] = Serialize(t)] /\ saved' = [saved EXCEPT ![i] = m]
      /\ trees' = trees /\ map' = map
  BY <1>1 DEF SaveIndex
<1>3. IsTree(t, m)
  BY <1>1, <1>2 DEF IndexInv, TreesHoldMaps
<1>4. Height(t) <= 2
  <2>1. Height(t) \in Nat
    BY <1>3, HeightIsNat
  <2> QED BY <1>2, <2>1, BoundAssumption DEF FilesAreShallow
<1>5. IsTree(Deserialize(Serialize(t)), m)
  BY <1>3, <1>4, FileKeepsMap
<1>6. trees' = [trees EXCEPT ![i] = t] /\ map' = [map EXCEPT ![i] = m]
  BY <1>1, <1>2 DEF IndexInv
<1> QED BY <1>2, <1>3, <1>5, <1>6, OneIndexChanged

\* The tree gets what the file has.
LEMMA LoadIndexKeeps ==
  ASSUME IndexInv, NEW i \in Indexes, LoadIndex(i)
  PROVE  IndexInv'
<1>1. PICK f, s : f = files[i] /\ s = saved[i]
  OBVIOUS
<1>2. /\ f # NoIndex /\ trees' = [trees EXCEPT ![i] = Deserialize(f)]
      /\ map' = [map EXCEPT ![i] = s] /\ files' = files /\ saved' = saved
  BY <1>1 DEF LoadIndex
<1>3. IsTree(Deserialize(f), s)
  BY <1>1, <1>2 DEF IndexInv, FilesHoldSaved
<1>4. files' = [files EXCEPT ![i] = f] /\ saved' = [saved EXCEPT ![i] = s]
  BY <1>1, <1>2 DEF IndexInv
<1> QED BY <1>2, <1>3, <1>4, OneIndexChanged

\* A start of the process knows no index; the files stay.
LEMMA RestartKeeps ==
  ASSUME IndexInv, Restart
  PROVE  IndexInv'
<1>1. /\ trees' = [i \in Indexes |-> NoIndex] /\ map' = [i \in Indexes |-> NoIndex]
      /\ files' = files /\ saved' = saved
  BY DEF Restart
<1>2. FilesHoldSaved'
  BY <1>1 DEF IndexInv, FilesHoldSaved
<1>3. TreesHoldMaps'
  BY <1>1 DEF TreesHoldMaps
<1> QED BY <1>1, <1>2, <1>3 DEF IndexInv

\* Whatever a client of the indexes does, trees, maps and files fit.
THEOREM SpecKeepsIndexInv == FilesAreShallow => (Spec => []IndexInv)
<1> SUFFICES ASSUME FilesAreShallow PROVE Spec => []IndexInv
  OBVIOUS
<1>1. Init => IndexInv
  BY InitHasIndexInv
<1>2. IndexInv /\ [Next]_vars => IndexInv'
  <2> SUFFICES ASSUME IndexInv, [Next]_vars PROVE IndexInv'
    OBVIOUS
  <2>1. CASE Restart
    BY <2>1, RestartKeeps
  <2>2. ASSUME NEW i \in Indexes, NEW type \in {"PRIMARY", "NORMAL"}, NEW rows \in Tables,
               NEW written \in BOOLEAN, CreateIndex(i, type, rows, written)
        PROVE  IndexInv'
    BY <2>2, CreateIndexKeeps
  <2>3. ASSUME NEW i \in Indexes, DropIndex(i) PROVE IndexInv'
    BY <2>3, DropIndexKeeps
  <2>4. ASSUME NEW i \in Indexes, SaveIndex(i) PROVE IndexInv'
    BY <2>4, SaveIndexKeeps
  <2>5. ASSUME NEW i \in Indexes, LoadIndex(i) PROVE IndexInv'
    BY <2>5, LoadIndexKeeps
  <2>6. ASSUME NEW i \in Indexes, NEW key \in Keys, DeleteKey(i, key) PROVE IndexInv'
    BY <2>6, DeleteKeyKeeps
  <2>7. ASSUME NEW i \in Indexes, NEW key \in Keys, NEW row \in RowIds, InsertKey(i, key, row)
        PROVE  IndexInv'
    BY <2>7, InsertKeyKeeps
  <2>8. CASE UNCHANGED vars
    BY <2>8 DEF vars, IndexInv, TreesHoldMaps, FilesHoldSaved
  <2> QED BY <2>1, <2>2, <2>3, <2>4, <2>5, <2>6, <2>7, <2>8 DEF Next
<1> QED BY <1>1, <1>2, PTL DEF Spec

\* find() gives the map that the history of an index has made, whatever nodes were split or
\* emptied, and after its file was loaded.
THEOREM FindIsMapHolds == FilesAreShallow => (Spec => []FindIsMap)
<1>1. IndexInv => FindIsMap
  <2> SUFFICES ASSUME IndexInv, NEW i \in Existing, NEW k \in Keys
               PROVE  Find(trees[i], k) = IF k \in DOMAIN map[i] THEN map[i][k] ELSE -1
    BY DEF FindIsMap
  <2>1. IsTree(trees[i], map[i])
    BY DEF IndexInv, TreesHoldMaps, Existing
  <2>2. PICK level, range, pos : IsTreeBy(trees[i], level, range, pos, map[i])
    BY <2>1 DEF IsTree
  <2>3. k \in Int
    BY DataAssumption
  <2> QED BY <2>2, <2>3, FindIsLookup
<1> QED BY <1>1, SpecKeepsIndexInv, PTL
-----------------------------------------------------------------------------
(* What a tree that holds a map is to SearchTrees.                         *)

\* A tree that holds a map has nodes of the right sizes.
LEMMA TreeIsWellFormed ==
  ASSUME NEW tree, NEW m, IsTree(tree, m)
  PROVE  IsWellFormed(tree)
<1>1. PICK level, range, pos : IsTreeBy(tree, level, range, pos, m)
  BY DEF IsTree
<1>2. ASSUME NEW n \in DOMAIN tree.nodes
      PROVE  /\ Len(tree.nodes[n].keys) <= tree.order
             /\ tree.nodes[n].leaf => Len(tree.nodes[n].values) = Len(tree.nodes[n].keys)
             /\ ~tree.nodes[n].leaf =>
                  Len(tree.nodes[n].children) = Len(tree.nodes[n].keys) + 1
  <2>1. /\ tree.nodes[n].leaf => IsLeaf(tree.order, tree.nodes[n])
        /\ ~tree.nodes[n].leaf => IsInner(tree.order, tree.nodes[n])
    BY <1>1, TreeNode
  <2>2. CASE tree.nodes[n].leaf
    BY <2>1, <2>2 DEF IsLeaf
  <2>3. CASE ~tree.nodes[n].leaf
    <3>1. tree.order \in Nat
      BY <1>1 DEF IsTreeBy
    <3>2. Len(tree.nodes[n].keys) \in 1..tree.order
      BY <2>1, <2>3 DEF IsInner
    <3> QED BY <2>1, <2>3, <3>1, <3>2 DEF IsInner
  <2> QED BY <2>2, <2>3
<1> QED BY <1>2 DEF IsWellFormed

\* The keys below a child are on its side of the separators.
LEMMA SidesOfSeparators ==
  ASSUME NEW keys \in Seq(Int), NEW node, node.keys = keys, Ascending(keys), NEW k \in Int,
         NEW c \in Int, FindChildIndex(node, k) + 1 = c
  PROVE  /\ c <= Len(keys) /\ c >= 1 => k < keys[c]
         /\ c > 1 /\ c <= Len(keys) + 1 => k >= keys[c - 1]
<1>1. PICK p, N : p = FindChildIndex(node, k) /\ N = Len(keys)
  OBVIOUS
<1>2. N \in Nat /\ p \in 0..N /\ \A i \in 1..N : keys[i] <= k <=> i <= p
  BY <1>1, FindChildCounts, LenProperties
<1>3. p + 1 = c /\ c \in Nat
  BY <1>1, <1>2
<1>4. \A i \in 1..N : keys[i] \in Int
  BY <1>1, ElementOfSeq
<1>5. ASSUME c <= N, c >= 1 PROVE k < keys[c]
  <2>1. c \in 1..N /\ ~(c <= p)
    BY <1>2, <1>3, <1>5
  <2>2. ~(keys[c] <= k) /\ keys[c] \in Int
    BY <1>2, <1>4, <2>1
  <2> QED BY <2>2
<1>6. ASSUME c > 1, c <= N + 1 PROVE k >= keys[c - 1]
  <2>1. c - 1 \in 1..N /\ c - 1 <= p
    BY <1>2, <1>3, <1>6
  <2>2. keys[c - 1] <= k /\ keys[c - 1] \in Int
    BY <1>2, <1>4, <2>1
  <2> QED BY <2>2
<1> QED BY <1>1, <1>5, <1>6

\* A tree that holds a map is a search tree.
LEMMA TreeIsSearchTree ==
  ASSUME NEW tree, NEW m, IsTree(tree, m)
  PROVE  IsSearchTree(tree)
<1>1. PICK level, range, pos : IsTreeBy(tree, level, range, pos, m)
  BY DEF IsTree
<1>2. tree.root \in DOMAIN tree.nodes
  BY <1>1 DEF IsTreeBy
<1>3. \A n \in DOMAIN tree.nodes :
        \A y \in Below(tree, n) : y \in DOMAIN tree.nodes /\ range[y] \subseteq range[n]
  BY <1>1, PreorderInRange DEF Below
<1>4. SUFFICES ASSUME NEW n \in DOMAIN tree.nodes, NEW node, node = tree.nodes[n]
               PROVE  /\ \A a, b \in DOMAIN node.keys : a < b => node.keys[a] < node.keys[b]
                      /\ \A c \in DOMAIN node.children : \A y \in Below(tree, node.children[c]) :
                           \A k \in ToSet(tree.nodes[y].keys) :
                             /\ c <= Len(node.keys) => k < node.keys[c]
                             /\ c > 1 => k >= node.keys[c - 1]
                      /\ \A c \in DOMAIN node.children :
                           HeightBelow(tree.nodes, node.children[c])
                             = HeightBelow(tree.nodes, n) - 1
  BY <1>2, <1>3 DEF IsSearchTree
<1>5. /\ node.keys \in Seq(Int) /\ Ascending(node.keys) /\ level[n] \in Nat
      /\ node.leaf => node.children = <<>>
  <2>1. /\ tree.nodes[n].keys \in Seq(Int) /\ Ascending(tree.nodes[n].keys)
        /\ level[n] \in 0..level[tree.root] /\ level[tree.root] \in Nat
        /\ tree.nodes[n].leaf => IsLeaf(tree.order, tree.nodes[n])
    BY <1>1, TreeNode
  <2> QED BY <1>4, <2>1 DEF IsLeaf
<1>6. ASSUME NEW c \in DOMAIN node.children
      PROVE  /\ c \in 1..Len(node.keys) + 1 /\ Len(node.keys) \in Nat
             /\ node.children[c] \in DOMAIN tree.nodes
             /\ level[node.children[c]] = level[n] - 1
             /\ range[node.children[c]] = Part(node, range[n], c)
  <2>1. ~node.leaf
    BY <1>5
  <2>2. /\ DOMAIN tree.nodes[n].children = 1..Len(tree.nodes[n].children)
        /\ Len(tree.nodes[n].children) = Len(tree.nodes[n].keys) + 1
        /\ Len(tree.nodes[n].keys) \in Nat /\ Len(tree.nodes[n].children) \in Nat
        /\ Len(tree.nodes[n].keys) # 0 /\ 1 \in DOMAIN tree.nodes[n].children
        /\ \A d \in DOMAIN tree.nodes[n].children :
             /\ tree.nodes[n].children[d] \in DOMAIN tree.nodes
             /\ level[tree.nodes[n].children[d]] = level[n] - 1
             /\ range[tree.nodes[n].children[d]] = Part(tree.nodes[n], range[n], d)
    BY <1>1, <1>4, <2>1, Children
  <2> QED BY <1>4, <2>2
<1>7. ASSUME NEW c \in DOMAIN node.children, NEW y \in Below(tree, node.children[c]),
             NEW k \in ToSet(tree.nodes[y].keys)
      PROVE  /\ c <= Len(node.keys) => k < node.keys[c]
             /\ c > 1 => k >= node.keys[c - 1]
  <2>1. y \in DOMAIN tree.nodes /\ range[y] \subseteq Part(node, range[n], c)
    BY <1>3, <1>6
  <2>2. k \in range[y]
    <3>1. KeysInRange(tree.nodes, range, y)
      BY <1>1, <2>1, TreeNode
    <3> QED BY <3>1 DEF KeysInRange, ToSet
  <2>3. range[n] \in SUBSET Int
    BY <1>1, TreeNode
  <2>4. k \in Int /\ FindChildIndex(node, k) + 1 = c
    BY <2>1, <2>2, <2>3 DEF Part
  <2>5. PICK N \in Nat : N = Len(node.keys) /\ c \in 1..N + 1
    BY <1>6
  <2>6. c \in Int /\ c >= 1 /\ c <= N + 1
    BY <2>5
  <2>7. /\ c <= Len(node.keys) /\ c >= 1 => k < node.keys[c]
        /\ c > 1 /\ c <= Len(node.keys) + 1 => k >= node.keys[c - 1]
    BY <1>5, <2>4, <2>6, SidesOfSeparators
  <2> QED BY <2>5, <2>6, <2>7
<1>8. ASSUME NEW c \in DOMAIN node.children
      PROVE  HeightBelow(tree.nodes, node.children[c]) = HeightBelow(tree.nodes, n) - 1
  <2>1. PICK x : x = node.children[c] /\ x \in DOMAIN tree.nodes /\ level[x] = level[n] - 1
    BY <1>6
  <2>2. HeightBelow(tree.nodes, x) = level[x] + 1
    BY <1>1, <2>1, HeightIsLevel
  <2>3. HeightBelow(tree.nodes, n) = level[n] + 1
    BY <1>1, HeightIsLevel
  <2> QED BY <1>5, <2>1, <2>2, <2>3
<1>9. \A a, b \in DOMAIN node.keys : a < b => node.keys[a] < node.keys[b]
  BY <1>5 DEF Ascending
<1> QED BY <1>7, <1>8, <1>9

\* No split, removal or loading breaks a node or puts a key where find() does not look.
THEOREM SearchTreesHold == FilesAreShallow => (Spec => []SearchTrees)
<1>1. IndexInv => SearchTrees
  BY TreeIsWellFormed, TreeIsSearchTree DEF IndexInv, TreesHoldMaps, Existing, SearchTrees
<1> QED BY <1>1, SpecKeepsIndexInv, PTL

\* A range gives the row ids of exactly its keys, in ascending order, along leaves that were
\* split, emptied or loaded.
THEOREM RangesAreCompleteHolds == FilesAreShallow => (Spec => []RangesAreComplete)
<1>1. IndexInv => RangesAreComplete
  <2> SUFFICES ASSUME IndexInv, NEW i \in Existing, NEW min \in Keys, NEW max \in Keys
               PROVE  LET inside == {k \in DOMAIN map[i] : min <= k /\ k <= max}
                          found == RangeSearch(trees[i], min, max)
                      IN  /\ Len(found) = Cardinality(inside)
                          /\ \A k \in inside :
                               found[Cardinality({j \in inside : j <= k})] = map[i][k]
    BY DEF RangesAreComplete
  <2>9. PICK m, inside, found : /\ m = map[i] /\ inside = {k \in DOMAIN m : min <= k /\ k <= max}
                                /\ found = RangeSearch(trees[i], min, max)
    OBVIOUS
  <2>1. min \in Int /\ max \in Int
    BY DataAssumption
  <2>2. IsTree(trees[i], m)
    BY <2>9 DEF IndexInv, TreesHoldMaps, Existing
  <2>3. Answers(found, m, inside)
    BY <2>1, <2>2, <2>9, RangeSearchAnswers
  <2>4. PICK keys : AnswersBy(found, m, inside, keys)
    BY <2>3 DEF Answers
  <2>5. PICK N \in Nat : N = Len(keys) /\ DOMAIN keys = 1..N
    BY <2>4, LenProperties DEF AnswersBy, Lists
  <2>6. /\ N = Cardinality(inside)
        /\ \A a \in 1..N : Cardinality({k \in inside : k <= keys[a]}) = a
    BY <2>4, <2>5, ListedByRank DEF AnswersBy
  <2>7. ASSUME NEW k \in inside PROVE found[Cardinality({j \in inside : j <= k})] = m[k]
    <3>1. PICK a \in 1..N : keys[a] = k
      BY <2>4, <2>5 DEF AnswersBy, Lists, ToSet
    <3>2. Cardinality({j \in inside : j <= k}) = a
      BY <2>6, <3>1
    <3>3. found[a] = m[k]
      BY <2>4, <2>5, <3>1 DEF AnswersBy
    <3> QED BY <3>2, <3>3
  <2>8. Len(found) = Cardinality(inside)
    BY <2>4, <2>5, <2>6 DEF AnswersBy
  <2> QED BY <2>7, <2>8, <2>9
<1> QED BY <1>1, SpecKeepsIndexInv, PTL
=============================================================================
