------------------------------ MODULE BPlusTree ------------------------------
(***************************************************************************)
(* The B+ tree of an index (storage/BPlusTree.cpp): int64 keys to row ids. *)
(*                                                                         *)
(* A tree is its order and a heap of nodes: nodes are numbered as they are *)
(* made, and a node holds its keys, the row ids (leaf) or the children     *)
(* (inner node), and the next leaf. Every operation runs under the tree's  *)
(* read-write lock, so each is one operator from tree to tree.             *)
(***************************************************************************)
EXTENDS Integers, SequencesExt, FiniteSetsExt, Selection

NoNode == 0

Leaf(keys, values, next) ==
  [leaf |-> TRUE, keys |-> keys, values |-> values, children |-> <<>>, next |-> next]
Inner(keys, children) ==
  [leaf |-> FALSE, keys |-> keys, values |-> <<>>, children |-> children, next |-> NoNode]

EmptyTree(order) == [order |-> order, root |-> 1, nodes |-> <<Leaf(<<>>, <<>>, NoNode)>>]

\* make_shared<BPlusTreeNode>
NewNode(nodes) == Len(nodes) + 1

\* The index, counted from 0, of the first key that is not less: std::lower_bound.
FindKey(node, key) == Cardinality({i \in DOMAIN node.keys : node.keys[i] < key})

\* Mutant: keys equal to a separator are looked for to its left.
FindChildIndexLeft(node, key) == Cardinality({i \in DOMAIN node.keys : node.keys[i] < key})

\* Keys equal to a separator are found to its right.
FindChildIndex(node, key) == Cardinality({i \in DOMAIN node.keys : node.keys[i] <= key})

Child(node, key) == node.children[FindChildIndex(node, key) + 1]

LeafFor(nodes, root, key) ==
  LET leaf[n \in DOMAIN nodes] == IF nodes[n].leaf THEN n ELSE leaf[Child(nodes[n], key)]
  IN  leaf[root]

\* The row id of a key, or -1.
Find(tree, key) ==
  LET leaf == tree.nodes[LeafFor(tree.nodes, tree.root, key)]
      pos == FindKey(leaf, key) + 1
  IN  IF pos \in DOMAIN leaf.keys /\ leaf.keys[pos] = key THEN leaf.values[pos] ELSE -1

\* The row ids that the scan takes from a leaf: it leaves the leaf at the first key past max.
Hits(node, min, max) ==
  Selected(node.values,
           {i \in DOMAIN node.keys : (\A j \in 1..i : node.keys[j] <= max) /\ node.keys[i] >= min})

Leaves(nodes) == {n \in DOMAIN nodes : nodes[n].leaf}

\* The walk along the leaves goes on after a leaf that has passed max.
ScanFrom(nodes, first, min, max) ==
  LET scan[n \in Leaves(nodes) \cup {NoNode}] ==
        IF n = NoNode THEN <<>> ELSE Hits(nodes[n], min, max) \o scan[nodes[n].next]
  IN  scan[first]

RangeSearch(tree, min, max) ==
  ScanFrom(tree.nodes, LeafFor(tree.nodes, tree.root, min), min, max)
-----------------------------------------------------------------------------
(* insert(): what it returns is the nodes and, when node n was split, the new right node
   and the key that goes up. *)

NoSplit == [key |-> 0, node |-> NoNode]

\* Mutant: the new leaf is not linked.
InsertIntoLeafUnlinked(order, nodes, n, key, row) ==
  LET node == nodes[n]
      pos == FindKey(node, key) + 1
      keys == InsertAt(node.keys, pos, key)
      values == InsertAt(node.values, pos, row)
      mid == Len(keys) \div 2
  IN  IF Len(keys) <= order
      THEN [nodes |-> [nodes EXCEPT ![n] = Leaf(keys, values, node.next)], split |-> NoSplit]
      ELSE [nodes |-> Append([nodes EXCEPT ![n] =
                                Leaf(SubSeq(keys, 1, mid), SubSeq(values, 1, mid), node.next)],
                             Leaf(SubSeq(keys, mid + 1, Len(keys)),
                                  SubSeq(values, mid + 1, Len(keys)), NoNode)),
            split |-> [key |-> keys[mid + 1], node |-> NewNode(nodes)]]

InsertIntoLeaf(order, nodes, n, key, row) ==
  LET node == nodes[n]
      pos == FindKey(node, key) + 1
      keys == InsertAt(node.keys, pos, key)
      values == InsertAt(node.values, pos, row)
      mid == Len(keys) \div 2
      new == NewNode(nodes)
  IN  IF Len(keys) <= order
      THEN [nodes |-> [nodes EXCEPT ![n] = Leaf(keys, values, node.next)], split |-> NoSplit]
      ELSE [nodes |-> Append([nodes EXCEPT ![n] =
                                Leaf(SubSeq(keys, 1, mid), SubSeq(values, 1, mid), new)],
                             Leaf(SubSeq(keys, mid + 1, Len(keys)),
                                  SubSeq(values, mid + 1, Len(keys)), node.next)),
            split |-> [key |-> keys[mid + 1], node |-> new]]

\* The split of a child adds its key and its right node; the middle key of an overfull inner
\* node moves up and stays in neither half.
InsertIntoInner(order, nodes, n, index, split) ==
  LET keys == InsertAt(nodes[n].keys, index + 1, split.key)
      children == InsertAt(nodes[n].children, index + 2, split.node)
      mid == Len(keys) \div 2
      new == NewNode(nodes)
  IN  IF Len(keys) <= order
      THEN [nodes |-> [nodes EXCEPT ![n] = Inner(keys, children)], split |-> NoSplit]
      ELSE [nodes |-> Append([nodes EXCEPT ![n] =
                                Inner(SubSeq(keys, 1, mid), SubSeq(children, 1, mid + 1))],
                             Inner(SubSeq(keys, mid + 2, Len(keys)),
                                   SubSeq(children, mid + 2, Len(children)))),
            split |-> [key |-> keys[mid + 1], node |-> new]]

InsertBelow(order, nodes, n, key, row) ==
  LET below[m \in DOMAIN nodes] ==
        IF nodes[m].leaf THEN InsertIntoLeaf(order, nodes, m, key, row)
        ELSE LET index == FindChildIndex(nodes[m], key)
                 child == below[nodes[m].children[index + 1]]
             IN  IF child.split = NoSplit THEN child
                 ELSE InsertIntoInner(order, child.nodes, m, index, child.split)
  IN  below[n]

\* The tree after the insertion; the split of the root has made a new root.
Grown(tree, below) ==
  IF below.split = NoSplit THEN [order |-> tree.order, root |-> tree.root, nodes |-> below.nodes]
  ELSE [order |-> tree.order, root |-> NewNode(below.nodes),
        nodes |-> Append(below.nodes,
                         Inner(<<below.split.key>>, <<tree.root, below.split.node>>))]

\* Mutant: a key that is there already is added again.
InsertAgain(tree, key, row) ==
  Grown(tree, InsertBelow(tree.order, tree.nodes, tree.root, key, row))

\* A key that is there already is refused.
Insert(tree, key, row) ==
  IF Find(tree, key) # -1 THEN tree
  ELSE Grown(tree, InsertBelow(tree.order, tree.nodes, tree.root, key, row))

\* Only the leaf changes: nothing is merged, and separators stay.
RemoveKey(tree, key) ==
  LET n == LeafFor(tree.nodes, tree.root, key)
      leaf == tree.nodes[n]
      pos == FindKey(leaf, key) + 1
      nodes == [tree.nodes EXCEPT ![n] = Leaf(RemoveAt(leaf.keys, pos), RemoveAt(leaf.values, pos),
                                              leaf.next)]
      root == nodes[tree.root]
  IN  IF Find(tree, key) = -1 THEN tree
      ELSE [order |-> tree.order, nodes |-> nodes,
            root |-> IF ~root.leaf /\ Len(root.children) = 1 THEN root.children[1] ELSE tree.root]
-----------------------------------------------------------------------------
(* The file of an index: the nodes in preorder, each with the number of its children. *)

Preorder(nodes, root) ==
  LET from[n \in DOMAIN nodes] ==
        <<n>> \o FlattenSeq([c \in DOMAIN nodes[n].children |-> from[nodes[n].children[c]]])
  IN  from[root]

Serialize(tree) ==
  LET order == Preorder(tree.nodes, tree.root)
  IN  [order |-> tree.order,
       nodes |-> [i \in DOMAIN order |->
                    LET node == tree.nodes[order[i]]
                    IN  [leaf |-> node.leaf, keys |-> node.keys, values |-> node.values,
                         childCount |-> Len(node.children)]]]

\* The children of node i are taken to be the nodes that follow it; the leaves are linked in
\* the order of the file.
Deserialize(data) ==
  LET size == Len(data.nodes)
      NextLeaf(i) == LET later == {j \in (i + 1)..size : data.nodes[j].leaf}
                     IN  IF later = {} THEN NoNode ELSE Min(later)
      Rebuilt(i) ==
        LET node == data.nodes[i]
        IN  IF node.leaf THEN Leaf(node.keys, node.values, NextLeaf(i))
            ELSE Inner(node.keys, [c \in 1..Min({node.childCount, size - i}) |-> i + c])
  IN  [order |-> data.order, root |-> 1, nodes |-> [i \in 1..size |-> Rebuilt(i)]]

GetNodeCount(tree) == Len(Preorder(tree.nodes, tree.root))

\* The number of levels, along the first children.
HeightBelow(nodes, root) ==
  LET height[n \in DOMAIN nodes] ==
        IF nodes[n].leaf THEN 1 ELSE 1 + height[nodes[n].children[1]]
  IN  height[root]
Height(tree) == HeightBelow(tree.nodes, tree.root)
=============================================================================
