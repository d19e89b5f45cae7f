---------------------------- MODULE IndexManager -----------------------------
(***************************************************************************)
(* The indexes of a database (storage/IndexManager.cpp): B+ trees by name  *)
(* in memory, each with a file. CREATE INDEX and DROP INDEX reach it from  *)
(* SQL; a client of the tree then inserts and removes keys. No statement   *)
(* maintains an index when it changes the table, and no start-up loads one.*)
(***************************************************************************)
EXTENDS BPlusTree

CONSTANTS Indexes,     \* index names
          Keys,        \* the keys a client uses
          RowIds,      \* the row ids it gives them
          Order,       \* the order of the trees (200 in the code)
          NoIndex,     \* no index of that name, no such file
          Tables,      \* what CREATE INDEX may find in the table: the key of each row
          MaxSavedHeight \* bound on the levels of a tree that is saved

ASSUME OrderAssumption == Order \in Nat /\ Order >= 2
ASSUME DataAssumption == Keys \subseteq Int /\ RowIds \subseteq Nat /\ Tables \subseteq Seq(Int)
ASSUME BoundAssumption == MaxSavedHeight \in Nat

VARIABLES trees,  \* indexes_ of the database
          files,  \* the index files
          map,    \* history: the map from keys to row ids that each index has been made
          saved   \* history: the map that it was when it was saved last

vars == <<trees, files, map, saved>>

Existing == {i \in Indexes : trees[i] # NoIndex}

Init ==
  /\ trees = [i \in Indexes |-> NoIndex]
  /\ files = [i \in Indexes |-> NoIndex]
  /\ map = [i \in Indexes |-> NoIndex]
  /\ saved = [i \in Indexes |-> NoIndex]

\* The rows in order, each with its position, from 0, as its row id.
Filled(tree, rows, count) ==
  LET filled[n \in 0..count] ==
        IF n = 0 THEN tree ELSE Insert(filled[n - 1], rows[n], n - 1)
  IN  filled[count]

\* deserialize() takes the children of a node to be the nodes that follow it in the file: a
\* tree of three levels does not come back as it was. No file has one.
FilesAreShallow ==
  /\ MaxSavedHeight <= 2
  /\ \A rows \in Tables : Height(Filled(EmptyTree(Order), rows, Len(rows))) <= 2

\* The map of an index on the first column of these rows: a key's first row counts.
FirstRows(rows) ==
  [k \in ToSet(rows) |-> Min({n \in DOMAIN rows : rows[n] = k}) - 1]

\* The first row id that is inserted for a key counts.
Noted(m, key, row) ==
  [k \in DOMAIN m \cup {key} |-> IF k \in DOMAIN m THEN m[k] ELSE row]

\* Only a PRIMARY index is filled; CREATE INDEX makes UNIQUE and NORMAL ones. Without the
\* table, or when a key is no number, nothing has changed yet; where the file cannot be
\* written the caller gets an error and the new tree is there.
CreateIndex(i, type, rows, written) ==
  LET empty == EmptyTree(Order)
      tree == IF type = "PRIMARY" THEN Filled(empty, rows, Len(rows)) ELSE empty
  IN  /\ trees' = [trees EXCEPT ![i] = tree]
      /\ map' = [map EXCEPT ![i] = IF type = "PRIMARY" THEN FirstRows(rows) ELSE FirstRows(<<>>)]
      /\ files' = IF written THEN [files EXCEPT ![i] = Serialize(tree)] ELSE files
      /\ saved' = IF written THEN [saved EXCEPT ![i] = map'[i]] ELSE saved

DropIndex(i) ==
  /\ trees[i] # NoIndex
  /\ trees' = [trees EXCEPT ![i] = NoIndex]
  /\ files' = [files EXCEPT ![i] = NoIndex]
  /\ map' = [map EXCEPT ![i] = NoIndex]
  /\ saved' = [saved EXCEPT ![i] = NoIndex]

\* getIndex() gives the tree itself.
InsertKey(i, key, row) ==
  /\ trees[i] # NoIndex
  /\ trees' = [trees EXCEPT ![i] = Insert(@, key, row)]
  /\ map' = [map EXCEPT ![i] = Noted(@, key, row)]
  /\ UNCHANGED <<files, saved>>

DeleteKey(i, key) ==
  /\ trees[i] # NoIndex
  /\ trees' = [trees EXCEPT ![i] = RemoveKey(@, key)]
  /\ map' = [map EXCEPT ![i] = Restrict(@, DOMAIN @ \ {key})]
  /\ UNCHANGED <<files, saved>>

\* A write that fails changes nothing.
SaveIndex(i) ==
  /\ trees[i] # NoIndex
  /\ Height(trees[i]) <= MaxSavedHeight
  /\ files' = [files EXCEPT ![i] = Serialize(trees[i])]
  /\ saved' = [saved EXCEPT ![i] = map[i]]
  /\ UNCHANGED <<trees, map>>

LoadIndex(i) ==
  /\ files[i] # NoIndex
  /\ trees' = [trees EXCEPT ![i] = Deserialize(files[i])]
  /\ map' = [map EXCEPT ![i] = saved[i]]
  /\ UNCHANGED <<files, saved>>

\* The process ends and starts again: indexes_ is empty.
Restart ==
  /\ Existing # {}
  /\ trees' = [i \in Indexes |-> NoIndex]
  /\ map' = trees'
  /\ UNCHANGED <<files, saved>>

Next ==
  \/ Restart
  \/ \E i \in Indexes :
       \/ \E type \in {"PRIMARY", "NORMAL"}, rows \in Tables, written \in BOOLEAN :
            CreateIndex(i, type, rows, written)
       \/ DropIndex(i) \/ SaveIndex(i) \/ LoadIndex(i)
       \/ \E key \in Keys : DeleteKey(i, key) \/ \E row \in RowIds : InsertKey(i, key, row)

Spec == Init /\ [][Next]_vars
-----------------------------------------------------------------------------
(* Properties. *)

Below(tree, n) == ToSet(Preorder(tree.nodes, n))

\* A node has at most order keys, and a row id per key or a child more than keys.
IsWellFormed(tree) ==
  \A n \in DOMAIN tree.nodes :
    LET node == tree.nodes[n]
    IN  /\ Len(node.keys) <= tree.order
        /\ node.leaf => Len(node.values) = Len(node.keys)
        /\ ~node.leaf => Len(node.children) = Len(node.keys) + 1

\* Every node below a separator is on its side of it, keys are sorted without repetition,
\* and all leaves are equally deep: no split or removal puts a key where find() does not look.
IsSearchTree(tree) ==
  /\ \A n \in Below(tree, tree.root) :
       LET node == tree.nodes[n]
       IN  /\ \A a, b \in DOMAIN node.keys : a < b => node.keys[a] < node.keys[b]
           /\ \A c \in DOMAIN node.children : \A m \in Below(tree, node.children[c]) :
                \A k \in ToSet(tree.nodes[m].keys) :
                  /\ c <= Len(node.keys) => k < node.keys[c]
                  /\ c > 1 => k >= node.keys[c - 1]
           /\ \A c \in DOMAIN node.children :
                HeightBelow(tree.nodes, node.children[c]) = HeightBelow(tree.nodes, n) - 1

SearchTrees == \A i \in Existing : IsWellFormed(trees[i]) /\ IsSearchTree(trees[i])

\* find() gives the map that the sequence of operations has made of an index - filled from
\* the rows of the table, where the first row of a key counts, changed by inserts, of which
\* the first of a key counts, and removals, saved and loaded again - whatever leaves and
\* inner nodes they have split.
FindIsMap ==
  \A i \in Existing : \A k \in Keys :
    Find(trees[i], k) = IF k \in DOMAIN map[i] THEN map[i][k] ELSE -1

\* rangeSearch() walks from leaf to leaf: the list of the leaves is the order of the tree, so
\* that a range gives the row ids of exactly its keys, in ascending order.
RangesAreComplete ==
  \A i \in Existing : \A min, max \in Keys :
    LET inside == {k \in DOMAIN map[i] : min <= k /\ k <= max}
        found == RangeSearch(trees[i], min, max)
    IN  /\ Len(found) = Cardinality(inside)
        /\ \A k \in inside : found[Cardinality({j \in inside : j <= k})] = map[i][k]
=============================================================================
