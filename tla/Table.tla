-------------------------------- MODULE Table --------------------------------
(***************************************************************************)
(* What a client expects of the tables of one database: each statement     *)
(* takes effect as a whole, once, and one that fails changes nothing. A    *)
(* table is its columns and the sequence of its rows; the first column is  *)
(* the key that WHERE clauses compare. TableStore.tla is checked to        *)
(* implement this when clients take turns on a table.                      *)
(***************************************************************************)
EXTENDS Naturals, SequencesExt, Selection

CONSTANTS Names,      \* table names
          Columns,    \* the columns of a table as CREATE TABLE makes them
          Null,       \* the NULL cell
          NoTable,    \* there is no table of that name
          Statements, \* the statements clients may issue, records with a "kind"
          Tables0     \* the tables there are at the start

VARIABLE tables

Insert(old, rows) == [cols |-> old.cols, rows |-> old.rows \o rows]

\* SET col = value in every row whose key is key, if the row has that column.
Update(old, key, col, value) ==
  [cols |-> old.cols,
   rows |-> [i \in DOMAIN old.rows |->
              [j \in DOMAIN old.rows[i] |->
                 IF old.rows[i][1] = key /\ old.cols[j] = col THEN value ELSE old.rows[i][j]]]]

Delete(old, key) ==
  [cols |-> old.cols,
   rows |-> Selected(old.rows, {i \in DOMAIN old.rows : old.rows[i][1] # key})]

AddColumn(old, col) ==
  [cols |-> Append(old.cols, col),
   rows |-> [i \in DOMAIN old.rows |-> Append(old.rows[i], Null)]]

DropColumn(old, col) ==
  LET Cells(s) == Selected(s, {j \in DOMAIN s : old.cols[j] # col})
  IN [cols |-> Cells(old.cols), rows |-> [i \in DOMAIN old.rows |-> Cells(old.rows[i])]]

\* A statement on an existing table s.table, by its kind.
Change(s) ==
  LET old == tables[s.table] IN
  /\ old # NoTable
  /\ \/ s.kind = "insert" /\ tables' = [tables EXCEPT ![s.table] = Insert(old, s.rows)]
     \/ s.kind = "update" /\ tables' = [tables EXCEPT ![s.table] = Update(old, s.key, s.col, s.value)]
     \/ s.kind = "delete" /\ tables' = [tables EXCEPT ![s.table] = Delete(old, s.key)]
     \/ s.kind = "drop" /\ tables' = [tables EXCEPT ![s.table] = NoTable]
     \/ /\ s.kind = "add"
        /\ s.col \notin ToSet(old.cols)
        /\ tables' = [tables EXCEPT ![s.table] = AddColumn(old, s.col)]
     \/ /\ s.kind = "dropcol"
        /\ s.col \in ToSet(Tail(old.cols))
        /\ tables' = [tables EXCEPT ![s.table] = DropColumn(old, s.col)]
     \/ /\ s.kind = "rename"
        /\ tables[s.to] = NoTable
        /\ tables' = [tables EXCEPT ![s.to] = old, ![s.table] = NoTable]

Create(s) ==
  /\ s.kind = "create"
  /\ tables[s.table] = NoTable
  /\ tables' = [tables EXCEPT ![s.table] = [cols |-> Columns, rows |-> <<>>]]

Init == tables = Tables0

Next == \E s \in Statements : Change(s) \/ Create(s)

Spec == Init /\ [][Next]_tables
=============================================================================
