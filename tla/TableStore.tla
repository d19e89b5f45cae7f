----------------------------- MODULE TableStore -----------------------------
(***************************************************************************)
(* Tables as files: TableManager.cpp over FileIO.cpp, driven by the INSERT,*)
(* UPDATE, DELETE, CREATE, DROP and ALTER of DMLExecutor.cpp and           *)
(* DDLExecutor.cpp.                                                        *)
(*                                                                         *)
(* A table is a .meta file with its columns and a .data file with one line *)
(* per row. FileIO makes each single read, write or append of a file       *)
(* atomic with a lock per path, and that is all the locking there is: a    *)
(* statement is a sequence of such file operations, and the statements of  *)
(* the pool threads interleave between any two of them. Each action below  *)
(* is one file operation with the computation that follows it.             *)
(*                                                                         *)
(* Cells are text. A line that does not end in a newline and the line      *)
(* appended after it become one: their cells at the seam are Glued. A      *)
(* .meta file whose writing a crash cut short is Torn: it exists, and      *)
(* jsonToTableDef() refuses it.                                            *)
(***************************************************************************)
EXTENDS Naturals, SequencesExt, FiniteSetsExt, Selection

CONSTANTS Workers,    \* the pool threads that execute statements
          Names,      \* table names
          Columns,    \* the columns of a table as CREATE TABLE makes them
          Null,       \* the NULL cell
          Refuse,     \* a cell that the type check of INSERT refuses
          NoFile,     \* the file does not exist
          Statements, \* the statements to come, each one executed once at most
          ForeignKey, \* the table whose first column the first column of a table
                      \* references, if the .meta file of that table says so, or NoFile
          Meta0, Data0, \* the files there are at the start
          MaxStatements, \* bound on the statements of a behaviour
          Exclusive,  \* clients never use a table while a statement on it runs
          MaxCrashes  \* bound on the crashes of a behaviour

IsSeq(s) == s \in Seq(ToSet(s))

IsRow(l) == IsSeq(l) /\ l # <<>>

AreRows(s) == IsSeq(s) /\ \A l \in ToSet(s) : IsRow(l)

\* Columns have different names, and the first one is the key of the table.
AreColumns(cols) ==
  /\ IsRow(cols)
  /\ Head(cols) = Head(Columns)
  /\ \A i, j \in DOMAIN cols : cols[i] = cols[j] => i = j

\* A file with a last line that is not ended has such a line.
IsFile(f) ==
  /\ f = [lines |-> f.lines, ended |-> f.ended]
  /\ f.ended \in BOOLEAN
  /\ AreRows(f.lines)
  /\ f.ended \/ f.lines # <<>>

ASSUME ColumnsAssumption == AreColumns(Columns) /\ Columns # NoFile
ASSUME FilesAssumption ==
  /\ DOMAIN Meta0 = Names /\ \A t \in Names : Meta0[t] # NoFile => AreColumns(Meta0[t])
  /\ DOMAIN Data0 = Names /\ \A t \in Names : Data0[t] # NoFile => IsFile(Data0[t])
ASSUME StatementsAssumption ==
  \A s \in Statements :
    /\ s.kind \in {"insert", "update", "delete", "create", "drop", "add", "dropcol", "rename"}
    /\ s.table \in Names /\ (s.kind = "rename" => s.to \in Names)
    /\ s.kind = "insert" => AreRows(s.rows) /\ s.rows # <<>>
ASSUME ForeignKeyAssumption == ForeignKey \in [Names -> Names \cup {NoFile}]
ASSUME ParameterAssumption == Exclusive \in BOOLEAN
ASSUME BoundAssumption == MaxStatements \in Nat /\ MaxCrashes \in Nat

VARIABLES meta,    \* the .meta file of each table: its columns
          data,    \* the .data file of each table: its lines, and whether the last is ended
          todo,    \* the statements that no client has issued yet
          pc,      \* where each worker is in its statement
          stmt,    \* the statement of each worker
          def,     \* the columns it has read from the .meta file
          content, \* the rows or lines it has read from the .data file
          plan,    \* the rows still to write: the rows of INSERT, or row ids with new rows
          acked,   \* history: the statements that have succeeded
          before,  \* history: the tables as each worker's statement found them
          crashes

files == <<meta, data>>
local == <<pc, stmt, def, content, plan>>
vars == <<meta, data, todo, pc, stmt, def, content, plan, acked, before, crashes>>

Idle == "idle"
States == {Idle, "start", "checkDef", "checkLoad", "checkData", "append", "loadDef", "loadData", "againDef", "againData", "rewrite",
           "createMeta", "createData", "dropData", "alterMeta", "alterRead", "alterWrite",
           "renameCheck", "renameMeta", "renameData", "renameDone"}

Glued(a, b) == <<a, b>>

Ended(lines) == [lines |-> lines, ended |-> TRUE]

Torn == <<>>

Unreadable == {NoFile, Torn}

\* The table that the files of t hold: loadTable() skips every line that csvToRow()
\* refuses, which is one with more cells than the table has columns.
Parse(lines, cols) == Selected(lines, {i \in DOMAIN lines : Len(lines[i]) <= Len(cols)})

View(t) ==
  IF meta[t] \in Unreadable THEN NoFile
  ELSE [cols |-> meta[t],
        rows |-> IF data[t] = NoFile THEN <<>> ELSE Parse(data[t].lines, meta[t])]

TypeOK ==
  /\ \A t \in Names : meta[t] \notin Unreadable => Head(meta[t]) = Head(Columns)
  /\ \A t \in Names : data[t] # NoFile => data[t].ended \/ data[t].lines # <<>>
  /\ todo \subseteq Statements
  /\ pc \in [Workers -> States]
  /\ \A w \in Workers : pc[w] # Idle => stmt[w] \in Statements \ todo
  /\ \A w \in Workers : pc[w] \notin {Idle, "start", "dropData"} => def[w] # NoFile
  /\ \A w \in Workers :
       pc[w] \in {"checkDef", "checkLoad", "checkData", "append", "againDef", "againData", "rewrite"} => plan[w] # <<>>
  /\ acked \subseteq Statements \ todo
  /\ crashes \in 0..MaxCrashes

Init ==
  /\ meta = Meta0
  /\ data = Data0
  /\ todo = Statements
  /\ pc = [w \in Workers |-> Idle]
  /\ stmt = [w \in Workers |-> NoFile]
  /\ def = [w \in Workers |-> NoFile]
  /\ content = [w \in Workers |-> <<>>]
  /\ plan = [w \in Workers |-> <<>>]
  /\ acked = {}
  /\ before = [w \in Workers |-> [t \in Names |-> View(t)]]
  /\ crashes = 0
-----------------------------------------------------------------------------
Table(w) == stmt[w].table

TablesOf(s) == IF s.kind = "rename" THEN {s.table, s.to} ELSE {s.table}

\* A foreign key stands in the definition of a table, under the name of the table: the
\* tables of a RENAME have none.
ASSUME RenameAssumption ==
  \A s \in Statements : s.kind = "rename" => \A t \in TablesOf(s) : ForeignKey[t] = NoFile

Goto(w, state) == pc' = [pc EXCEPT ![w] = state]

\* The statement is over: its locals go out of scope.
Leave(w) ==
  /\ pc' = [pc EXCEPT ![w] = Idle]
  /\ stmt' = [stmt EXCEPT ![w] = NoFile]
  /\ def' = [def EXCEPT ![w] = NoFile]
  /\ content' = [content EXCEPT ![w] = <<>>]
  /\ plan' = [plan EXCEPT ![w] = <<>>]

Succeed(w) == Leave(w) /\ acked' = acked \cup {stmt[w]}
Fail(w) == Leave(w) /\ UNCHANGED acked

\* The pool hands a statement to a worker.
Begin(w, s) ==
  /\ pc[w] = Idle
  /\ s \in todo
  /\ Cardinality(Statements \ todo) < MaxStatements
  /\ Exclusive => \A v \in Workers : pc[v] # Idle => TablesOf(stmt[v]) \cap TablesOf(s) = {}
  /\ todo' = todo \ {s}
  /\ stmt' = [stmt EXCEPT ![w] = s]
  /\ before' = [before EXCEPT ![w] = [t \in Names |-> View(t)]]
  /\ Goto(w, "start")
  /\ UNCHANGED <<files, def, content, plan, acked, crashes>>

\* Where a statement writes its next row, and where it goes first: INSERT and UPDATE
\* check the foreign key of each row before they write it, DELETE checks nothing.
Writing(s) == IF s.kind = "insert" THEN "append" ELSE "againDef"

\* Mutant: only INSERT checks.
CheckedInsert(s) ==
  IF ForeignKey[s.table] = NoFile \/ s.kind # "insert" THEN Writing(s) ELSE "checkDef"

Checked(s) ==
  IF ForeignKey[s.table] = NoFile \/ s.kind = "delete" THEN Writing(s) ELSE "checkDef"

\* What follows the first getTableDef() of a statement that found its table.
AfterDef(s) ==
  CASE s.kind = "insert" -> Checked(s)
    [] s.kind \in {"update", "delete"} -> "loadDef"
    [] s.kind \in {"add", "dropcol"} -> "alterMeta"
    [] s.kind = "rename" -> "renameCheck"

\* ALTER TABLE refuses to add a column there is, or to drop one there is not or the
\* primary key, which is the first column.
Refused(s, cols) ==
  \/ s.kind = "add" /\ s.col \in ToSet(cols)
  \/ s.kind = "dropcol" /\ s.col \notin ToSet(Tail(cols))

\* Mutant: the file is read without looking at the result.
ReadDefUnchecked(w) ==
  /\ pc[w] = "start"
  /\ stmt[w].kind \notin {"create", "drop"}
  /\ def' = [def EXCEPT ![w] = meta[Table(w)]]
  /\ plan' = [plan EXCEPT ![w] = IF stmt[w].kind = "insert" THEN stmt[w].rows ELSE <<>>]
  /\ Goto(w, AfterDef(stmt[w]))
  /\ UNCHANGED <<stmt, content, acked, files, todo, before, crashes>>

\* getTableDef(): an error if the .meta file is missing or torn.
ReadDef(w) ==
  /\ pc[w] = "start"
  /\ stmt[w].kind \notin {"create", "drop"}
  /\ IF meta[Table(w)] \in Unreadable \/ Refused(stmt[w], meta[Table(w)])
       THEN Fail(w)
       ELSE /\ def' = [def EXCEPT ![w] = meta[Table(w)]]
            /\ plan' = [plan EXCEPT ![w] = IF stmt[w].kind = "insert" THEN stmt[w].rows ELSE <<>>]
            /\ Goto(w, AfterDef(stmt[w]))
            /\ UNCHANGED <<stmt, content, acked>>
  /\ UNCHANGED <<files, todo, before, crashes>>
-----------------------------------------------------------------------------
(* INSERT: evaluateRowValues() and insertRow() for each row in turn        *)

\* Mutant: the newline is left out.
AppendBare(file, row) == IF file = NoFile THEN [lines |-> <<row>>, ended |-> FALSE]
                         ELSE [lines |-> Append(file.lines, row), ended |-> FALSE]

\* Mutant: the file is opened without ios::app, which empties it.
AppendTruncating(file, row) == Ended(<<row>>)

\* appendToFile(row + newline), which creates a missing file.
AppendRow(file, row) ==
  IF file = NoFile THEN Ended(<<row>>)
  ELSE IF file.ended THEN Ended(Append(file.lines, row))
  ELSE LET last == Last(file.lines) IN
       Ended(Append(Front(file.lines),
                    Front(last) \o <<Glued(Last(last), Head(row))>> \o Tail(row)))

\* The rows before one that is refused stay in the table. The number of the cells is
\* not compared with the number of the columns.
InsertRow(w) ==
  /\ pc[w] = "append"
  /\ IF Refuse \in ToSet(Head(plan[w]))
       THEN Fail(w) /\ UNCHANGED data
       ELSE /\ data' = [data EXCEPT ![Table(w)] = AppendRow(@, Head(plan[w]))]
            /\ IF Tail(plan[w]) = <<>>
                 THEN Succeed(w)
                 ELSE /\ plan' = [plan EXCEPT ![w] = Tail(@)]
                      /\ Goto(w, Checked(stmt[w]))
                      /\ UNCHANGED <<stmt, def, content, acked>>
  /\ UNCHANGED <<meta, todo, before, crashes>>
-----------------------------------------------------------------------------
(* UPDATE and DELETE: load the table, choose rows by id, then for each id  *)
(* load the table again, change that id and write the whole file           *)

\* The rows to write, with their ids, for the rows loaded at first. UPDATE goes up,
\* DELETE goes down so that the ids still to come stay right.
Matching(rows, key) ==
  Selected([i \in DOMAIN rows |-> i], {i \in DOMAIN rows : rows[i][1] = key})

Assign(row, cols, s) ==
  [j \in DOMAIN row |-> IF j <= Len(cols) /\ cols[j] = s.col THEN s.value ELSE row[j]]

UpdatePlan(rows, cols, s) ==
  [n \in DOMAIN Matching(rows, s.key) |->
     [id |-> Matching(rows, s.key)[n],
      row |-> Assign(rows[Matching(rows, s.key)[n]], cols, s)]]

\* Mutant: from the first row id to the last.
DeletePlanForward(rows, s) ==
  [n \in DOMAIN Matching(rows, s.key) |-> [id |-> Matching(rows, s.key)[n]]]

DeletePlan(rows, s) ==
  [n \in DOMAIN Matching(rows, s.key) |-> [id |-> Reverse(Matching(rows, s.key))[n]]]

\* data[rowId] = row on a map from ids to rows: an id past the end adds a row.
PutRow(rows, id, row) == IF id <= Len(rows) THEN [rows EXCEPT ![id] = row] ELSE Append(rows, row)

EraseRow(rows, id) == IF id <= Len(rows) THEN RemoveAt(rows, id) ELSE rows

\* loadTable() reads the definition again ...
LoadDef(w) ==
  /\ pc[w] \in {"loadDef", "againDef"}
  /\ IF meta[Table(w)] \in Unreadable
       THEN Fail(w)
       ELSE /\ content' = [content EXCEPT ![w] = meta[Table(w)]]
            /\ Goto(w, IF pc[w] = "loadDef" THEN "loadData" ELSE "againData")
            /\ UNCHANGED <<stmt, def, plan, acked>>
  /\ UNCHANGED <<files, todo, before, crashes>>

\* ... and then the rows; a missing .data file is an empty table.
Loaded(w, t) == IF data[t] = NoFile THEN <<>> ELSE Parse(data[t].lines, content[w])

LoadData(w) ==
  /\ pc[w] = "loadData"
  /\ LET next == IF stmt[w].kind = "update" THEN UpdatePlan(Loaded(w, Table(w)), def[w], stmt[w])
                 ELSE DeletePlan(Loaded(w, Table(w)), stmt[w])
     IN IF next = <<>>
          THEN Succeed(w)
          ELSE /\ plan' = [plan EXCEPT ![w] = next]
               /\ Goto(w, Checked(stmt[w]))
               /\ UNCHANGED <<stmt, def, content, acked>>
  /\ UNCHANGED <<files, todo, before, crashes>>

LoadAgain(w) ==
  /\ pc[w] = "againData"
  /\ content' = [content EXCEPT ![w] = Loaded(w, Table(w))]
  /\ Goto(w, "rewrite")
  /\ UNCHANGED <<files, todo, stmt, def, plan, acked, before, crashes>>

\* The new content of the file in updateRow() or deleteRow().
Rewritten(w) ==
  LET p == Head(plan[w]) IN
  Ended(IF stmt[w].kind = "update" THEN PutRow(content[w], p.id, p.row)
        ELSE EraseRow(content[w], p.id))

Rewrite(w) ==
  /\ pc[w] = "rewrite"
  /\ data' = [data EXCEPT ![Table(w)] = Rewritten(w)]
  /\ IF Tail(plan[w]) = <<>>
       THEN Succeed(w)
       ELSE /\ plan' = [plan EXCEPT ![w] = Tail(@)]
            /\ Goto(w, Checked(stmt[w]))
            /\ UNCHANGED <<stmt, def, content, acked>>
  /\ UNCHANGED <<meta, todo, before, crashes>>
-----------------------------------------------------------------------------
(* checkForeignKeyConstraints() for the next row: the definition of the    *)
(* referenced table is read twice, then its rows                           *)

Key(w) == IF stmt[w].kind = "insert" THEN Head(plan[w])[1] ELSE Head(plan[w]).row[1]

\* A row that the type check refuses does not get here. A NULL references nothing.
CheckDef(w) ==
  /\ pc[w] = "checkDef"
  /\ IF Key(w) = Null
       THEN Goto(w, Writing(stmt[w])) /\ UNCHANGED <<stmt, def, content, plan, acked>>
       ELSE IF \/ meta[ForeignKey[Table(w)]] \in Unreadable
               \/ stmt[w].kind = "insert" /\ Refuse \in ToSet(Head(plan[w]))
       THEN Fail(w)
       ELSE Goto(w, "checkLoad") /\ UNCHANGED <<stmt, def, content, plan, acked>>
  /\ UNCHANGED <<files, todo, before, crashes>>

CheckLoad(w) ==
  /\ pc[w] = "checkLoad"
  /\ IF meta[ForeignKey[Table(w)]] \in Unreadable
       THEN Fail(w)
       ELSE /\ content' = [content EXCEPT ![w] = meta[ForeignKey[Table(w)]]]
            /\ Goto(w, "checkData")
            /\ UNCHANGED <<stmt, def, plan, acked>>
  /\ UNCHANGED <<files, todo, before, crashes>>

CheckData(w) ==
  /\ pc[w] = "checkData"
  /\ IF \E r \in ToSet(Loaded(w, ForeignKey[Table(w)])) : r[1] = Key(w)
       THEN Goto(w, Writing(stmt[w])) /\ UNCHANGED <<stmt, def, content, plan, acked>>
       ELSE Fail(w)
  /\ UNCHANGED <<files, todo, before, crashes>>
-----------------------------------------------------------------------------
(* CREATE TABLE and DROP TABLE                                             *)

CreateCheck(w) ==
  /\ pc[w] = "start"
  /\ stmt[w].kind = "create"
  /\ IF meta[Table(w)] # NoFile
       THEN Fail(w)
       ELSE /\ def' = [def EXCEPT ![w] = Columns]
            /\ Goto(w, "createMeta")
            /\ UNCHANGED <<stmt, content, plan, acked>>
  /\ UNCHANGED <<files, todo, before, crashes>>

CreateMeta(w) ==
  /\ pc[w] = "createMeta"
  /\ meta' = [meta EXCEPT ![Table(w)] = def[w]]
  /\ Goto(w, "createData")
  /\ UNCHANGED <<data, todo, stmt, def, content, plan, acked, before, crashes>>

CreateData(w) ==
  /\ pc[w] = "createData"
  /\ data' = [data EXCEPT ![Table(w)] = Ended(<<>>)]
  /\ Succeed(w)
  /\ UNCHANGED <<meta, todo, before, crashes>>

DropMeta(w) ==
  /\ pc[w] = "start"
  /\ stmt[w].kind = "drop"
  /\ IF meta[Table(w)] = NoFile
       THEN Fail(w) /\ UNCHANGED meta
       ELSE /\ meta' = [meta EXCEPT ![Table(w)] = NoFile]
            /\ Goto(w, "dropData")
            /\ UNCHANGED <<stmt, def, content, plan, acked>>
  /\ UNCHANGED <<data, todo, before, crashes>>

DropData(w) ==
  /\ pc[w] = "dropData"
  /\ data' = [data EXCEPT ![Table(w)] = NoFile]
  /\ Succeed(w)
  /\ UNCHANGED <<meta, todo, before, crashes>>
-----------------------------------------------------------------------------
(* ALTER TABLE ADD COLUMN and DROP COLUMN: first the definition, then the  *)
(* lines of the data file, joined by newlines with none at the end         *)

Position(cols, col) == CHOOSE j \in DOMAIN cols : cols[j] = col

NewColumns(w) ==
  IF stmt[w].kind = "add" THEN Append(def[w], stmt[w].col)
  ELSE RemoveAt(def[w], Position(def[w], stmt[w].col))

AlterMeta(w) ==
  /\ pc[w] = "alterMeta"
  /\ meta' = [meta EXCEPT ![Table(w)] = NewColumns(w)]
  /\ Goto(w, "alterRead")
  /\ UNCHANGED <<data, todo, stmt, def, content, plan, acked, before, crashes>>

\* A missing or an empty data file is left as it is.
AlterRead(w) ==
  /\ pc[w] = "alterRead"
  /\ IF data[Table(w)] = NoFile \/ data[Table(w)] = Ended(<<>>)
       THEN Succeed(w)
       ELSE /\ content' = [content EXCEPT ![w] = data[Table(w)].lines]
            /\ Goto(w, "alterWrite")
            /\ UNCHANGED <<stmt, def, plan, acked>>
  /\ UNCHANGED <<files, todo, before, crashes>>

NewLine(w, line) ==
  IF stmt[w].kind = "add" THEN Append(line, Null)
  ELSE LET j == Position(def[w], stmt[w].col) IN
       IF Len(line) >= j THEN RemoveAt(line, j) ELSE line

NewLines(w) == [i \in DOMAIN content[w] |-> NewLine(w, content[w][i])]

AlterWrite(w) ==
  /\ pc[w] = "alterWrite"
  /\ data' = [data EXCEPT ![Table(w)] = [lines |-> NewLines(w), ended |-> FALSE]]
  /\ Succeed(w)
  /\ UNCHANGED <<meta, todo, before, crashes>>
-----------------------------------------------------------------------------
(* ALTER TABLE RENAME                                                      *)

RenameCheck(w) ==
  /\ pc[w] = "renameCheck"
  /\ IF meta[stmt[w].to] # NoFile
       THEN Fail(w)
       ELSE Goto(w, "renameMeta") /\ UNCHANGED <<stmt, def, content, plan, acked>>
  /\ UNCHANGED <<files, todo, before, crashes>>

RenameMeta(w) ==
  /\ pc[w] = "renameMeta"
  /\ meta' = [meta EXCEPT ![stmt[w].to] = def[w]]
  /\ Goto(w, "renameData")
  /\ UNCHANGED <<data, todo, stmt, def, content, plan, acked, before, crashes>>

\* The result of renameFile() is not looked at.
RenameData(w) ==
  /\ pc[w] = "renameData"
  /\ data' = IF data[Table(w)] = NoFile THEN data
             ELSE [data EXCEPT ![stmt[w].to] = data[Table(w)], ![Table(w)] = NoFile]
  /\ Goto(w, "renameDone")
  /\ UNCHANGED <<meta, todo, stmt, def, content, plan, acked, before, crashes>>

RenameDone(w) ==
  /\ pc[w] = "renameDone"
  /\ meta' = [meta EXCEPT ![Table(w)] = NoFile]
  /\ Succeed(w)
  /\ UNCHANGED <<data, todo, before, crashes>>
-----------------------------------------------------------------------------
\* What a write of these lines may leave of them in the file if the process dies in
\* it: some lines, of which the last may lack cells and its newline.
Cut(lines) ==
  {Ended(SubSeq(lines, 1, n)) : n \in 0..Len(lines)} \cup
  UNION {{[lines |-> Append(SubSeq(lines, 1, n - 1), SubSeq(lines[n], 1, k)), ended |-> FALSE] :
            k \in 1..Len(lines[n])} : n \in DOMAIN lines}

\* The outcomes of a crash for the data file of t: nobody was writing it, or the one
\* worker that held its lock was. ofstream empties a file before it writes.
DataAfterCrash(t) ==
  {data[t]} \cup UNION {
    LET Mine == Table(w) = t IN
    CASE Mine /\ pc[w] = "rewrite" -> Cut(Rewritten(w).lines)
      [] Mine /\ pc[w] = "alterWrite" -> Cut(NewLines(w))
      [] Mine /\ pc[w] = "append" /\ Refuse \notin ToSet(Head(plan[w])) ->
           LET row == Head(plan[w]) IN
           {AppendRow(data[t], row)} \cup
           {[lines |-> AppendRow(data[t], SubSeq(row, 1, k)).lines, ended |-> FALSE] : k \in DOMAIN row}
      [] OTHER -> {} : w \in {v \in Workers : pc[v] # Idle}}

\* Whether its definition was being written.
MetaInWrite(t) ==
  \E w \in Workers : \/ pc[w] \in {"createMeta", "alterMeta"} /\ Table(w) = t
                     \/ pc[w] = "renameMeta" /\ stmt[w].to = t

\* For all tables at once.
AllDataAfterCrash ==
  LET Hit == {t \in Names : DataAfterCrash(t) # {data[t]}}
      Outcomes == {d \in [Hit -> UNION {DataAfterCrash(t) : t \in Hit}] :
                    \A t \in Hit : d[t] \in DataAfterCrash(t)}
  IN  {[t \in Names |-> IF t \in Hit THEN d[t] ELSE data[t]] : d \in Outcomes}

AllMetaAfterCrash ==
  {[t \in Names |-> IF t \in torn THEN Torn ELSE meta[t]] :
     torn \in SUBSET {t \in Names : MetaInWrite(t)}}

\* The process dies between two file operations or inside of writes, and is restarted.
Crash ==
  /\ crashes < MaxCrashes
  /\ crashes' = crashes + 1
  /\ data' \in AllDataAfterCrash
  /\ meta' \in AllMetaAfterCrash
  /\ pc' = [w \in Workers |-> Idle]
  /\ stmt' = [w \in Workers |-> NoFile]
  /\ def' = [w \in Workers |-> NoFile]
  /\ content' = [w \in Workers |-> <<>>]
  /\ plan' = [w \in Workers |-> <<>>]
  /\ UNCHANGED <<todo, acked, before>>

Step(w) ==
  \/ ReadDef(w)
  \/ InsertRow(w)
  \/ CheckDef(w) \/ CheckLoad(w) \/ CheckData(w)
  \/ LoadDef(w) \/ LoadData(w) \/ LoadAgain(w) \/ Rewrite(w)
  \/ CreateCheck(w) \/ CreateMeta(w) \/ CreateData(w)
  \/ DropMeta(w) \/ DropData(w)
  \/ AlterMeta(w) \/ AlterRead(w) \/ AlterWrite(w)
  \/ RenameCheck(w) \/ RenameMeta(w) \/ RenameData(w) \/ RenameDone(w)

Next ==
  \/ \E w \in Workers : Step(w) \/ \E s \in Statements : Begin(w, s)
  \/ Crash

Spec == Init /\ [][Next]_vars
-----------------------------------------------------------------------------
(* Properties                                                              *)

Kinds == {s.kind : s \in Statements}
Inserts == {s \in Statements : s.kind = "insert"}
Updates == {s \in Statements : s.kind = "update"}

\* Line l is the given row, as updates may have left it.
ComesFrom(l, row) ==
  /\ Len(l) = Len(row)
  /\ \A j \in DOMAIN l : l[j] \in {row[j]} \cup {u.value : u \in Updates}

\* writeToFile() and appendToFile() lock the path of the file and nothing more: it is
\* enough for no interleaving of INSERT, UPDATE and DELETE to tear or glue a line.
LinesAreWhole ==
  crashes = 0 =>
    \A t \in Names : data[t] # NoFile =>
      /\ data[t].ended
      /\ \A l \in ToSet(data[t].lines) :
           \E s \in Inserts : \E row \in ToSet(s.rows) : ComesFrom(l, row)

Rows(t) == IF meta[t] \in Unreadable THEN {} ELSE ToSet(View(t).rows)

\* Statement s reported success, and a row of it cannot be read by its key any more.
Lost(s) ==
  /\ s.kind = "insert" /\ s \in acked
  /\ \E row \in ToSet(s.rows) : ~ \E r \in Rows(s.table) : r[1] = row[1]

\* Inserts that run at the same time into a table that nothing else changes all keep
\* their rows, because insertRow() appends and never writes what it read; a crash inside
\* of an append costs at most the one row that is appended next.
OneRowLostPerCrash ==
  \A t \in Names : (\A s \in Statements : t \in TablesOf(s) => s.kind = "insert") =>
    Cardinality({s \in Inserts : s.table = t /\ Lost(s)}) <= crashes

\* INSERT and UPDATE of a table with a foreign key read the parent rows, row by row, and
\* write later (DMLExecutor.cpp:77 and :177): as long as nobody does more to the parent
\* table than to insert into it, every key of the child is a key of the parent.
ChildrenHaveParents ==
  crashes = 0 =>
    \A t \in Names :
      /\ ForeignKey[t] # NoFile
      /\ \A s \in Statements \ todo : ForeignKey[t] \in TablesOf(s) => s.kind = "insert"
      => \A r \in Rows(t) : r[1] = Null \/ \E p \in Rows(ForeignKey[t]) : p[1] = r[1]

\* development-status.md:698, "table locks make it safe under concurrency": no row whose
\* INSERT reported success disappears while nobody deletes it.
ConcurrentInsertsSurvive ==
  (Kinds \subseteq {"insert", "update"} /\ crashes = 0) => \A s \in acked : ~Lost(s)

\* development-status.md:63, ALTER TABLE is supported: a row that is inserted after ADD
\* COLUMN reported success can be read.
InsertAfterAlter == (Exclusive /\ crashes = 0) => \A s \in acked : ~Lost(s)

\* When no two clients use a table at the same time, each statement takes effect as a
\* whole or not at all, whatever the statements on other tables do meanwhile.
Tables ==
  [t \in Names |->
     IF \E w \in Workers : pc[w] # Idle /\ t \in TablesOf(stmt[w])
     THEN before[CHOOSE w \in Workers : pc[w] # Idle /\ t \in TablesOf(stmt[w])][t]
     ELSE View(t)]

Abstract == INSTANCE Table WITH
  tables <- Tables,
  NoTable <- NoFile,
  Tables0 <- [t \in Names |->
                IF Meta0[t] = NoFile THEN NoFile
                ELSE [cols |-> Meta0[t], rows |-> Parse(Data0[t].lines, Meta0[t])]]

ImplementsTable == Abstract!Spec
=============================================================================
