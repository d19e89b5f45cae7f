-------------------------- MODULE TableStoreProofs --------------------------
(***************************************************************************)
(* Proofs about TableStore for any tables, workers and statements. Files   *)
(* keep whole lines and children their parents as long as the statements   *)
(* are INSERT, UPDATE, DELETE, CREATE and DROP: ALTER leaves a file        *)
(* without a final newline, and then rows are glued. The types, and what a *)
(* crash costs, are shown for statements of every kind and any number of   *)
(* crashes.                                                                *)
(***************************************************************************)
EXTENDS TableStore, SelectionProofs, FiniteSetTheorems

-----------------------------------------------------------------------------
(* The setting: statements on rows, from files that are whole.             *)

InsertedRows == UNION {ToSet(s.rows) : s \in Inserts}

Cells == (UNION {ToSet(row) : row \in InsertedRows}) \cup {u.value : u \in Updates}

\* The rows as updates may leave them, and the files with nothing but such rows.
WholeRows == {l \in Seq(Cells) \ {<<>>} : \E row \in InsertedRows : ComesFrom(l, row)}

WholeFiles == [lines : Seq(WholeRows), ended : {TRUE}]

Rowwise ==
  /\ Kinds \subseteq {"insert", "update", "delete", "create", "drop"}
  /\ \A s \in Statements : s.table \in Names
  /\ \A s \in Inserts : s.rows \in Seq(InsertedRows) \ {<<>>}
  /\ InsertedRows \subseteq Seq(Cells) \ {<<>>}
  /\ Data0 \in [Names -> {NoFile} \cup WholeFiles]
  /\ DOMAIN Meta0 = Names
  /\ NoFile \notin WholeFiles

(***************************************************************************)
(* The invariant: which statement may be where, and that what a worker has *)
(* read and is going to write are whole rows.                              *)
(***************************************************************************)

Planned == {"checkDef", "checkLoad", "checkData", "append", "againDef", "againData", "rewrite"}

\* The states that a statement of each kind can be in.
StatesOf(kind) ==
  CASE kind = "insert" -> {"start", "checkDef", "checkLoad", "checkData", "append"}
    [] kind = "update" -> {"start", "loadDef", "loadData", "checkDef", "checkLoad", "checkData",
                           "againDef", "againData", "rewrite"}
    [] kind = "delete" -> {"start", "loadDef", "loadData", "againDef", "againData", "rewrite"}
    [] kind = "create" -> {"start", "createMeta", "createData"}
    [] kind = "drop" -> {"start", "dropData"}

Ids == Nat \ {0}

PlansOf(kind) ==
  CASE kind = "insert" -> Seq(InsertedRows) \ {<<>>}
    [] kind = "update" -> Seq([id : Ids, row : WholeRows]) \ {<<>>}
    [] kind = "delete" -> Seq([id : Ids]) \ {<<>>}

\* One worker: nothing, or a statement with what it has read and plans.
Works(w) ==
  pc[w] # Idle =>
    /\ stmt[w] \in Statements \ todo
    /\ pc[w] \in StatesOf(stmt[w].kind)
    /\ pc[w] \in Planned => plan[w] \in PlansOf(stmt[w].kind)
    /\ pc[w] = "rewrite" => content[w] \in Seq(WholeRows)

Shaped ==
  /\ todo \subseteq Statements
  /\ DOMAIN pc = Workers /\ DOMAIN stmt = Workers /\ DOMAIN def = Workers
  /\ DOMAIN content = Workers /\ DOMAIN plan = Workers /\ DOMAIN meta = Names

Whole ==
  /\ Shaped
  /\ data \in [Names -> {NoFile} \cup WholeFiles]
  /\ \A w \in Workers : Works(w)

LEMMA InsertedIsWhole ==
  ASSUME Rowwise, NEW row \in InsertedRows
  PROVE  row \in WholeRows
<1>1. row \in Seq(Cells) \ {<<>>}
  BY DEF Rowwise
<1>2. ComesFrom(row, row)
  BY DEF ComesFrom
<1> QED BY <1>1, <1>2 DEF WholeRows

\* SET changes a cell to a value of an UPDATE.
LEMMA AssignedIsWhole ==
  ASSUME NEW row \in WholeRows, NEW s \in Updates, NEW cols
  PROVE  Assign(row, cols, s) \in WholeRows
<1> DEFINE new == Assign(row, cols, s)
<1>0. s.value \in Cells
  BY DEF Cells
<1>1. row \in Seq(Cells) \ {<<>>} /\ s.value \in Cells
  BY <1>0 DEF WholeRows
<1>2. /\ new = [j \in DOMAIN row |-> IF j <= Len(cols) /\ cols[j] = s.col THEN s.value ELSE row[j]]
      /\ DOMAIN row = 1..Len(row) /\ Len(row) \in Nat
  BY <1>1, LenProperties DEF Assign
<1>3. new \in [1..Len(row) -> Cells] /\ \A j \in DOMAIN row : new[j] \in {row[j], s.value}
  BY <1>1, <1>2
<1>4. new \in Seq(Cells) /\ Len(new) = Len(row) /\ DOMAIN new = DOMAIN row
  BY <1>2, <1>3
<1>5. new # <<>>
  BY <1>1, <1>4, EmptySeq
<1>6. PICK r \in InsertedRows : ComesFrom(row, r)
  BY DEF WholeRows
<1> HIDE DEF new
<1>7. ComesFrom(new, r)
  BY <1>3, <1>4, <1>6 DEF ComesFrom
<1> QED BY <1>4, <1>5, <1>6, <1>7 DEF WholeRows, new

\* The rows that loadTable() returns are the lines that are not too long.
LEMMA ParsedLines ==
  ASSUME NEW S, NEW lines \in Seq(S), NEW cols
  PROVE  /\ Parse(lines, cols) \in Seq(S)
         /\ \A l : l \in ToSet(Parse(lines, cols)) <=> l \in ToSet(lines) /\ Len(l) <= Len(cols)
<1> DEFINE keep == {i \in DOMAIN lines : Len(lines[i]) <= Len(cols)}
<1>1. Parse(lines, cols) = Selected(lines, keep)
  BY DEF Parse
<1>2. ASSUME NEW l
      PROVE  l \in {lines[i] : i \in {j \in DOMAIN lines : j \in keep}} <=>
               l \in ToSet(lines) /\ Len(l) <= Len(cols)
  BY DEF ToSet
<1> HIDE DEF keep
<1> QED BY <1>1, <1>2, SelectedElements

LEMMA LoadedLines ==
  ASSUME NEW S, NEW t, NEW w, data[t] # NoFile => data[t].lines \in Seq(S)
  PROVE  Loaded(w, t) \in Seq(S)
BY ParsedLines, EmptySeq DEF Loaded

LEMMA LoadedIsWhole ==
  ASSUME Whole, NEW t \in Names, NEW w
  PROVE  Loaded(w, t) \in Seq(WholeRows)
<1>1. data[t] # NoFile => data[t].lines \in Seq(WholeRows)
  BY DEF Whole, WholeFiles
<1> QED BY <1>1, LoadedLines

\* The row ids that a condition chooses are ids of rows.
LEMMA MatchingIsIds ==
  ASSUME NEW S, NEW rows \in Seq(S), NEW key
  PROVE  Matching(rows, key) \in Seq(DOMAIN rows) /\ DOMAIN rows \subseteq Ids
<1>1. DOMAIN rows = 1..Len(rows) /\ Len(rows) \in Nat
  OBVIOUS
<1>2. [i \in DOMAIN rows |-> i] \in Seq(DOMAIN rows)
  BY <1>1
<1>3. Matching(rows, key) \in Seq(DOMAIN rows)
  BY <1>2, SelectedElements DEF Matching
<1>4. DOMAIN rows \subseteq Ids
  BY <1>1 DEF Ids
<1> QED BY <1>3, <1>4

LEMMA UpdatePlanTyped ==
  ASSUME NEW rows \in Seq(WholeRows), NEW cols, NEW s \in Updates
  PROVE  UpdatePlan(rows, cols, s) \in Seq([id : Ids, row : WholeRows])
<1> DEFINE m == Matching(rows, s.key)
<1>1. m \in Seq(DOMAIN rows) /\ DOMAIN rows \subseteq Ids
  BY MatchingIsIds
<1>2. UpdatePlan(rows, cols, s) = [n \in DOMAIN m |-> [id |-> m[n], row |-> Assign(rows[m[n]], cols, s)]]
  BY DEF UpdatePlan
<1> HIDE DEF m
<1>3. DOMAIN m = 1..Len(m) /\ Len(m) \in Nat
  BY <1>1
<1>4. ASSUME NEW n \in DOMAIN m
      PROVE  [id |-> m[n], row |-> Assign(rows[m[n]], cols, s)] \in [id : Ids, row : WholeRows]
  <2>1. m[n] \in DOMAIN rows
    BY <1>1
  <2>2. rows[m[n]] \in WholeRows
    BY <2>1
  <2>3. Assign(rows[m[n]], cols, s) \in WholeRows
    BY <2>2, AssignedIsWhole
  <2> QED BY <1>1, <2>1, <2>3
<1> QED BY <1>2, <1>3, <1>4

LEMMA DeletePlanTyped ==
  ASSUME NEW S, NEW rows \in Seq(S), NEW s
  PROVE  DeletePlan(rows, s) \in Seq([id : Ids])
<1> DEFINE m == Matching(rows, s.key)
<1>1. m \in Seq(DOMAIN rows) /\ DOMAIN rows \subseteq Ids
  BY MatchingIsIds
<1>2. DeletePlan(rows, s) = [n \in DOMAIN m |-> [id |-> Reverse(m)[n]]]
  BY DEF DeletePlan
<1> HIDE DEF m
<1>3. DOMAIN m = 1..Len(m) /\ Len(m) \in Nat
  BY <1>1
<1>4. ASSUME NEW n \in DOMAIN m PROVE Reverse(m)[n] \in Ids
  <2>1. (Len(m) - n) + 1 \in DOMAIN m
    BY <1>3
  <2>2. Reverse(m)[n] = m[(Len(m) - n) + 1]
    BY <1>3 DEF Reverse
  <2> QED BY <1>1, <2>1, <2>2
<1> QED BY <1>2, <1>3, <1>4

\* updateRow() puts a row among rows, deleteRow() takes one away.
LEMMA PutAmongRows ==
  ASSUME NEW S, NEW rows \in Seq(S), NEW id \in Ids, NEW row \in S
  PROVE  PutRow(rows, id, row) \in Seq(S)
<1>1. CASE id <= Len(rows)
  <2>1. id \in 1..Len(rows) /\ DOMAIN rows = 1..Len(rows) /\ Len(rows) \in Nat
    BY <1>1 DEF Ids
  <2>2. [rows EXCEPT ![id] = row] \in [1..Len(rows) -> S]
    BY <2>1
  <2>3. [rows EXCEPT ![id] = row] \in Seq(S)
    BY <2>1, <2>2
  <2> QED BY <1>1, <2>3 DEF PutRow
<1>2. CASE ~(id <= Len(rows))
  BY <1>2, AppendProperties DEF PutRow
<1> QED BY <1>1, <1>2

LEMMA EraseFromRows ==
  ASSUME NEW S, NEW rows \in Seq(S), NEW id \in Ids
  PROVE  EraseRow(rows, id) \in Seq(S)
<1>1. CASE id <= Len(rows)
  <2>1. id \in 1..Len(rows) /\ Len(rows) \in Nat
    BY <1>1 DEF Ids
  <2>2. SubSeq(rows, 1, id - 1) \in Seq(S) /\ SubSeq(rows, id + 1, Len(rows)) \in Seq(S)
    BY <2>1, SubSeqProperties
  <2>3. SubSeq(rows, 1, id - 1) \o SubSeq(rows, id + 1, Len(rows)) \in Seq(S)
    BY <2>2, ConcatProperties
  <2> QED BY <1>1, <2>3 DEF EraseRow, RemoveAt
<1>2. CASE ~(id <= Len(rows))
  BY <1>2 DEF EraseRow
<1> QED BY <1>1, <1>2

\* What is left of a plan is a plan.
LEMMA RestOfPlan ==
  ASSUME NEW S, NEW p \in Seq(S) \ {<<>>}
  PROVE  Head(p) \in S /\ Tail(p) \in Seq(S)
BY HeadTailProperties

LEMMA AppendedToFile ==
  ASSUME NEW S, NEW file, file # NoFile => file \in [lines : Seq(S), ended : {TRUE}], NEW row \in S
  PROVE  AppendRow(file, row) \in [lines : Seq(S), ended : {TRUE}]
<1>1. CASE file = NoFile
  <2>1. <<row>> \in Seq(S)
    OBVIOUS
  <2> QED BY <1>1, <2>1 DEF AppendRow, Ended
<1>2. CASE file # NoFile
  <2>1. file.ended /\ file.lines \in Seq(S)
    BY <1>2
  <2>2. Append(file.lines, row) \in Seq(S)
    BY <2>1, AppendProperties
  <2> QED BY <1>2, <2>1, <2>2 DEF AppendRow, Ended
<1> QED BY <1>1, <1>2
-----------------------------------------------------------------------------
(* Steps of one worker: what it leaves alone, where it goes.               *)

Stored == data \in [Names -> {NoFile} \cup WholeFiles]

Others(w) ==
  /\ Shaped'
  /\ \A s \in Statements \ todo : s \notin todo'
  /\ \A v \in Workers \ {w} : /\ pc'[v] = pc[v] /\ stmt'[v] = stmt[v]
                             /\ plan'[v] = plan[v] /\ content'[v] = content[v]

LEMMA OneWorkerSteps ==
  ASSUME Whole, NEW w \in Workers, Others(w), Works(w)', Stored'
  PROVE  Whole'
<1>1. ASSUME NEW v \in Workers PROVE Works(v)'
  <2>1. CASE v = w
    BY <2>1
  <2>2. CASE v # w
    <3>1. Works(v)
      BY DEF Whole
    <3>2. /\ pc'[v] = pc[v] /\ stmt'[v] = stmt[v]
          /\ plan'[v] = plan[v] /\ content'[v] = content[v]
      BY <2>2 DEF Others
    <3> QED BY <3>1, <3>2 DEF Works, Others
  <2> QED BY <2>1, <2>2
<1> QED BY <1>1 DEF Whole, Others, Stored

\* A statement that is over leaves nothing behind.
LEMMA LeaveIsWhole ==
  ASSUME Whole, NEW w \in Workers, Leave(w), todo' = todo, DOMAIN meta' = Names, Stored'
  PROVE  Whole'
<1>1. Others(w)
  BY DEF Whole, Shaped, Leave, Others
<1>2. Works(w)'
  BY DEF Whole, Shaped, Leave, Works
<1> QED BY <1>1, <1>2, OneWorkerSteps

\* A statement that goes on in a state of its kind, with a plan of its kind.
LEMMA GotoIsWhole ==
  ASSUME Rowwise, Whole, NEW w \in Workers, pc[w] # Idle,
         NEW state \in StatesOf(stmt[w].kind), Goto(w, state),
         UNCHANGED <<todo, stmt>>, DOMAIN def' = Workers, DOMAIN meta' = Names, Stored',
         UNCHANGED content \/ \E c : content' = [content EXCEPT ![w] = c],
         UNCHANGED plan \/ \E p : plan' = [plan EXCEPT ![w] = p],
         state = "rewrite" => content'[w] \in Seq(WholeRows),
         state \in Planned => plan'[w] \in PlansOf(stmt[w].kind)
  PROVE  Whole'
<1>1. Works(w)
  BY DEF Whole
<1>2. Others(w)
  BY DEF Whole, Shaped, Goto, Others
<1>3. pc'[w] = state /\ stmt'[w] = stmt[w] /\ todo' = todo
  BY DEF Whole, Shaped, Goto
<1>4. Works(w)'
  BY <1>1, <1>3 DEF Works
<1> QED BY <1>2, <1>4, OneWorkerSteps
-----------------------------------------------------------------------------
(* One lemma per action.                                                   *)

KindsHere == {"insert", "update", "delete", "create", "drop"}

LEMMA Busy ==
  ASSUME Rowwise, Whole, NEW w \in Workers, pc[w] # Idle
  PROVE  /\ stmt[w] \in Statements \ todo
         /\ stmt[w].kind \in KindsHere
         /\ pc[w] \in StatesOf(stmt[w].kind)
         /\ Table(w) \in Names
         /\ pc[w] \in Planned => plan[w] \in PlansOf(stmt[w].kind)
         /\ pc[w] = "rewrite" => content[w] \in Seq(WholeRows)
<1>1. Works(w) /\ todo \subseteq Statements
  BY DEF Whole, Shaped
<1>2. stmt[w] \in Statements \ todo
  BY <1>1 DEF Works
<1>3. stmt[w].kind \in KindsHere /\ Table(w) \in Names
  BY <1>2 DEF Rowwise, Kinds, KindsHere, Table
<1> QED BY <1>1, <1>2, <1>3 DEF Works

\* A worker in a state runs a statement of one of the kinds that come there.
LEMMA KindsByState ==
  ASSUME NEW kind \in KindsHere, NEW state \in StatesOf(kind)
  PROVE  /\ state \in States
         /\ state = "append" => kind = "insert"
         /\ state \in {"againDef", "againData", "rewrite"} => kind \in {"update", "delete"}
         /\ state \in {"loadDef", "loadData"} => kind \in {"update", "delete"}
         /\ state \in {"checkDef", "checkLoad", "checkData"} => kind \in {"insert", "update"}
         /\ state \in {"createMeta", "createData"} => kind = "create"
         /\ state = "dropData" => kind = "drop"
         /\ state \notin {"alterMeta", "alterRead", "alterWrite", "renameCheck", "renameMeta",
                          "renameData", "renameDone"}
BY DEF KindsHere, StatesOf, States, Idle

LEMMA ReadDefKeepsWhole ==
  ASSUME Rowwise, Whole, NEW w \in Workers, ReadDef(w)
  PROVE  Whole'
<1>1. /\ pc[w] = "start" /\ pc[w] # Idle /\ stmt[w].kind \in {"insert", "update", "delete"}
      /\ stmt[w] \in Statements
  BY Busy DEF ReadDef, Idle, KindsHere
<1>2. todo' = todo /\ Stored' /\ DOMAIN meta' = Names /\ Shaped
  BY DEF ReadDef, files, Whole, Shaped, Stored
<1>3. CASE Fail(w)
  BY <1>2, <1>3, LeaveIsWhole DEF Fail
<1>4. CASE ~Fail(w)
  <2> DEFINE state == AfterDef(stmt[w])
             p == IF stmt[w].kind = "insert" THEN stmt[w].rows ELSE <<>>
  <2>1. /\ Goto(w, state) /\ UNCHANGED <<stmt, content>>
        /\ plan' = [plan EXCEPT ![w] = p]
        /\ def' = [def EXCEPT ![w] = meta[Table(w)]]
    BY <1>4 DEF ReadDef
  <2>2. state \in StatesOf(stmt[w].kind) /\ state # "rewrite"
        /\ (state \in Planned => stmt[w].kind = "insert")
    BY <1>1 DEF AfterDef, Checked, Writing, StatesOf, Planned
  <2>3. stmt[w].kind = "insert" => p \in PlansOf(stmt[w].kind)
    BY <1>1 DEF Rowwise, Inserts, PlansOf
  <2>4. plan'[w] = p /\ DOMAIN def' = Workers
    BY <1>2, <2>1 DEF Shaped
  <2> HIDE DEF state, p
  <2> QED BY <1>1, <1>2, <2>1, <2>2, <2>3, <2>4, GotoIsWhole
<1> QED BY <1>3, <1>4

LEMMA InsertRowKeepsWhole ==
  ASSUME Rowwise, Whole, NEW w \in Workers, InsertRow(w)
  PROVE  Whole'
<1>1. /\ pc[w] = "append" /\ pc[w] # Idle /\ pc[w] \in Planned
      /\ stmt[w].kind = "insert" /\ Table(w) \in Names
      /\ plan[w] \in Seq(InsertedRows) \ {<<>>}
  <2>1. pc[w] = "append" /\ pc[w] # Idle /\ pc[w] \in Planned
    BY DEF InsertRow, Idle, Planned
  <2>2. stmt[w].kind = "insert"
    BY <2>1, Busy, KindsByState
  <2> QED BY <2>1, <2>2, Busy DEF PlansOf
<1>2. Head(plan[w]) \in WholeRows /\ Tail(plan[w]) \in Seq(InsertedRows)
  BY <1>1, RestOfPlan, InsertedIsWhole
<1>3. todo' = todo /\ DOMAIN meta' = Names /\ Shaped /\ Stored
  BY DEF InsertRow, Whole, Shaped, Stored
<1>4. Stored'
  <2>1. AppendRow(data[Table(w)], Head(plan[w])) \in WholeFiles
    BY <1>1, <1>2, <1>3, AppendedToFile DEF Stored, WholeFiles
  <2> QED BY <1>1, <1>3, <2>1 DEF InsertRow, Stored
<1>5. CASE Leave(w)
  BY <1>3, <1>4, <1>5, LeaveIsWhole
<1>6. CASE ~Leave(w)
  <2>1. /\ Tail(plan[w]) # <<>>
        /\ plan' = [plan EXCEPT ![w] = Tail(plan[w])]
        /\ Goto(w, Checked(stmt[w]))
        /\ UNCHANGED <<stmt, def, content>>
    BY <1>6 DEF InsertRow, Fail, Succeed
  <2>2. Checked(stmt[w]) \in StatesOf(stmt[w].kind) /\ Checked(stmt[w]) # "rewrite"
    BY <1>1 DEF Checked, Writing, StatesOf
  <2>3. plan'[w] \in PlansOf(stmt[w].kind) /\ DOMAIN def' = Workers
    BY <1>1, <1>2, <1>3, <2>1 DEF Shaped, PlansOf
  <2> QED BY <1>1, <1>3, <1>4, <2>1, <2>2, <2>3, GotoIsWhole
<1> QED BY <1>5, <1>6

\* The foreign-key check goes on to the next of its reads, or to the write.
LEMMA CheckKeepsWhole ==
  ASSUME Rowwise, Whole, NEW w \in Workers, CheckDef(w) \/ CheckLoad(w) \/ CheckData(w)
  PROVE  Whole'
<1>1. /\ pc[w] \in {"checkDef", "checkLoad", "checkData"} /\ pc[w] # Idle /\ pc[w] \in Planned
      /\ stmt[w].kind \in {"insert", "update"}
      /\ plan[w] \in PlansOf(stmt[w].kind)
  <2>1. pc[w] \in {"checkDef", "checkLoad", "checkData"}
    BY DEF CheckDef, CheckLoad, CheckData
  <2>2. pc[w] # Idle /\ pc[w] \in Planned
    BY <2>1 DEF Idle, Planned
  <2>3. stmt[w].kind \in {"insert", "update"}
    BY <2>1, <2>2, Busy, KindsByState
  <2> QED BY <2>1, <2>2, <2>3, Busy
<1>2. todo' = todo /\ DOMAIN meta' = Names /\ Shaped /\ Stored'
  BY DEF CheckDef, CheckLoad, CheckData, files, Whole, Shaped, Stored
<1>3. CASE Leave(w)
  BY <1>2, <1>3, LeaveIsWhole
<1>4. CASE ~Leave(w)
  <2>1. PICK state \in {"checkLoad", "checkData", Writing(stmt[w])} : Goto(w, state)
    BY <1>4 DEF CheckDef, CheckLoad, CheckData, Fail
  <2>2. UNCHANGED <<stmt, def, plan>> /\ (UNCHANGED content \/ \E c : content' = [content EXCEPT ![w] = c])
    BY <1>4 DEF CheckDef, CheckLoad, CheckData, Fail
  <2>3. state \in StatesOf(stmt[w].kind) /\ state # "rewrite"
    BY <1>1, <2>1 DEF Writing, StatesOf
  <2>4. DOMAIN def' = Workers /\ plan'[w] \in PlansOf(stmt[w].kind)
    BY <1>1, <1>2, <2>2 DEF Shaped
  <2> QED BY <1>1, <1>2, <2>1, <2>2, <2>3, <2>4, GotoIsWhole
<1> QED BY <1>3, <1>4

\* UPDATE and DELETE read the table and make their plan, or read it again for one row.
LEMMA LoadKeepsWhole ==
  ASSUME Rowwise, Whole, NEW w \in Workers, LoadDef(w) \/ LoadData(w) \/ LoadAgain(w)
  PROVE  Whole'
<1>1. /\ pc[w] \in {"loadDef", "againDef", "loadData", "againData"} /\ pc[w] # Idle
      /\ stmt[w].kind \in {"update", "delete"} /\ stmt[w] \in Statements /\ Table(w) \in Names
      /\ pc[w] \in {"againDef", "againData"} => plan[w] \in PlansOf(stmt[w].kind)
  <2>1. pc[w] \in {"loadDef", "againDef", "loadData", "againData"}
    BY DEF LoadDef, LoadData, LoadAgain
  <2>2. pc[w] # Idle /\ (pc[w] \in {"againDef", "againData"} => pc[w] \in Planned)
    BY <2>1 DEF Idle, Planned
  <2>3. stmt[w].kind \in {"update", "delete"}
    BY <2>1, <2>2, Busy, KindsByState
  <2> QED BY <2>1, <2>2, <2>3, Busy
<1>2. todo' = todo /\ DOMAIN meta' = Names /\ Shaped /\ Stored'
  BY DEF LoadDef, LoadData, LoadAgain, files, Whole, Shaped, Stored
<1>3. Loaded(w, Table(w)) \in Seq(WholeRows)
  BY <1>1, LoadedIsWhole
<1>4. CASE Leave(w)
  BY <1>2, <1>4, LeaveIsWhole
<1>5. CASE ~Leave(w) /\ LoadDef(w)
  <2> DEFINE state == IF pc[w] = "loadDef" THEN "loadData" ELSE "againData"
  <2>1. /\ Goto(w, state) /\ UNCHANGED <<stmt, def, plan>>
        /\ content' = [content EXCEPT ![w] = meta[Table(w)]]
    BY <1>5 DEF LoadDef, Fail
  <2>2. state \in StatesOf(stmt[w].kind) /\ state # "rewrite"
    BY <1>1 DEF StatesOf
  <2>3. state \in Planned => plan'[w] \in PlansOf(stmt[w].kind)
    BY <1>1, <1>5, <2>1 DEF Planned, LoadDef
  <2>4. DOMAIN def' = Workers
    BY <1>2, <2>1 DEF Shaped
  <2> HIDE DEF state
  <2> QED BY <1>1, <1>2, <2>1, <2>2, <2>3, <2>4, GotoIsWhole
<1>6. CASE ~Leave(w) /\ LoadData(w)
  <2> DEFINE next == IF stmt[w].kind = "update"
                       THEN UpdatePlan(Loaded(w, Table(w)), def[w], stmt[w])
                       ELSE DeletePlan(Loaded(w, Table(w)), stmt[w])
  <2>1. /\ next # <<>> /\ plan' = [plan EXCEPT ![w] = next]
        /\ Goto(w, Checked(stmt[w])) /\ UNCHANGED <<stmt, def, content>>
    BY <1>6 DEF LoadData, Succeed
  <2>2. next \in PlansOf(stmt[w].kind)
    <3>1. CASE stmt[w].kind = "update"
      <4>1. stmt[w] \in Updates
        BY <1>1, <3>1 DEF Updates
      <4>2. next \in Seq([id : Ids, row : WholeRows])
        BY <1>3, <3>1, <4>1, UpdatePlanTyped
      <4> QED BY <2>1, <3>1, <4>2 DEF PlansOf
    <3>2. CASE stmt[w].kind = "delete"
      <4>1. next \in Seq([id : Ids])
        BY <1>3, <3>2, DeletePlanTyped
      <4> QED BY <2>1, <3>2, <4>1 DEF PlansOf
    <3> QED BY <1>1, <3>1, <3>2
  <2> HIDE DEF next
  <2>3. Checked(stmt[w]) \in StatesOf(stmt[w].kind) /\ Checked(stmt[w]) # "rewrite"
    BY <1>1 DEF Checked, Writing, StatesOf
  <2>4. DOMAIN def' = Workers /\ plan'[w] = next
    BY <1>2, <2>1 DEF Shaped
  <2> QED BY <1>1, <1>2, <2>1, <2>2, <2>3, <2>4, GotoIsWhole
<1>7. CASE LoadAgain(w)
  <2>1. /\ Goto(w, "rewrite") /\ UNCHANGED <<stmt, def, plan>> /\ pc[w] = "againData"
        /\ content' = [content EXCEPT ![w] = Loaded(w, Table(w))]
    BY <1>7 DEF LoadAgain
  <2>2. "rewrite" \in StatesOf(stmt[w].kind)
    BY <1>1 DEF StatesOf
  <2>3. content'[w] \in Seq(WholeRows) /\ plan'[w] \in PlansOf(stmt[w].kind) /\ DOMAIN def' = Workers
    BY <1>1, <1>2, <1>3, <2>1 DEF Shaped
  <2> QED BY <1>1, <1>2, <2>1, <2>2, <2>3, GotoIsWhole
<1> QED BY <1>4, <1>5, <1>6, <1>7

\* The file is written from what was read, with one whole row changed or taken away.
LEMMA RewriteKeepsWhole ==
  ASSUME Rowwise, Whole, NEW w \in Workers, Rewrite(w)
  PROVE  Whole'
<1>1. /\ pc[w] = "rewrite" /\ pc[w] # Idle /\ pc[w] \in Planned
      /\ stmt[w].kind \in {"update", "delete"} /\ Table(w) \in Names
      /\ plan[w] \in PlansOf(stmt[w].kind)
      /\ content[w] \in Seq(WholeRows)
  <2>1. pc[w] = "rewrite" /\ pc[w] # Idle /\ pc[w] \in Planned
    BY DEF Rewrite, Idle, Planned
  <2>2. stmt[w].kind \in {"update", "delete"}
    BY <2>1, Busy, KindsByState
  <2> QED BY <2>1, <2>2, Busy
<1>2. todo' = todo /\ DOMAIN meta' = Names /\ Shaped /\ Stored
  BY DEF Rewrite, Whole, Shaped, Stored
<1>3. Rewritten(w) \in WholeFiles /\ (Tail(plan[w]) # <<>> => Tail(plan[w]) \in PlansOf(stmt[w].kind))
  <2>1. CASE stmt[w].kind = "update"
    <3>1. plan[w] \in Seq([id : Ids, row : WholeRows]) \ {<<>>}
      BY <1>1, <2>1 DEF PlansOf
    <3>2. Head(plan[w]) \in [id : Ids, row : WholeRows] /\ Tail(plan[w]) \in Seq([id : Ids, row : WholeRows])
      BY <3>1, RestOfPlan
    <3>3. PutRow(content[w], Head(plan[w]).id, Head(plan[w]).row) \in Seq(WholeRows)
      BY <1>1, <3>2, PutAmongRows
    <3> QED BY <2>1, <3>2, <3>3 DEF Rewritten, Ended, WholeFiles, PlansOf
  <2>2. CASE stmt[w].kind = "delete"
    <3>1. plan[w] \in Seq([id : Ids]) \ {<<>>}
      BY <1>1, <2>2 DEF PlansOf
    <3>2. Head(plan[w]) \in [id : Ids] /\ Tail(plan[w]) \in Seq([id : Ids])
      BY <3>1, RestOfPlan
    <3>3. EraseRow(content[w], Head(plan[w]).id) \in Seq(WholeRows)
      BY <1>1, <3>2, EraseFromRows
    <3> QED BY <2>2, <3>2, <3>3 DEF Rewritten, Ended, WholeFiles, PlansOf
  <2> QED BY <1>1, <2>1, <2>2
<1>4. Stored'
  BY <1>1, <1>2, <1>3 DEF Rewrite, Stored
<1>5. CASE Leave(w)
  BY <1>2, <1>4, <1>5, LeaveIsWhole
<1>6. CASE ~Leave(w)
  <2>1. /\ Tail(plan[w]) # <<>>
        /\ plan' = [plan EXCEPT ![w] = Tail(plan[w])]
        /\ Goto(w, Checked(stmt[w]))
        /\ UNCHANGED <<stmt, def, content>>
    BY <1>6 DEF Rewrite, Succeed
  <2>2. Checked(stmt[w]) \in StatesOf(stmt[w].kind) /\ Checked(stmt[w]) # "rewrite"
    BY <1>1 DEF Checked, Writing, StatesOf
  <2>3. plan'[w] \in PlansOf(stmt[w].kind) /\ DOMAIN def' = Workers
    BY <1>2, <1>3, <2>1 DEF Shaped
  <2> QED BY <1>1, <1>2, <1>4, <2>1, <2>2, <2>3, GotoIsWhole
<1> QED BY <1>5, <1>6

\* CREATE TABLE makes an empty file, DROP TABLE removes one.
LEMMA CreateDropKeepWhole ==
  ASSUME Rowwise, Whole, NEW w \in Workers,
         \/ CreateCheck(w) \/ CreateMeta(w) \/ CreateData(w) \/ DropMeta(w) \/ DropData(w)
  PROVE  Whole'
<1>1. /\ pc[w] \in {"start", "createMeta", "createData", "dropData"} /\ pc[w] # Idle
      /\ stmt[w].kind \in {"create", "drop"}
  <2>1. pc[w] \in {"start", "createMeta", "createData", "dropData"} /\ pc[w] # Idle
    BY DEF CreateCheck, CreateMeta, CreateData, DropMeta, DropData, Idle
  <2>2. pc[w] = "start" => stmt[w].kind \in {"create", "drop"}
    BY DEF CreateCheck, CreateMeta, CreateData, DropMeta, DropData
  <2> QED BY <2>1, <2>2, Busy, KindsByState
<1>2. todo' = todo /\ DOMAIN meta' = Names /\ Shaped
  BY DEF CreateCheck, CreateMeta, CreateData, DropMeta, DropData, files, Whole, Shaped
<1>3. Stored'
  <2>1. Ended(<<>>) \in WholeFiles /\ Stored
    BY EmptySeq DEF Ended, WholeFiles, Whole, Stored
  <2>2. \/ data' = data
        \/ \E f \in {NoFile} \cup WholeFiles : data' = [data EXCEPT ![Table(w)] = f]
    BY <2>1 DEF CreateCheck, CreateMeta, CreateData, DropMeta, DropData, files
  <2> QED BY <2>1, <2>2 DEF Stored
<1>4. CASE Leave(w)
  BY <1>2, <1>3, <1>4, LeaveIsWhole
<1>5. CASE ~Leave(w)
  <2>1. /\ \/ Goto(w, "createMeta") /\ stmt[w].kind = "create"
           \/ Goto(w, "createData") /\ pc[w] = "createMeta"
           \/ Goto(w, "dropData") /\ stmt[w].kind = "drop"
        /\ UNCHANGED <<stmt, content, plan>>
        /\ UNCHANGED def \/ def' = [def EXCEPT ![w] = Columns]
    BY <1>5 DEF CreateCheck, CreateMeta, CreateData, DropMeta, DropData, Fail, Succeed
  <2>2. pc[w] = "createMeta" => stmt[w].kind = "create"
    BY <1>1, Busy, KindsByState
  <2>3. PICK state \in StatesOf(stmt[w].kind) \ Planned : Goto(w, state)
    BY <2>1, <2>2 DEF StatesOf, Planned
  <2>4. DOMAIN def' = Workers /\ state # "rewrite" /\ state \notin Planned
    BY <1>2, <2>1, <2>3 DEF Shaped, Planned
  <2> QED BY <1>1, <1>2, <1>3, <2>1, <2>3, <2>4, GotoIsWhole
<1> QED BY <1>4, <1>5

LEMMA BeginKeepsWhole ==
  ASSUME Rowwise, Whole, NEW w \in Workers, NEW s \in Statements, Begin(w, s)
  PROVE  Whole'
<1>1. Others(w) /\ Stored'
  BY DEF Begin, Goto, files, Others, Whole, Shaped, Stored
<1>2. pc'[w] = "start" /\ stmt'[w] = s /\ s \in Statements \ todo'
  BY DEF Begin, Goto, Whole, Shaped
<1>3. s.kind \in KindsHere
  BY DEF Rowwise, Kinds, KindsHere
<1>4. "start" \in StatesOf(s.kind) /\ "start" \notin Planned
  BY <1>3 DEF StatesOf, KindsHere, Planned
<1>5. Works(w)'
  BY <1>2, <1>4 DEF Works, Planned
<1> QED BY <1>1, <1>5, OneWorkerSteps

\* No statement here is in a state of ALTER TABLE.
LEMMA NoAlter ==
  ASSUME Rowwise, Whole, NEW w \in Workers
  PROVE  /\ ~AlterMeta(w) /\ ~AlterRead(w) /\ ~AlterWrite(w)
         /\ ~RenameCheck(w) /\ ~RenameMeta(w) /\ ~RenameData(w) /\ ~RenameDone(w)
<1>1. pc[w] # Idle => pc[w] \notin {"alterMeta", "alterRead", "alterWrite", "renameCheck", "renameMeta",
                                   "renameData", "renameDone"}
  BY Busy, KindsByState
<1>2. pc[w] \notin {"alterMeta", "alterRead", "alterWrite", "renameCheck", "renameMeta",
                   "renameData", "renameDone"}
  BY <1>1 DEF Idle
<1> QED BY <1>2 DEF AlterMeta, AlterRead, AlterWrite, RenameCheck, RenameMeta, RenameData, RenameDone
-----------------------------------------------------------------------------
(* The invariant of the specification, and the property.                   *)

WholeUntilCrash ==
  /\ Rowwise
  /\ crashes \in Nat
  /\ crashes = 0 => Whole

LEMMA WholeImpliesLines ==
  ASSUME WholeUntilCrash PROVE LinesAreWhole
<1>1. SUFFICES ASSUME crashes = 0, NEW t \in Names, data[t] # NoFile
               PROVE  /\ data[t].ended
                      /\ \A l \in ToSet(data[t].lines) :
                           \E s \in Inserts : \E row \in ToSet(s.rows) : ComesFrom(l, row)
  BY DEF LinesAreWhole
<1>2. data[t] \in WholeFiles
  BY <1>1 DEF WholeUntilCrash, Whole
<1>3. data[t].ended /\ data[t].lines \in Seq(WholeRows)
  BY <1>2 DEF WholeFiles
<1>4. ASSUME NEW l \in ToSet(data[t].lines)
      PROVE  \E s \in Inserts : \E row \in ToSet(s.rows) : ComesFrom(l, row)
  <2>1. l \in WholeRows
    BY <1>3 DEF ToSet
  <2> QED BY <2>1 DEF WholeRows, InsertedRows
<1> QED BY <1>3, <1>4

LEMMA WholeInitially ==
  ASSUME Rowwise, Init PROVE WholeUntilCrash
<1>1. Shaped /\ Stored
  BY DEF Rowwise, Init, Shaped, Stored
<1>2. \A w \in Workers : Works(w)
  BY DEF Init, Works
<1> QED BY <1>1, <1>2 DEF WholeUntilCrash, Whole, Stored, Init

LEMMA WholeInductive ==
  ASSUME WholeUntilCrash, [Next]_vars PROVE WholeUntilCrash'
<1>1. CASE Crash
  <2>1. crashes' \in Nat /\ crashes' # 0
    BY <1>1 DEF Crash, WholeUntilCrash
  <2> QED BY <2>1 DEF WholeUntilCrash, Rowwise
<1>2. CASE UNCHANGED vars
  BY <1>2 DEF vars, WholeUntilCrash, Whole, Shaped, Works
<1>3. ASSUME NEW w \in Workers, NEW s \in Statements, Begin(w, s) PROVE WholeUntilCrash'
  <2>1. crashes' = crashes
    BY <1>3 DEF Begin
  <2> QED BY <1>3, <2>1, BeginKeepsWhole DEF WholeUntilCrash
<1>4. ASSUME NEW w \in Workers, Step(w) PROVE WholeUntilCrash'
  <2>1. crashes' = crashes
    BY <1>4 DEF Step, ReadDef, InsertRow, CheckDef, CheckLoad, CheckData, LoadDef, LoadData,
                LoadAgain, Rewrite, CreateCheck, CreateMeta, CreateData, DropMeta, DropData,
                AlterMeta, AlterRead, AlterWrite, RenameCheck, RenameMeta, RenameData, RenameDone
  <2>2. ASSUME Whole PROVE Whole'
    BY <1>4, <2>2, ReadDefKeepsWhole, InsertRowKeepsWhole, CheckKeepsWhole, LoadKeepsWhole,
       RewriteKeepsWhole, CreateDropKeepWhole, NoAlter DEF Step, WholeUntilCrash
  <2> QED BY <2>1, <2>2 DEF WholeUntilCrash
<1> QED BY <1>1, <1>2, <1>3, <1>4 DEF Next

\* The locks that FileIO takes per path for the length of one read, write or append are
\* enough for any number of INSERT, UPDATE, DELETE, CREATE TABLE and DROP TABLE to leave, in
\* every interleaving and until the first crash, files of whole lines: each ended, and each
\* a row of an INSERT with only cells of UPDATEs in it.
THEOREM WholeLines == Rowwise /\ Spec => []LinesAreWhole
<1>1. Rowwise /\ Init => WholeUntilCrash
  BY WholeInitially
<1>2. WholeUntilCrash /\ [Next]_vars => WholeUntilCrash'
  BY WholeInductive
<1>3. WholeUntilCrash => LinesAreWhole
  BY WholeImpliesLines
<1> QED BY <1>1, <1>2, <1>3, PTL DEF Spec
-----------------------------------------------------------------------------
(***************************************************************************)
(* The foreign-key check: the parent is read first and the child written   *)
(* later, which is safe while the parent table only receives rows.         *)
(***************************************************************************)

\* Nobody has done more to the parent of t than to insert into it.
Quiet(t) ==
  /\ ForeignKey[t] # NoFile
  /\ \A s \in Statements \ todo : ForeignKey[t] \in TablesOf(s) => s.kind = "insert"

HasParent(k, t) == k = Null \/ \E p \in Rows(ForeignKey[t]) : p[1] = k

\* The rows that may stand in t.
GoodRows(t) == {l \in WholeRows : HasParent(l[1], t)}

GoodFiles(t) == [lines : Seq(GoodRows(t)), ended : {TRUE}]

\* Every row of the initial files has its parent.
ParentsAtStart ==
  \A t \in Names : ForeignKey[t] # NoFile /\ Data0[t] # NoFile =>
    \A l \in ToSet(Data0[t].lines) :
      \/ l[1] = Null
      \/ LET p == ForeignKey[t] IN
         /\ Meta0[p] \notin Unreadable /\ Data0[p] # NoFile
         /\ \E r \in ToSet(Data0[p].lines) : Len(r) <= Len(Meta0[p]) /\ r[1] = l[1]

(***************************************************************************)
(* The invariant: a row that was checked keeps its parent until it is      *)
(* written, and so do the rows that a rewrite has read.                    *)
(***************************************************************************)

Writes == {"append", "againDef", "againData", "rewrite"}

Kept(w) ==
  (pc[w] # Idle /\ Quiet(Table(w))) =>
    /\ (pc[w] \in Writes /\ stmt[w].kind # "delete") => HasParent(Key(w), Table(w))
    /\ pc[w] = "rewrite" => content[w] \in Seq(GoodRows(Table(w)))
    /\ pc[w] = "checkData" => /\ content[w] = meta[ForeignKey[Table(w)]]
                              /\ content[w] \notin Unreadable

GoodFile(t) == (Quiet(t) /\ data[t] # NoFile) => data[t] \in GoodFiles(t)

Related ==
  /\ \A t \in Names : GoodFile(t)
  /\ \A w \in Workers : Kept(w)

LEMMA SeqOfSubset ==
  ASSUME NEW A, NEW B, A \subseteq B PROVE Seq(A) \subseteq Seq(B)
OBVIOUS

\* What a step must leave of the parent of t while nobody but inserts has come to it.
Lasting(t) ==
  Quiet(t)' =>
    /\ Quiet(t) /\ ForeignKey[t] \in Names
    /\ meta'[ForeignKey[t]] = meta[ForeignKey[t]]
    /\ \A k : HasParent(k, t) => HasParent(k, t)'
    /\ Seq(GoodRows(t)) \subseteq Seq(GoodRows(t)')

LEMMA RowsLast ==
  ASSUME NEW t \in Names, NEW w, Others(w),
         Quiet(t)' => /\ meta'[ForeignKey[t]] = meta[ForeignKey[t]]
                      /\ Rows(ForeignKey[t]) \subseteq Rows(ForeignKey[t])'
  PROVE  Lasting(t)
<1> SUFFICES ASSUME Quiet(t)'
             PROVE  /\ Quiet(t) /\ ForeignKey[t] \in Names
                    /\ meta'[ForeignKey[t]] = meta[ForeignKey[t]]
                    /\ \A k : HasParent(k, t) => HasParent(k, t)'
                    /\ Seq(GoodRows(t)) \subseteq Seq(GoodRows(t)')
  BY DEF Lasting
<1>1. Quiet(t)
  BY DEF Quiet, Others
<1>2. ForeignKey[t] \in Names
  BY <1>1, ForeignKeyAssumption DEF Quiet
<1>3. ASSUME NEW k, HasParent(k, t) PROVE HasParent(k, t)'
  BY <1>3 DEF HasParent
<1>4. GoodRows(t) \subseteq GoodRows(t)'
  BY <1>3 DEF GoodRows
<1> QED BY <1>1, <1>2, <1>3, <1>4, SeqOfSubset

LEMMA FilesStay ==
  ASSUME NEW t \in Names, NEW w, Others(w), UNCHANGED files
  PROVE  Lasting(t)
<1>1. Rows(ForeignKey[t])' = Rows(ForeignKey[t])
  BY DEF Rows, View, files
<1> QED BY <1>1, RowsLast DEF files

\* A statement other than an INSERT does not touch a quiet parent.
LEMMA OnlyInsertsTouchParents ==
  ASSUME Rowwise, Whole, NEW t \in Names, NEW w \in Workers, Others(w), pc[w] # Idle,
         stmt[w].kind # "insert",
         \A x \in Names \ {Table(w)} : meta'[x] = meta[x] /\ data'[x] = data[x]
  PROVE  Lasting(t)
<1> SUFFICES ASSUME Quiet(t)'
             PROVE  /\ meta'[ForeignKey[t]] = meta[ForeignKey[t]]
                    /\ Rows(ForeignKey[t]) \subseteq Rows(ForeignKey[t])'
  BY RowsLast
<1>1. stmt[w] \in Statements \ todo' /\ stmt[w].kind # "rename"
  BY Busy DEF Others, KindsHere
<1>2. Table(w) \in TablesOf(stmt[w])
  BY <1>1 DEF TablesOf, Table
<1>3. ForeignKey[t] \in Names /\ ForeignKey[t] # Table(w)
  BY <1>1, <1>2, ForeignKeyAssumption DEF Quiet
<1> QED BY <1>3 DEF Rows, View
-----------------------------------------------------------------------------
(* What the steps of one worker leave alone.                               *)

LEMMA RelatedStep ==
  ASSUME Rowwise, Whole, Related, NEW w \in Workers, Others(w),
         \A t \in Names : Lasting(t), Kept(w)',
         \A t \in Names : \/ data'[t] = data[t]
                          \/ GoodFile(t)'
  PROVE  Related'
<1>1. ASSUME NEW t \in Names PROVE GoodFile(t)'
  <2>1. CASE GoodFile(t)'
    BY <2>1
  <2>2. CASE data'[t] = data[t]
    <3> SUFFICES ASSUME Quiet(t)', data'[t] # NoFile PROVE data'[t] \in GoodFiles(t)'
      BY DEF GoodFile
    <3>1. data[t] \in GoodFiles(t)
      BY <2>2 DEF Related, GoodFile, Lasting
    <3>2. Seq(GoodRows(t)) \subseteq Seq(GoodRows(t)')
      BY DEF Lasting
    <3> QED BY <2>2, <3>1, <3>2 DEF GoodFiles
  <2> QED BY <2>1, <2>2
<1>2. ASSUME NEW v \in Workers, v # w PROVE Kept(v)'
  <2>1. /\ pc'[v] = pc[v] /\ stmt'[v] = stmt[v]
        /\ plan'[v] = plan[v] /\ content'[v] = content[v]
    BY <1>2 DEF Others
  <2>2. Table(v)' = Table(v) /\ Key(v)' = Key(v)
    BY <2>1 DEF Table, Key
  <2> SUFFICES ASSUME pc[v] # Idle, Quiet(Table(v))'
               PROVE  /\ (pc[v] \in Writes /\ stmt[v].kind # "delete") => HasParent(Key(v), Table(v))'
                      /\ pc[v] = "rewrite" => content[v] \in Seq(GoodRows(Table(v))')
                      /\ pc[v] = "checkData" => /\ content[v] = meta'[ForeignKey[Table(v)]]
                                                /\ content[v] \notin Unreadable
    BY <2>1, <2>2 DEF Kept
  <2>3. Table(v) \in Names
    BY Busy
  <2>4. Lasting(Table(v)) /\ Kept(v)
    BY <2>3 DEF Related
  <2> QED BY <2>2, <2>4 DEF Lasting, Kept
<1> QED BY <1>1, <1>2 DEF Related

LEMMA LeaveOthers ==
  ASSUME Whole, NEW w \in Workers, Leave(w), todo' = todo, DOMAIN meta' = Names
  PROVE  Others(w) /\ Kept(w)'
<1>1. Others(w) /\ pc'[w] = Idle
  BY DEF Whole, Shaped, Leave, Others
<1> QED BY <1>1 DEF Kept

LEMMA GotoOthers ==
  ASSUME Whole, NEW w \in Workers, NEW state, Goto(w, state), UNCHANGED <<todo, stmt>>,
         DOMAIN def' = Workers, DOMAIN meta' = Names,
         UNCHANGED content \/ \E c : content' = [content EXCEPT ![w] = c],
         UNCHANGED plan \/ \E p : plan' = [plan EXCEPT ![w] = p]
  PROVE  Others(w) /\ pc'[w] = state /\ Table(w)' = Table(w)
BY DEF Whole, Shaped, Goto, Others, Table

\* Before the next row comes its check; a DELETE has none.
LEMMA CheckedKept ==
  ASSUME NEW w \in Workers, stmt[w].kind \in KindsHere, Table(w) \in Names,
         pc'[w] = Checked(stmt[w]), stmt' = stmt
  PROVE  Kept(w)'
<1>1. CASE ForeignKey[Table(w)] = NoFile
  <2>1. ~Quiet(Table(w))'
    BY <1>1 DEF Quiet, Table
  <2> QED BY <2>1 DEF Kept
<1>2. CASE ForeignKey[Table(w)] # NoFile /\ stmt[w].kind = "delete"
  BY <1>2 DEF Kept, Checked, Writing, Writes
<1>3. CASE ForeignKey[Table(w)] # NoFile /\ stmt[w].kind # "delete"
  BY <1>3 DEF Kept, Checked, Writes, Table
<1> QED BY <1>1, <1>2, <1>3

\* A step that changes no file, and leaves the worker with what it needs.
LEMMA ReadingStep ==
  ASSUME Rowwise, Whole, Related, NEW w \in Workers, Others(w), Kept(w)', UNCHANGED files
  PROVE  Related'
BY FilesStay, RelatedStep DEF files

LEMMA ReadDefKeepsRelated ==
  ASSUME Rowwise, Whole, Related, NEW w \in Workers, ReadDef(w)
  PROVE  Related'
<1>1. /\ pc[w] # Idle /\ stmt[w].kind \in {"insert", "update", "delete"} /\ Table(w) \in Names
  BY Busy DEF ReadDef, Idle, KindsHere
<1>2. todo' = todo /\ UNCHANGED files /\ DOMAIN meta' = Names /\ Shaped
  BY DEF ReadDef, files, Whole, Shaped
<1>3. CASE Fail(w)
  BY <1>2, <1>3, LeaveOthers, ReadingStep DEF Fail
<1>4. CASE ~Fail(w)
  <2>1. /\ Goto(w, AfterDef(stmt[w])) /\ UNCHANGED <<stmt, content>>
        /\ \E p : plan' = [plan EXCEPT ![w] = p]
        /\ def' = [def EXCEPT ![w] = meta[Table(w)]]
    BY <1>4 DEF ReadDef
  <2>2. DOMAIN def' = Workers
    BY <1>2, <2>1 DEF Shaped
  <2>3. Others(w) /\ pc'[w] = AfterDef(stmt[w])
    BY <1>2, <2>1, <2>2, GotoOthers
  <2>4. Kept(w)'
    <3>1. CASE stmt[w].kind = "insert"
      BY <1>1, <2>1, <2>3, <3>1, CheckedKept DEF AfterDef, KindsHere
    <3>2. CASE stmt[w].kind # "insert"
      BY <1>1, <2>1, <2>3, <3>2 DEF AfterDef, Kept, Writes
    <3> QED BY <3>1, <3>2
  <2> QED BY <1>2, <2>3, <2>4, ReadingStep
<1> QED BY <1>3, <1>4

\* The append adds a row that has its parent; to a parent it adds one more key.
LEMMA InsertRowKeepsRelated ==
  ASSUME Rowwise, Whole, Related, NEW w \in Workers, InsertRow(w),
         NEW T, T = Table(w), NEW row, row = Head(plan[w])
  PROVE  Related'
<1>1. /\ pc[w] = "append" /\ pc[w] # Idle /\ stmt[w].kind = "insert" /\ T \in Names
      /\ plan[w] \in Seq(InsertedRows) \ {<<>>}
  <2>1. pc[w] = "append" /\ pc[w] # Idle /\ pc[w] \in Planned
    BY DEF InsertRow, Idle, Planned
  <2>2. stmt[w].kind = "insert"
    BY <2>1, Busy, KindsByState
  <2> QED BY <2>1, <2>2, Busy DEF PlansOf
<1>2. row \in WholeRows
  BY <1>1, RestOfPlan, InsertedIsWhole
<1>3. meta' = meta /\ todo' = todo /\ DOMAIN meta' = Names /\ Shaped /\ Stored
  BY DEF InsertRow, Whole, Shaped, Stored
<1>4. \/ data' = data
      \/ data' = [data EXCEPT ![T] = AppendRow(data[T], row)]
  BY DEF InsertRow
<1>5. Others(w) /\ Kept(w)'
  <2>1. CASE Leave(w)
    BY <1>3, <2>1, LeaveOthers
  <2>2. CASE ~Leave(w)
    <3>1. /\ \E p : plan' = [plan EXCEPT ![w] = p]
          /\ Goto(w, Checked(stmt[w]))
          /\ UNCHANGED <<stmt, def, content>>
      BY <2>2 DEF InsertRow, Fail, Succeed
    <3>2. DOMAIN def' = Workers
      BY <1>3, <3>1 DEF Shaped
    <3>3. Others(w) /\ pc'[w] = Checked(stmt[w])
      BY <1>3, <3>1, <3>2, GotoOthers
    <3> QED BY <1>1, <3>1, <3>3, CheckedKept DEF KindsHere
  <2> QED BY <2>1, <2>2
<1>6. Rows(T) \subseteq Rows(T)'
  <2>1. CASE data' = data
    BY <1>3, <2>1 DEF Rows, View
  <2>2. CASE data' = [data EXCEPT ![T] = AppendRow(data[T], row)] /\ data[T] = NoFile
    <3>1. Rows(T) \subseteq {}
      <4>1. ToSet(<<>>) = {}
        BY DEF ToSet
      <4> QED BY <2>2, <4>1 DEF Rows, View
    <3> QED BY <3>1
  <2>3. CASE data' = [data EXCEPT ![T] = AppendRow(data[T], row)] /\ data[T] # NoFile
    <3>1. data[T].ended /\ data[T].lines \in Seq(WholeRows)
      BY <1>1, <1>3, <2>3 DEF Stored, WholeFiles
    <3>2. data'[T] = Ended(Append(data[T].lines, row))
      BY <1>1, <1>3, <2>3, <3>1 DEF Stored, AppendRow
    <3>3. /\ Append(data[T].lines, row) \in Seq(WholeRows)
          /\ ToSet(Append(data[T].lines, row)) = ToSet(data[T].lines) \cup {row}
      BY <1>2, <3>1, AppendedElements
    <3>4. data'[T] # NoFile
      <4>1. Ended(Append(data[T].lines, row)) \in WholeFiles
        BY <3>3 DEF WholeFiles, Ended
      <4>2. NoFile \notin WholeFiles
        BY DEF Rowwise
      <4> QED BY <3>2, <4>1, <4>2
    <3>5. CASE meta[T] \in Unreadable
      BY <3>5 DEF Rows
    <3>6. CASE meta[T] \notin Unreadable
      <4>1. Rows(T) = ToSet(Parse(data[T].lines, meta[T]))
        BY <2>3, <3>6 DEF Rows, View
      <4>2. Rows(T)' = ToSet(Parse(Append(data[T].lines, row), meta[T]))
        BY <1>3, <3>2, <3>4, <3>6 DEF Rows, View, Ended
      <4>3. ToSet(Parse(data[T].lines, meta[T])) \subseteq ToSet(Parse(Append(data[T].lines, row), meta[T]))
        BY ZenonT(30), <3>1, <3>3, ParsedLines
      <4> QED BY <4>1, <4>2, <4>3
    <3> QED BY <3>5, <3>6
  <2> QED BY <1>4, <2>1, <2>2, <2>3
<1>7. ASSUME NEW t \in Names PROVE Lasting(t)
  <2>1. CASE ForeignKey[t] = T
    BY <1>3, <1>5, <1>6, <2>1, RowsLast
  <2>2. CASE ForeignKey[t] # T
    <3>1. Rows(ForeignKey[t])' = Rows(ForeignKey[t]) \/ ForeignKey[t] \notin Names
      BY <1>3, <1>4, <2>2 DEF Rows, View, Stored
    <3>2. Quiet(t)' => ForeignKey[t] \in Names
      BY ForeignKeyAssumption DEF Quiet
    <3> QED BY <1>3, <1>5, <3>1, <3>2, RowsLast
  <2> QED BY <2>1, <2>2
<1>8. ASSUME NEW t \in Names PROVE data'[t] = data[t] \/ GoodFile(t)'
  <2> SUFFICES ASSUME t = T, data'[T] = AppendRow(data[T], row), Quiet(T)'
               PROVE  data'[T] \in GoodFiles(T)'
    BY <1>1, <1>3, <1>4 DEF GoodFile, Stored
  <2>1. Lasting(T) /\ Quiet(T)
    BY <1>1, <1>7 DEF Lasting
  <2>2. HasParent(row[1], T)
    BY <1>1, <2>1 DEF Related, Kept, Writes, Key
  <2>3. row \in GoodRows(T)'
    BY <1>2, <2>1, <2>2 DEF Lasting, GoodRows
  <2>4. data[T] # NoFile => data[T] \in [lines : Seq(GoodRows(T)'), ended : {TRUE}]
    BY <1>1, <2>1 DEF Related, GoodFile, GoodFiles, Lasting
  <2>5. AppendRow(data[T], row) \in [lines : Seq(GoodRows(T)'), ended : {TRUE}]
    BY <2>3, <2>4, AppendedToFile
  <2> QED BY <2>5 DEF GoodFiles
<1> QED BY <1>5, <1>7, <1>8, RelatedStep

\* The check lets a row pass whose key is NULL or stands in the parent table.
LEMMA CheckKeepsRelated ==
  ASSUME Rowwise, Whole, Related, NEW w \in Workers, CheckDef(w) \/ CheckLoad(w) \/ CheckData(w),
         NEW T, T = Table(w)
  PROVE  Related'
<1>1. /\ pc[w] # Idle /\ T \in Names
      /\ stmt[w].kind \in {"insert", "update"}
  <2>1. pc[w] \in {"checkDef", "checkLoad", "checkData"}
    BY DEF CheckDef, CheckLoad, CheckData
  <2>2. pc[w] # Idle
    BY <2>1 DEF Idle
  <2> QED BY <2>1, <2>2, Busy, KindsByState
<1>2. todo' = todo /\ UNCHANGED files /\ DOMAIN meta' = Names /\ Shaped
  BY DEF CheckDef, CheckLoad, CheckData, files, Whole, Shaped
<1>3. CASE Leave(w)
  BY <1>2, <1>3, LeaveOthers, ReadingStep
<1>4. CASE ~Leave(w) /\ (CheckDef(w) \/ CheckData(w))
  <2>1. /\ UNCHANGED <<stmt, def, content, plan>>
        /\ \/ Goto(w, "checkLoad")
           \/ Goto(w, Writing(stmt[w])) /\ (Quiet(T) => HasParent(Key(w), T))
    <3>1. CASE CheckDef(w)
      BY <1>4, <3>1 DEF CheckDef, Fail, HasParent
    <3>2. CASE CheckData(w)
      <4>1. /\ UNCHANGED <<stmt, def, content, plan>> /\ Goto(w, Writing(stmt[w]))
            /\ \E r \in ToSet(Loaded(w, ForeignKey[T])) : r[1] = Key(w)
            /\ pc[w] = "checkData"
        BY <1>4, <3>2 DEF CheckData, Fail
      <4>2. ASSUME Quiet(T) PROVE HasParent(Key(w), T)
        <5>1. content[w] = meta[ForeignKey[T]] /\ content[w] \notin Unreadable
          BY <1>1, <4>1, <4>2 DEF Related, Kept
        <5>2. Rows(ForeignKey[T]) = ToSet(Loaded(w, ForeignKey[T]))
          BY <5>1 DEF Rows, View, Loaded
        <5> QED BY <4>1, <5>2 DEF HasParent
      <4> QED BY <4>1, <4>2
    <3> QED BY <1>4, <3>1, <3>2
  <2>2. DOMAIN def' = Workers
    BY <1>2, <2>1 DEF Shaped
  <2>3. PICK state : /\ Goto(w, state) /\ state \in {"checkLoad", Writing(stmt[w])}
                     /\ state = Writing(stmt[w]) => (Quiet(T) => HasParent(Key(w), T))
    <3>1. "checkLoad" # Writing(stmt[w])
      BY DEF Writing
    <3> QED BY <2>1, <3>1
  <2>4. Others(w) /\ pc'[w] = state /\ Table(w)' = T
    BY <1>2, <2>1, <2>2, <2>3, GotoOthers
  <2>5. Key(w)' = Key(w) /\ Lasting(T)
    BY <1>1, <1>2, <2>1, <2>4, FilesStay DEF Key
  <2>6. Kept(w)'
    BY <2>3, <2>4, <2>5 DEF Kept, Lasting, Writing, Writes
  <2> QED BY <1>2, <2>4, <2>6, ReadingStep
<1>5. CASE ~Leave(w) /\ CheckLoad(w)
  <2>1. /\ UNCHANGED <<stmt, def, plan>> /\ Goto(w, "checkData")
        /\ content' = [content EXCEPT ![w] = meta[ForeignKey[T]]]
        /\ meta[ForeignKey[T]] \notin Unreadable
    BY <1>5 DEF CheckLoad, Fail
  <2>2. DOMAIN def' = Workers /\ content'[w] = meta[ForeignKey[T]] /\ meta' = meta
    BY <1>2, <2>1 DEF Shaped, files
  <2>3. Others(w) /\ pc'[w] = "checkData" /\ Table(w)' = T
    BY <1>2, <2>1, <2>2, GotoOthers
  <2>4. Kept(w)'
    BY <2>1, <2>2, <2>3 DEF Kept, Writes
  <2> QED BY <1>2, <2>3, <2>4, ReadingStep
<1> QED BY <1>3, <1>4, <1>5

LEMMA LoadKeepsRelated ==
  ASSUME Rowwise, Whole, Related, NEW w \in Workers, LoadDef(w) \/ LoadData(w) \/ LoadAgain(w),
         NEW T, T = Table(w)
  PROVE  Related'
<1>1. /\ pc[w] # Idle /\ T \in Names
      /\ stmt[w].kind \in {"update", "delete"}
  <2>1. pc[w] \in {"loadDef", "againDef", "loadData", "againData"}
    BY DEF LoadDef, LoadData, LoadAgain
  <2>2. pc[w] # Idle
    BY <2>1 DEF Idle
  <2> QED BY <2>1, <2>2, Busy, KindsByState
<1>2. todo' = todo /\ UNCHANGED files /\ DOMAIN meta' = Names /\ Shaped
  BY DEF LoadDef, LoadData, LoadAgain, files, Whole, Shaped
<1>3. CASE Leave(w)
  BY <1>2, <1>3, LeaveOthers, ReadingStep
<1>4. CASE ~Leave(w) /\ LoadDef(w)
  <2>1. /\ UNCHANGED <<stmt, def, plan>>
        /\ content' = [content EXCEPT ![w] = meta[T]]
        /\ \/ Goto(w, "loadData")
           \/ Goto(w, "againData") /\ pc[w] = "againDef"
    BY <1>4 DEF LoadDef, Fail
  <2>2. DOMAIN def' = Workers
    BY <1>2, <2>1 DEF Shaped
  <2>3. PICK state \in {"loadData", "againData"} :
          Goto(w, state) /\ (state = "againData" => pc[w] = "againDef")
    BY <2>1
  <2>4. Others(w) /\ pc'[w] = state /\ Table(w)' = T
    BY <1>2, <2>1, <2>2, <2>3, GotoOthers
  <2>5. Key(w)' = Key(w) /\ Lasting(T) /\ Kept(w)
    BY <1>1, <1>2, <2>1, <2>4, FilesStay DEF Key, Related
  <2>6. Kept(w)'
    BY <1>1, <2>1, <2>3, <2>4, <2>5 DEF Kept, Lasting, Writes
  <2> QED BY <1>2, <2>4, <2>6, ReadingStep
<1>5. CASE ~Leave(w) /\ LoadData(w)
  <2>1. /\ \E p : plan' = [plan EXCEPT ![w] = p]
        /\ Goto(w, Checked(stmt[w])) /\ UNCHANGED <<stmt, def, content>>
    BY <1>5 DEF LoadData, Succeed
  <2>2. DOMAIN def' = Workers
    BY <1>2, <2>1 DEF Shaped
  <2>3. Others(w) /\ pc'[w] = Checked(stmt[w])
    BY <1>2, <2>1, <2>2, GotoOthers
  <2>4. Kept(w)'
    BY <1>1, <2>1, <2>3, CheckedKept DEF KindsHere
  <2> QED BY <1>2, <2>3, <2>4, ReadingStep
<1>6. CASE LoadAgain(w)
  <2>1. /\ Goto(w, "rewrite") /\ UNCHANGED <<stmt, def, plan>> /\ pc[w] = "againData"
        /\ content' = [content EXCEPT ![w] = Loaded(w, T)]
    BY <1>6 DEF LoadAgain
  <2>2. DOMAIN def' = Workers /\ content'[w] = Loaded(w, T)
    BY <1>2, <2>1 DEF Shaped
  <2>3. Others(w) /\ pc'[w] = "rewrite" /\ Table(w)' = T
    BY <1>2, <2>1, <2>2, GotoOthers
  <2>4. Key(w)' = Key(w) /\ Lasting(T) /\ Kept(w)
    BY <1>1, <1>2, <2>1, <2>3, FilesStay DEF Key, Related
  <2>5. Quiet(T) => Loaded(w, T) \in Seq(GoodRows(T))
    <3>1. (Quiet(T) /\ data[T] # NoFile) => data[T].lines \in Seq(GoodRows(T))
      BY <1>1 DEF Related, GoodFile, GoodFiles
    <3> QED BY <3>1, LoadedLines
  <2>6. Kept(w)'
    BY <1>1, <2>1, <2>2, <2>3, <2>4, <2>5 DEF Kept, Lasting, Writes
  <2> QED BY <1>2, <2>3, <2>6, ReadingStep
<1> QED BY <1>3, <1>4, <1>5, <1>6

\* A rewrite puts a row with a parent among rows with parents.
LEMMA RewriteKeepsRelated ==
  ASSUME Rowwise, Whole, Related, NEW w \in Workers, Rewrite(w), NEW T, T = Table(w)
  PROVE  Related'
<1>1. /\ pc[w] = "rewrite" /\ pc[w] # Idle /\ T \in Names
      /\ stmt[w].kind \in {"update", "delete"}
      /\ plan[w] \in PlansOf(stmt[w].kind)
  <2>1. pc[w] = "rewrite" /\ pc[w] # Idle /\ pc[w] \in Planned
    BY DEF Rewrite, Idle, Planned
  <2>2. stmt[w].kind \in {"update", "delete"}
    BY <2>1, Busy, KindsByState
  <2> QED BY <2>1, <2>2, Busy
<1>2. /\ todo' = todo /\ meta' = meta /\ DOMAIN meta' = Names /\ Shaped /\ Stored
      /\ data' = [data EXCEPT ![T] = Rewritten(w)]
  BY DEF Rewrite, Whole, Shaped, Stored
<1>3. Others(w) /\ Kept(w)'
  <2>1. CASE Leave(w)
    BY <1>2, <2>1, LeaveOthers
  <2>2. CASE ~Leave(w)
    <3>1. /\ \E p : plan' = [plan EXCEPT ![w] = p]
          /\ Goto(w, Checked(stmt[w]))
          /\ UNCHANGED <<stmt, def, content>>
      BY <2>2 DEF Rewrite, Succeed
    <3>2. DOMAIN def' = Workers
      BY <1>2, <3>1 DEF Shaped
    <3>3. Others(w) /\ pc'[w] = Checked(stmt[w])
      BY <1>2, <3>1, <3>2, GotoOthers
    <3> QED BY <1>1, <3>1, <3>3, CheckedKept DEF KindsHere
  <2> QED BY <2>1, <2>2
<1>4. ASSUME NEW t \in Names PROVE Lasting(t)
  <2>1. \A x \in Names \ {T} : meta'[x] = meta[x] /\ data'[x] = data[x]
    BY <1>1, <1>2 DEF Stored
  <2> QED BY <1>1, <1>3, <2>1, OnlyInsertsTouchParents
<1>5. Quiet(T)' => data'[T] \in GoodFiles(T)'
  <2> SUFFICES ASSUME Quiet(T)' PROVE Rewritten(w) \in GoodFiles(T)'
    BY <1>1, <1>2 DEF Stored
  <2>1. Quiet(T) /\ Lasting(T) /\ Kept(w)
    BY <1>1, <1>4 DEF Lasting, Related
  <2>2. content[w] \in Seq(GoodRows(T)')
    BY <1>1, <2>1 DEF Kept, Lasting
  <2>3. CASE stmt[w].kind = "update"
    <3>1. plan[w] \in Seq([id : Ids, row : WholeRows]) \ {<<>>}
      BY <1>1, <2>3 DEF PlansOf
    <3>2. Head(plan[w]) \in [id : Ids, row : WholeRows]
      BY <3>1, RestOfPlan
    <3>3. PICK p \in [id : Ids, row : WholeRows] : p = Head(plan[w])
      BY <3>2
    <3>4. HasParent(p.row[1], T)
      BY <1>1, <2>1, <2>3, <3>3 DEF Kept, Writes, Key
    <3>5. p.row \in GoodRows(T)'
      BY <2>1, <3>4 DEF GoodRows, Lasting
    <3>6. PutRow(content[w], p.id, p.row) \in Seq(GoodRows(T)')
      BY <2>2, <3>5, PutAmongRows
    <3> QED BY <2>3, <3>3, <3>6 DEF Rewritten, Ended, GoodFiles
  <2>4. CASE stmt[w].kind = "delete"
    <3>1. plan[w] \in Seq([id : Ids]) \ {<<>>}
      BY <1>1, <2>4 DEF PlansOf
    <3>2. Head(plan[w]) \in [id : Ids]
      BY <3>1, RestOfPlan
    <3>3. EraseRow(content[w], Head(plan[w]).id) \in Seq(GoodRows(T)')
      BY <2>2, <3>2, EraseFromRows
    <3> QED BY <2>4, <3>3 DEF Rewritten, Ended, GoodFiles
  <2> QED BY <1>1, <2>3, <2>4
<1>6. ASSUME NEW t \in Names PROVE data'[t] = data[t] \/ GoodFile(t)'
  BY <1>1, <1>2, <1>5 DEF GoodFile, Stored
<1> QED BY <1>3, <1>4, <1>6, RelatedStep

LEMMA CreateDropKeepRelated ==
  ASSUME Rowwise, Whole, Related, NEW w \in Workers,
         \/ CreateCheck(w) \/ CreateMeta(w) \/ CreateData(w) \/ DropMeta(w) \/ DropData(w),
         NEW T, T = Table(w)
  PROVE  Related'
<1>1. pc[w] # Idle /\ T \in Names /\ stmt[w].kind \in {"create", "drop"}
  <2>1. pc[w] \in {"start", "createMeta", "createData", "dropData"} /\ pc[w] # Idle
    BY DEF CreateCheck, CreateMeta, CreateData, DropMeta, DropData, Idle
  <2>2. pc[w] = "start" => stmt[w].kind \in {"create", "drop"}
    BY DEF CreateCheck, CreateMeta, CreateData, DropMeta, DropData
  <2> QED BY <2>1, <2>2, Busy, KindsByState
<1>2. todo' = todo /\ DOMAIN meta' = Names /\ Shaped /\ Stored
  BY DEF CreateCheck, CreateMeta, CreateData, DropMeta, DropData, files, Whole, Shaped, Stored
<1>3. Others(w) /\ Kept(w)'
  <2>1. CASE Leave(w)
    BY <1>2, <2>1, LeaveOthers
  <2>2. CASE ~Leave(w)
    <3>1. PICK state \in {"createMeta", "createData", "dropData"} : Goto(w, state)
      BY <2>2 DEF CreateCheck, CreateMeta, CreateData, DropMeta, DropData, Fail, Succeed
    <3>2. /\ UNCHANGED <<stmt, content, plan>>
          /\ UNCHANGED def \/ def' = [def EXCEPT ![w] = Columns]
      BY <2>2 DEF CreateCheck, CreateMeta, CreateData, DropMeta, DropData, Fail, Succeed
    <3>3. DOMAIN def' = Workers
      BY <1>2, <3>2 DEF Shaped
    <3>4. Others(w) /\ pc'[w] = state
      BY <1>2, <3>1, <3>2, <3>3, GotoOthers
    <3> QED BY <3>1, <3>4 DEF Kept, Writes
  <2> QED BY <2>1, <2>2
<1>4. /\ meta' = meta \/ \E m : meta' = [meta EXCEPT ![T] = m]
      /\ \/ data' = data
         \/ data' = [data EXCEPT ![T] = NoFile]
         \/ data' = [data EXCEPT ![T] = Ended(<<>>)]
  BY DEF CreateCheck, CreateMeta, CreateData, DropMeta, DropData, files
<1>5. ASSUME NEW t \in Names PROVE Lasting(t)
  <2>1. \A x \in Names \ {T} : meta'[x] = meta[x] /\ data'[x] = data[x]
    BY <1>1, <1>2, <1>4 DEF Stored, Shaped
  <2> QED BY <1>1, <1>3, <2>1, OnlyInsertsTouchParents
<1>6. ASSUME NEW t \in Names PROVE data'[t] = data[t] \/ GoodFile(t)'
  <2>1. Ended(<<>>) \in GoodFiles(t)'
    BY EmptySeq DEF Ended, GoodFiles
  <2> QED BY <1>2, <1>4, <2>1 DEF GoodFile, Stored
<1> QED BY <1>3, <1>5, <1>6, RelatedStep

LEMMA BeginKeepsRelated ==
  ASSUME Rowwise, Whole, Related, NEW w \in Workers, NEW s \in Statements, Begin(w, s)
  PROVE  Related'
<1>1. Others(w) /\ UNCHANGED files
  BY DEF Begin, Goto, files, Others, Whole, Shaped
<1>2. pc'[w] = "start"
  BY DEF Begin, Goto, Whole, Shaped
<1>3. Kept(w)'
  BY <1>2 DEF Kept, Writes
<1> QED BY <1>1, <1>3, ReadingStep
-----------------------------------------------------------------------------
(* The invariant of the specification, and the property.                   *)

RelatedUntilCrash ==
  /\ WholeUntilCrash
  /\ crashes = 0 => Related

LEMMA RelatedImpliesParents ==
  ASSUME RelatedUntilCrash PROVE ChildrenHaveParents
<1> SUFFICES ASSUME crashes = 0, NEW t \in Names, Quiet(t), NEW r \in Rows(t)
             PROVE  r[1] = Null \/ \E p \in Rows(ForeignKey[t]) : p[1] = r[1]
  BY DEF ChildrenHaveParents, Quiet
<1>1. meta[t] \notin Unreadable
  BY DEF Rows
<1>2. r \in ToSet(IF data[t] = NoFile THEN <<>> ELSE Parse(data[t].lines, meta[t]))
  BY <1>1 DEF Rows, View
<1>3. data[t] # NoFile
  <2>1. ToSet(<<>>) = {}
    BY DEF ToSet
  <2> QED BY <1>2, <2>1
<1>4. data[t].lines \in Seq(GoodRows(t))
  BY <1>3 DEF RelatedUntilCrash, Related, GoodFile, GoodFiles
<1>5. Parse(data[t].lines, meta[t]) \in Seq(GoodRows(t))
  BY <1>4, ParsedLines
<1>6. r \in GoodRows(t)
  BY <1>2, <1>3, <1>5 DEF ToSet
<1> QED BY <1>6 DEF GoodRows, HasParent

LEMMA RelatedInitially ==
  ASSUME Rowwise, ParentsAtStart, Init PROVE RelatedUntilCrash
<1>1. WholeUntilCrash
  BY WholeInitially
<1>2. \A w \in Workers : Kept(w)
  BY DEF Init, Kept
<1>3. ASSUME NEW t \in Names, Quiet(t), data[t] # NoFile PROVE data[t] \in GoodFiles(t)
  <2> DEFINE p == ForeignKey[t]
  <2>1. /\ data = Data0 /\ meta = Meta0
        /\ data[t].lines \in Seq(WholeRows) /\ data[t] \in WholeFiles
    BY <1>3 DEF Init, Rowwise, WholeFiles
  <2>2. p \in Names /\ p # NoFile
    BY <1>3, ForeignKeyAssumption DEF Quiet
  <2>3. ASSUME NEW l \in ToSet(data[t].lines) PROVE HasParent(l[1], t)
    <3>1. CASE l[1] = Null
      BY <3>1 DEF HasParent
    <3>2. CASE l[1] # Null
      <4>1. /\ meta[p] \notin Unreadable /\ data[p] # NoFile
            /\ \E r \in ToSet(data[p].lines) : Len(r) <= Len(meta[p]) /\ r[1] = l[1]
        BY <1>3, <2>1, <2>2, <2>3, <3>2 DEF ParentsAtStart
      <4>2. data[p].lines \in Seq(WholeRows)
        BY <2>1, <2>2, <4>1 DEF Rowwise, WholeFiles
      <4>3. Rows(p) = ToSet(Parse(data[p].lines, meta[p]))
        BY <4>1 DEF Rows, View
      <4>4. PICK r \in ToSet(data[p].lines) : Len(r) <= Len(meta[p]) /\ r[1] = l[1]
        BY <4>1
      <4>5. r \in ToSet(Parse(data[p].lines, meta[p]))
        BY <4>2, <4>4, ParsedLines
      <4> QED BY <4>3, <4>4, <4>5 DEF HasParent
    <3> QED BY <3>1, <3>2
  <2>4. \A i \in DOMAIN data[t].lines : data[t].lines[i] \in GoodRows(t)
    BY <2>1, <2>3 DEF GoodRows, ToSet
  <2>5. data[t].lines \in Seq(GoodRows(t))
    BY <2>1, <2>4
  <2> QED BY <2>1, <2>5 DEF GoodFiles, WholeFiles
<1> QED BY <1>1, <1>2, <1>3 DEF RelatedUntilCrash, Related, GoodFile

LEMMA RelatedInductive ==
  ASSUME RelatedUntilCrash, [Next]_vars PROVE RelatedUntilCrash'
<1>1. WholeUntilCrash' /\ WholeUntilCrash
  BY WholeInductive DEF RelatedUntilCrash
<1>2. CASE Crash
  <2>1. crashes' # 0
    BY <1>1, <1>2 DEF Crash, WholeUntilCrash
  <2> QED BY <1>1, <2>1 DEF RelatedUntilCrash
<1>3. CASE UNCHANGED vars
  <2>1. ASSUME NEW t PROVE Quiet(t)' = Quiet(t) /\ GoodRows(t)' = GoodRows(t)
    BY <1>3 DEF vars, Quiet, GoodRows, HasParent, Rows, View
  <2>2. ASSUME NEW t, GoodFile(t) PROVE GoodFile(t)'
    BY <1>3, <2>1, <2>2 DEF vars, GoodFile, GoodFiles
  <2>3. ASSUME NEW w, Kept(w) PROVE Kept(w)'
    BY <1>3, <2>1, <2>3 DEF vars, Kept, Key, Table, HasParent, Rows, View
  <2> QED BY <1>1, <1>3, <2>2, <2>3 DEF RelatedUntilCrash, Related, vars
<1>4. ASSUME NEW w \in Workers, NEW s \in Statements, Begin(w, s) PROVE RelatedUntilCrash'
  <2>1. crashes' = crashes
    BY <1>4 DEF Begin
  <2> QED BY <1>1, <1>4, <2>1, BeginKeepsRelated DEF RelatedUntilCrash, WholeUntilCrash
<1>5. ASSUME NEW w \in Workers, Step(w) PROVE RelatedUntilCrash'
  <2>1. crashes' = crashes
    BY <1>5 DEF Step, ReadDef, InsertRow, CheckDef, CheckLoad, CheckData, LoadDef, LoadData,
                LoadAgain, Rewrite, CreateCheck, CreateMeta, CreateData, DropMeta, DropData,
                AlterMeta, AlterRead, AlterWrite, RenameCheck, RenameMeta, RenameData, RenameDone
  <2>2. ASSUME Whole, Related PROVE Related'
    BY <1>1, <1>5, <2>2, ReadDefKeepsRelated, InsertRowKeepsRelated, CheckKeepsRelated, LoadKeepsRelated,
       RewriteKeepsRelated, CreateDropKeepRelated, NoAlter DEF Step, WholeUntilCrash
  <2> QED BY <1>1, <2>1, <2>2 DEF RelatedUntilCrash, WholeUntilCrash
<1> QED BY <1>2, <1>3, <1>4, <1>5 DEF Next

\* The foreign-key check of INSERT and UPDATE reads the parent table and writes the child
\* table later, without a lock over both: while only INSERT comes to the parent table, no
\* interleaving of any number of statements leaves a child row without its parent.
THEOREM ParentsAreThere == Rowwise /\ ParentsAtStart /\ Spec => []ChildrenHaveParents
<1>1. (Rowwise /\ ParentsAtStart) /\ Init => RelatedUntilCrash
  BY RelatedInitially
<1>2. RelatedUntilCrash /\ [Next]_vars => RelatedUntilCrash'
  BY RelatedInductive
<1>3. RelatedUntilCrash => ChildrenHaveParents
  BY RelatedImpliesParents
<1> QED BY <1>1, <1>2, <1>3, PTL DEF Spec
-----------------------------------------------------------------------------
(***************************************************************************)
(* Statements of every kind and any number of crashes: the files and the   *)
(* workers are always of the shape that the code takes for granted, and a  *)
(* crash costs a table that is only inserted into one row at most.         *)
(***************************************************************************)

(***************************************************************************)
(* The invariant for the shapes. The type invariant says of a plan only    *)
(* that it is not empty; here is what else it is made of, and what a       *)
(* worker knows of the columns, without which a cut line or a rewritten    *)
(* one could be empty.                                                     *)
(***************************************************************************)

AllKinds == KindsHere \cup {"add", "dropcol", "rename"}

\* The states that a statement of each kind can be in.
StagesOf(kind) ==
  CASE kind \in KindsHere -> StatesOf(kind)
    [] kind \in {"add", "dropcol"} -> {"start", "alterMeta", "alterRead", "alterWrite"}
    [] kind = "rename" -> {"start", "renameCheck", "renameMeta", "renameData", "renameDone"}

\* One entry of a plan: a row, or a row id with the new row for UPDATE.
IsEntry(kind, e) ==
  /\ kind = "insert" => IsRow(e)
  /\ kind \in {"update", "delete"} => e.id \in Ids
  /\ kind = "update" => IsRow(e.row)

IsPlan(kind, p) == IsSeq(p) /\ p # <<>> /\ \A e \in ToSet(p) : IsEntry(kind, e)

\* ALTER has looked for the column: one to drop is not the key, one to add is new.
MayAlter(s, cols) ==
  /\ s.kind = "add" => s.col \notin ToSet(cols)
  /\ s.kind = "dropcol" => s.col \in ToSet(Tail(cols))

Prepared(w) ==
  pc[w] # Idle =>
    /\ stmt[w] \in Statements \ todo
    /\ pc[w] \in StagesOf(stmt[w].kind)
    /\ pc[w] \notin {"start", "dropData"} => def[w] # NoFile /\ AreColumns(def[w])
    /\ pc[w] \in Planned => IsPlan(stmt[w].kind, plan[w])
    /\ pc[w] \in {"rewrite", "alterWrite"} => AreRows(content[w])
    /\ pc[w] = "alterWrite" => content[w] # <<>>
    /\ pc[w] \in {"alterMeta", "alterRead", "alterWrite"} => MayAlter(stmt[w], def[w])

SoundFiles ==
  /\ DOMAIN meta = Names /\ DOMAIN data = Names
  /\ \A t \in Names : meta[t] \notin Unreadable => AreColumns(meta[t])
  /\ \A t \in Names : data[t] # NoFile => IsFile(data[t])

SoundHistory ==
  /\ todo \subseteq Statements
  /\ acked \subseteq Statements \ todo
  /\ IsFiniteSet(Statements \ todo)
  /\ crashes \in 0..MaxCrashes

HasLocals ==
  /\ pc \in [Workers -> States] /\ DOMAIN stmt = Workers /\ DOMAIN def = Workers
  /\ DOMAIN content = Workers /\ DOMAIN plan = Workers

Sound ==
  /\ SoundFiles
  /\ SoundHistory
  /\ HasLocals
  /\ \A w \in Workers : Prepared(w)

(***************************************************************************)
(* The invariant for the rows that crashes cost.                           *)
(***************************************************************************)

InsertOnly(t) == \A s \in Statements : t \in TablesOf(s) => s.kind = "insert"

\* The setting: NoFile is not the content of a file; a table that is only inserted into
\* starts with a file that is ended, and no row for it has more cells than it has columns.
\* loadTable() would skip such a row.
RowsFit ==
  /\ ~IsFile(NoFile)
  /\ \A t \in Names : InsertOnly(t) =>
       /\ Data0[t] # NoFile => Data0[t].ended
       /\ Meta0[t] \notin Unreadable =>
            \A s \in Inserts : s.table = t => \A row \in ToSet(s.rows) : Len(row) <= Len(Meta0[t])

\* Line i of the file is ended, so that nothing can be glued to it any more.
Closed(f, i) == f.ended \/ i < Len(f.lines)

\* A closed line of the file f of table t keeps the row, whatever happens to the table.
SafeIn(f, row, t) ==
  /\ f # NoFile
  /\ \E i \in DOMAIN f.lines :
       Closed(f, i) /\ Len(f.lines[i]) <= Len(Meta0[t]) /\ f.lines[i][1] = row[1]

Safe(row, t) == SafeIn(data[t], row, t)

\* A worker has written the row.
Written(s, row) ==
  \/ s \in acked
  \/ \E w \in Workers : /\ pc[w] # Idle /\ stmt[w] = s
                       /\ pc[w] \in Planned /\ row \notin ToSet(plan[w])

\* The inserts into t with a row that was written and is not safe.
Harmed(t) ==
  {s \in Inserts \ todo : s.table = t /\ \E row \in ToSet(s.rows) : Written(s, row) /\ ~Safe(row, t)}

\* The row that is appended next to a file that a crash left open will be harmed.
OpenIn(f) == IF f # NoFile /\ ~f.ended THEN 1 ELSE 0

Open(t) == OpenIn(data[t])

\* A worker has found the table, and perhaps written all rows.
Started(s) == s \in acked \/ \E w \in Workers : pc[w] # Idle /\ stmt[w] = s /\ pc[w] \in Planned

Costs ==
  \A t \in Names : InsertOnly(t) =>
    /\ meta[t] = Meta0[t]
    /\ \A s \in Inserts : s.table = t /\ Started(s) => Meta0[t] \notin Unreadable
    /\ Cardinality(Harmed(t)) + Open(t) <= crashes
-----------------------------------------------------------------------------
(* Sequences, rows and columns.                                            *)

\* A sequence over any set is one over its elements.
LEMMA ElementsOfSeq ==
  ASSUME NEW S, NEW s \in Seq(S)
  PROVE  /\ IsSeq(s) /\ ToSet(s) \subseteq S
         /\ Len(s) \in Nat /\ DOMAIN s = 1..Len(s)
<1>1. s \in [1..Len(s) -> S] /\ Len(s) \in Nat /\ DOMAIN s = 1..Len(s)
  BY LenProperties
<1>2. ToSet(s) \subseteq S /\ s \in [1..Len(s) -> ToSet(s)]
  BY <1>1 DEF ToSet
<1>3. s \in Seq(ToSet(s))
  BY <1>1, <1>2
<1> QED BY <1>1, <1>2, <1>3 DEF IsSeq

LEMMA RowsOfSeq ==
  ASSUME NEW S, NEW s \in Seq(S), \A l \in S : IsRow(l)
  PROVE  AreRows(s)
BY ElementsOfSeq DEF AreRows

LEMMA SomeRows ==
  ASSUME NEW s, AreRows(s)
  PROVE  /\ s \in Seq(ToSet(s)) /\ Len(s) \in Nat /\ DOMAIN s = 1..Len(s)
         /\ \A i \in DOMAIN s : IsRow(s[i])
<1>1. s \in Seq(ToSet(s)) /\ \A l \in ToSet(s) : IsRow(l)
  BY DEF AreRows, IsSeq
<1>2. \A i \in DOMAIN s : s[i] \in ToSet(s)
  BY DEF ToSet
<1> QED BY <1>1, <1>2, LenProperties

\* What is left of a sequence.
LEMMA FrontAndLast ==
  ASSUME NEW S, NEW s \in Seq(S), s # <<>>
  PROVE  /\ Len(s) \in Nat \ {0} /\ DOMAIN s = 1..Len(s)
         /\ Front(s) \in Seq(S) /\ Len(Front(s)) = Len(s) - 1
         /\ \A i \in 1..Len(s) - 1 : Front(s)[i] = s[i]
         /\ Last(s) \in S /\ Last(s) = s[Len(s)]
<1>1. Len(s) \in Nat \ {0} /\ s \in [1..Len(s) -> S] /\ DOMAIN s = 1..Len(s)
  BY EmptySeq, LenProperties
<1>2. Len(s) - 1 \in Int /\ \A i \in 1..Len(s) - 1 : s[i] \in S
  BY <1>1
<1>3. /\ SubSeq(s, 1, Len(s) - 1) \in Seq(S)
      /\ Len(SubSeq(s, 1, Len(s) - 1)) = IF 1 <= Len(s) - 1 THEN Len(s) - 1 - 1 + 1 ELSE 0
      /\ \A i \in 1..Len(s) - 1 - 1 + 1 : SubSeq(s, 1, Len(s) - 1)[i] = s[1 + i - 1]
  BY <1>2, SubSeqProperties
<1>4. s[Len(s)] \in S
  BY <1>1
<1> QED BY <1>1, <1>3, <1>4 DEF Front, Last

LEMMA PrefixOfSeq ==
  ASSUME NEW S, NEW s \in Seq(S), NEW k \in 0..Len(s)
  PROVE  /\ SubSeq(s, 1, k) \in Seq(S) /\ Len(SubSeq(s, 1, k)) = k
         /\ \A i \in 1..k : SubSeq(s, 1, k)[i] = s[i]
<1>1. Len(s) \in Nat /\ s \in [1..Len(s) -> S]
  BY LenProperties
<1>2. \A i \in 1..k : s[i] \in S
  BY <1>1
<1>3. /\ SubSeq(s, 1, k) \in Seq(S)
      /\ Len(SubSeq(s, 1, k)) = IF 1 <= k THEN k - 1 + 1 ELSE 0
      /\ \A i \in 1..k - 1 + 1 : SubSeq(s, 1, k)[i] = s[1 + i - 1]
  BY <1>1, <1>2, SubSeqProperties
<1> QED BY <1>1, <1>3

LEMMA LengthOfRest ==
  ASSUME NEW n \in Nat, NEW j \in 1..n
  PROVE  (IF j + 1 <= n THEN n - (j + 1) + 1 ELSE 0) = n - j
OBVIOUS

\* One element taken out.
LEMMA RemovedAt ==
  ASSUME NEW S, NEW s \in Seq(S), NEW j \in 1..Len(s)
  PROVE  /\ RemoveAt(s, j) \in Seq(S) /\ Len(RemoveAt(s, j)) = Len(s) - 1
         /\ \A i \in 1..Len(s) - 1 : RemoveAt(s, j)[i] = IF i < j THEN s[i] ELSE s[i + 1]
<1>1. Len(s) \in Nat /\ s \in [1..Len(s) -> S] /\ j \in Nat /\ 1 <= j /\ j <= Len(s)
  BY LenProperties
<1> DEFINE p == SubSeq(s, 1, j - 1)
           q == SubSeq(s, j + 1, Len(s))
<1>2. p \in Seq(S) /\ Len(p) = j - 1 /\ \A i \in 1..j - 1 : p[i] = s[i]
  <2>1. j - 1 \in 0..Len(s)
    BY <1>1
  <2> QED BY <2>1, PrefixOfSeq
<1>3. q \in Seq(S) /\ Len(q) = Len(s) - j /\ \A i \in 1..Len(s) - j : q[i] = s[j + i]
  <2>1. \A i \in j + 1..Len(s) : s[i] \in S
    BY <1>1
  <2>2. /\ q \in Seq(S)
        /\ Len(q) = IF j + 1 <= Len(s) THEN Len(s) - (j + 1) + 1 ELSE 0
        /\ \A i \in 1..Len(s) - (j + 1) + 1 : q[i] = s[j + 1 + i - 1]
    BY <1>1, <2>1, SubSeqProperties
  <2> HIDE DEF q
  <2>3. Len(q) = Len(s) - j
    <3>1. (IF j + 1 <= Len(s) THEN Len(s) - (j + 1) + 1 ELSE 0) = Len(s) - j
      BY ZenonT(30), <1>1, LengthOfRest
    <3> QED BY SMTT(30), <2>2, <3>1
  <2>4. ASSUME NEW i \in 1..Len(s) - j PROVE i \in 1..Len(s) - (j + 1) + 1 /\ j + 1 + i - 1 = j + i
    BY <1>1
  <2> QED BY <2>2, <2>3, <2>4
<1> DEFINE r == p \o q
<1>7. RemoveAt(s, j) = r
  BY DEF RemoveAt
<1> HIDE DEF p, q
<1>4. /\ p \o q \in Seq(S)
      /\ Len(p \o q) = Len(p) + Len(q)
      /\ \A i \in 1..Len(p) + Len(q) : (p \o q)[i] = IF i <= Len(p) THEN p[i] ELSE q[i - Len(p)]
  BY <1>2, <1>3, ConcatProperties
<1>5. ASSUME NEW i \in 1..Len(s) - 1
      PROVE  (p \o q)[i] = IF i < j THEN s[i] ELSE s[i + 1]
  <2>1. CASE i < j
    BY <1>1, <1>2, <1>3, <1>4, <2>1
  <2>2. CASE ~(i < j)
    <3>1. i - (j - 1) \in 1..Len(s) - j /\ j + (i - (j - 1)) = i + 1
      BY <1>1, <2>2
    <3>2. (p \o q)[i] = q[i - (j - 1)]
      BY <1>1, <1>2, <1>3, <1>4, <2>2
    <3> QED BY <1>3, <2>2, <3>1, <3>2
  <2> QED BY <2>1, <2>2
<1>6. Len(p) + Len(q) = Len(s) - 1
  BY <1>1, <1>2, <1>3
<1> QED BY <1>7, <1>4, <1>5, <1>6

LEMMA RowProperties ==
  ASSUME NEW l, IsRow(l)
  PROVE  l \in Seq(ToSet(l)) /\ l # <<>> /\ Len(l) \in Nat \ {0} /\ DOMAIN l = 1..Len(l)
<1>1. l \in Seq(ToSet(l)) /\ l # <<>>
  BY DEF IsRow, IsSeq
<1> QED BY <1>1, EmptySeq, LenProperties

LEMMA AppendedRow ==
  ASSUME NEW s, AreRows(s), NEW l, IsRow(l)
  PROVE  AreRows(Append(s, l)) /\ Append(s, l) # <<>>
<1> DEFINE S == ToSet(s) \cup {l}
<1>1. s \in Seq(ToSet(s)) /\ \A k \in ToSet(s) : IsRow(k)
  BY DEF AreRows, IsSeq
<1>2. s \in Seq(S) /\ l \in S /\ \A k \in S : IsRow(k)
  BY <1>1, SeqMonotonic
<1> HIDE DEF S
<1>3. Append(s, l) \in Seq(S) /\ Append(s, l) # <<>>
  BY <1>2, AppendProperties
<1> QED BY <1>2, <1>3, RowsOfSeq

\* Two lines that become one.
LEMMA GluedRow ==
  ASSUME NEW k, IsRow(k), NEW l, IsRow(l)
  PROVE  IsRow(Front(k) \o <<Glued(Last(k), Head(l))>> \o Tail(l))
<1> DEFINE g == Glued(Last(k), Head(l))
           S == ToSet(k) \cup ToSet(l) \cup {g}
<1>1. k \in Seq(S) /\ k # <<>> /\ l \in Seq(S) /\ l # <<>> /\ g \in S
  BY RowProperties, SeqMonotonic
<1> HIDE DEF S, g
<1>2. Front(k) \in Seq(S) /\ Tail(l) \in Seq(S) /\ <<g>> \in Seq(S) /\ Len(<<g>>) = 1
  BY <1>1, FrontAndLast, HeadTailProperties
<1>3. /\ Front(k) \o <<g>> \in Seq(S)
      /\ Len(Front(k) \o <<g>>) = Len(Front(k)) + 1
      /\ Len(Front(k)) \in Nat /\ Len(Tail(l)) \in Nat
  BY <1>2, ConcatProperties, LenProperties
<1>4. /\ Front(k) \o <<g>> \o Tail(l) \in Seq(S)
      /\ Len(Front(k) \o <<g>> \o Tail(l)) = Len(Front(k) \o <<g>>) + Len(Tail(l))
  BY <1>2, <1>3, ConcatProperties
<1>5. Front(k) \o <<g>> \o Tail(l) # <<>>
  BY <1>3, <1>4, EmptySeq
<1>6. IsRow(Front(k) \o <<g>> \o Tail(l))
  BY <1>4, <1>5, ElementsOfSeq DEF IsRow
<1> QED BY <1>6 DEF g

LEMMA PrefixOfRow ==
  ASSUME NEW l, IsRow(l), NEW k \in 1..Len(l)
  PROVE  IsRow(SubSeq(l, 1, k))
<1>1. l \in Seq(ToSet(l)) /\ Len(l) \in Nat
  BY RowProperties
<1>2. SubSeq(l, 1, k) \in Seq(ToSet(l)) /\ Len(SubSeq(l, 1, k)) = k /\ k # 0
  BY <1>1, PrefixOfSeq
<1>3. SubSeq(l, 1, k) # <<>>
  BY <1>2, EmptySeq
<1> QED BY <1>2, <1>3, ElementsOfSeq DEF IsRow

LEMMA PrefixOfRows ==
  ASSUME NEW s, AreRows(s), NEW k \in 0..Len(s)
  PROVE  AreRows(SubSeq(s, 1, k))
<1>1. s \in Seq(ToSet(s)) /\ Len(s) \in Nat /\ \A l \in ToSet(s) : IsRow(l)
  BY SomeRows DEF AreRows
<1>2. SubSeq(s, 1, k) \in Seq(ToSet(s))
  BY <1>1, PrefixOfSeq
<1> QED BY <1>1, <1>2, RowsOfSeq

LEMMA EndedFile ==
  ASSUME NEW s, AreRows(s)
  PROVE  IsFile(Ended(s))
BY DEF Ended, IsFile

LEMMA OpenFile ==
  ASSUME NEW s, AreRows(s), s # <<>>
  PROVE  IsFile([lines |-> s, ended |-> FALSE])
BY DEF IsFile

LEMMA NoRows == AreRows(<<>>)
<1>1. <<>> \in Seq(ToSet(<<>>))
  BY EmptySeq
<1>2. ToSet(<<>>) = {}
  BY DEF ToSet
<1> QED BY <1>1, <1>2 DEF AreRows, IsSeq

\* The lines of a file after appendToFile(): one more, or as many with the last one longer.
Extended(file, row, s) ==
  /\ AppendRow(file, row) = Ended(s) /\ AreRows(s) /\ s # <<>>
  /\ file = NoFile => s = <<row>>
  /\ file # NoFile => /\ Len(s) >= Len(file.lines)
                     /\ \A i \in DOMAIN file.lines : Closed(file, i) => s[i] = file.lines[i]
  /\ file # NoFile /\ file.ended => s = Append(file.lines, row)

LEMMA AppendRowCases ==
  ASSUME NEW file, file # NoFile => IsFile(file), NEW row, IsRow(row)
  PROVE  \E s : Extended(file, row, s)
<1>1. CASE file = NoFile
  <2>1. AreRows(Append(<<>>, row)) /\ Append(<<>>, row) # <<>>
    BY NoRows, AppendedRow
  <2>2. Append(<<>>, row) = <<row>>
    OBVIOUS
  <2> QED BY <1>1, <2>1, <2>2 DEF AppendRow, Extended
<1>2. CASE file # NoFile /\ file.ended
  <2>1. AreRows(file.lines)
    BY <1>2 DEF IsFile
  <2>2. AreRows(Append(file.lines, row)) /\ Append(file.lines, row) # <<>>
    BY <2>1, AppendedRow
  <2>3. /\ file.lines \in Seq(ToSet(file.lines) \cup {row}) /\ row \in ToSet(file.lines) \cup {row}
        /\ Len(file.lines) \in Nat /\ DOMAIN file.lines = 1..Len(file.lines)
    BY <2>1, SomeRows, SeqMonotonic
  <2>4. /\ Len(Append(file.lines, row)) = Len(file.lines) + 1
        /\ \A i \in 1..Len(file.lines) : Append(file.lines, row)[i] = file.lines[i]
    BY <2>3, AppendProperties
  <2>5. Len(Append(file.lines, row)) >= Len(file.lines)
    BY <2>3, <2>4
  <2> QED BY <1>2, <2>2, <2>3, <2>4, <2>5 DEF AppendRow, Extended
<1>3. CASE file # NoFile /\ ~file.ended
  <2> DEFINE last == Last(file.lines)
             long == Front(last) \o <<Glued(Last(last), Head(row))>> \o Tail(row)
             s == Append(Front(file.lines), long)
  <2>1. AreRows(file.lines) /\ file.lines # <<>>
    BY <1>3 DEF IsFile
  <2>2. /\ file.lines \in Seq(ToSet(file.lines)) /\ DOMAIN file.lines = 1..Len(file.lines)
        /\ \A l \in ToSet(file.lines) : IsRow(l)
    BY <2>1, SomeRows DEF AreRows
  <2>3. /\ Len(file.lines) \in Nat \ {0}
        /\ Front(file.lines) \in Seq(ToSet(file.lines))
        /\ Len(Front(file.lines)) = Len(file.lines) - 1
        /\ \A i \in 1..Len(file.lines) - 1 : Front(file.lines)[i] = file.lines[i]
        /\ IsRow(last)
    BY <2>1, <2>2, FrontAndLast
  <2> HIDE DEF last
  <2>4. IsRow(long)
    BY <2>3, GluedRow
  <2>5. AreRows(Front(file.lines))
    BY <2>2, <2>3, RowsOfSeq
  <2> HIDE DEF long
  <2>6. AreRows(s) /\ s # <<>>
    BY <2>4, <2>5, AppendedRow
  <2>7. /\ Front(file.lines) \in Seq(ToSet(file.lines) \cup {long}) /\ long \in ToSet(file.lines) \cup {long}
    BY <2>3, SeqMonotonic
  <2>8. /\ Len(s) = Len(Front(file.lines)) + 1
        /\ \A i \in 1..Len(Front(file.lines)) : s[i] = Front(file.lines)[i]
    BY <2>7, AppendProperties
  <2>9. AppendRow(file, row) = Ended(s)
    BY <1>3 DEF AppendRow, long, last
  <2> HIDE DEF s
  <2>10. Len(s) >= Len(file.lines)
    BY <2>3, <2>8
  <2>11. ASSUME NEW i \in DOMAIN file.lines, Closed(file, i) PROVE s[i] = file.lines[i]
    <3>1. i \in 1..Len(file.lines) - 1
      BY <1>3, <2>2, <2>3, <2>11 DEF Closed
    <3> QED BY <2>3, <2>8, <3>1
  <2> QED BY <1>3, <2>6, <2>9, <2>10, <2>11 DEF Extended
<1> QED BY <1>1, <1>2, <1>3

\* ADD COLUMN puts a new column at the end.
LEMMA AddedColumn ==
  ASSUME NEW cols, AreColumns(cols), NEW col, col \notin ToSet(cols)
  PROVE  AreColumns(Append(cols, col))
<1> DEFINE S == ToSet(cols) \cup {col}
           r == Append(cols, col)
<1>1. /\ cols \in Seq(S) /\ col \in S /\ cols # <<>> /\ Len(cols) \in Nat /\ DOMAIN cols = 1..Len(cols)
      /\ \A i \in DOMAIN cols : cols[i] # col
      /\ Head(cols) = Head(Columns) /\ \A i, j \in DOMAIN cols : cols[i] = cols[j] => i = j
  <2>1. IsRow(cols) /\ Head(cols) = Head(Columns) /\ \A i, j \in DOMAIN cols : cols[i] = cols[j] => i = j
    BY DEF AreColumns
  <2>2. cols \in Seq(ToSet(cols)) /\ cols # <<>> /\ Len(cols) \in Nat /\ DOMAIN cols = 1..Len(cols)
    BY <2>1, RowProperties
  <2>3. cols \in Seq(S)
    BY <2>2, SeqMonotonic
  <2>4. \A i \in DOMAIN cols : cols[i] # col
    BY DEF ToSet
  <2> QED BY <2>1, <2>2, <2>3, <2>4
<1> HIDE DEF S
<1>2. /\ r \in Seq(S) /\ r # <<>> /\ Len(r) = Len(cols) + 1
      /\ \A i \in 1..Len(cols) : r[i] = cols[i]
      /\ r[Len(cols) + 1] = col
  BY <1>1, AppendProperties
<1>3. Head(r) = Head(cols) /\ DOMAIN r = 1..Len(cols) + 1
  BY <1>1, <1>2, HeadTailAppend, LenProperties
<1> HIDE DEF r
<1>4. ASSUME NEW i \in DOMAIN r, NEW j \in DOMAIN r, r[i] = r[j] PROVE i = j
  <2>1. (i \in DOMAIN cols \/ i = Len(cols) + 1) /\ (j \in DOMAIN cols \/ j = Len(cols) + 1)
    BY <1>1, <1>3
  <2> QED BY <1>1, <1>2, <1>4, <2>1
<1>5. IsRow(r)
  BY <1>2, ElementsOfSeq DEF IsRow
<1>6. AreColumns(r)
  BY <1>1, <1>3, <1>4, <1>5 DEF AreColumns
<1> QED BY <1>6 DEF r

\* The column to drop is not the first one.
LEMMA PositionToDrop ==
  ASSUME NEW cols, AreColumns(cols), NEW col, col \in ToSet(Tail(cols))
  PROVE  /\ Position(cols, col) \in 2..Len(cols) /\ Len(cols) \in Nat \ {0}
         /\ cols[Position(cols, col)] = col
<1>1. /\ cols \in Seq(ToSet(cols)) /\ cols # <<>> /\ Len(cols) \in Nat \ {0} /\ DOMAIN cols = 1..Len(cols)
      /\ \A i, j \in DOMAIN cols : cols[i] = cols[j] => i = j
  BY RowProperties DEF AreColumns
<1>2. /\ Tail(cols) \in Seq(ToSet(cols)) /\ Len(Tail(cols)) = Len(cols) - 1
      /\ \A i \in 1..Len(Tail(cols)) : Tail(cols)[i] = cols[i + 1]
  BY <1>1, HeadTailProperties
<1>3. PICK i \in 1..Len(cols) - 1 : Tail(cols)[i] = col
  BY <1>2, LenProperties DEF ToSet
<1>4. i + 1 \in DOMAIN cols /\ cols[i + 1] = col /\ i + 1 \in 2..Len(cols)
  BY <1>1, <1>2, <1>3
<1>5. Position(cols, col) \in DOMAIN cols /\ cols[Position(cols, col)] = col
  BY <1>4 DEF Position
<1>6. Position(cols, col) = i + 1
  BY <1>1, <1>4, <1>5
<1> QED BY <1>1, <1>4, <1>5, <1>6

LEMMA DroppedColumn ==
  ASSUME NEW cols, AreColumns(cols), NEW j \in 2..Len(cols)
  PROVE  AreColumns(RemoveAt(cols, j))
<1> DEFINE r == RemoveAt(cols, j)
<1>1. /\ cols \in Seq(ToSet(cols)) /\ cols # <<>> /\ Len(cols) \in Nat /\ DOMAIN cols = 1..Len(cols)
      /\ Head(cols) = Head(Columns)
      /\ \A i, k \in DOMAIN cols : cols[i] = cols[k] => i = k
  BY RowProperties DEF AreColumns
<1>2. j \in 1..Len(cols) /\ cols \in Seq(ToSet(cols))
  BY <1>1
<1>3. /\ r \in Seq(ToSet(cols)) /\ Len(r) = Len(cols) - 1
      /\ \A i \in 1..Len(cols) - 1 : r[i] = IF i < j THEN cols[i] ELSE cols[i + 1]
  BY <1>2, RemovedAt
<1> HIDE DEF r
<1>4. DOMAIN r = 1..Len(cols) - 1 /\ 1 \in DOMAIN r /\ r[1] = cols[1] /\ r # <<>>
  <2>1. DOMAIN r = 1..Len(cols) - 1
    BY <1>3, LenProperties
  <2>2. 1 \in 1..Len(cols) - 1 /\ 1 < j
    BY <1>1
  <2> QED BY <1>3, <2>1, <2>2
<1>5. Head(r) = Head(cols)
  BY <1>1, <1>3, <1>4
<1>6. ASSUME NEW i \in DOMAIN r, NEW k \in DOMAIN r, r[i] = r[k] PROVE i = k
  <2>1. /\ i \in DOMAIN cols /\ i + 1 \in DOMAIN cols /\ k \in DOMAIN cols /\ k + 1 \in DOMAIN cols
        /\ i \in Int /\ k \in Int /\ j \in Int
    BY <1>1, <1>4
  <2>2. r[i] = (IF i < j THEN cols[i] ELSE cols[i + 1]) /\ r[k] = IF k < j THEN cols[k] ELSE cols[k + 1]
    BY <1>3, <1>4
  <2>3. CASE i < j /\ k < j
    BY <1>1, <1>6, <2>1, <2>2, <2>3
  <2>4. CASE i < j /\ ~(k < j)
    <3>1. i = k + 1
      BY <1>1, <1>6, <2>1, <2>2, <2>4
    <3> QED BY <2>1, <2>4, <3>1
  <2>5. CASE ~(i < j) /\ k < j
    <3>1. i + 1 = k
      BY <1>1, <1>6, <2>1, <2>2, <2>5
    <3> QED BY <2>1, <2>5, <3>1
  <2>6. CASE ~(i < j) /\ ~(k < j)
    <3>1. i + 1 = k + 1
      BY <1>1, <1>6, <2>1, <2>2, <2>6
    <3> QED BY <2>1, <3>1
  <2> QED BY <2>3, <2>4, <2>5, <2>6
<1>7. IsRow(r)
  BY <1>3, <1>4, ElementsOfSeq DEF IsRow
<1>8. AreColumns(r)
  BY <1>1, <1>5, <1>6, <1>7 DEF AreColumns
<1> QED BY <1>8 DEF r

LEMMA NewColumnsAreColumns ==
  ASSUME NEW w, AreColumns(def[w]), MayAlter(stmt[w], def[w]), stmt[w].kind \in {"add", "dropcol"}
  PROVE  AreColumns(NewColumns(w))
<1>1. CASE stmt[w].kind = "add"
  BY <1>1, AddedColumn DEF NewColumns, MayAlter
<1>2. CASE stmt[w].kind = "dropcol"
  <2>1. stmt[w].col \in ToSet(Tail(def[w]))
    BY <1>2 DEF MayAlter
  <2>2. Position(def[w], stmt[w].col) \in 2..Len(def[w])
    BY <2>1, PositionToDrop
  <2> QED BY <1>2, <2>2, DroppedColumn DEF NewColumns
<1> QED BY <1>1, <1>2

\* ALTER leaves each line with a cell: the first one.
LEMMA NewLineIsRow ==
  ASSUME NEW w, AreColumns(def[w]), MayAlter(stmt[w], def[w]), stmt[w].kind \in {"add", "dropcol"},
         NEW l, IsRow(l)
  PROVE  IsRow(NewLine(w, l))
<1>1. l \in Seq(ToSet(l)) /\ l # <<>> /\ Len(l) \in Nat \ {0}
  BY RowProperties
<1>2. CASE stmt[w].kind = "add"
  <2>1. l \in Seq(ToSet(l) \cup {Null}) /\ Null \in ToSet(l) \cup {Null}
    BY <1>1, SeqMonotonic
  <2>2. Append(l, Null) \in Seq(ToSet(l) \cup {Null}) /\ Append(l, Null) # <<>>
    BY <2>1, AppendProperties
  <2> QED BY <1>2, <2>2, ElementsOfSeq DEF NewLine, IsRow
<1>3. CASE stmt[w].kind = "dropcol"
  <2>1. PICK j \in Nat : 2 <= j /\ j = Position(def[w], stmt[w].col)
    <3>1. Position(def[w], stmt[w].col) \in 2..Len(def[w]) /\ Len(def[w]) \in Nat
      BY <1>3, PositionToDrop DEF MayAlter
    <3> QED BY <3>1
  <2>2. NewLine(w, l) = IF Len(l) >= j THEN RemoveAt(l, j) ELSE l
    BY <1>3, <2>1 DEF NewLine
  <2>3. ASSUME Len(l) >= j PROVE IsRow(RemoveAt(l, j))
    <3>1. PICK n \in Nat : n = Len(l)
      BY <1>1
    <3>4. j \in 1..n /\ n - 1 # 0
      BY <2>1, <2>3, <3>1
    <3>2. RemoveAt(l, j) \in Seq(ToSet(l)) /\ Len(RemoveAt(l, j)) = Len(l) - 1
      BY <1>1, <3>1, <3>4, RemovedAt
    <3>3. RemoveAt(l, j) # <<>>
      BY <3>1, <3>2, <3>4, EmptySeq
    <3> QED BY <3>2, <3>3, ElementsOfSeq DEF IsRow
  <2> QED BY <2>2, <2>3
<1> QED BY <1>2, <1>3

LEMMA NewLinesAreRows ==
  ASSUME NEW w, AreColumns(def[w]), MayAlter(stmt[w], def[w]), stmt[w].kind \in {"add", "dropcol"},
         AreRows(content[w]), content[w] # <<>>
  PROVE  AreRows(NewLines(w)) /\ NewLines(w) # <<>>
<1> DEFINE r == NewLines(w)
<1>1. content[w] \in Seq(ToSet(content[w])) /\ Len(content[w]) \in Nat \ {0} /\ DOMAIN content[w] = 1..Len(content[w])
      /\ \A i \in DOMAIN content[w] : IsRow(content[w][i])
  BY SomeRows, EmptySeq
<1>2. r = [i \in DOMAIN content[w] |-> NewLine(w, content[w][i])]
  BY DEF NewLines
<1> HIDE DEF r
<1>3. DOMAIN r = 1..Len(content[w]) /\ \A i \in DOMAIN r : IsRow(r[i])
  BY <1>1, <1>2, NewLineIsRow
<1>4. r \in [1..Len(content[w]) -> ToSet(r)]
  BY <1>2, <1>3 DEF ToSet
<1>5. r \in Seq(ToSet(r)) /\ Len(r) = Len(content[w])
  BY <1>1, <1>4
<1>6. r # <<>>
  BY <1>1, <1>5, EmptySeq
<1>7. AreRows(r)
  BY <1>3, <1>5 DEF AreRows, IsSeq, ToSet
<1> QED BY <1>6, <1>7 DEF r

\* appendRow() leaves a file whose lines have cells.
LEMMA AppendedIsFile ==
  ASSUME NEW file, file # NoFile => IsFile(file), NEW row, IsRow(row)
  PROVE  IsFile(AppendRow(file, row))
<1>1. PICK s : Extended(file, row, s)
  BY AppendRowCases
<1> QED BY <1>1, EndedFile DEF Extended
-----------------------------------------------------------------------------
(* Plans                                                                   *)

LEMMA AssignedRow ==
  ASSUME NEW row, IsRow(row), NEW cols, NEW s
  PROVE  IsRow(Assign(row, cols, s))
<1> DEFINE new == Assign(row, cols, s)
           S == ToSet(row) \cup {s.value}
<1>1. row \in Seq(S) /\ row # <<>> /\ Len(row) \in Nat \ {0} /\ DOMAIN row = 1..Len(row)
      /\ row \in [1..Len(row) -> S]
  BY RowProperties, SeqMonotonic, LenProperties
<1>2. new = [j \in DOMAIN row |-> IF j <= Len(cols) /\ cols[j] = s.col THEN s.value ELSE row[j]]
  BY DEF Assign
<1>3. new \in [1..Len(row) -> S]
  BY <1>1, <1>2
<1> HIDE DEF new, S
<1>4. new \in Seq(S) /\ Len(new) = Len(row)
  BY <1>1, <1>3
<1>5. new # <<>>
  BY <1>1, <1>4, EmptySeq
<1>6. IsRow(new)
  BY <1>4, <1>5, ElementsOfSeq DEF IsRow
<1> QED BY <1>6 DEF new

LEMMA UpdatePlanIsPlan ==
  ASSUME NEW rows, AreRows(rows), NEW cols, NEW s, UpdatePlan(rows, cols, s) # <<>>
  PROVE  IsPlan("update", UpdatePlan(rows, cols, s))
<1> DEFINE m == Matching(rows, s.key)
           p == UpdatePlan(rows, cols, s)
<1>1. rows \in Seq(ToSet(rows)) /\ \A i \in DOMAIN rows : IsRow(rows[i])
  BY SomeRows
<1>2. m \in Seq(DOMAIN rows) /\ DOMAIN rows \subseteq Ids
  BY <1>1, MatchingIsIds
<1>3. p = [n \in DOMAIN m |-> [id |-> m[n], row |-> Assign(rows[m[n]], cols, s)]]
  BY DEF UpdatePlan
<1> HIDE DEF m, p
<1>4. DOMAIN m = 1..Len(m) /\ Len(m) \in Nat /\ \A n \in DOMAIN m : m[n] \in DOMAIN rows
  BY <1>2, LenProperties
<1>5. p \in [1..Len(m) -> ToSet(p)]
  BY <1>3, <1>4 DEF ToSet
<1>6. p \in Seq(ToSet(p))
  BY <1>4, <1>5
<1>7. ASSUME NEW e \in ToSet(p) PROVE IsEntry("update", e)
  <2>1. PICK n \in DOMAIN m : e = [id |-> m[n], row |-> Assign(rows[m[n]], cols, s)]
    BY <1>3, <1>7 DEF ToSet
  <2>2. e.id \in Ids /\ IsRow(e.row)
    BY <1>1, <1>2, <1>4, <2>1, AssignedRow
  <2> QED BY <2>2 DEF IsEntry
<1>8. p # <<>>
  BY DEF p
<1>9. IsPlan("update", p)
  BY <1>6, <1>7, <1>8 DEF IsPlan, IsSeq
<1> QED BY <1>9 DEF p

LEMMA DeletePlanIsPlan ==
  ASSUME NEW rows, AreRows(rows), NEW s, DeletePlan(rows, s) # <<>>
  PROVE  IsPlan("delete", DeletePlan(rows, s))
<1>1. rows \in Seq(ToSet(rows))
  BY SomeRows
<1>2. DeletePlan(rows, s) \in Seq([id : Ids])
  BY <1>1, DeletePlanTyped
<1>3. IsSeq(DeletePlan(rows, s)) /\ ToSet(DeletePlan(rows, s)) \subseteq [id : Ids]
  BY <1>2, ElementsOfSeq
<1> QED BY <1>3 DEF IsPlan, IsEntry

LEMMA PlanProperties ==
  ASSUME NEW kind, NEW p, IsPlan(kind, p)
  PROVE  /\ IsEntry(kind, Head(p)) /\ Head(p) \in ToSet(p)
         /\ Tail(p) # <<>> => IsPlan(kind, Tail(p))
         /\ \A e : e \in ToSet(p) <=> e = Head(p) \/ e \in ToSet(Tail(p))
<1>1. p \in Seq(ToSet(p)) /\ p # <<>> /\ \A e \in ToSet(p) : IsEntry(kind, e)
  BY DEF IsPlan, IsSeq
<1>2. /\ Head(p) \in ToSet(p) /\ Tail(p) \in Seq(ToSet(p))
      /\ Len(Tail(p)) = Len(p) - 1
      /\ \A i \in 1..Len(Tail(p)) : Tail(p)[i] = p[i + 1]
  BY <1>1, HeadTailProperties
<1>3. IsSeq(Tail(p)) /\ ToSet(Tail(p)) \subseteq ToSet(p) /\ DOMAIN Tail(p) = 1..Len(Tail(p))
  BY <1>2, ElementsOfSeq
<1>4. Tail(p) # <<>> => IsPlan(kind, Tail(p))
  BY <1>1, <1>3 DEF IsPlan
<1>5. Len(p) \in Nat \ {0} /\ DOMAIN p = 1..Len(p) /\ Head(p) = p[1]
  BY <1>1, EmptySeq, LenProperties
<1>6. ASSUME NEW e \in ToSet(p), e # Head(p) PROVE e \in ToSet(Tail(p))
  <2>1. PICK i \in 1..Len(p) : p[i] = e
    BY <1>5 DEF ToSet
  <2>2. i - 1 \in 1..Len(Tail(p)) /\ (i - 1) + 1 = i
    BY <1>2, <1>5, <1>6, <2>1
  <2>3. Tail(p)[i - 1] = e
    BY <1>2, <2>1, <2>2
  <2> QED BY <1>3, <2>2, <2>3 DEF ToSet
<1> QED BY <1>1, <1>2, <1>3, <1>4, <1>6

\* The lines that the loops return are lines of the file.
LEMMA LoadedRows ==
  ASSUME SoundFiles, NEW t \in Names, NEW w
  PROVE  AreRows(Loaded(w, t))
<1>1. CASE data[t] = NoFile
  BY <1>1, NoRows DEF Loaded
<1>2. CASE data[t] # NoFile
  <2>1. AreRows(data[t].lines)
    BY <1>2 DEF SoundFiles, IsFile
  <2>2. data[t].lines \in Seq(ToSet(data[t].lines)) /\ \A l \in ToSet(data[t].lines) : IsRow(l)
    BY <2>1, SomeRows DEF AreRows
  <2>3. Loaded(w, t) \in Seq(ToSet(data[t].lines))
    BY <2>2, LoadedLines
  <2> QED BY <2>2, <2>3, RowsOfSeq
<1> QED BY <1>1, <1>2

\* What updateRow() and deleteRow() write.
LEMMA RewrittenRows ==
  ASSUME NEW w, stmt[w].kind \in {"update", "delete"}, AreRows(content[w]),
         IsPlan(stmt[w].kind, plan[w])
  PROVE  Rewritten(w) = Ended(Rewritten(w).lines) /\ AreRows(Rewritten(w).lines)
<1> DEFINE p == Head(plan[w])
<1>1. IsEntry(stmt[w].kind, p)
  BY PlanProperties
<1>2. content[w] \in Seq(ToSet(content[w])) /\ \A l \in ToSet(content[w]) : IsRow(l)
  BY SomeRows DEF AreRows
<1>3. CASE stmt[w].kind = "update"
  <2>1. p.id \in Ids /\ IsRow(p.row)
    BY <1>1, <1>3 DEF IsEntry
  <2> HIDE DEF p
  <2>2. /\ content[w] \in Seq(ToSet(content[w]) \cup {p.row})
        /\ p.row \in ToSet(content[w]) \cup {p.row}
        /\ \A l \in ToSet(content[w]) \cup {p.row} : IsRow(l)
    BY <1>2, <2>1, SeqMonotonic
  <2>3. PutRow(content[w], p.id, p.row) \in Seq(ToSet(content[w]) \cup {p.row})
    BY <2>1, <2>2, PutAmongRows
  <2>4. AreRows(PutRow(content[w], p.id, p.row))
    BY <2>2, <2>3, RowsOfSeq
  <2>5. Rewritten(w) = Ended(PutRow(content[w], p.id, p.row))
    BY <1>3 DEF Rewritten, p
  <2> QED BY <2>4, <2>5 DEF Ended
<1>4. CASE stmt[w].kind = "delete"
  <2>1. p.id \in Ids
    BY <1>1, <1>4 DEF IsEntry
  <2>2. Rewritten(w) = Ended(EraseRow(content[w], p.id))
    BY <1>4 DEF Rewritten
  <2> HIDE DEF p
  <2>3. EraseRow(content[w], p.id) \in Seq(ToSet(content[w]))
    BY <1>2, <2>1, EraseFromRows
  <2>4. AreRows(EraseRow(content[w], p.id))
    BY <1>2, <2>3, RowsOfSeq
  <2> QED BY <2>2, <2>4 DEF Ended
<1> QED BY <1>3, <1>4
-----------------------------------------------------------------------------
(* Steps of one worker                                                     *)

LEMMA KindsByStage ==
  ASSUME NEW kind \in AllKinds, NEW state \in StagesOf(kind)
  PROVE  /\ state \in States \ {Idle}
         /\ state = "append" => kind = "insert"
         /\ state \in {"loadDef", "loadData", "againDef", "againData", "rewrite"} => kind \in {"update", "delete"}
         /\ state \in {"checkDef", "checkLoad", "checkData"} => kind \in {"insert", "update"}
         /\ state \in {"createMeta", "createData"} => kind = "create"
         /\ state = "dropData" => kind = "drop"
         /\ state \in {"alterMeta", "alterRead", "alterWrite"} => kind \in {"add", "dropcol"}
         /\ state \in {"renameCheck", "renameMeta", "renameData", "renameDone"} => kind = "rename"
BY DEF AllKinds, KindsHere, StagesOf, StatesOf, States, Idle

LEMMA StagesByKind ==
  /\ StagesOf("insert") = {"start", "checkDef", "checkLoad", "checkData", "append"}
  /\ StagesOf("update") = {"start", "loadDef", "loadData", "checkDef", "checkLoad", "checkData",
                           "againDef", "againData", "rewrite"}
  /\ StagesOf("delete") = {"start", "loadDef", "loadData", "againDef", "againData", "rewrite"}
  /\ StagesOf("create") = {"start", "createMeta", "createData"}
  /\ StagesOf("drop") = {"start", "dropData"}
  /\ StagesOf("add") = {"start", "alterMeta", "alterRead", "alterWrite"}
  /\ StagesOf("dropcol") = {"start", "alterMeta", "alterRead", "alterWrite"}
  /\ StagesOf("rename") = {"start", "renameCheck", "renameMeta", "renameData", "renameDone"}
BY DEF KindsHere, StagesOf, StatesOf

LEMMA BusySound ==
  ASSUME Sound, NEW w \in Workers, pc[w] # Idle
  PROVE  /\ stmt[w] \in Statements /\ stmt[w] \notin todo
         /\ stmt[w].kind \in AllKinds /\ pc[w] \in StagesOf(stmt[w].kind)
         /\ Table(w) \in Names
         /\ stmt[w].kind = "rename" => stmt[w].to \in Names
         /\ pc[w] \notin {"start", "dropData"} => def[w] # NoFile /\ AreColumns(def[w])
         /\ pc[w] \in Planned => IsPlan(stmt[w].kind, plan[w])
         /\ pc[w] \in {"rewrite", "alterWrite"} => AreRows(content[w])
         /\ pc[w] = "alterWrite" => content[w] # <<>>
         /\ pc[w] \in {"alterMeta", "alterRead", "alterWrite"} => MayAlter(stmt[w], def[w])
<1>1. Prepared(w)
  BY DEF Sound
<1>2. stmt[w] \in Statements \ todo
  BY <1>1 DEF Prepared
<1>3. stmt[w].kind \in AllKinds /\ Table(w) \in Names /\ (stmt[w].kind = "rename" => stmt[w].to \in Names)
  BY <1>2, StatementsAssumption DEF AllKinds, KindsHere, Table
<1> QED BY <1>1, <1>2, <1>3 DEF Prepared

LEMMA MetaStored ==
  ASSUME SoundFiles, NEW t \in Names, NEW cols, cols \in Unreadable \/ AreColumns(cols),
         meta' = [meta EXCEPT ![t] = cols], data' = data
  PROVE  SoundFiles'
BY DEF SoundFiles, Unreadable, Torn

LEMMA DataStored ==
  ASSUME SoundFiles, NEW t \in Names, NEW f, f = NoFile \/ IsFile(f),
         data' = [data EXCEPT ![t] = f], meta' = meta
  PROVE  SoundFiles'
BY DEF SoundFiles, Unreadable, Torn

LEMMA FilesKept ==
  ASSUME SoundFiles, UNCHANGED files
  PROVE  SoundFiles'
BY DEF SoundFiles, files, Unreadable, Torn

OthersStay(w) ==
  /\ HasLocals'
  /\ \A s \in Statements \ todo : s \notin todo'
  /\ \A v \in Workers \ {w} : /\ pc'[v] = pc[v] /\ stmt'[v] = stmt[v] /\ def'[v] = def[v]
                             /\ plan'[v] = plan[v] /\ content'[v] = content[v]

LEMMA OneStep ==
  ASSUME Sound, NEW w \in Workers, OthersStay(w), Prepared(w)', SoundFiles', SoundHistory'
  PROVE  Sound'
<1>1. ASSUME NEW v \in Workers PROVE Prepared(v)'
  <2>1. CASE v = w
    BY <2>1
  <2>2. CASE v # w
    <3>1. Prepared(v)
      BY DEF Sound
    <3>2. /\ pc'[v] = pc[v] /\ stmt'[v] = stmt[v] /\ def'[v] = def[v]
          /\ plan'[v] = plan[v] /\ content'[v] = content[v]
          /\ \A s \in Statements \ todo : s \notin todo'
      BY <2>2 DEF OthersStay
    <3> QED BY <3>1, <3>2 DEF Prepared
  <2> QED BY <2>1, <2>2
<1> QED BY <1>1 DEF Sound, OthersStay

\* The statement ends, and succeeds or fails.
Ends(w) == Leave(w) /\ acked' \in {acked, acked \cup {stmt[w]}}

LEMMA EndsSound ==
  ASSUME Sound, NEW w \in Workers, pc[w] # Idle, Ends(w), UNCHANGED <<todo, crashes>>, SoundFiles'
  PROVE  Sound'
<1>1. stmt[w] \in Statements \ todo
  BY BusySound
<1>2. SoundHistory'
  BY <1>1 DEF Sound, SoundHistory, Ends
<1>3. OthersStay(w) /\ pc'[w] = Idle
  BY DEF Sound, HasLocals, OthersStay, Ends, Leave, States
<1>4. Prepared(w)'
  BY <1>3 DEF Prepared
<1> QED BY <1>2, <1>3, <1>4, OneStep

LEMMA GotoSound ==
  ASSUME Sound, NEW w \in Workers, pc[w] # Idle,
         NEW state \in StagesOf(stmt[w].kind), Goto(w, state),
         UNCHANGED <<todo, stmt, acked, crashes>>, SoundFiles',
         UNCHANGED def \/ \E d : def' = [def EXCEPT ![w] = d],
         UNCHANGED content \/ \E c : content' = [content EXCEPT ![w] = c],
         UNCHANGED plan \/ \E p : plan' = [plan EXCEPT ![w] = p],
         state \notin {"start", "dropData"} => def'[w] # NoFile /\ AreColumns(def'[w]),
         state \in Planned => IsPlan(stmt[w].kind, plan'[w]),
         state \in {"rewrite", "alterWrite"} => AreRows(content'[w]),
         state = "alterWrite" => content'[w] # <<>>,
         state \in {"alterMeta", "alterRead", "alterWrite"} => MayAlter(stmt[w], def'[w])
  PROVE  Sound'
<1>1. stmt[w] \in Statements \ todo
  BY BusySound
<1>2. SoundHistory'
  BY DEF Sound, SoundHistory
<1>3. OthersStay(w)
  <2>1. state \in States
    BY BusySound, KindsByStage
  <2> QED BY <2>1 DEF Sound, HasLocals, OthersStay, Goto
<1>4. pc'[w] = state /\ stmt'[w] = stmt[w] /\ todo' = todo
  BY DEF Sound, HasLocals, Goto
<1>5. Prepared(w)'
  BY <1>1, <1>4 DEF Prepared
<1> QED BY <1>2, <1>3, <1>5, OneStep

LEMMA CheckedStage ==
  ASSUME NEW s, s.kind \in {"insert", "update", "delete"}
  PROVE  /\ Checked(s) \in StagesOf(s.kind) /\ Checked(s) \in Planned
         /\ Checked(s) \in {"append", "checkDef", "againDef"}
<1>1. s.kind = "insert" \/ s.kind = "update" \/ s.kind = "delete"
  OBVIOUS
<1> QED BY <1>1, StagesByKind DEF Checked, Writing, Planned

LEMMA BeginSound ==
  ASSUME Sound, NEW w \in Workers, NEW s \in Statements, Begin(w, s)
  PROVE  Sound'
<1>1. OthersStay(w) /\ pc'[w] = "start" /\ stmt'[w] = s /\ s \in Statements \ todo'
  BY DEF Begin, Goto, Sound, HasLocals, OthersStay, States
<1>2. SoundFiles'
  BY FilesKept DEF Begin, Sound
<1>3. SoundHistory'
  <2>1. s \in todo /\ todo' = todo \ {s} /\ UNCHANGED <<acked, crashes>> /\ SoundHistory
    BY DEF Begin, Sound
  <2>2. Statements \ todo' = (Statements \ todo) \cup {s}
    BY <2>1 DEF SoundHistory
  <2>3. IsFiniteSet((Statements \ todo) \cup {s})
    BY <2>1, FS_AddElement DEF SoundHistory
  <2> QED BY <2>1, <2>2, <2>3 DEF SoundHistory
<1>4. s.kind \in AllKinds
  BY StatementsAssumption DEF AllKinds, KindsHere
<1>5. "start" \in StagesOf(s.kind)
  BY <1>4, StagesByKind DEF AllKinds, KindsHere
<1>6. Prepared(w)'
  BY <1>1, <1>5 DEF Prepared, Planned
<1> QED BY <1>1, <1>2, <1>3, <1>6, OneStep

LEMMA ReadDefSound ==
  ASSUME Sound, NEW w \in Workers, ReadDef(w)
  PROVE  Sound'
<1>1. /\ pc[w] # Idle /\ SoundFiles' /\ UNCHANGED <<todo, crashes>>
      /\ stmt[w].kind \in {"insert", "update", "delete", "add", "dropcol", "rename"}
      /\ stmt[w] \in Statements /\ Table(w) \in Names
  <2>1. pc[w] # Idle /\ UNCHANGED files /\ UNCHANGED <<todo, crashes>> /\ stmt[w].kind \notin {"create", "drop"}
    BY DEF ReadDef, Idle
  <2> QED BY <2>1, BusySound, FilesKept DEF Sound, AllKinds, KindsHere
<1>2. CASE Fail(w)
  BY <1>1, <1>2, EndsSound DEF Fail, Ends
<1>3. CASE ~Fail(w)
  <2> DEFINE cols == meta[Table(w)]
             p == IF stmt[w].kind = "insert" THEN stmt[w].rows ELSE <<>>
  <2>1. /\ cols \notin Unreadable /\ ~Refused(stmt[w], cols)
        /\ def' = [def EXCEPT ![w] = cols] /\ plan' = [plan EXCEPT ![w] = p]
        /\ Goto(w, AfterDef(stmt[w])) /\ UNCHANGED <<stmt, content, acked>>
    BY <1>3 DEF ReadDef
  <2>2. AreColumns(cols) /\ cols # NoFile
    BY <1>1, <2>1 DEF Sound, SoundFiles, Unreadable
  <2>3. def'[w] = cols /\ plan'[w] = p
    BY <2>1 DEF Sound, HasLocals
  <2>4. AfterDef(stmt[w]) \in StagesOf(stmt[w].kind) /\ AfterDef(stmt[w]) \notin {"rewrite", "alterWrite"}
        /\ (AfterDef(stmt[w]) \in Planned => stmt[w].kind = "insert")
        /\ (AfterDef(stmt[w]) \in {"alterMeta", "alterRead", "alterWrite"} => stmt[w].kind \in {"add", "dropcol"})
    <3>1. CASE stmt[w].kind = "insert"
      BY <3>1, CheckedStage DEF AfterDef
    <3>2. CASE stmt[w].kind \in {"update", "delete"}
      BY <3>2, StagesByKind DEF AfterDef, Planned
    <3>3. CASE stmt[w].kind \in {"add", "dropcol"}
      BY <3>3, StagesByKind DEF AfterDef, Planned
    <3>4. CASE stmt[w].kind = "rename"
      BY <3>4, StagesByKind DEF AfterDef, Planned
    <3> QED BY <1>1, <3>1, <3>2, <3>3, <3>4
  <2>5. stmt[w].kind = "insert" => IsPlan(stmt[w].kind, p)
    BY <1>1, StatementsAssumption DEF IsPlan, IsEntry, AreRows
  <2>6. MayAlter(stmt[w], cols)
    BY <2>1 DEF Refused, MayAlter
  <2> HIDE DEF cols, p
  <2> QED BY <1>1, <2>1, <2>2, <2>3, <2>4, <2>5, <2>6, GotoSound
<1> QED BY <1>2, <1>3

LEMMA InsertRowSound ==
  ASSUME Sound, NEW w \in Workers, InsertRow(w)
  PROVE  Sound'
<1>1. /\ pc[w] # Idle /\ UNCHANGED <<todo, crashes>> /\ meta' = meta
      /\ stmt[w].kind = "insert" /\ Table(w) \in Names
      /\ IsPlan("insert", plan[w]) /\ def[w] # NoFile /\ AreColumns(def[w])
  <2>1. pc[w] = "append" /\ pc[w] # Idle /\ pc[w] \in Planned /\ UNCHANGED <<todo, crashes>> /\ meta' = meta
    BY DEF InsertRow, Idle, Planned
  <2>2. stmt[w].kind = "insert"
    BY <2>1, BusySound, KindsByStage
  <2> QED BY <2>1, <2>2, BusySound
<1>2. IsRow(Head(plan[w])) /\ (Tail(plan[w]) # <<>> => IsPlan("insert", Tail(plan[w])))
  BY <1>1, PlanProperties DEF IsEntry
<1>3. SoundFiles'
  <2>1. data[Table(w)] # NoFile => IsFile(data[Table(w)])
    BY <1>1 DEF Sound, SoundFiles
  <2>2. IsFile(AppendRow(data[Table(w)], Head(plan[w])))
    BY <1>2, <2>1, AppendedIsFile
  <2>3. data' = data \/ data' = [data EXCEPT ![Table(w)] = AppendRow(data[Table(w)], Head(plan[w]))]
    BY DEF InsertRow
  <2> QED BY <1>1, <2>2, <2>3, DataStored, FilesKept DEF Sound, files
<1>4. CASE Leave(w)
  BY <1>1, <1>3, <1>4, EndsSound DEF InsertRow, Fail, Succeed, Ends
<1>5. CASE ~Leave(w)
  <2>1. /\ Tail(plan[w]) # <<>> /\ plan' = [plan EXCEPT ![w] = Tail(plan[w])]
        /\ Goto(w, Checked(stmt[w])) /\ UNCHANGED <<stmt, def, content, acked>>
    BY <1>5 DEF InsertRow, Fail, Succeed
  <2>2. plan'[w] = Tail(plan[w]) /\ def'[w] = def[w] /\ IsPlan(stmt[w].kind, plan'[w])
    BY <1>1, <1>2, <2>1 DEF Sound, HasLocals
  <2>3. Checked(stmt[w]) \in StagesOf(stmt[w].kind) /\ Checked(stmt[w]) \in {"append", "checkDef", "againDef"}
    BY <1>1, CheckedStage
  <2> QED BY <1>1, <1>3, <2>1, <2>2, <2>3, GotoSound
<1> QED BY <1>4, <1>5

LEMMA CheckSound ==
  ASSUME Sound, NEW w \in Workers, CheckDef(w) \/ CheckLoad(w) \/ CheckData(w)
  PROVE  Sound'
<1>1. /\ pc[w] # Idle /\ SoundFiles' /\ UNCHANGED <<todo, crashes>>
      /\ stmt[w].kind \in {"insert", "update"}
      /\ IsPlan(stmt[w].kind, plan[w]) /\ def[w] # NoFile /\ AreColumns(def[w])
  <2>1. pc[w] \in {"checkDef", "checkLoad", "checkData"} /\ pc[w] # Idle /\ pc[w] \in Planned
        /\ UNCHANGED files /\ UNCHANGED <<todo, crashes>>
    BY DEF CheckDef, CheckLoad, CheckData, Idle, Planned
  <2>2. stmt[w].kind \in {"insert", "update"}
    BY <2>1, BusySound, KindsByStage
  <2> QED BY <2>1, <2>2, BusySound, FilesKept DEF Sound
<1>2. CASE Fail(w)
  BY <1>1, <1>2, EndsSound DEF Fail, Ends
<1>3. CASE ~Fail(w)
  <2>1. PICK state \in {"checkLoad", "checkData", Writing(stmt[w])} : Goto(w, state)
    BY <1>3 DEF CheckDef, CheckLoad, CheckData
  <2>2. /\ UNCHANGED <<stmt, def, plan, acked>>
        /\ UNCHANGED content \/ \E c : content' = [content EXCEPT ![w] = c]
    BY <1>3 DEF CheckDef, CheckLoad, CheckData
  <2>3. state \in StagesOf(stmt[w].kind) /\ state \in {"checkLoad", "checkData", "append", "againDef"}
    BY <1>1, <2>1, StagesByKind DEF Writing
  <2> QED BY <1>1, <2>1, <2>2, <2>3, GotoSound
<1> QED BY <1>2, <1>3

LEMMA LoadSound ==
  ASSUME Sound, NEW w \in Workers, LoadDef(w) \/ LoadData(w) \/ LoadAgain(w)
  PROVE  Sound'
<1>1. /\ pc[w] # Idle /\ SoundFiles' /\ UNCHANGED <<todo, crashes>> /\ SoundFiles
      /\ stmt[w].kind \in {"update", "delete"} /\ Table(w) \in Names
      /\ def[w] # NoFile /\ AreColumns(def[w])
      /\ pc[w] \in {"againDef", "againData"} => IsPlan(stmt[w].kind, plan[w])
      /\ pc[w] \in {"loadDef", "loadData", "againDef", "againData"}
  <2>1. pc[w] \in {"loadDef", "loadData", "againDef", "againData"} /\ pc[w] # Idle
        /\ UNCHANGED files /\ UNCHANGED <<todo, crashes>>
        /\ (pc[w] \in {"againDef", "againData"} => pc[w] \in Planned)
    BY DEF LoadDef, LoadData, LoadAgain, Idle, Planned
  <2>2. stmt[w].kind \in {"update", "delete"}
    BY <2>1, BusySound, KindsByStage
  <2> QED BY <2>1, <2>2, BusySound, FilesKept DEF Sound
<1>2. AreRows(Loaded(w, Table(w)))
  BY <1>1, LoadedRows
<1>3. CASE Leave(w)
  BY <1>1, <1>3, EndsSound DEF LoadDef, LoadData, LoadAgain, Fail, Succeed, Ends
<1>4. CASE ~Leave(w) /\ LoadDef(w)
  <2> DEFINE state == IF pc[w] = "loadDef" THEN "loadData" ELSE "againData"
  <2>1. /\ Goto(w, state) /\ UNCHANGED <<stmt, def, plan, acked>>
        /\ content' = [content EXCEPT ![w] = meta[Table(w)]]
    BY <1>4 DEF LoadDef, Fail
  <2>2. state \in StagesOf(stmt[w].kind) /\ state \in {"loadData", "againData"}
    BY <1>1, StagesByKind
  <2>3. state \in Planned => IsPlan(stmt[w].kind, plan'[w])
    BY <1>1, <1>4, <2>1 DEF Planned, LoadDef
  <2> HIDE DEF state
  <2> QED BY <1>1, <2>1, <2>2, <2>3, GotoSound
<1>5. CASE ~Leave(w) /\ LoadData(w)
  <2> DEFINE next == IF stmt[w].kind = "update"
                       THEN UpdatePlan(Loaded(w, Table(w)), def[w], stmt[w])
                       ELSE DeletePlan(Loaded(w, Table(w)), stmt[w])
  <2>1. /\ next # <<>> /\ plan' = [plan EXCEPT ![w] = next]
        /\ Goto(w, Checked(stmt[w])) /\ UNCHANGED <<stmt, def, content, acked>>
    BY <1>5 DEF LoadData, Succeed
  <2>2. IsPlan(stmt[w].kind, next)
    <3>1. CASE stmt[w].kind = "update"
      BY <1>2, <2>1, <3>1, UpdatePlanIsPlan
    <3>2. CASE stmt[w].kind = "delete"
      BY <1>2, <2>1, <3>2, DeletePlanIsPlan
    <3> QED BY <1>1, <3>1, <3>2
  <2> HIDE DEF next
  <2>3. plan'[w] = next
    BY <2>1 DEF Sound, HasLocals
  <2>4. Checked(stmt[w]) \in StagesOf(stmt[w].kind) /\ Checked(stmt[w]) \in {"append", "checkDef", "againDef"}
    BY <1>1, CheckedStage
  <2> QED BY <1>1, <2>1, <2>2, <2>3, <2>4, GotoSound
<1>6. CASE LoadAgain(w)
  <2>1. /\ Goto(w, "rewrite") /\ UNCHANGED <<stmt, def, plan, acked>> /\ pc[w] = "againData"
        /\ content' = [content EXCEPT ![w] = Loaded(w, Table(w))]
    BY <1>6 DEF LoadAgain
  <2>2. "rewrite" \in StagesOf(stmt[w].kind)
    BY <1>1, StagesByKind
  <2>3. AreRows(content'[w])
    BY <1>2, <2>1 DEF Sound, HasLocals
  <2> QED BY <1>1, <2>1, <2>2, <2>3, GotoSound
<1> QED BY <1>3, <1>4, <1>5, <1>6

LEMMA RewriteSound ==
  ASSUME Sound, NEW w \in Workers, Rewrite(w)
  PROVE  Sound'
<1>1. /\ pc[w] # Idle /\ UNCHANGED <<todo, crashes>> /\ meta' = meta
      /\ stmt[w].kind \in {"update", "delete"} /\ Table(w) \in Names
      /\ IsPlan(stmt[w].kind, plan[w]) /\ def[w] # NoFile /\ AreColumns(def[w])
      /\ AreRows(content[w])
  <2>1. pc[w] = "rewrite" /\ pc[w] # Idle /\ pc[w] \in Planned /\ UNCHANGED <<todo, crashes>> /\ meta' = meta
    BY DEF Rewrite, Idle, Planned
  <2>2. stmt[w].kind \in {"update", "delete"}
    BY <2>1, BusySound, KindsByStage
  <2> QED BY <2>1, <2>2, BusySound
<1>2. SoundFiles'
  <2>1. IsFile(Rewritten(w))
    BY <1>1, RewrittenRows, EndedFile
  <2>2. data' = [data EXCEPT ![Table(w)] = Rewritten(w)]
    BY DEF Rewrite
  <2> QED BY <1>1, <2>1, <2>2, DataStored DEF Sound
<1>3. CASE Leave(w)
  BY <1>1, <1>2, <1>3, EndsSound DEF Rewrite, Succeed, Ends
<1>4. CASE ~Leave(w)
  <2>1. /\ Tail(plan[w]) # <<>> /\ plan' = [plan EXCEPT ![w] = Tail(plan[w])]
        /\ Goto(w, Checked(stmt[w])) /\ UNCHANGED <<stmt, def, content, acked>>
    BY <1>4 DEF Rewrite, Succeed
  <2>2. plan'[w] = Tail(plan[w]) /\ def'[w] = def[w] /\ IsPlan(stmt[w].kind, Tail(plan[w]))
    BY <1>1, <2>1, PlanProperties DEF Sound, HasLocals
  <2>3. Checked(stmt[w]) \in StagesOf(stmt[w].kind) /\ Checked(stmt[w]) \in {"append", "checkDef", "againDef"}
    BY <1>1, CheckedStage
  <2> QED BY <1>1, <1>2, <2>1, <2>2, <2>3, GotoSound
<1> QED BY <1>3, <1>4

LEMMA CreateDropSound ==
  ASSUME Sound, NEW w \in Workers,
         CreateCheck(w) \/ CreateMeta(w) \/ CreateData(w) \/ DropMeta(w) \/ DropData(w)
  PROVE  Sound'
<1>1. /\ pc[w] # Idle /\ UNCHANGED <<todo, crashes>> /\ Table(w) \in Names
      /\ pc[w] \in {"start", "createMeta", "createData", "dropData"}
      /\ stmt[w].kind \in {"create", "drop"}
      /\ pc[w] = "createMeta" => stmt[w].kind = "create" /\ AreColumns(def[w]) /\ def[w] # NoFile
  <2>1. /\ pc[w] \in {"start", "createMeta", "createData", "dropData"} /\ pc[w] # Idle
        /\ UNCHANGED <<todo, crashes>>
        /\ pc[w] = "start" => stmt[w].kind \in {"create", "drop"}
    BY DEF CreateCheck, CreateMeta, CreateData, DropMeta, DropData, Idle
  <2>2. stmt[w].kind \in {"create", "drop"} /\ (pc[w] = "createMeta" => stmt[w].kind = "create")
    BY <2>1, BusySound, KindsByStage
  <2>3. pc[w] = "createMeta" => AreColumns(def[w]) /\ def[w] # NoFile
    BY <2>1, BusySound
  <2> QED BY <2>1, <2>2, <2>3, BusySound
<1>2. SoundFiles'
  <2>1. IsFile(Ended(<<>>)) /\ SoundFiles
    BY NoRows, EndedFile DEF Sound
  <2>2. CASE data' = data
    <3>1. \/ meta' = meta
          \/ meta' = [meta EXCEPT ![Table(w)] = NoFile]
          \/ meta' = [meta EXCEPT ![Table(w)] = def[w]] /\ AreColumns(def[w])
      BY <1>1, <2>2 DEF CreateCheck, CreateMeta, CreateData, DropMeta, DropData, files
    <3> QED BY <1>1, <2>1, <2>2, <3>1, MetaStored, FilesKept DEF files, Unreadable
  <2>3. CASE data' # data
    <3>1. meta' = meta /\ \E f \in {NoFile, Ended(<<>>)} : data' = [data EXCEPT ![Table(w)] = f]
      BY <2>3 DEF CreateCheck, CreateMeta, CreateData, DropMeta, DropData, files
    <3> QED BY <1>1, <2>1, <3>1, DataStored
  <2> QED BY <2>2, <2>3
<1>3. CASE Leave(w)
  BY <1>1, <1>2, <1>3, EndsSound DEF CreateCheck, CreateMeta, CreateData, DropMeta, DropData,
     Fail, Succeed, Ends
<1>4. CASE ~Leave(w) /\ CreateCheck(w)
  <2>1. Goto(w, "createMeta") /\ UNCHANGED <<stmt, content, plan, acked>> /\ stmt[w].kind = "create"
        /\ def' = [def EXCEPT ![w] = Columns]
    BY <1>4 DEF CreateCheck, Fail
  <2>2. def'[w] # NoFile /\ AreColumns(def'[w]) /\ "createMeta" \in StagesOf(stmt[w].kind)
    BY <2>1, StagesByKind, ColumnsAssumption DEF Sound, HasLocals
  <2> QED BY <1>1, <1>2, <2>1, <2>2, GotoSound DEF Planned
<1>5. CASE ~Leave(w) /\ CreateMeta(w)
  <2>1. Goto(w, "createData") /\ UNCHANGED <<stmt, def, content, plan, acked>> /\ pc[w] = "createMeta"
    BY <1>5 DEF CreateMeta
  <2>2. def'[w] # NoFile /\ AreColumns(def'[w]) /\ "createData" \in StagesOf(stmt[w].kind)
    BY <1>1, <2>1, StagesByKind
  <2> QED BY <1>1, <1>2, <2>1, <2>2, GotoSound DEF Planned
<1>6. CASE ~Leave(w) /\ DropMeta(w)
  <2>1. Goto(w, "dropData") /\ UNCHANGED <<stmt, def, content, plan, acked>> /\ stmt[w].kind = "drop"
    BY <1>6 DEF DropMeta, Fail
  <2>2. "dropData" \in StagesOf(stmt[w].kind)
    BY <2>1, StagesByKind
  <2> QED BY <1>1, <1>2, <2>1, <2>2, GotoSound DEF Planned
<1> QED BY <1>3, <1>4, <1>5, <1>6 DEF CreateData, DropData, Succeed

LEMMA AlterSound ==
  ASSUME Sound, NEW w \in Workers, AlterMeta(w) \/ AlterRead(w) \/ AlterWrite(w)
  PROVE  Sound'
<1>1. /\ pc[w] # Idle /\ UNCHANGED <<todo, crashes>> /\ Table(w) \in Names
      /\ pc[w] \in {"alterMeta", "alterRead", "alterWrite"}
      /\ stmt[w].kind \in {"add", "dropcol"}
      /\ AreColumns(def[w]) /\ def[w] # NoFile /\ MayAlter(stmt[w], def[w])
      /\ pc[w] = "alterWrite" => AreRows(content[w]) /\ content[w] # <<>>
  <2>1. /\ pc[w] \in {"alterMeta", "alterRead", "alterWrite"} /\ pc[w] # Idle
        /\ UNCHANGED <<todo, crashes>>
    BY DEF AlterMeta, AlterRead, AlterWrite, Idle
  <2>2. stmt[w].kind \in {"add", "dropcol"}
    BY <2>1, BusySound, KindsByStage
  <2> QED BY <2>1, <2>2, BusySound
<1>2. SoundFiles'
  <2>1. CASE AlterMeta(w)
    <3>1. AreColumns(NewColumns(w))
      BY <1>1, NewColumnsAreColumns
    <3>2. meta' = [meta EXCEPT ![Table(w)] = NewColumns(w)] /\ data' = data
      BY <2>1 DEF AlterMeta
    <3> QED BY <1>1, <3>1, <3>2, MetaStored DEF Sound
  <2>2. CASE AlterRead(w)
    BY <2>2, FilesKept DEF AlterRead, Sound
  <2>3. CASE AlterWrite(w)
    <3>1. IsFile([lines |-> NewLines(w), ended |-> FALSE])
      BY <1>1, <2>3, NewLinesAreRows, OpenFile DEF AlterWrite
    <3>2. data' = [data EXCEPT ![Table(w)] = [lines |-> NewLines(w), ended |-> FALSE]] /\ meta' = meta
      BY <2>3 DEF AlterWrite
    <3> QED BY <1>1, <3>1, <3>2, DataStored DEF Sound
  <2> QED BY <2>1, <2>2, <2>3
<1>3. CASE Leave(w)
  BY <1>1, <1>2, <1>3, EndsSound DEF AlterMeta, AlterRead, AlterWrite, Succeed, Ends
<1>4. CASE ~Leave(w) /\ AlterMeta(w)
  <2>1. Goto(w, "alterRead") /\ UNCHANGED <<stmt, def, content, plan, acked>>
    BY <1>4 DEF AlterMeta
  <2>2. "alterRead" \in StagesOf(stmt[w].kind)
    BY <1>1, StagesByKind
  <2> QED BY <1>1, <1>2, <2>1, <2>2, GotoSound DEF Planned
<1>5. CASE ~Leave(w) /\ AlterRead(w)
  <2>1. /\ data[Table(w)] # NoFile /\ data[Table(w)] # Ended(<<>>)
        /\ content' = [content EXCEPT ![w] = data[Table(w)].lines]
        /\ Goto(w, "alterWrite") /\ UNCHANGED <<stmt, def, plan, acked>>
    BY <1>5 DEF AlterRead, Succeed
  <2>2. IsFile(data[Table(w)])
    BY <1>1, <2>1 DEF Sound, SoundFiles
  <2>3. data[Table(w)].lines # <<>> /\ AreRows(data[Table(w)].lines)
    BY <2>1, <2>2 DEF IsFile, Ended
  <2>4. content'[w] = data[Table(w)].lines
    BY <2>1 DEF Sound, HasLocals
  <2>5. "alterWrite" \in StagesOf(stmt[w].kind)
    BY <1>1, StagesByKind
  <2> QED BY <1>1, <1>2, <2>1, <2>3, <2>4, <2>5, GotoSound DEF Planned
<1> QED BY <1>3, <1>4, <1>5 DEF AlterWrite, Succeed

LEMMA RenameSound ==
  ASSUME Sound, NEW w \in Workers, RenameCheck(w) \/ RenameMeta(w) \/ RenameData(w) \/ RenameDone(w)
  PROVE  Sound'
<1>1. /\ pc[w] # Idle /\ UNCHANGED <<todo, crashes>> /\ Table(w) \in Names /\ stmt[w].to \in Names
      /\ stmt[w].kind = "rename"
      /\ AreColumns(def[w]) /\ def[w] # NoFile
  <2>1. /\ pc[w] \in {"renameCheck", "renameMeta", "renameData", "renameDone"} /\ pc[w] # Idle
        /\ UNCHANGED <<todo, crashes>>
    BY DEF RenameCheck, RenameMeta, RenameData, RenameDone, Idle
  <2>2. stmt[w].kind = "rename"
    BY <2>1, BusySound, KindsByStage
  <2> QED BY <2>1, <2>2, BusySound
<1>2. SoundFiles'
  <2>1. CASE RenameCheck(w)
    BY <2>1, FilesKept DEF RenameCheck, Sound
  <2>2. CASE RenameMeta(w)
    <3>1. meta' = [meta EXCEPT ![stmt[w].to] = def[w]] /\ data' = data
      BY <2>2 DEF RenameMeta
    <3> QED BY <1>1, <3>1, MetaStored DEF Sound
  <2>3. CASE RenameData(w)
    <3>1. CASE data[Table(w)] = NoFile
      BY <2>3, <3>1, FilesKept DEF RenameData, Sound, files
    <3>2. CASE data[Table(w)] # NoFile
      <4>1. meta' = meta /\ data' = [data EXCEPT ![stmt[w].to] = data[Table(w)], ![Table(w)] = NoFile]
        BY <2>3, <3>2 DEF RenameData
      <4>2. IsFile(data[Table(w)])
        BY <1>1, <3>2 DEF Sound, SoundFiles
      <4> QED BY <1>1, <4>1, <4>2 DEF Sound, SoundFiles, Unreadable, Torn
    <3> QED BY <3>1, <3>2
  <2>4. CASE RenameDone(w)
    <3>1. meta' = [meta EXCEPT ![Table(w)] = NoFile] /\ data' = data
      BY <2>4 DEF RenameDone
    <3> QED BY <1>1, <3>1, MetaStored DEF Sound, Unreadable
  <2> QED BY <2>1, <2>2, <2>3, <2>4
<1>3. CASE Leave(w)
  BY <1>1, <1>2, <1>3, EndsSound DEF RenameCheck, RenameMeta, RenameData, RenameDone, Fail, Succeed, Ends
<1>4. CASE ~Leave(w)
  <2>1. PICK state \in {"renameMeta", "renameData", "renameDone"} : Goto(w, state)
    BY <1>4 DEF RenameCheck, RenameMeta, RenameData, RenameDone, Fail, Succeed
  <2>2. UNCHANGED <<stmt, def, content, plan, acked>>
    BY <1>4 DEF RenameCheck, RenameMeta, RenameData, RenameDone, Fail, Succeed
  <2>3. state \in StagesOf(stmt[w].kind) /\ state \notin Planned
    BY <1>1, <2>1, StagesByKind DEF Planned
  <2> QED BY <1>1, <1>2, <2>1, <2>2, <2>3, GotoSound
<1> QED BY <1>3, <1>4
-----------------------------------------------------------------------------
(* A crash leaves lines that have a cell                                   *)

\* A write that is cut short leaves some of its lines, of which the last may be a part.
LEMMA CutIsFile ==
  ASSUME NEW lines, AreRows(lines), NEW f \in Cut(lines)
  PROVE  IsFile(f)
<1>1. /\ lines \in Seq(ToSet(lines)) /\ Len(lines) \in Nat /\ DOMAIN lines = 1..Len(lines)
      /\ \A i \in DOMAIN lines : IsRow(lines[i])
  BY SomeRows
<1>2. CASE \E n \in 0..Len(lines) : f = Ended(SubSeq(lines, 1, n))
  <2>1. PICK n \in 0..Len(lines) : f = Ended(SubSeq(lines, 1, n))
    BY <1>2
  <2> QED BY <2>1, PrefixOfRows, EndedFile
<1>3. CASE \E n \in DOMAIN lines : \E k \in 1..Len(lines[n]) :
              f = [lines |-> Append(SubSeq(lines, 1, n - 1), SubSeq(lines[n], 1, k)), ended |-> FALSE]
  <2>1. PICK n \in DOMAIN lines : \E k \in 1..Len(lines[n]) :
              f = [lines |-> Append(SubSeq(lines, 1, n - 1), SubSeq(lines[n], 1, k)), ended |-> FALSE]
    BY <1>3
  <2>5. PICK k \in 1..Len(lines[n]) :
              f = [lines |-> Append(SubSeq(lines, 1, n - 1), SubSeq(lines[n], 1, k)), ended |-> FALSE]
    BY <2>1
  <2>2. IsRow(SubSeq(lines[n], 1, k))
    BY <1>1, PrefixOfRow
  <2>3. AreRows(SubSeq(lines, 1, n - 1))
    <3>1. n - 1 \in 0..Len(lines)
      BY <1>1
    <3> QED BY <3>1, PrefixOfRows
  <2>4. AreRows(Append(SubSeq(lines, 1, n - 1), SubSeq(lines[n], 1, k)))
        /\ Append(SubSeq(lines, 1, n - 1), SubSeq(lines[n], 1, k)) # <<>>
    BY <2>2, <2>3, AppendedRow
  <2> QED BY <2>4, <2>5, OpenFile
<1> QED BY <1>2, <1>3 DEF Cut

\* What a crash may leave of the data file of t, by what the worker w was writing.
LeftBy(w, t) ==
  IF pc[w] = Idle \/ Table(w) # t THEN {}
  ELSE IF pc[w] = "rewrite" THEN Cut(Rewritten(w).lines)
  ELSE IF pc[w] = "alterWrite" THEN Cut(NewLines(w))
  ELSE IF pc[w] = "append"
  THEN {AppendRow(data[t], Head(plan[w]))} \cup
       {[lines |-> AppendRow(data[t], SubSeq(Head(plan[w]), 1, k)).lines, ended |-> FALSE] : k \in DOMAIN Head(plan[w])}
  ELSE {}

LEMMA DataLeft ==
  ASSUME NEW t, NEW f \in DataAfterCrash(t), f # data[t]
  PROVE  \E w \in Workers : f \in LeftBy(w, t)
<1>1. PICK w \in {v \in Workers : pc[v] # Idle} :
        f \in LET Mine == Table(w) = t IN
              CASE Mine /\ pc[w] = "rewrite" -> Cut(Rewritten(w).lines)
                [] Mine /\ pc[w] = "alterWrite" -> Cut(NewLines(w))
                [] Mine /\ pc[w] = "append" /\ Refuse \notin ToSet(Head(plan[w])) ->
                     LET row == Head(plan[w]) IN
                     {AppendRow(data[t], row)} \cup
                     {[lines |-> AppendRow(data[t], SubSeq(row, 1, k)).lines, ended |-> FALSE] : k \in DOMAIN row}
                [] OTHER -> {}
  BY DEF DataAfterCrash
<1>2. CASE Table(w) = t /\ pc[w] = "rewrite"
  BY <1>1, <1>2 DEF LeftBy
<1>3. CASE Table(w) = t /\ pc[w] = "alterWrite"
  BY <1>1, <1>3 DEF LeftBy
<1>4. CASE Table(w) = t /\ pc[w] = "append" /\ Refuse \notin ToSet(Head(plan[w]))
  BY <1>1, <1>4 DEF LeftBy
<1>5. CASE /\ ~(Table(w) = t /\ pc[w] = "rewrite") /\ ~(Table(w) = t /\ pc[w] = "alterWrite")
           /\ ~(Table(w) = t /\ pc[w] = "append" /\ Refuse \notin ToSet(Head(plan[w])))
  BY <1>1, <1>5
<1> QED BY <1>2, <1>3, <1>4, <1>5

\* The crash chooses for each table on its own.
LEMMA CrashChooses ==
  ASSUME Crash, NEW t \in Names
  PROVE  data'[t] \in DataAfterCrash(t) /\ meta'[t] \in {meta[t]} \cup (IF MetaInWrite(t) THEN {Torn} ELSE {})
<1>1. data'[t] \in DataAfterCrash(t)
  <2> DEFINE Hit == {u \in Names : DataAfterCrash(u) # {data[u]}}
             Outcomes == {d \in [Hit -> UNION {DataAfterCrash(u) : u \in Hit}] :
                           \A u \in Hit : d[u] \in DataAfterCrash(u)}
  <2>1. PICK d \in Outcomes : data' = [u \in Names |-> IF u \in Hit THEN d[u] ELSE data[u]]
    BY DEF Crash, AllDataAfterCrash
  <2>2. data[t] \in DataAfterCrash(t)
    BY DEF DataAfterCrash
  <2>3. t \in Hit => d[t] \in DataAfterCrash(t)
    OBVIOUS
  <2>4. data'[t] = IF t \in Hit THEN d[t] ELSE data[t]
    BY <2>1
  <2> HIDE DEF Hit
  <2> QED BY <2>2, <2>3, <2>4
<1>2. meta'[t] \in {meta[t]} \cup (IF MetaInWrite(t) THEN {Torn} ELSE {})
  <2>1. PICK torn \in SUBSET {u \in Names : MetaInWrite(u)} :
          meta' = [u \in Names |-> IF u \in torn THEN Torn ELSE meta[u]]
    BY DEF Crash, AllMetaAfterCrash
  <2> QED BY <2>1
<1> QED BY <1>1, <1>2

LEMMA LeftIsFile ==
  ASSUME Sound, NEW w \in Workers, NEW t \in Names, NEW f \in LeftBy(w, t)
  PROVE  IsFile(f)
<1>1. pc[w] # Idle /\ Table(w) = t /\ pc[w] \in {"rewrite", "alterWrite", "append"}
  BY DEF LeftBy
<1>2. stmt[w].kind \in AllKinds /\ pc[w] \in StagesOf(stmt[w].kind)
  BY <1>1, BusySound
<1>3. CASE pc[w] = "rewrite"
  <2>1. AreRows(content[w]) /\ IsPlan(stmt[w].kind, plan[w]) /\ stmt[w].kind \in {"update", "delete"}
    BY <1>1, <1>2, <1>3, BusySound, KindsByStage DEF Planned
  <2>2. AreRows(Rewritten(w).lines)
    BY <2>1, RewrittenRows
  <2> QED BY <1>1, <1>3, <2>2, CutIsFile DEF LeftBy
<1>4. CASE pc[w] = "alterWrite"
  <2>1. AreRows(content[w]) /\ content[w] # <<>> /\ AreColumns(def[w]) /\ MayAlter(stmt[w], def[w])
        /\ stmt[w].kind \in {"add", "dropcol"}
    BY <1>1, <1>2, <1>4, BusySound, KindsByStage
  <2>2. AreRows(NewLines(w))
    BY <2>1, NewLinesAreRows
  <2> QED BY <1>1, <1>4, <2>2, CutIsFile DEF LeftBy
<1>5. CASE pc[w] = "append"
  <2>1. IsPlan("insert", plan[w])
    BY <1>1, <1>2, <1>5, BusySound, KindsByStage DEF Planned
  <2>2. IsRow(Head(plan[w])) /\ (data[t] # NoFile => IsFile(data[t]))
    BY <2>1, PlanProperties DEF IsEntry, Sound, SoundFiles
  <2>3. CASE f = AppendRow(data[t], Head(plan[w]))
    BY <2>2, <2>3, AppendedIsFile
  <2>4. CASE \E k \in DOMAIN Head(plan[w]) :
               f = [lines |-> AppendRow(data[t], SubSeq(Head(plan[w]), 1, k)).lines, ended |-> FALSE]
    <3>1. PICK k \in DOMAIN Head(plan[w]) :
               f = [lines |-> AppendRow(data[t], SubSeq(Head(plan[w]), 1, k)).lines, ended |-> FALSE]
      BY <2>4
    <3>2. IsRow(SubSeq(Head(plan[w]), 1, k))
      BY <2>2, RowProperties, PrefixOfRow
    <3>3. PICK s : Extended(data[t], SubSeq(Head(plan[w]), 1, k), s)
      BY <2>2, <3>2, AppendRowCases
    <3>4. AppendRow(data[t], SubSeq(Head(plan[w]), 1, k)) = Ended(s) /\ AreRows(s) /\ s # <<>>
      BY <3>3 DEF Extended
    <3>5. Ended(s).lines = s
      BY DEF Ended
    <3>6. AppendRow(data[t], SubSeq(Head(plan[w]), 1, k)).lines = s
      BY <3>4, <3>5, Zenon
    <3>7. f = [lines |-> s, ended |-> FALSE]
      BY <3>1, <3>6, Zenon
    <3> QED BY <3>4, <3>7, OpenFile
  <2> QED BY <1>1, <1>5, <2>3, <2>4 DEF LeftBy, Idle
<1> QED BY <1>1, <1>3, <1>4, <1>5

LEMMA CrashSound ==
  ASSUME Sound, Crash
  PROVE  Sound'
<1>1. SoundFiles'
  <2>1. DOMAIN meta' = Names /\ DOMAIN data' = Names
    BY DEF Crash, AllDataAfterCrash, AllMetaAfterCrash
  <2>2. ASSUME NEW t \in Names, data'[t] # NoFile PROVE IsFile(data'[t])
    <3>1. data'[t] \in DataAfterCrash(t)
      BY CrashChooses
    <3>2. PICK f : f = data'[t]
      OBVIOUS
    <3>3. f = data[t] \/ \E w \in Workers : f \in LeftBy(w, t)
      BY <3>1, <3>2, DataLeft
    <3>4. f # NoFile => IsFile(f)
      BY <3>3, LeftIsFile DEF Sound, SoundFiles
    <3> QED BY <2>2, <3>2, <3>4
  <2>3. ASSUME NEW t \in Names, meta'[t] \notin Unreadable PROVE AreColumns(meta'[t])
    <3>1. meta'[t] = meta[t] \/ meta'[t] = Torn
      BY CrashChooses
    <3> QED BY <2>3, <3>1 DEF Sound, SoundFiles, Unreadable
  <2> QED BY <2>1, <2>2, <2>3 DEF SoundFiles, Unreadable, Torn
<1>2. SoundHistory'
  BY BoundAssumption DEF Crash, Sound, SoundHistory
<1>3. HasLocals' /\ \A w \in Workers : Prepared(w)'
  BY DEF Crash, HasLocals, Prepared, States
<1> QED BY <1>1, <1>2, <1>3 DEF Sound
-----------------------------------------------------------------------------
(* The type invariant                                                      *)

LEMMA SoundInitially ==
  ASSUME Init PROVE Sound
<1>1. SoundFiles
  BY FilesAssumption DEF Init, SoundFiles, Unreadable
<1>2. SoundHistory
  <2>1. Statements \ todo = {}
    BY DEF Init
  <2>2. IsFiniteSet(Statements \ todo)
    BY <2>1, FS_EmptySet
  <2>3. todo \subseteq Statements /\ acked \subseteq Statements \ todo /\ crashes \in 0..MaxCrashes
    BY BoundAssumption DEF Init
  <2> QED BY <2>2, <2>3 DEF SoundHistory
<1>3. HasLocals /\ \A w \in Workers : Prepared(w)
  BY DEF Init, HasLocals, Prepared, States
<1> QED BY <1>1, <1>2, <1>3 DEF Sound

LEMMA SoundInductive ==
  ASSUME Sound, [Next]_vars PROVE Sound'
<1>1. CASE Crash
  BY <1>1, CrashSound
<1>2. CASE UNCHANGED vars
  BY <1>2 DEF vars, Sound, SoundFiles, Unreadable, Torn, SoundHistory, HasLocals, Prepared
<1>3. ASSUME NEW w \in Workers, NEW s \in Statements, Begin(w, s) PROVE Sound'
  BY <1>3, BeginSound
<1>4. ASSUME NEW w \in Workers, Step(w) PROVE Sound'
  BY <1>4, ReadDefSound, InsertRowSound, CheckSound, LoadSound, RewriteSound, CreateDropSound,
     AlterSound, RenameSound DEF Step
<1> QED BY <1>1, <1>2, <1>3, <1>4 DEF Next

LEMMA SoundImpliesType ==
  ASSUME Sound PROVE TypeOK
<1>1. \A t \in Names : meta[t] \notin Unreadable => Head(meta[t]) = Head(Columns)
  BY DEF Sound, SoundFiles, AreColumns
<1>2. \A t \in Names : data[t] # NoFile => data[t].ended \/ data[t].lines # <<>>
  BY DEF Sound, SoundFiles, IsFile
<1>3. \A w \in Workers :
        /\ pc[w] # Idle => stmt[w] \in Statements \ todo
        /\ pc[w] \notin {Idle, "start", "dropData"} => def[w] # NoFile
        /\ pc[w] \in {"checkDef", "checkLoad", "checkData", "append", "againDef", "againData", "rewrite"} =>
             plan[w] # <<>>
  BY DEF Sound, Prepared, Planned, IsPlan, Idle
<1> QED BY <1>1, <1>2, <1>3 DEF TypeOK, Sound, SoundHistory, HasLocals

\* Whatever statements run, in whatever order and however often the process dies: a
\* definition that can be read starts with the key column, no data file ends in an open
\* line that is not there, and no worker goes on without the definition or with nothing to
\* write where DMLExecutor.cpp and DDLExecutor.cpp take them for granted.
THEOREM StoreTypes == Spec => []TypeOK
<1>1. Init => Sound
  BY SoundInitially
<1>2. Sound /\ [Next]_vars => Sound'
  BY SoundInductive
<1>3. Sound => TypeOK
  BY SoundImpliesType
<1> QED BY <1>1, <1>2, <1>3, PTL DEF Spec
-----------------------------------------------------------------------------
(* What crashes cost                                                       *)

\* What a step of w changes are the tables of its statement.
LEMMA StepTouches ==
  ASSUME Sound, NEW w \in Workers, Step(w), NEW t \in Names, t \notin TablesOf(stmt[w])
  PROVE  meta'[t] = meta[t] /\ data'[t] = data[t]
<1>1. Table(w) # t
  BY DEF TablesOf, Table
<1>2. stmt[w].kind = "rename" => stmt[w].to # t
  BY DEF TablesOf
<1>3. RenameMeta(w) \/ RenameData(w) => stmt[w].kind = "rename"
  <2>1. RenameMeta(w) \/ RenameData(w) => pc[w] \in {"renameMeta", "renameData"} /\ pc[w] # Idle
    BY DEF RenameMeta, RenameData, Idle
  <2> QED BY <2>1, BusySound, KindsByStage
<1>4. DOMAIN meta = Names /\ DOMAIN data = Names
  BY DEF Sound, SoundFiles
<1>5. CASE ReadDef(w) \/ CheckDef(w) \/ CheckLoad(w) \/ CheckData(w) \/ LoadDef(w) \/ LoadData(w) \/ LoadAgain(w)
           \/ CreateCheck(w) \/ AlterRead(w) \/ RenameCheck(w)
  BY <1>5 DEF ReadDef, CheckDef, CheckLoad, CheckData, LoadDef, LoadData, LoadAgain, CreateCheck,
              AlterRead, RenameCheck, files
<1>6. CASE InsertRow(w)
  BY <1>1, <1>4, <1>6 DEF InsertRow
<1>7. CASE Rewrite(w) \/ CreateData(w) \/ DropData(w) \/ AlterWrite(w)
  BY <1>1, <1>4, <1>7 DEF Rewrite, CreateData, DropData, AlterWrite
<1>8. CASE CreateMeta(w) \/ DropMeta(w) \/ AlterMeta(w) \/ RenameDone(w)
  BY <1>1, <1>4, <1>8 DEF CreateMeta, DropMeta, AlterMeta, RenameDone
<1>9. CASE RenameMeta(w) \/ RenameData(w)
  BY <1>1, <1>2, <1>3, <1>4, <1>9 DEF RenameMeta, RenameData
<1> QED BY <1>5, <1>6, <1>7, <1>8, <1>9 DEF Step

\* What INSERT does, step by step.
LEMMA InsertSteps ==
  ASSUME Sound, NEW w \in Workers, Step(w), stmt[w].kind = "insert"
  PROVE  ReadDef(w) \/ InsertRow(w) \/ CheckDef(w) \/ CheckLoad(w) \/ CheckData(w)
<1>1. pc[w] # Idle => pc[w] \in {"start", "checkDef", "checkLoad", "checkData", "append"}
  BY BusySound, StagesByKind
<1> QED BY <1>1 DEF Step, LoadDef, LoadData, LoadAgain, Rewrite, CreateCheck, CreateMeta, CreateData,
     DropMeta, DropData, AlterMeta, AlterRead, AlterWrite, RenameCheck, RenameMeta, RenameData,
     RenameDone, Idle

\* What a step leaves alone of the other workers.
LEMMA StepOthers ==
  ASSUME Sound, NEW w \in Workers, Step(w)
  PROVE  /\ \A v \in Workers \ {w} : pc'[v] = pc[v] /\ stmt'[v] = stmt[v] /\ plan'[v] = plan[v]
         /\ UNCHANGED <<todo, crashes>>
         /\ \/ pc'[w] = Idle /\ acked' \in {acked, acked \cup {stmt[w]}}
            \/ stmt'[w] = stmt[w] /\ acked' = acked
<1>1. /\ DOMAIN pc = Workers /\ DOMAIN stmt = Workers /\ DOMAIN plan = Workers
  BY DEF Sound, HasLocals
<1>2. UNCHANGED <<todo, crashes>>
  BY DEF Step, ReadDef, InsertRow, CheckDef, CheckLoad, CheckData, LoadDef, LoadData,
         LoadAgain, Rewrite, CreateCheck, CreateMeta, CreateData, DropMeta, DropData,
         AlterMeta, AlterRead, AlterWrite, RenameCheck, RenameMeta, RenameData, RenameDone
<1>3. \/ Ends(w)
      \/ /\ \E state : Goto(w, state)
         /\ UNCHANGED <<stmt, acked>>
         /\ UNCHANGED plan \/ \E p : plan' = [plan EXCEPT ![w] = p]
  <2>1. CASE Ends(w)
    BY <2>1
  <2>2. CASE ~Ends(w)
    <3>1. UNCHANGED <<stmt, acked>> /\ (UNCHANGED plan \/ \E p : plan' = [plan EXCEPT ![w] = p])
      BY <2>2 DEF Ends, Succeed, Fail, Step, ReadDef, InsertRow, CheckDef, CheckLoad, CheckData, LoadDef, LoadData,
         LoadAgain, Rewrite, CreateCheck, CreateMeta, CreateData, DropMeta, DropData,
         AlterMeta, AlterRead, AlterWrite, RenameCheck, RenameMeta, RenameData, RenameDone
    <3>2. \E state : Goto(w, state)
      BY <2>2 DEF Ends, Succeed, Fail, Step, ReadDef, InsertRow, CheckDef, CheckLoad, CheckData, LoadDef, LoadData,
         LoadAgain, Rewrite, CreateCheck, CreateMeta, CreateData, DropMeta, DropData,
         AlterMeta, AlterRead, AlterWrite, RenameCheck, RenameMeta, RenameData, RenameDone
    <3> QED BY <3>1, <3>2
  <2> QED BY <2>1, <2>2
<1>4. CASE Ends(w)
  BY <1>1, <1>2, <1>4 DEF Ends, Leave
<1>5. CASE ~Ends(w)
  BY <1>1, <1>2, <1>3, <1>5 DEF Goto
<1> QED BY <1>4, <1>5

\* The file g keeps the closed lines of f.
Keeps(f, g) ==
  f # NoFile =>
    /\ g # NoFile
    /\ \A i \in DOMAIN f.lines : Closed(f, i) => /\ i \in DOMAIN g.lines /\ Closed(g, i)
                                               /\ g.lines[i] = f.lines[i]

LEMMA KeptIsSafe ==
  ASSUME NEW f, NEW g, Keeps(f, g), NEW row, NEW t, SafeIn(f, row, t)
  PROVE  SafeIn(g, row, t)
BY DEF Keeps, SafeIn

LEMMA AppendKeeps ==
  ASSUME ~IsFile(NoFile), NEW f, f # NoFile => IsFile(f), NEW row, IsRow(row)
  PROVE  Keeps(f, AppendRow(f, row)) /\ OpenIn(AppendRow(f, row)) = 0
<1>1. PICK s : Extended(f, row, s)
  BY AppendRowCases
<1>2. AppendRow(f, row) = Ended(s) /\ AreRows(s) /\ IsFile(Ended(s))
  BY <1>1, EndedFile DEF Extended
<1>3. Ended(s) # NoFile /\ Ended(s).lines = s /\ Ended(s).ended = TRUE
  BY <1>2 DEF Ended
<1>4. ASSUME f # NoFile, NEW i \in DOMAIN f.lines, Closed(f, i)
      PROVE  i \in DOMAIN s /\ s[i] = f.lines[i]
  <2>1. DOMAIN f.lines = 1..Len(f.lines) /\ Len(f.lines) \in Nat /\ DOMAIN s = 1..Len(s) /\ Len(s) \in Nat
    BY <1>2, <1>4, SomeRows DEF IsFile
  <2>2. Len(s) >= Len(f.lines) /\ s[i] = f.lines[i]
    BY <1>1, <1>4 DEF Extended
  <2> QED BY <1>4, <2>1, <2>2
<1>5. Keeps(f, Ended(s))
  BY <1>3, <1>4 DEF Keeps, Closed
<1>6. OpenIn(Ended(s)) = 0
  BY <1>3 DEF OpenIn
<1> QED BY <1>2, <1>5, <1>6

\* Even one that is cut short: the line it goes on with was open, or is its own.
LEMMA CutAppendKeeps ==
  ASSUME ~IsFile(NoFile), NEW f, f # NoFile => IsFile(f), NEW row, IsRow(row)
  PROVE  Keeps(f, [lines |-> AppendRow(f, row).lines, ended |-> FALSE])
<1>1. PICK s : Extended(f, row, s)
  BY AppendRowCases
<1> DEFINE g == [lines |-> s, ended |-> FALSE]
<1>2. AppendRow(f, row).lines = s /\ AreRows(s) /\ IsFile(g)
  BY <1>1, OpenFile DEF Extended, Ended
<1>3. g # NoFile /\ g.lines = s /\ g.ended = FALSE
  BY <1>2
<1>4. ASSUME f # NoFile, NEW i \in DOMAIN f.lines, Closed(f, i)
      PROVE  i \in DOMAIN s /\ i < Len(s) /\ s[i] = f.lines[i]
  <2>1. f.lines \in Seq(ToSet(f.lines)) /\ AreRows(f.lines) /\ DOMAIN f.lines = 1..Len(f.lines)
    BY <1>4, SomeRows DEF IsFile
  <2>2. PICK n \in Nat : n = Len(f.lines)
    BY <2>1, LenProperties
  <2>3. PICK m \in Nat : m = Len(s) /\ DOMAIN s = 1..m
    BY <1>2, SomeRows
  <2>4. m >= n /\ s[i] = f.lines[i] /\ i \in 1..n
    BY <1>1, <1>4, <2>1, <2>2, <2>3 DEF Extended
  <2>5. CASE f.ended
    <3>1. s = Append(f.lines, row)
      BY <1>1, <1>4, <2>5 DEF Extended
    <3>2. f.lines \in Seq(ToSet(f.lines) \cup {row}) /\ row \in ToSet(f.lines) \cup {row}
      BY <2>1, SeqMonotonic
    <3>3. m = n + 1
      BY <2>2, <2>3, <3>1, <3>2, AppendProperties
    <3> QED BY <2>3, <2>4, <3>3
  <2>6. CASE ~f.ended
    <3>1. i < n
      BY <1>4, <2>2, <2>6 DEF Closed
    <3>2. i < m /\ i \in 1..m
      BY <2>4, <3>1
    <3> QED BY <2>3, <2>4, <3>2
  <2> QED BY <2>5, <2>6
<1> HIDE DEF g
<1>5. Keeps(f, g)
  BY <1>3, <1>4 DEF Keeps, Closed
<1> QED BY <1>2, <1>5 DEF g

\* Appended to an ended file, a row that fits is safe.
LEMMA AppendedIsSafe ==
  ASSUME ~IsFile(NoFile), NEW f, f # NoFile => IsFile(f) /\ f.ended, NEW row, IsRow(row),
         NEW t, Len(row) <= Len(Meta0[t])
  PROVE  SafeIn(AppendRow(f, row), row, t)
<1>1. PICK s : Extended(f, row, s)
  BY AppendRowCases
<1>2. AppendRow(f, row) = Ended(s) /\ AreRows(s) /\ IsFile(Ended(s))
  BY <1>1, EndedFile DEF Extended
<1>3. Ended(s) # NoFile /\ Ended(s).lines = s /\ Ended(s).ended = TRUE
  BY <1>2 DEF Ended
<1>4. \E i \in DOMAIN s : s[i] = row
  <2>1. CASE f = NoFile
    <3>1. s = <<row>>
      BY <1>1, <2>1 DEF Extended
    <3>2. 1 \in DOMAIN <<row>> /\ <<row>>[1] = row
      OBVIOUS
    <3> QED BY <3>1, <3>2
  <2>2. CASE f # NoFile
    <3>1. s = Append(f.lines, row) /\ AreRows(f.lines)
      BY <1>1, <2>2 DEF Extended, IsFile
    <3>2. f.lines \in Seq(ToSet(f.lines))
      BY <3>1, SomeRows
    <3>3. f.lines \in Seq(ToSet(f.lines) \cup {row}) /\ row \in ToSet(f.lines) \cup {row}
      BY <3>2, SeqMonotonic
    <3>4. row \in ToSet(s)
      BY <3>1, <3>3, AppendedElements
    <3> QED BY <3>4 DEF ToSet
  <2> QED BY <2>1, <2>2
<1> QED BY <1>2, <1>3, <1>4 DEF SafeIn, Closed

\* What a worker has written after a step of another kind than InsertRow it had written before.
LEMMA StepWrites ==
  ASSUME Sound, NEW w \in Workers, Step(w), NEW s \in Inserts, NEW row \in ToSet(s.rows), Written(s, row)'
  PROVE  \/ Written(s, row)
         \/ /\ InsertRow(w) /\ pc[w] = "append" /\ stmt[w] = s /\ row = Head(plan[w])
            /\ data' = [data EXCEPT ![Table(w)] = AppendRow(@, Head(plan[w]))]
<1>1. CASE stmt[w] # s
  <2>1. s \in acked' => s \in acked
    BY <1>1, StepOthers
  <2>2. \A v \in Workers : pc'[v] # Idle /\ stmt'[v] = s =>
           pc'[v] = pc[v] /\ stmt'[v] = stmt[v] /\ plan'[v] = plan[v]
    BY <1>1, StepOthers
  <2> QED BY <2>1, <2>2 DEF Written
<1>2. CASE stmt[w] = s /\ (ReadDef(w) \/ CheckDef(w) \/ CheckLoad(w) \/ CheckData(w))
  <2>0. DOMAIN pc = Workers /\ DOMAIN plan = Workers
    BY DEF Sound, HasLocals
  <2>1. /\ acked' = acked
        /\ pc'[w] \in Planned /\ plan'[w] # s.rows =>
             plan'[w] = plan[w] /\ pc[w] \in Planned /\ pc[w] # Idle
    <3>1. CASE Fail(w)
      BY <2>0, <3>1 DEF Fail, Leave, Idle, Planned
    <3>2. CASE ~Fail(w) /\ ReadDef(w)
      BY <1>2, <2>0, <3>2 DEF ReadDef, Inserts
    <3>3. CASE ~Fail(w) /\ ~ReadDef(w)
      BY <1>2, <2>0, <3>3 DEF CheckDef, CheckLoad, CheckData, Planned, Idle
    <3> QED BY <3>1, <3>2, <3>3
  <2>2. \A v \in Workers \ {w} : pc'[v] = pc[v] /\ stmt'[v] = stmt[v] /\ plan'[v] = plan[v]
    BY StepOthers
  <2> QED BY <1>2, <2>1, <2>2 DEF Written
<1>3. CASE stmt[w] = s /\ InsertRow(w)
  <2>0. DOMAIN pc = Workers /\ DOMAIN plan = Workers /\ pc[w] = "append" /\ pc[w] # Idle /\ pc[w] \in Planned
    BY <1>3 DEF Sound, HasLocals, InsertRow, Idle, Planned
  <2>1. IsPlan(stmt[w].kind, plan[w])
    BY <2>0, BusySound
  <2>2. \A e : e \in ToSet(plan[w]) <=> e = Head(plan[w]) \/ e \in ToSet(Tail(plan[w]))
    BY <2>1, PlanProperties
  <2>3. row \notin ToSet(plan[w]) => Written(s, row)
    BY <1>3, <2>0 DEF Written
  <2>4. \A v \in Workers \ {w} : pc'[v] = pc[v] /\ stmt'[v] = stmt[v] /\ plan'[v] = plan[v]
    BY StepOthers
  <2>5. CASE Fail(w)
    BY <2>0, <2>4, <2>5 DEF Written, Fail, Leave
  <2>6. CASE ~Fail(w)
    <3>1. data' = [data EXCEPT ![Table(w)] = AppendRow(@, Head(plan[w]))]
      BY <1>3, <2>6 DEF InsertRow
    <3>2. CASE Tail(plan[w]) = <<>>
      <4>1. ToSet(Tail(plan[w])) = {}
        BY <3>2 DEF ToSet
      <4> QED BY <1>3, <2>0, <2>2, <2>3, <3>1, <4>1
    <3>3. CASE Tail(plan[w]) # <<>>
      <4>1. acked' = acked /\ plan'[w] = Tail(plan[w])
        BY <1>3, <2>0, <2>6, <3>3 DEF InsertRow
      <4>2. ASSUME row \in ToSet(plan[w]), row # Head(plan[w]) PROVE Written(s, row)
        <5>1. row \in ToSet(plan'[w])
          BY <2>2, <4>1, <4>2
        <5> QED BY <2>4, <4>1, <5>1 DEF Written
      <4> QED BY <1>3, <2>0, <2>3, <3>1, <4>2
    <3> QED BY <3>2, <3>3
  <2> QED BY <2>5, <2>6
<1>4. stmt[w] = s => s.kind = "insert"
  BY DEF Inserts
<1> QED BY <1>1, <1>2, <1>3, <1>4, InsertSteps

LEMMA StepStarts ==
  ASSUME Sound, NEW w \in Workers, Step(w), NEW s \in Inserts, Started(s)'
  PROVE  Started(s) \/ (stmt[w] = s /\ meta[s.table] \notin Unreadable)
<1>1. CASE stmt[w] # s
  <2>1. s \in acked' => s \in acked
    BY <1>1, StepOthers
  <2>2. \A v \in Workers : pc'[v] # Idle /\ stmt'[v] = s => pc'[v] = pc[v] /\ stmt'[v] = stmt[v]
    BY <1>1, StepOthers
  <2> QED BY <2>1, <2>2 DEF Started
<1>2. CASE stmt[w] = s /\ ReadDef(w)
  <2>1. \A v \in Workers \ {w} : pc'[v] = pc[v] /\ stmt'[v] = stmt[v]
    BY StepOthers
  <2>2. CASE Fail(w)
    BY <2>1, <2>2 DEF Started, Fail, Leave, Sound, HasLocals
  <2>3. CASE ~Fail(w)
    BY <1>2, <2>3 DEF ReadDef, Table
  <2> QED BY <2>2, <2>3
<1>3. CASE stmt[w] = s /\ (InsertRow(w) \/ CheckDef(w) \/ CheckLoad(w) \/ CheckData(w))
  <2>1. pc[w] \in {"append", "checkDef", "checkLoad", "checkData"}
    BY <1>3 DEF InsertRow, CheckDef, CheckLoad, CheckData
  <2>2. pc[w] \in Planned /\ pc[w] # Idle
    BY <2>1 DEF Planned, Idle
  <2> QED BY <1>3, <2>2 DEF Started
<1>4. stmt[w] = s => s.kind = "insert"
  BY DEF Inserts
<1> QED BY <1>1, <1>2, <1>3, <1>4, InsertSteps

\* Counting: no more harmed than before, or one more where a file was open.
LEMMA NoMoreHarmed ==
  ASSUME NEW A, NEW B, IsFiniteSet(A), B \subseteq A
  PROVE  Cardinality(A) \in Nat /\ Cardinality(B) \in Nat /\ Cardinality(B) <= Cardinality(A)
BY FS_Subset, FS_CardinalityType

LEMMA OneMoreHarmed ==
  ASSUME NEW A, NEW B, NEW x, IsFiniteSet(A), B \subseteq A \cup {x}
  PROVE  Cardinality(A) \in Nat /\ Cardinality(B) \in Nat /\ Cardinality(B) <= Cardinality(A) + 1
<1>1. IsFiniteSet(A \cup {x}) /\ Cardinality(A) \in Nat /\ Cardinality(A \cup {x}) \in Nat
      /\ Cardinality(A \cup {x}) <= Cardinality(A) + 1
  BY FS_AddElement, FS_CardinalityType
<1>2. Cardinality(B) \in Nat /\ Cardinality(B) <= Cardinality(A \cup {x})
  BY <1>1, NoMoreHarmed
<1> QED BY <1>1, <1>2

LEMMA HarmedIsFinite ==
  ASSUME Sound, NEW t
  PROVE  IsFiniteSet(Harmed(t))
<1>1. Harmed(t) \subseteq Statements \ todo
  BY DEF Harmed, Inserts
<1> QED BY <1>1, FS_Subset DEF Sound, SoundHistory

\* The append of one row.
AppendsTo(w, t) ==
  /\ InsertRow(w) /\ pc[w] = "append" /\ Table(w) = t
  /\ data' = [data EXCEPT ![Table(w)] = AppendRow(@, Head(plan[w]))]

\* A table that is only inserted into changes by appends alone.
LEMMA StepAppends ==
  ASSUME RowsFit, Sound, NEW w \in Workers, Step(w), NEW t \in Names, InsertOnly(t)
  PROVE  meta'[t] = meta[t] /\ (AppendsTo(w, t) \/ data'[t] = data[t])
<1>1. pc[w] # Idle
  BY DEF Step, ReadDef, InsertRow, CheckDef, CheckLoad, CheckData, LoadDef, LoadData,
       LoadAgain, Rewrite, CreateCheck, CreateMeta, CreateData, DropMeta, DropData,
       AlterMeta, AlterRead, AlterWrite, RenameCheck, RenameMeta, RenameData, RenameDone, Idle
<1>2. stmt[w] \in Statements
  BY <1>1, BusySound
<1>3. CASE t \notin TablesOf(stmt[w])
  BY <1>3, StepTouches
<1>4. CASE t \in TablesOf(stmt[w])
  <2>1. stmt[w].kind = "insert" /\ Table(w) = t
    BY <1>2, <1>4 DEF InsertOnly, TablesOf, Table
  <2>2. ReadDef(w) \/ InsertRow(w) \/ CheckDef(w) \/ CheckLoad(w) \/ CheckData(w)
    BY <2>1, InsertSteps
  <2> QED BY <2>1, <2>2 DEF ReadDef, InsertRow, CheckDef, CheckLoad, CheckData, files, AppendsTo
<1> QED BY <1>3, <1>4

\* If nothing is appended, nothing more is harmed.
LEMMA QuietStepCounts ==
  ASSUME Sound, NEW w \in Workers, Step(w), NEW t \in Names, ~AppendsTo(w, t), data'[t] = data[t]
  PROVE  Harmed(t)' \subseteq Harmed(t)
<1>1. ASSUME NEW s \in Harmed(t)' PROVE s \in Harmed(t)
  <2>1. s \in Inserts /\ s \notin todo /\ s.table = t
    BY StepOthers DEF Harmed
  <2>2. PICK row \in ToSet(s.rows) : Written(s, row)' /\ ~SafeIn(data'[t], row, t)
    BY DEF Harmed, Safe
  <2>3. ~SafeIn(data[t], row, t)
    BY <2>2
  <2>4. Written(s, row)
    <3>1. stmt[w] = s => Table(w) = t
      BY <2>1 DEF Table
    <3> QED BY <2>1, <2>2, <3>1, StepWrites DEF AppendsTo
  <2> QED BY <2>1, <2>3, <2>4 DEF Harmed, Safe
<1> QED BY <1>1

\* An append harms nothing if the file is ended, and the statement that appends if not.
LEMMA AppendCounts ==
  ASSUME RowsFit, Sound, Costs, NEW w \in Workers, Step(w), NEW t \in Names, InsertOnly(t), AppendsTo(w, t)
  PROVE  /\ OpenIn(data'[t]) = 0
         /\ OpenIn(data[t]) = 0 => Harmed(t)' \subseteq Harmed(t)
         /\ Harmed(t)' \subseteq Harmed(t) \cup {stmt[w]}
<1>1. pc[w] # Idle /\ pc[w] \in Planned
  BY DEF AppendsTo, Idle, Planned
<1>2. stmt[w] \in Inserts /\ stmt[w].table = t /\ Started(stmt[w])
  <2>1. stmt[w] \in Statements /\ stmt[w].table = t
    BY <1>1, BusySound DEF AppendsTo, Table
  <2>2. stmt[w].kind = "insert"
    BY <2>1 DEF InsertOnly, TablesOf
  <2> QED BY <1>1, <2>1, <2>2 DEF Inserts, Started
<1>3. IsPlan("insert", plan[w])
  BY <1>1, <1>2, BusySound DEF Inserts
<1>4. PICK new : new = Head(plan[w])
  OBVIOUS
<1>5. IsRow(new)
  BY <1>3, <1>4, PlanProperties DEF IsEntry
<1>6. (data[t] # NoFile => IsFile(data[t])) /\ data'[t] = AppendRow(data[t], new) /\ ~IsFile(NoFile)
  BY <1>4 DEF Sound, SoundFiles, AppendsTo, RowsFit
<1>7. PICK f, g : f = data[t] /\ g = data'[t]
  OBVIOUS
<1>8. Keeps(f, g) /\ OpenIn(g) = 0
  BY <1>5, <1>6, <1>7, AppendKeeps
<1>9. ASSUME NEW s \in Harmed(t)', s \notin Harmed(t)
      PROVE  s = stmt[w] /\ OpenIn(f) # 0
  <2>1. s \in Inserts /\ s \notin todo /\ s.table = t
    BY StepOthers DEF Harmed
  <2>2. PICK row \in ToSet(s.rows) : Written(s, row)' /\ ~SafeIn(g, row, t)
    BY <1>7 DEF Harmed, Safe
  <2>3. ~SafeIn(f, row, t)
    BY <1>8, <2>2, KeptIsSafe
  <2>4. ~Written(s, row)
    BY <1>7, <1>9, <2>1, <2>3 DEF Harmed, Safe
  <2>5. stmt[w] = s /\ row = new
    BY <1>4, <2>1, <2>2, <2>4, StepWrites
  <2>6. Len(row) <= Len(Meta0[t])
    <3>1. Meta0[t] \notin Unreadable
      BY <1>2 DEF Costs
    <3> QED BY <2>1, <2>2, <3>1 DEF RowsFit
  <2>7. ASSUME f # NoFile => f.ended PROVE FALSE
    <3>1. SafeIn(AppendRow(f, row), row, t)
      BY <1>5, <1>6, <1>7, <2>5, <2>6, <2>7, AppendedIsSafe
    <3> QED BY <1>6, <1>7, <2>2, <2>5, <3>1
  <2> QED BY <2>5, <2>7 DEF OpenIn
<1> QED BY <1>7, <1>8, <1>9

\* The third part of the invariant, in one step of a worker.
LEMMA StepCounts ==
  ASSUME RowsFit, Sound, Costs, NEW w \in Workers, Step(w), NEW t \in Names, InsertOnly(t)
  PROVE  Cardinality(Harmed(t)') + OpenIn(data'[t]) <= crashes
<1>1. /\ IsFiniteSet(Harmed(t)) /\ crashes \in Nat
      /\ Cardinality(Harmed(t)) + OpenIn(data[t]) <= crashes
  BY HarmedIsFinite DEF Costs, Sound, SoundHistory, Open
<1>2. PICK A, B, a, b : A = Harmed(t) /\ B = Harmed(t)' /\ a = OpenIn(data[t]) /\ b = OpenIn(data'[t])
  OBVIOUS
<1>3. a \in {0, 1} /\ IsFiniteSet(A) /\ Cardinality(A) + a <= crashes
  BY <1>1, <1>2 DEF OpenIn
<1>4. CASE AppendsTo(w, t)
  <2>1. b = 0 /\ (a = 0 => B \subseteq A) /\ B \subseteq A \cup {stmt[w]}
    BY <1>2, <1>4, AppendCounts
  <2>2. Cardinality(A) \in Nat /\ Cardinality(B) \in Nat /\ Cardinality(B) <= Cardinality(A) + 1
        /\ (a = 0 => Cardinality(B) <= Cardinality(A))
    BY <1>3, <2>1, OneMoreHarmed, NoMoreHarmed
  <2>3. Cardinality(B) + b <= crashes
    BY <1>1, <1>3, <2>1, <2>2
  <2> QED BY <1>2, <2>3
<1>5. CASE ~AppendsTo(w, t)
  <2>1. data'[t] = data[t]
    BY <1>5, StepAppends
  <2>2. b = a /\ B \subseteq A
    BY <1>2, <1>5, <2>1, QuietStepCounts
  <2>3. Cardinality(A) \in Nat /\ Cardinality(B) \in Nat /\ Cardinality(B) <= Cardinality(A)
    BY <1>3, <2>2, NoMoreHarmed
  <2>4. Cardinality(B) + b <= crashes
    BY <1>1, <1>3, <2>2, <2>3
  <2> QED BY <1>2, <2>4
<1> QED BY <1>4, <1>5

LEMMA StepCosts ==
  ASSUME RowsFit, Sound, Costs, NEW w \in Workers, Step(w)
  PROVE  Costs'
<1>1. UNCHANGED crashes
  BY StepOthers
<1>2. ASSUME NEW t \in Names, InsertOnly(t) PROVE meta'[t] = Meta0[t]
  BY <1>2, StepAppends DEF Costs
<1>3. ASSUME NEW t \in Names, InsertOnly(t), NEW s \in Inserts, s.table = t, Started(s)'
      PROVE  Meta0[t] \notin Unreadable
  <2>1. Started(s) \/ meta[t] \notin Unreadable
    BY <1>3, StepStarts
  <2> QED BY <1>3, <2>1 DEF Costs
<1>4. ASSUME NEW t \in Names, InsertOnly(t) PROVE Cardinality(Harmed(t)') + OpenIn(data'[t]) <= crashes'
  BY <1>1, <1>4, StepCounts
<1> QED BY <1>2, <1>3, <1>4 DEF Costs, Open

LEMMA BeginCosts ==
  ASSUME Sound, Costs, NEW w \in Workers, NEW u \in Statements, Begin(w, u)
  PROVE  Costs'
<1>1. /\ UNCHANGED <<meta, data, plan, acked, crashes>>
      /\ todo' = todo \ {u}
      /\ pc'[w] = "start"
      /\ \A v \in Workers \ {w} : pc'[v] = pc[v] /\ stmt'[v] = stmt[v]
  BY DEF Begin, Goto, files, Sound, HasLocals
<1>2. "start" \notin Planned
  BY DEF Planned
<1>3. ASSUME NEW s, NEW row, Written(s, row)' PROVE Written(s, row) /\ s \notin todo
  <2>1. CASE s \in acked
    BY <2>1 DEF Written, Sound, SoundHistory
  <2>2. CASE s \notin acked
    <3>1. PICK v \in Workers : pc'[v] # Idle /\ stmt'[v] = s /\ pc'[v] \in Planned /\ row \notin ToSet(plan'[v])
      BY <1>1, <1>3, <2>2 DEF Written
    <3>2. v # w
      BY <1>1, <1>2, <3>1
    <3>3. pc[v] # Idle /\ stmt[v] = s /\ pc[v] \in Planned /\ row \notin ToSet(plan[v])
      BY <1>1, <3>1, <3>2
    <3> QED BY <3>3, BusySound DEF Written
  <2> QED BY <2>1, <2>2
<1>4. ASSUME NEW s, Started(s)' PROVE Started(s)
  <2>1. CASE s \in acked
    BY <2>1 DEF Started
  <2>2. CASE s \notin acked
    <3>1. PICK v \in Workers : pc'[v] # Idle /\ stmt'[v] = s /\ pc'[v] \in Planned
      BY <1>1, <1>4, <2>2 DEF Started
    <3> QED BY <1>1, <1>2, <3>1 DEF Started
  <2> QED BY <2>1, <2>2
<1>5. ASSUME NEW t \in Names, InsertOnly(t) PROVE Cardinality(Harmed(t)') + OpenIn(data'[t]) <= crashes'
  <2>1. Harmed(t)' \subseteq Harmed(t)
    BY <1>1, <1>3 DEF Harmed, Safe
  <2>2. /\ IsFiniteSet(Harmed(t)) /\ crashes \in Nat
        /\ Cardinality(Harmed(t)) + OpenIn(data[t]) <= crashes
    BY <1>5, HarmedIsFinite DEF Costs, Sound, SoundHistory, Open
  <2>3. PICK A, B, a : A = Harmed(t) /\ B = Harmed(t)' /\ a = OpenIn(data[t])
    OBVIOUS
  <2>4. a \in {0, 1} /\ IsFiniteSet(A) /\ B \subseteq A /\ Cardinality(A) + a <= crashes
    BY <2>1, <2>2, <2>3 DEF OpenIn
  <2>5. Cardinality(A) \in Nat /\ Cardinality(B) \in Nat /\ Cardinality(B) <= Cardinality(A)
    BY <2>4, NoMoreHarmed
  <2>6. Cardinality(B) + a <= crashes
    BY <2>2, <2>4, <2>5
  <2> QED BY <1>1, <2>3, <2>6
<1>6. ASSUME NEW t \in Names, InsertOnly(t)
      PROVE  /\ meta'[t] = Meta0[t]
             /\ \A s \in Inserts : s.table = t /\ Started(s)' => Meta0[t] \notin Unreadable
  BY <1>1, <1>4, <1>6 DEF Costs
<1> QED BY <1>5, <1>6 DEF Costs, Open

\* A crash of a table that is only inserted into: whole lines stay, and its definition is
\* not in danger.
LEMMA CrashKeeps ==
  ASSUME RowsFit, Sound, Crash, NEW t \in Names, InsertOnly(t)
  PROVE  meta'[t] = meta[t] /\ Keeps(data[t], data'[t])
<1>1. ASSUME NEW w \in Workers, pc[w] # Idle, t \in TablesOf(stmt[w])
      PROVE  pc[w] \in {"start", "checkDef", "checkLoad", "checkData", "append"}
             /\ stmt[w].kind = "insert"
  BY <1>1, BusySound, StagesByKind DEF InsertOnly
<1>2. ~MetaInWrite(t)
  <2>1. SUFFICES ASSUME NEW w \in Workers,
                        \/ pc[w] \in {"createMeta", "alterMeta"} /\ Table(w) = t
                        \/ pc[w] = "renameMeta" /\ stmt[w].to = t
                 PROVE  FALSE
    BY DEF MetaInWrite
  <2>2. pc[w] # Idle
    BY <2>1 DEF Idle
  <2>3. pc[w] = "renameMeta" => stmt[w].kind = "rename"
    BY <2>2, BusySound, KindsByStage
  <2>4. t \in TablesOf(stmt[w])
    BY <2>1, <2>3 DEF TablesOf, Table
  <2> QED BY <1>1, <2>1, <2>2, <2>4
<1>3. meta'[t] = meta[t]
  BY <1>2, CrashChooses
<1>4. PICK f, g : f = data[t] /\ g = data'[t]
  OBVIOUS
<1>5. g = f \/ \E w \in Workers : g \in LeftBy(w, t)
  BY <1>4, CrashChooses, DataLeft
<1>6. ASSUME NEW w \in Workers, g \in LeftBy(w, t) PROVE Keeps(f, g)
  <2>1. pc[w] # Idle /\ Table(w) = t
    BY <1>6 DEF LeftBy
  <2>2. t \in TablesOf(stmt[w])
    BY <2>1 DEF TablesOf, Table
  <2>3. pc[w] = "append" /\ stmt[w].kind = "insert"
    BY <1>1, <1>6, <2>1, <2>2 DEF LeftBy
  <2>4. IsPlan("insert", plan[w])
    BY <2>1, <2>3, BusySound DEF Planned
  <2>5. IsRow(Head(plan[w])) /\ (f # NoFile => IsFile(f)) /\ ~IsFile(NoFile)
    BY <1>4, <2>4, PlanProperties DEF IsEntry, Sound, SoundFiles, RowsFit
  <2>6. CASE g = AppendRow(f, Head(plan[w]))
    BY <2>5, <2>6, AppendKeeps
  <2>7. CASE \E k \in DOMAIN Head(plan[w]) :
               g = [lines |-> AppendRow(f, SubSeq(Head(plan[w]), 1, k)).lines, ended |-> FALSE]
    <3>1. PICK k \in DOMAIN Head(plan[w]) :
               g = [lines |-> AppendRow(f, SubSeq(Head(plan[w]), 1, k)).lines, ended |-> FALSE]
      BY <2>7
    <3>2. IsRow(SubSeq(Head(plan[w]), 1, k))
      BY <2>5, RowProperties, PrefixOfRow
    <3> QED BY <2>5, <3>1, <3>2, CutAppendKeeps
  <2> QED BY <1>4, <1>6, <2>1, <2>3, <2>6, <2>7 DEF LeftBy
<1>7. Keeps(f, f)
  BY DEF Keeps
<1> QED BY <1>3, <1>4, <1>5, <1>6, <1>7

LEMMA CrashCosts ==
  ASSUME RowsFit, Sound, Costs, Crash
  PROVE  Costs'
<1>1. UNCHANGED <<todo, acked>> /\ crashes' = crashes + 1 /\ \A w \in Workers : pc'[w] = Idle
  BY DEF Crash
<1>2. \A s : Started(s)' => s \in acked
  BY <1>1 DEF Started
<1>3. \A s, row : Written(s, row)' => s \in acked
  BY <1>1 DEF Written
<1>4. ASSUME NEW t \in Names, InsertOnly(t) PROVE Cardinality(Harmed(t)') + OpenIn(data'[t]) <= crashes'
  <2>1. Keeps(data[t], data'[t])
    BY <1>4, CrashKeeps
  <2>2. ASSUME NEW s \in Harmed(t)' PROVE s \in Harmed(t)
    <3>1. s \in Inserts /\ s \notin todo /\ s.table = t
      BY <1>1 DEF Harmed
    <3>2. PICK row \in ToSet(s.rows) : Written(s, row)' /\ ~SafeIn(data'[t], row, t)
      BY DEF Harmed, Safe
    <3>3. ~SafeIn(data[t], row, t)
      BY <2>1, <3>2, KeptIsSafe
    <3>4. Written(s, row)
      BY <1>3, <3>2 DEF Written
    <3> QED BY <3>1, <3>3, <3>4 DEF Harmed, Safe
  <2>3. /\ IsFiniteSet(Harmed(t)) /\ crashes \in Nat
        /\ Cardinality(Harmed(t)) + OpenIn(data[t]) <= crashes
    BY <1>4, HarmedIsFinite DEF Costs, Sound, SoundHistory, Open
  <2>4. PICK A, B, a, b : A = Harmed(t) /\ B = Harmed(t)' /\ a = OpenIn(data[t]) /\ b = OpenIn(data'[t])
    OBVIOUS
  <2>5. a \in {0, 1} /\ b \in {0, 1} /\ IsFiniteSet(A) /\ B \subseteq A /\ Cardinality(A) + a <= crashes
    BY <2>2, <2>3, <2>4 DEF OpenIn
  <2>6. Cardinality(A) \in Nat /\ Cardinality(B) \in Nat /\ Cardinality(B) <= Cardinality(A)
    BY <2>5, NoMoreHarmed
  <2>7. Cardinality(B) + b <= crashes + 1
    BY <2>3, <2>5, <2>6
  <2> QED BY <1>1, <2>4, <2>7
<1>5. ASSUME NEW t \in Names, InsertOnly(t)
      PROVE  /\ meta'[t] = Meta0[t]
             /\ \A s \in Inserts : s.table = t /\ Started(s)' => Meta0[t] \notin Unreadable
  <2>1. meta'[t] = meta[t]
    BY <1>5, CrashKeeps
  <2>2. \A s : Started(s)' => Started(s)
    BY <1>2 DEF Started
  <2> QED BY <1>5, <2>1, <2>2 DEF Costs
<1> QED BY <1>4, <1>5 DEF Costs, Open

LEMMA CostsInitially ==
  ASSUME RowsFit, Init PROVE Costs
<1>1. ASSUME NEW t \in Names, InsertOnly(t)
      PROVE  Cardinality(Harmed(t)) + Open(t) <= crashes
  <2>1. Harmed(t) = {}
    BY DEF Harmed, Init, Inserts
  <2>2. Cardinality(Harmed(t)) = 0
    BY <2>1, FS_EmptySet
  <2>3. Open(t) = 0
    BY <1>1 DEF Open, OpenIn, Init, RowsFit
  <2> QED BY <2>2, <2>3 DEF Init
<1>2. \A s : ~Started(s)
  BY DEF Started, Init, Planned, Idle
<1> QED BY <1>1, <1>2 DEF Costs, Init

LEMMA CostsInductive ==
  ASSUME RowsFit, Sound, Costs, [Next]_vars PROVE Costs'
<1>1. CASE Crash
  BY <1>1, CrashCosts
<1>2. CASE UNCHANGED vars
  BY <1>2 DEF vars, Costs, Harmed, Safe, Open, Started, Written
<1>3. ASSUME NEW w \in Workers, NEW s \in Statements, Begin(w, s) PROVE Costs'
  BY <1>3, BeginCosts
<1>4. ASSUME NEW w \in Workers, Step(w) PROVE Costs'
  BY <1>4, StepCosts
<1> QED BY <1>1, <1>2, <1>3, <1>4 DEF Next

\* What is lost is harmed: a safe row is a row of the table.
LEMMA LostIsHarmed ==
  ASSUME Sound, Costs, NEW t \in Names, InsertOnly(t), NEW s \in Inserts, s.table = t, Lost(s)
  PROVE  s \in Harmed(t)
<1>1. s \in acked /\ s \notin todo
  BY DEF Lost, Sound, SoundHistory
<1>2. PICK row \in ToSet(s.rows) : ~ \E r \in Rows(t) : r[1] = row[1]
  BY DEF Lost
<1>3. meta[t] = Meta0[t] /\ meta[t] \notin Unreadable
  BY <1>1 DEF Costs, Started
<1>4. Written(s, row)
  BY <1>1 DEF Written
<1>5. ASSUME Safe(row, t) PROVE FALSE
  <2>1. PICK i \in DOMAIN data[t].lines :
          Len(data[t].lines[i]) <= Len(Meta0[t]) /\ data[t].lines[i][1] = row[1]
    BY <1>5 DEF Safe, SafeIn
  <2>2. data[t] # NoFile /\ AreRows(data[t].lines)
    BY <1>5 DEF Safe, SafeIn, Sound, SoundFiles, IsFile
  <2>3. PICK lines : lines = data[t].lines
    OBVIOUS
  <2>4. lines \in Seq(ToSet(lines)) /\ lines[i] \in ToSet(lines)
    BY <2>1, <2>2, <2>3, SomeRows DEF ToSet
  <2>5. lines[i] \in ToSet(Parse(lines, meta[t]))
    BY <1>3, <2>1, <2>3, <2>4, ParsedLines
  <2>6. Rows(t) = ToSet(Parse(lines, meta[t]))
    BY <1>3, <2>2, <2>3 DEF Rows, View
  <2> QED BY <1>2, <2>1, <2>3, <2>5, <2>6
<1> QED BY <1>1, <1>4, <1>5 DEF Harmed

LEMMA CostsImplyOneRow ==
  ASSUME Sound, Costs PROVE OneRowLostPerCrash
<1>1. ASSUME NEW t \in Names, InsertOnly(t)
      PROVE  Cardinality({s \in Inserts : s.table = t /\ Lost(s)}) <= crashes
  <2>1. PICK A, B, a : A = Harmed(t) /\ B = {s \in Inserts : s.table = t /\ Lost(s)} /\ a = OpenIn(data[t])
    OBVIOUS
  <2>2. IsFiniteSet(A) /\ B \subseteq A
    BY <1>1, <2>1, HarmedIsFinite, LostIsHarmed
  <2>3. a \in {0, 1} /\ crashes \in Nat /\ Cardinality(A) + a <= crashes
    BY <1>1, <2>1 DEF OpenIn, Open, Costs, Sound, SoundHistory
  <2>4. Cardinality(A) \in Nat /\ Cardinality(B) \in Nat /\ Cardinality(B) <= Cardinality(A)
    BY <2>2, NoMoreHarmed
  <2>5. Cardinality(B) <= crashes
    BY <2>3, <2>4
  <2> QED BY <2>1, <2>5
<1> QED BY <1>1 DEF OneRowLostPerCrash, InsertOnly

\* However many workers insert into a table, in whatever order their appends come and
\* however often the process dies inside of one: each crash costs at most one insert that
\* had reported success or still will, because appendToFile() only ever adds to the end.
THEOREM CrashCost == RowsFit /\ Spec => []OneRowLostPerCrash
<1>1. Init => Sound
  BY SoundInitially
<1>2. RowsFit /\ Init => Costs
  BY CostsInitially
<1>3. Sound /\ [Next]_vars => Sound'
  BY SoundInductive
<1>4. RowsFit /\ Sound /\ Costs /\ [Next]_vars => Costs'
  BY CostsInductive
<1>5. Sound /\ Costs => OneRowLostPerCrash
  BY CostsImplyOneRow
<1>6. RowsFit => RowsFit'
  BY DEF RowsFit, InsertOnly, Inserts
<1> QED BY <1>1, <1>2, <1>3, <1>4, <1>5, <1>6, PTL DEF Spec
=============================================================================
