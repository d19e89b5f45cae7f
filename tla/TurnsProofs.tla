---------------------------- MODULE TurnsProofs ----------------------------
(***************************************************************************)
(* TableStore implements Table when clients take turns on a table: the     *)
(* file operations of a statement, with those of statements on other       *)
(* tables in between, are one step of the tables.                          *)
(***************************************************************************)
EXTENDS TableStoreProofs

\* loadTable() skips none of the rows.
Fit(rows, cols) == \A r \in ToSet(rows) : Len(r) <= Len(cols)

\* A table as Table.tla has it, in which no row has more cells than there are columns.
IsTable(T) ==
  /\ T = [cols |-> T.cols, rows |-> T.rows]
  /\ AreColumns(T.cols) /\ AreRows(T.rows) /\ Fit(T.rows, T.cols)

\* The setting: clients take turns and the process does not die. At the start a table is
\* both of its files or neither, and loadTable() skips no line; NoFile is neither a file
\* nor columns nor a table. INSERT fails for a later row neither by its type nor by a
\* foreign key, since the rows before it would stay; its rows are no longer than the
\* columns, and ALTER and RENAME, after which a file may not be ended, keep away from the
\* tables it inserts into.
TakingTurns ==
  /\ Exclusive /\ MaxCrashes = 0
  /\ ~IsFile(NoFile) /\ ~AreColumns(NoFile) /\ ~IsTable(NoFile)
  /\ \A t \in Names :
       /\ ForeignKey[t] = NoFile
       /\ Meta0[t] = NoFile <=> Data0[t] = NoFile
       /\ Meta0[t] # NoFile => Fit(Data0[t].lines, Meta0[t])
  /\ \A s \in Inserts :
       /\ \A row \in ToSet(Tail(s.rows)) : Refuse \notin ToSet(row)
       /\ Fit(s.rows, Columns)
       /\ Meta0[s.table] # NoFile => Fit(s.rows, Meta0[s.table]) /\ Data0[s.table].ended
       /\ \A u \in Statements :
            /\ u.kind \in {"add", "dropcol"} => u.table # s.table
            /\ u.kind = "rename" => u.to # s.table
-----------------------------------------------------------------------------
(* The invariant: what the files of a table hold, by how far the statement *)
(* on it has come, in terms of the table that the statement found.         *)

\* The files of t hold the table T.
Hold(t, T) ==
  IF T = NoFile THEN meta[t] = NoFile /\ data[t] = NoFile
  ELSE IsTable(T) /\ meta[t] = T.cols /\ data[t] # NoFile /\ data[t].lines = T.rows

\* A statement on t is running.
Uses(w, t) == pc[w] # Idle /\ t \in TablesOf(stmt[w])

\* The table as the statement found it.
Found(w) == before[w][Table(w)]

AsFound(w) == \A t \in TablesOf(stmt[w]) : Hold(t, before[w][t])

Lines(w) == data[Table(w)].lines

\* INSERT: the rows that are written and those to come.
Appending(w) ==
  /\ Lines(w) \o plan[w] = Found(w).rows \o stmt[w].rows
  /\ \/ plan[w] = stmt[w].rows /\ Lines(w) = Found(w).rows
     \/ \A row \in ToSet(plan[w]) : Refuse \notin ToSet(row)

PlanIds(p) == {e.id : e \in ToSet(p)}

\* UPDATE: row i as it should become.
NewRow(T, s, i) == IF T.rows[i][1] = s.key THEN Assign(T.rows[i], T.cols, s) ELSE T.rows[i]

\* The rows that are not planned any more are as they should be.
UpdateDone(T, s, p, lines) ==
  /\ DOMAIN lines = DOMAIN T.rows
  /\ Fit(lines, T.cols)
  /\ \A e \in ToSet(p) : e.id \in DOMAIN T.rows /\ e.row = NewRow(T, s, e.id)
  /\ \A i \in DOMAIN T.rows : i \notin PlanIds(p) => lines[i] = NewRow(T, s, i)

\* DELETE: the rows that stay, and those that are still to go.
Staying(rows, key, ids) == {i \in DOMAIN rows : rows[i][1] # key \/ i \in ids}

Descending(p) == \A i, j \in DOMAIN p : i < j => p[i].id > p[j].id

\* The file lacks rows only behind the ones that are still to go, so that their ids are right.
DeleteDone(T, s, p, lines) ==
  /\ lines = Selected(T.rows, Staying(T.rows, s.key, PlanIds(p)))
  /\ Descending(p)
  /\ \A i \in PlanIds(p) : i \in DOMAIN T.rows /\ T.rows[i][1] = s.key
  /\ \A i \in DOMAIN T.rows :
       T.rows[i][1] = s.key /\ (\E j \in PlanIds(p) : i <= j) => i \in PlanIds(p)

\* How far the statement of w has come, and what that says of the files.
Turn(w) ==
  /\ pc[w] \notin {"checkDef", "checkLoad", "checkData"}
  /\ pc[w] \in {"start", "loadDef", "loadData", "createMeta", "alterMeta", "renameCheck", "renameMeta"} =>
       AsFound(w)
  /\ pc[w] \notin {Idle, "start", "createMeta", "createData"} => IsTable(Found(w))
  /\ pc[w] \notin {Idle, "start", "createMeta", "createData", "dropData"} => def[w] = Found(w).cols
  /\ pc[w] \in {"createMeta", "createData"} => Found(w) = NoFile /\ def[w] = Columns
  /\ pc[w] = "createData" => meta[Table(w)] = Columns
  /\ pc[w] = "dropData" => meta[Table(w)] = NoFile
  /\ pc[w] \in {"append", "againDef", "againData", "rewrite"} =>
       meta[Table(w)] = Found(w).cols /\ data[Table(w)] # NoFile
  /\ pc[w] = "append" => Appending(w)
  /\ pc[w] \in {"againDef", "againData", "rewrite"} =>
       IF stmt[w].kind = "update" THEN UpdateDone(Found(w), stmt[w], plan[w], Lines(w))
       ELSE DeleteDone(Found(w), stmt[w], plan[w], Lines(w))
  /\ pc[w] \in {"loadData", "againData"} => content[w] = Found(w).cols
  /\ pc[w] = "rewrite" => content[w] = Lines(w)
  /\ pc[w] \in {"alterRead", "alterWrite"} => meta[Table(w)] = NewColumns(w)
  /\ pc[w] = "alterRead" => data[Table(w)] # NoFile /\ Lines(w) = Found(w).rows
  /\ pc[w] = "alterWrite" => content[w] = Found(w).rows
  /\ pc[w] \in {"renameMeta", "renameData", "renameDone"} =>
       stmt[w].to # Table(w) /\ before[w][stmt[w].to] = NoFile
  /\ pc[w] \in {"renameData", "renameDone"} => meta[stmt[w].to] = def[w]
  /\ pc[w] = "renameData" => /\ data[stmt[w].to] = NoFile
                            /\ data[Table(w)] # NoFile /\ Lines(w) = Found(w).rows
  /\ pc[w] = "renameDone" => /\ data[Table(w)] = NoFile
                            /\ data[stmt[w].to] # NoFile /\ data[stmt[w].to].lines = Found(w).rows

\* No two statements use one table.
OneUser == \A v, w \in Workers : \A t \in Names : Uses(v, t) /\ Uses(w, t) => v = w

\* The files of a table that no statement uses are a table.
Rest == \A t \in Names : (\A w \in Workers : ~Uses(w, t)) => Hold(t, View(t))

\* A table that INSERT adds to.
Ready ==
  \A s \in Inserts :
    /\ data[s.table] # NoFile => data[s.table].ended
    /\ meta[s.table] # NoFile => Fit(s.rows, meta[s.table])

Recorded == DOMAIN before = Workers /\ \A w \in Workers : DOMAIN before[w] = Names

Turns == OneUser /\ Rest /\ Ready /\ Recorded /\ \A w \in Workers : Turn(w)
-----------------------------------------------------------------------------
(* What is left of a sequence: the loop of Selected and RemoveAt.          *)

\* Sequences are equal that agree in length and elements.
LEMMA SameSequence ==
  ASSUME NEW S, NEW s \in Seq(S), NEW R, NEW r \in Seq(R), Len(s) = Len(r), \A i \in 1..Len(s) : s[i] = r[i]
  PROVE  s = r
<1>1. s \in Seq(S \cup R) /\ r \in Seq(S \cup R)
  BY SeqMonotonic
<1> QED BY <1>1, SeqEqual

\* Removing the element that was appended last, or one before it.
LEMMA RemoveFromAppended ==
  ASSUME NEW S, NEW q \in Seq(S), NEW e \in S
  PROVE  /\ RemoveAt(Append(q, e), Len(q) + 1) = q
         /\ \A j \in 1..Len(q) : RemoveAt(Append(q, e), j) = Append(RemoveAt(q, j), e)
<1>1. PICK n \in Nat : n = Len(q)
  BY LenProperties
<1>2. PICK r : r = Append(q, e)
  OBVIOUS
<1>3. r \in Seq(S) /\ Len(r) = n + 1 /\ r[n + 1] = e /\ \A i \in 1..n : r[i] = q[i]
  BY <1>1, <1>2, AppendProperties
<1>4. RemoveAt(r, n + 1) = q
  <2>1. n + 1 \in 1..Len(r)
    BY <1>3
  <2>2. /\ RemoveAt(r, n + 1) \in Seq(S) /\ Len(RemoveAt(r, n + 1)) = Len(r) - 1
        /\ \A i \in 1..Len(r) - 1 : RemoveAt(r, n + 1)[i] = IF i < n + 1 THEN r[i] ELSE r[i + 1]
    BY <1>3, <2>1, RemovedAt
  <2>4. Len(r) - 1 = n
    BY <1>3
  <2>3. Len(RemoveAt(r, n + 1)) = n /\ \A i \in 1..n : RemoveAt(r, n + 1)[i] = q[i]
    BY <1>3, <2>2, <2>4
  <2> QED BY <1>1, <2>2, <2>3, SameSequence
<1>5. ASSUME NEW j \in 1..n PROVE RemoveAt(r, j) = Append(RemoveAt(q, j), e)
  <2>1. j \in 1..Len(r) /\ j \in 1..Len(q)
    BY <1>1, <1>3
  <2>8. Len(r) - 1 = n
    BY <1>3
  <2>2. /\ RemoveAt(r, j) \in Seq(S) /\ Len(RemoveAt(r, j)) = n
        /\ \A i \in 1..n : RemoveAt(r, j)[i] = IF i < j THEN r[i] ELSE r[i + 1]
    BY <1>3, <2>1, <2>8, RemovedAt
  <2>3. /\ RemoveAt(q, j) \in Seq(S) /\ Len(RemoveAt(q, j)) = n - 1
        /\ \A i \in 1..n - 1 : RemoveAt(q, j)[i] = IF i < j THEN q[i] ELSE q[i + 1]
    BY <1>1, <2>1, RemovedAt
  <2>4. PICK a, b : a = RemoveAt(r, j) /\ b = Append(RemoveAt(q, j), e)
    OBVIOUS
  <2>5. /\ b \in Seq(S) /\ Len(b) = n /\ b[n] = e
        /\ \A i \in 1..n - 1 : b[i] = IF i < j THEN q[i] ELSE q[i + 1]
    <3>1. PICK c : c = RemoveAt(q, j)
      OBVIOUS
    <3>2. c \in Seq(S) /\ Len(c) = n - 1
      BY <2>3, <3>1
    <3>3. /\ Append(c, e) \in Seq(S) /\ Len(Append(c, e)) = Len(c) + 1
          /\ \A i \in 1..Len(c) : Append(c, e)[i] = c[i]
          /\ Append(c, e)[Len(c) + 1] = e
      BY <3>2, AppendProperties
    <3>4. Len(c) + 1 = n
      BY <3>2
    <3> QED BY <2>3, <2>4, <3>1, <3>2, <3>3, <3>4
  <2>6. ASSUME NEW i \in 1..n PROVE a[i] = b[i]
    <3>1. CASE i = n
      <4>1. ~(i < j) /\ r[i + 1] = e
        BY <1>3, <3>1
      <4> QED BY <2>2, <2>4, <2>5, <3>1, <4>1
    <3>2. CASE i # n
      <4>1. i \in 1..n - 1 /\ i + 1 \in 1..n
        BY <3>2
      <4>2. r[i] = q[i] /\ r[i + 1] = q[i + 1]
        BY <1>3, <4>1
      <4> QED BY <2>2, <2>4, <2>5, <4>1, <4>2
    <3> QED BY <3>1, <3>2
  <2>7. a \in Seq(S) /\ Len(a) = n
    BY <2>2, <2>4
  <2> QED BY <2>4, <2>5, <2>6, <2>7, SeqEqual
<1> QED BY <1>1, <1>2, <1>4, <1>5

\* The loop keeps the elements before n as they are if it is to keep all of them; and a
\* loop that leaves out one of them, id, has what the other has without its element id.
LEMMA SelectedLess ==
  ASSUME NEW S, NEW s \in Seq(S), NEW keep, NEW id \in DOMAIN s, 1..id \subseteq keep
  PROVE  /\ id \in 1..Len(Selected(s, keep))
         /\ RemoveAt(Selected(s, keep), id) = Selected(s, keep \ {id})
<1> DEFINE N == Len(s)
<1>1. PICK up : Loops(s, keep, up) /\ Selected(s, keep) = up[N]
  BY SelectedLoops
<1>2. PICK vp : Loops(s, keep \ {id}, vp) /\ Selected(s, keep \ {id}) = vp[N]
  BY SelectedLoops
<1> DEFINE Right(n) == /\ up[n] \in Seq(S)
                       /\ n < id => Len(up[n]) = n /\ vp[n] = up[n]
                       /\ n >= id => Len(up[n]) >= id /\ vp[n] = RemoveAt(up[n], id)
           Wrong == {n \in 0..N : ~Right(n)}
<1>3. N \in Nat /\ DOMAIN s = 1..N /\ <<>> \in Seq(S) /\ Len(<<>>) = 0 /\ id \in 1..N
  BY EmptySeq
<1>4. Wrong = {}
  <2> SUFFICES ASSUME Wrong # {} PROVE FALSE
    OBVIOUS
  <2>1. PICK m \in Wrong : \A k \in Wrong : m <= k
    <3>1. Wrong \subseteq Nat
      BY <1>3
    <3> HIDE DEF Wrong
    <3> QED BY <3>1, LeastNumber
  <2>2. /\ up[m] = IF m = 0 THEN <<>>
                   ELSE IF m \in keep THEN Append(up[m - 1], s[m]) ELSE up[m - 1]
        /\ vp[m] = IF m = 0 THEN <<>>
                   ELSE IF m \in keep \ {id} THEN Append(vp[m - 1], s[m]) ELSE vp[m - 1]
    BY <1>1, <1>2 DEF Loops
  <2>3. m \in 0..N /\ ~Right(m)
    OBVIOUS
  <2>4. m # 0
    BY <1>3, <2>2, <2>3
  <2>5. m \in 1..N /\ m - 1 \in 0..N /\ Right(m - 1)
    <3>1. m \in 1..N /\ ~(m <= m - 1)
      BY <1>3, <2>4
    <3> HIDE DEF Right
    <3> QED BY <1>3, <2>1, <3>1
  <2>6. PICK q, e : q = up[m - 1] /\ e = s[m]
    OBVIOUS
  <2>7. q \in Seq(S) /\ e \in S
    BY <1>3, <2>5, <2>6
  <2>8. Append(q, e) \in Seq(S) /\ Len(Append(q, e)) = Len(q) + 1 /\ Len(q) \in Nat
    BY <2>7, AppendProperties, LenProperties
  <2>9. CASE m < id
    <3>1. m \in keep /\ m # id /\ m - 1 < id
      BY <1>3, <2>5, <2>9
    <3>2. Len(q) = m - 1 /\ vp[m - 1] = q
      BY <2>5, <2>6, <3>1
    <3>3. up[m] = Append(q, e) /\ vp[m] = Append(q, e)
      BY <2>2, <2>4, <2>6, <3>1, <3>2
    <3>4. Len(up[m]) = m
      BY <2>5, <2>8, <3>2, <3>3
    <3> QED BY <1>3, <2>3, <2>8, <2>9, <3>3, <3>4
  <2>10. CASE m = id
    <3>1. m \in keep /\ m - 1 < id
      BY <1>3, <2>5, <2>10
    <3>2. Len(q) = m - 1 /\ vp[m - 1] = q
      BY <2>5, <2>6, <3>1
    <3>3. up[m] = Append(q, e) /\ vp[m] = q
      BY <2>2, <2>4, <2>6, <2>10, <3>1, <3>2
    <3>4. Len(q) + 1 = m /\ id = Len(q) + 1
      BY <2>5, <2>10, <3>2
    <3>5. RemoveAt(Append(q, e), id) = q
      BY <2>7, <3>4, RemoveFromAppended
    <3> QED BY <1>3, <2>3, <2>8, <2>10, <3>3, <3>4, <3>5
  <2>11. CASE m > id
    <3>1. m # id /\ ~(m < id) /\ m - 1 >= id
      BY <1>3, <2>5, <2>11
    <3>2. Len(q) >= id /\ vp[m - 1] = RemoveAt(q, id)
      BY <2>5, <2>6, <3>1
    <3>3. CASE m \in keep
      <4>1. up[m] = Append(q, e) /\ vp[m] = Append(RemoveAt(q, id), e)
        BY <2>2, <2>4, <2>6, <3>1, <3>2, <3>3
      <4>2. id \in 1..Len(q)
        BY <1>3, <2>8, <3>2
      <4>3. RemoveAt(Append(q, e), id) = Append(RemoveAt(q, id), e)
        BY <2>7, <4>2, RemoveFromAppended
      <4>4. Len(up[m]) >= id
        BY <1>3, <2>8, <3>2, <4>1
      <4> QED BY <2>3, <2>8, <3>1, <4>1, <4>3, <4>4
    <3>4. CASE m \notin keep
      <4>1. up[m] = q /\ vp[m] = RemoveAt(q, id)
        BY <2>2, <2>4, <2>6, <3>1, <3>2, <3>4
      <4> QED BY <2>3, <2>7, <3>1, <3>2, <4>1
    <3> QED BY <3>3, <3>4
  <2> QED BY <1>3, <2>5, <2>9, <2>10, <2>11
<1>5. Right(N)
  <2>1. N \in 0..N
    BY <1>3
  <2> HIDE DEF Right
  <2> QED BY <1>4, <2>1
<1>6. N >= id /\ id \in Nat /\ id >= 1
  BY <1>3
<1>7. Len(up[N]) \in Nat
  BY <1>5, LenProperties
<1> QED BY <1>1, <1>2, <1>5, <1>6, <1>7

\* Selecting every position leaves the sequence as it is.
LEMMA SelectedAll ==
  ASSUME NEW S, NEW s \in Seq(S), NEW keep, DOMAIN s \subseteq keep
  PROVE  Selected(s, keep) = s
<1> DEFINE N == Len(s)
<1>1. PICK up : Loops(s, keep, up) /\ Selected(s, keep) = up[N]
  BY SelectedLoops
<1> DEFINE Right(n) == up[n] \in Seq(S) /\ Len(up[n]) = n /\ \A i \in 1..n : up[n][i] = s[i]
           Wrong == {n \in 0..N : ~Right(n)}
<1>3. N \in Nat /\ DOMAIN s = 1..N /\ <<>> \in Seq(S) /\ Len(<<>>) = 0
  BY EmptySeq
<1>4. Wrong = {}
  <2> SUFFICES ASSUME Wrong # {} PROVE FALSE
    OBVIOUS
  <2>1. PICK m \in Wrong : \A k \in Wrong : m <= k
    <3>1. Wrong \subseteq Nat
      BY <1>3
    <3> HIDE DEF Wrong
    <3> QED BY <3>1, LeastNumber
  <2>2. up[m] = IF m = 0 THEN <<>>
                ELSE IF m \in keep THEN Append(up[m - 1], s[m]) ELSE up[m - 1]
    BY <1>1 DEF Loops
  <2>3. m \in 0..N /\ ~Right(m)
    OBVIOUS
  <2>4. m # 0
    BY <1>3, <2>2, <2>3
  <2>5. m \in 1..N /\ m - 1 \in 0..N /\ Right(m - 1)
    <3>1. m \in 1..N /\ ~(m <= m - 1)
      BY <1>3, <2>4
    <3> HIDE DEF Right
    <3> QED BY <1>3, <2>1, <3>1
  <2>6. PICK q, e : q = up[m - 1] /\ e = s[m]
    OBVIOUS
  <2>7. q \in Seq(S) /\ e \in S /\ Len(q) = m - 1 /\ \A i \in 1..m - 1 : q[i] = s[i]
    BY <1>3, <2>5, <2>6
  <2>8. /\ Append(q, e) \in Seq(S) /\ Len(Append(q, e)) = Len(q) + 1
        /\ \A i \in 1..Len(q) : Append(q, e)[i] = q[i]
        /\ Append(q, e)[Len(q) + 1] = e
    BY <2>7, AppendProperties
  <2>9. up[m] = Append(q, e)
    BY <1>3, <2>2, <2>4, <2>5, <2>6
  <2>10. Len(q) + 1 = m /\ Len(up[m]) = m
    BY <2>5, <2>7, <2>8, <2>9
  <2>11. ASSUME NEW i \in 1..m PROVE up[m][i] = s[i]
    <3>1. i \in 1..m - 1 \/ i = m
      BY <2>5
    <3> QED BY <2>6, <2>7, <2>8, <2>9, <2>10, <3>1
  <2> QED BY <2>3, <2>8, <2>9, <2>10, <2>11
<1>5. Right(N)
  <2>1. N \in 0..N
    BY <1>3
  <2> HIDE DEF Right
  <2> QED BY <1>4, <2>1
<1> QED BY <1>1, <1>5, SeqEqual

\* Selecting all positions but one removes that element.
LEMMA SelectedOthers ==
  ASSUME NEW S, NEW s \in Seq(S), NEW id \in DOMAIN s
  PROVE  Selected(s, DOMAIN s \ {id}) = RemoveAt(s, id)
<1>1. 1..id \subseteq DOMAIN s
  BY LenProperties
<1> QED BY <1>1, SelectedAll, SelectedLess

\* The ids that a condition chooses are in ascending order.
LEMMA MatchingAscends ==
  ASSUME NEW S, NEW rows \in Seq(S), NEW key
  PROVE  LET m == Matching(rows, key) IN
         /\ m \in Seq(DOMAIN rows)
         /\ ToSet(m) = {i \in DOMAIN rows : rows[i][1] = key}
         /\ \A i, j \in DOMAIN m : i < j => m[i] < m[j]
<1> DEFINE N == Len(rows)
           s == [i \in DOMAIN rows |-> i]
           keep == {i \in DOMAIN rows : rows[i][1] = key}
<1>1. N \in Nat /\ DOMAIN rows = 1..N /\ s \in Seq(DOMAIN rows) /\ Len(s) = N
      /\ <<>> \in Seq(1..N) /\ Len(<<>>) = 0
  BY EmptySeq
<1>2. PICK up : Loops(s, keep, up) /\ Selected(s, keep) = up[N]
  BY <1>1, SelectedLoops
<1> DEFINE Right(n) == /\ up[n] \in Seq(1..N)
                       /\ \A i \in 1..Len(up[n]) : up[n][i] <= n
                       /\ \A i, j \in 1..Len(up[n]) : i < j => up[n][i] < up[n][j]
           Wrong == {n \in 0..N : ~Right(n)}
<1>4. Wrong = {}
  <2> SUFFICES ASSUME Wrong # {} PROVE FALSE
    OBVIOUS
  <2>1. PICK m \in Wrong : \A k \in Wrong : m <= k
    <3>1. Wrong \subseteq Nat
      BY <1>1
    <3> HIDE DEF Wrong
    <3> QED BY <3>1, LeastNumber
  <2>3. m \in 0..N /\ ~Right(m)
    OBVIOUS
  <2>2. /\ m = 0 => up[m] = <<>>
        /\ m # 0 => up[m] = IF m \in keep THEN Append(up[m - 1], m) ELSE up[m - 1]
    <3>1. up[m] = IF m = 0 THEN <<>>
                  ELSE IF m \in keep THEN Append(up[m - 1], s[m]) ELSE up[m - 1]
      BY <1>1, <1>2 DEF Loops
    <3>2. m # 0 => s[m] = m
      BY <1>1, <2>3
    <3> HIDE DEF keep, s
    <3> QED BY <3>1, <3>2
  <2> HIDE DEF keep, s
  <2>4. m # 0
    <3> SUFFICES ASSUME m = 0 PROVE FALSE
      OBVIOUS
    <3>1. up[m] = <<>> /\ Len(up[m]) = 0 /\ up[m] \in Seq(1..N)
      BY <1>1, <2>2
    <3>2. \A i : i \notin 1..Len(up[m])
      BY <3>1
    <3>3. Right(m)
      BY <3>1, <3>2
    <3> QED BY <2>3, <3>3
  <2>5. m \in 1..N /\ m - 1 \in 0..N /\ Right(m - 1)
    <3>1. m \in 1..N /\ ~(m <= m - 1)
      BY <1>1, <2>3, <2>4
    <3> HIDE DEF Right
    <3> QED BY SMTT(30), <1>1, <2>1, <3>1
  <2>6. PICK q, n : q = up[m - 1] /\ n = Len(q)
    OBVIOUS
  <2>7. /\ q \in Seq(1..N) /\ n \in Nat /\ \A i \in 1..n : q[i] <= m - 1 /\ q[i] \in 1..N
        /\ \A i, j \in 1..n : i < j => q[i] < q[j]
    <3>1. /\ q \in Seq(1..N) /\ \A i \in 1..n : q[i] <= m - 1
          /\ \A i, j \in 1..n : i < j => q[i] < q[j]
      BY <2>5, <2>6, Zenon
    <3>2. n \in Nat /\ q \in [1..n -> 1..N]
      BY <2>6, <3>1, LenProperties
    <3> QED BY <3>1, <3>2
  <2>8. CASE m \in keep
    <3>1. PICK r : r = Append(q, m)
      OBVIOUS
    <3>2. r \in Seq(1..N) /\ Len(r) = n + 1 /\ r[n + 1] = m /\ \A i \in 1..n : r[i] = q[i]
      BY SMTT(30), <2>5, <2>6, <2>7, <3>1, AppendProperties
    <3>3. up[m] = r
      BY <2>2, <2>4, <2>6, <2>8, <3>1
    <3>4. ASSUME NEW i \in 1..n + 1
          PROVE  r[i] <= m /\ \A j \in 1..n + 1 : i < j => r[i] < r[j]
      <4>1. i \in 1..n \/ i = n + 1
        BY <2>7
      <4>2. CASE i = n + 1
        BY <2>5, <2>7, <3>2, <4>2
      <4>3. CASE i \in 1..n
        <5>1. r[i] = q[i] /\ q[i] <= m - 1 /\ q[i] \in 1..N
          BY <2>7, <3>2, <4>3
        <5>2. r[i] < m
          BY SMTT(30), <1>1, <2>5, <5>1
        <5>3. ASSUME NEW j \in 1..n + 1, i < j PROVE r[i] < r[j]
          <6>1. j \in 1..n \/ j = n + 1
            BY <2>7
          <6> QED BY <2>7, <3>2, <4>3, <5>1, <5>2, <5>3, <6>1
        <5>4. r[i] <= m
          BY SMTT(30), <1>1, <2>5, <5>1
        <5> QED BY <5>3, <5>4
      <4> QED BY <4>1, <4>2, <4>3
    <3> QED BY <2>3, <3>2, <3>3, <3>4
  <2>9. CASE m \notin keep
    <3>1. up[m] = q
      BY <2>2, <2>4, <2>6, <2>9
    <3>2. ASSUME NEW i \in 1..n PROVE q[i] <= m
      <4>1. q[i] \in 1..N /\ q[i] <= m - 1
        BY <2>7
      <4> QED BY SMTT(30), <1>1, <2>5, <4>1
    <3> QED BY <2>3, <2>6, <2>7, <3>1, <3>2
  <2> QED BY <2>8, <2>9
<1>5. Right(N)
  <2>1. N \in 0..N
    BY <1>1
  <2> HIDE DEF Right
  <2> QED BY <1>4, <2>1
<1>6. Matching(rows, key) = up[N]
  BY <1>2 DEF Matching
<1>7. /\ Selected(s, keep) \in Seq(DOMAIN rows)
      /\ ToSet(Selected(s, keep)) = {s[i] : i \in {j \in DOMAIN s : j \in keep}}
  <2> HIDE DEF s, keep
  <2> QED BY <1>1, SelectedElements
<1>8. {s[i] : i \in {j \in DOMAIN s : j \in keep}} = keep
  <2>1. \A i \in DOMAIN rows : s[i] = i
    OBVIOUS
  <2>2. DOMAIN s = DOMAIN rows /\ keep \subseteq DOMAIN rows
    OBVIOUS
  <2> HIDE DEF s, keep
  <2> QED BY <2>1, <2>2
<1>9. DOMAIN up[N] = 1..Len(up[N])
  BY <1>5, LenProperties
<1> QED BY <1>2, <1>5, <1>6, <1>7, <1>8, <1>9
-----------------------------------------------------------------------------
(* UPDATE and DELETE, row by row.                                          *)

\* What the proofs use of a table.
LEMMA TableProperties ==
  ASSUME NEW T, IsTable(T)
  PROVE  /\ T = [cols |-> T.cols, rows |-> T.rows]
         /\ AreColumns(T.cols) /\ AreRows(T.rows) /\ Fit(T.rows, T.cols)
         /\ T.rows \in Seq(ToSet(T.rows)) /\ Len(T.rows) \in Nat /\ DOMAIN T.rows = 1..Len(T.rows)
         /\ \A i \in DOMAIN T.rows : IsRow(T.rows[i]) /\ Len(T.rows[i]) <= Len(T.cols)
         /\ Len(T.cols) \in Nat /\ DOMAIN T.cols = 1..Len(T.cols)
<1>1. T = [cols |-> T.cols, rows |-> T.rows] /\ AreColumns(T.cols) /\ AreRows(T.rows) /\ Fit(T.rows, T.cols)
  BY DEF IsTable
<1>2. T.rows \in Seq(ToSet(T.rows)) /\ Len(T.rows) \in Nat /\ DOMAIN T.rows = 1..Len(T.rows)
      /\ \A i \in DOMAIN T.rows : IsRow(T.rows[i])
  BY <1>1, SomeRows
<1>3. \A i \in DOMAIN T.rows : Len(T.rows[i]) <= Len(T.cols)
  BY <1>1 DEF Fit, ToSet
<1>4. Len(T.cols) \in Nat /\ DOMAIN T.cols = 1..Len(T.cols)
  BY <1>1, RowProperties DEF AreColumns
<1> QED BY <1>1, <1>2, <1>3, <1>4

\* Columns and rows that are not too long are a table.
LEMMA IsTableIf ==
  ASSUME NEW cols, AreColumns(cols), NEW rows, AreRows(rows),
         \A i \in DOMAIN rows : Len(rows[i]) <= Len(cols)
  PROVE  IsTable([cols |-> cols, rows |-> rows])
<1>1. Fit(rows, cols)
  BY DEF Fit, ToSet
<1> QED BY <1>1 DEF IsTable

\* loadTable() reads every line of such a table.
LEMMA ParsedAll ==
  ASSUME NEW lines, AreRows(lines), NEW cols, Fit(lines, cols)
  PROVE  Parse(lines, cols) = lines
<1>1. lines \in Seq(ToSet(lines))
  BY SomeRows
<1>2. DOMAIN lines \subseteq {i \in DOMAIN lines : Len(lines[i]) <= Len(cols)}
  BY DEF Fit, ToSet
<1> QED BY <1>1, <1>2, SelectedAll DEF Parse

\* The ids of a plan without its first entry.
LEMMA RestOfIds ==
  ASSUME NEW kind, NEW p, IsPlan(kind, p)
  PROVE  PlanIds(p) = PlanIds(Tail(p)) \cup {Head(p).id}
<1>1. \A e : e \in ToSet(p) <=> e = Head(p) \/ e \in ToSet(Tail(p))
  BY PlanProperties
<1> QED BY <1>1 DEF PlanIds

\* A plan that is done has no ids.
LEMMA NoIds == PlanIds(<<>>) = {}
BY DEF PlanIds, ToSet

\* SET does not change the length of a row.
LEMMA NewRowFits ==
  ASSUME NEW T, IsTable(T), NEW s, NEW i \in DOMAIN T.rows
  PROVE  IsRow(NewRow(T, s, i)) /\ Len(NewRow(T, s, i)) = Len(T.rows[i])
<1> DEFINE row == T.rows[i]
           new == [j \in DOMAIN row |-> IF j <= Len(T.cols) /\ T.cols[j] = s.col THEN s.value ELSE row[j]]
<1>1. IsRow(row)
  BY TableProperties
<1>2. IsRow(Assign(row, T.cols, s)) /\ Assign(row, T.cols, s) = new
  <2>1. Assign(row, T.cols, s) = new
    BY DEF Assign
  <2> HIDE DEF row, new
  <2>2. IsRow(Assign(row, T.cols, s))
    BY <1>1, AssignedRow
  <2> QED BY <2>1, <2>2
<1>3. DOMAIN row = 1..Len(row) /\ Len(row) \in Nat
  BY <1>1, RowProperties
<1>4. IsRow(new) /\ DOMAIN new = DOMAIN row
  BY <1>2
<1> HIDE DEF new
<1>5. DOMAIN new = 1..Len(new) /\ Len(new) \in Nat
  BY <1>4, RowProperties
<1>6. Len(new) = Len(row)
  BY <1>3, <1>4, <1>5
<1> QED BY <1>1, <1>2, <1>6 DEF NewRow

\* UPDATE with its plan made and nothing written yet.
LEMMA UpdateStarts ==
  ASSUME NEW T, IsTable(T), NEW s
  PROVE  UpdateDone(T, s, UpdatePlan(T.rows, T.cols, s), T.rows)
<1> DEFINE m == Matching(T.rows, s.key)
           p == UpdatePlan(T.rows, T.cols, s)
<1>1. T.rows \in Seq(ToSet(T.rows)) /\ Fit(T.rows, T.cols)
  BY TableProperties
<1>2. ToSet(m) = {i \in DOMAIN T.rows : T.rows[i][1] = s.key}
  BY <1>1, MatchingAscends
<1>3. p = [n \in DOMAIN m |-> [id |-> m[n], row |-> Assign(T.rows[m[n]], T.cols, s)]]
  BY DEF UpdatePlan
<1> HIDE DEF m, p
<1>4. \A e : e \in ToSet(p) <=> \E i \in ToSet(m) : e = [id |-> i, row |-> Assign(T.rows[i], T.cols, s)]
  BY <1>3 DEF ToSet
<1>5. ASSUME NEW e \in ToSet(p)
      PROVE  e.id \in ToSet(m) /\ e.id \in DOMAIN T.rows /\ e.row = NewRow(T, s, e.id)
  <2>1. PICK i \in ToSet(m) : e = [id |-> i, row |-> Assign(T.rows[i], T.cols, s)]
    BY <1>4
  <2>2. e.id = i /\ e.row = Assign(T.rows[i], T.cols, s)
    BY <2>1
  <2>3. i \in DOMAIN T.rows /\ T.rows[i][1] = s.key
    BY <1>2
  <2> QED BY <2>2, <2>3 DEF NewRow
<1>6. ASSUME NEW i \in DOMAIN T.rows, i \notin PlanIds(p) PROVE T.rows[i] = NewRow(T, s, i)
  <2>1. i \notin ToSet(m)
    <3> SUFFICES ASSUME i \in ToSet(m) PROVE FALSE
      OBVIOUS
    <3> DEFINE e == [id |-> i, row |-> Assign(T.rows[i], T.cols, s)]
    <3>1. e \in ToSet(p) /\ e.id = i
      BY <1>4
    <3> QED BY <1>6, <3>1 DEF PlanIds
  <2>2. T.rows[i][1] # s.key
    BY <1>2, <2>1
  <2> QED BY <2>2 DEF NewRow
<1>7. UpdateDone(T, s, p, T.rows)
  BY <1>1, <1>5, <1>6 DEF UpdateDone
<1> QED BY <1>7 DEF p

\* ... writes the row of the first entry,
LEMMA UpdateStep ==
  ASSUME NEW T, IsTable(T), NEW s, NEW p, IsPlan("update", p), NEW lines, AreRows(lines),
         UpdateDone(T, s, p, lines)
  PROVE  UpdateDone(T, s, Tail(p), PutRow(lines, Head(p).id, Head(p).row))
<1>1. PICK id, row : id = Head(p).id /\ row = Head(p).row
  OBVIOUS
<1>2. /\ Head(p) \in ToSet(p)
      /\ \A e \in ToSet(Tail(p)) : e \in ToSet(p)
      /\ PlanIds(p) = PlanIds(Tail(p)) \cup {id}
  BY <1>1, PlanProperties, RestOfIds
<1>3. id \in DOMAIN T.rows /\ row = NewRow(T, s, id)
  BY <1>1, <1>2 DEF UpdateDone
<1>4. /\ DOMAIN lines = DOMAIN T.rows /\ Fit(lines, T.cols)
      /\ \A e \in ToSet(Tail(p)) : e.id \in DOMAIN T.rows /\ e.row = NewRow(T, s, e.id)
      /\ \A i \in DOMAIN T.rows : i \notin PlanIds(p) => lines[i] = NewRow(T, s, i)
  BY <1>2 DEF UpdateDone
<1>5. DOMAIN lines = 1..Len(lines) /\ Len(lines) \in Nat
  BY SomeRows
<1>6. id <= Len(lines)
  BY <1>3, <1>4, <1>5
<1>7. PICK new : new = [lines EXCEPT ![id] = row]
  OBVIOUS
<1>8. PutRow(lines, id, row) = new
  BY <1>6, <1>7 DEF PutRow
<1>9. DOMAIN new = DOMAIN T.rows /\ new[id] = row /\ \A i \in DOMAIN T.rows : i # id => new[i] = lines[i]
  BY <1>3, <1>4, <1>7
<1>10. Fit(new, T.cols)
  <2>1. ASSUME NEW i \in DOMAIN T.rows PROVE Len(new[i]) <= Len(T.cols)
    <3>1. CASE i = id
      <4>1. Len(row) = Len(T.rows[id])
        BY <1>3, NewRowFits
      <4>2. Len(T.rows[id]) <= Len(T.cols)
        BY <1>3, TableProperties
      <4> QED BY <1>9, <3>1, <4>1, <4>2
    <3>2. CASE i # id
      <4>1. lines[i] \in ToSet(lines)
        BY <1>4 DEF ToSet
      <4> QED BY <1>4, <1>9, <3>2, <4>1 DEF Fit
    <3> QED BY <3>1, <3>2
  <2> QED BY <1>9, <2>1 DEF Fit, ToSet
<1>11. ASSUME NEW i \in DOMAIN T.rows, i \notin PlanIds(Tail(p)) PROVE new[i] = NewRow(T, s, i)
  BY <1>2, <1>3, <1>4, <1>9, <1>11
<1>12. UpdateDone(T, s, Tail(p), new)
  BY <1>4, <1>9, <1>10, <1>11 DEF UpdateDone
<1> QED BY <1>1, <1>8, <1>12

\* ... and with nothing left has made the table that Table.tla says.
LEMMA UpdateEnds ==
  ASSUME NEW T, IsTable(T), NEW s, NEW lines, AreRows(lines), UpdateDone(T, s, <<>>, lines)
  PROVE  /\ IsTable([cols |-> T.cols, rows |-> lines])
         /\ [cols |-> T.cols, rows |-> lines] = Abstract!Update(T, s.key, s.col, s.value)
<1> DEFINE Cell(i, j) == IF T.rows[i][1] = s.key /\ T.cols[j] = s.col THEN s.value ELSE T.rows[i][j]
<1>1. DOMAIN lines = DOMAIN T.rows /\ Fit(lines, T.cols)
      /\ \A i \in DOMAIN T.rows : lines[i] = NewRow(T, s, i)
  BY NoIds DEF UpdateDone
<1>2. ASSUME NEW i \in DOMAIN T.rows
      PROVE  lines[i] = [j \in DOMAIN T.rows[i] |-> Cell(i, j)]
  <2>1. PICK row, cols : row = T.rows[i] /\ cols = T.cols
    OBVIOUS
  <2>2. IsRow(row) /\ Len(row) <= Len(cols) /\ Len(cols) \in Nat
    BY <2>1, TableProperties
  <2>3. row = [j \in DOMAIN row |-> row[j]] /\ \A j \in DOMAIN row : j <= Len(cols)
    <3>1. row \in Seq(ToSet(row)) /\ DOMAIN row = 1..Len(row) /\ Len(row) \in Nat
      BY <2>2, RowProperties
    <3>2. row \in [1..Len(row) -> ToSet(row)]
      BY <3>1, LenProperties
    <3> QED BY <2>2, <3>1, <3>2
  <2>4. lines[i] = IF row[1] = s.key
                     THEN [j \in DOMAIN row |-> IF j <= Len(cols) /\ cols[j] = s.col THEN s.value ELSE row[j]]
                     ELSE row
    BY <1>1, <2>1 DEF NewRow, Assign
  <2>5. lines[i] = [j \in DOMAIN row |-> IF row[1] = s.key /\ cols[j] = s.col THEN s.value ELSE row[j]]
    <3>1. CASE row[1] = s.key
      BY <2>3, <2>4, <3>1
    <3>2. CASE row[1] # s.key
      BY <2>3, <2>4, <3>2
    <3> QED BY <3>1, <3>2
  <2> QED BY <2>1, <2>5
<1>3. lines = [i \in DOMAIN T.rows |-> [j \in DOMAIN T.rows[i] |-> Cell(i, j)]]
  <2>1. lines = [i \in DOMAIN lines |-> lines[i]]
    <3>1. lines \in Seq(ToSet(lines))
      BY SomeRows
    <3>2. lines \in [1..Len(lines) -> ToSet(lines)]
      BY <3>1, LenProperties
    <3> QED BY <3>2
  <2> HIDE DEF Cell
  <2> QED BY <1>1, <1>2, <2>1
<1>4. AreColumns(T.cols)
  BY TableProperties
<1>5. IsTable([cols |-> T.cols, rows |-> lines])
  BY <1>1, <1>4 DEF IsTable
<1>6. Abstract!Update(T, s.key, s.col, s.value) =
        [cols |-> T.cols, rows |-> [i \in DOMAIN T.rows |-> [j \in DOMAIN T.rows[i] |-> Cell(i, j)]]]
  BY DEF Abstract!Update
<1> HIDE DEF Cell
<1> QED BY <1>3, <1>5, <1>6

\* DELETE with its plan made and nothing erased yet.
LEMMA DeleteStarts ==
  ASSUME NEW T, IsTable(T), NEW s
  PROVE  DeleteDone(T, s, DeletePlan(T.rows, s), T.rows)
<1> DEFINE m == Matching(T.rows, s.key)
           p == DeletePlan(T.rows, s)
<1>1. T.rows \in Seq(ToSet(T.rows))
  BY TableProperties
<1>2. /\ m \in Seq(DOMAIN T.rows)
      /\ ToSet(m) = {i \in DOMAIN T.rows : T.rows[i][1] = s.key}
      /\ \A i, j \in DOMAIN m : i < j => m[i] < m[j]
  BY <1>1, MatchingAscends
<1>3. p = [n \in DOMAIN m |-> [id |-> Reverse(m)[n]]]
  BY DEF DeletePlan
<1> HIDE DEF m, p
<1>4. PICK N \in Nat : N = Len(m)
  BY <1>2, LenProperties
<1>5. DOMAIN m = 1..N
  BY <1>2, <1>4, LenProperties
<1>6. ASSUME NEW n \in 1..N
      PROVE  (N - n) + 1 \in 1..N /\ (N - ((N - n) + 1)) + 1 = n /\ p[n].id = m[(N - n) + 1]
  <2>1. (N - n) + 1 \in 1..N /\ (N - ((N - n) + 1)) + 1 = n
    OBVIOUS
  <2>2. Reverse(m)[n] = m[(N - n) + 1]
    BY <1>4 DEF Reverse
  <2> QED BY <1>3, <1>5, <2>1, <2>2
<1>7. DOMAIN p = 1..N
  BY <1>3, <1>5
<1>8. PlanIds(p) = ToSet(m)
  <2>1. ASSUME NEW i \in PlanIds(p) PROVE i \in ToSet(m)
    <3>1. PICK n \in 1..N : i = p[n].id
      BY <1>7 DEF PlanIds, ToSet
    <3> QED BY <1>5, <1>6, <3>1 DEF ToSet
  <2>2. ASSUME NEW i \in ToSet(m) PROVE i \in PlanIds(p)
    <3>1. PICK n \in 1..N : i = m[n]
      BY <1>5 DEF ToSet
    <3>2. (N - n) + 1 \in 1..N /\ p[(N - n) + 1].id = i
      BY <1>6, <3>1
    <3>3. p[(N - n) + 1] \in ToSet(p)
      BY <1>7, <3>2 DEF ToSet
    <3> QED BY <3>2, <3>3 DEF PlanIds
  <2> QED BY <2>1, <2>2
<1>9. Descending(p)
  <2> SUFFICES ASSUME NEW i \in 1..N, NEW j \in 1..N, i < j PROVE p[i].id > p[j].id
    BY <1>7 DEF Descending
  <2>1. (N - j) + 1 < (N - i) + 1
    OBVIOUS
  <2>2. p[i].id = m[(N - i) + 1] /\ p[j].id = m[(N - j) + 1]
    BY <1>6
  <2>3. m[(N - j) + 1] < m[(N - i) + 1]
    BY <1>2, <1>5, <1>6, <2>1
  <2>4. m[(N - j) + 1] \in Nat /\ m[(N - i) + 1] \in Nat
    <3>1. DOMAIN T.rows \subseteq Nat
      BY <1>1, LenProperties
    <3>2. (N - j) + 1 \in DOMAIN m /\ (N - i) + 1 \in DOMAIN m
      BY <1>5, <1>6
    <3> QED BY <1>2, <3>1, <3>2
  <2> QED BY <2>2, <2>3, <2>4
<1>10. T.rows = Selected(T.rows, Staying(T.rows, s.key, PlanIds(p)))
  <2>1. DOMAIN T.rows \subseteq Staying(T.rows, s.key, PlanIds(p))
    BY <1>2, <1>8 DEF Staying
  <2> QED BY <1>1, <2>1, SelectedAll
<1>11. DeleteDone(T, s, p, T.rows)
  BY <1>2, <1>8, <1>9, <1>10 DEF DeleteDone
<1> QED BY <1>11 DEF p

\* The ids of a descending plan are all below the first one.
LEMMA DescendingRest ==
  ASSUME NEW p, IsPlan("delete", p), Descending(p)
  PROVE  Descending(Tail(p)) /\ \A i \in PlanIds(Tail(p)) : i < Head(p).id
<1>1. p \in Seq(ToSet(p)) /\ p # <<>>
  BY DEF IsPlan, IsSeq
<1>2. /\ Tail(p) \in Seq(ToSet(p)) /\ Len(Tail(p)) = Len(p) - 1
      /\ \A i \in 1..Len(Tail(p)) : Tail(p)[i] = p[i + 1]
      /\ Head(p) = p[1]
  BY <1>1, HeadTailProperties
<1>3. PICK n \in Nat : n = Len(p)
  BY <1>1, LenProperties
<1>4. PICK q : q = Tail(p)
  OBVIOUS
<1>5. DOMAIN q = 1..n - 1 /\ \A i \in 1..n - 1 : q[i] = p[i + 1]
  BY <1>2, <1>3, <1>4, LenProperties
<1>6. DOMAIN p = 1..n /\ n # 0
  BY <1>1, <1>3, LenProperties, EmptySeq
<1>7. ASSUME NEW i \in 1..n - 1 PROVE i + 1 \in 1..n /\ 1 \in 1..n /\ 1 < i + 1
  OBVIOUS
<1>8. Descending(q)
  <2> SUFFICES ASSUME NEW i \in 1..n - 1, NEW j \in 1..n - 1, i < j PROVE q[i].id > q[j].id
    BY <1>5 DEF Descending
  <2>1. i + 1 < j + 1
    OBVIOUS
  <2>2. p[i + 1].id > p[j + 1].id
    BY <1>6, <1>7, <2>1 DEF Descending
  <2> QED BY <1>5, <2>2
<1>9. ASSUME NEW k \in PlanIds(q) PROVE k < Head(p).id
  <2>1. PICK i \in 1..n - 1 : k = q[i].id
    BY <1>5 DEF PlanIds, ToSet
  <2>2. p[1].id > p[i + 1].id
    BY <1>6, <1>7, <2>1 DEF Descending
  <2>3. k = p[i + 1].id
    BY <1>5, <2>1
  <2>4. p[1].id > k
    BY <2>2, <2>3
  <2>5. k \in Int /\ p[1].id \in Int
    <3>1. p[1] \in ToSet(p) /\ p[i + 1] \in ToSet(p)
      BY <1>6, <1>7, <2>1 DEF ToSet
    <3> QED BY <2>3, <3>1 DEF IsPlan, IsEntry, Ids
  <2> QED BY <1>2, <2>4, <2>5
<1> QED BY <1>4, <1>8, <1>9

\* ... erases the row of the first entry, which is where its id says,
LEMMA DeleteStep ==
  ASSUME NEW T, IsTable(T), NEW s, NEW p, IsPlan("delete", p), NEW lines,
         DeleteDone(T, s, p, lines)
  PROVE  DeleteDone(T, s, Tail(p), EraseRow(lines, Head(p).id))
<1>1. PICK id, rest, rows : id = Head(p).id /\ rest = PlanIds(Tail(p)) /\ rows = T.rows
  OBVIOUS
<1>2. PlanIds(p) = rest \cup {id}
  BY <1>1, RestOfIds
<1>3. Descending(Tail(p)) /\ \A i \in rest : i < id
  BY <1>1, DescendingRest DEF DeleteDone
<1>4. rows \in Seq(ToSet(rows)) /\ DOMAIN rows = 1..Len(rows) /\ Len(rows) \in Nat
  BY <1>1, TableProperties
<1>5. /\ lines = Selected(rows, Staying(rows, s.key, rest \cup {id}))
      /\ \A i \in rest \cup {id} : i \in DOMAIN rows /\ rows[i][1] = s.key
      /\ \A i \in DOMAIN rows : rows[i][1] = s.key /\ (\E j \in rest \cup {id} : i <= j) => i \in rest \cup {id}
  BY <1>1, <1>2 DEF DeleteDone
<1>6. PICK keep : keep = Staying(rows, s.key, rest \cup {id})
  OBVIOUS
<1>7. \A i : i \in keep <=> i \in DOMAIN rows /\ (rows[i][1] # s.key \/ i \in rest \cup {id})
  BY <1>6 DEF Staying
<1>8. id \in DOMAIN rows /\ id \in Nat
  BY <1>4, <1>5
<1>9. 1..id \subseteq keep
  <2> SUFFICES ASSUME NEW i \in 1..id PROVE i \in keep
    OBVIOUS
  <2>1. i \in DOMAIN rows /\ i <= id
    BY <1>4, <1>8
  <2> QED BY <1>5, <1>7, <2>1
<1>10. id \in 1..Len(lines) /\ RemoveAt(lines, id) = Selected(rows, keep \ {id})
  <2>1. lines = Selected(rows, keep)
    BY <1>5, <1>6
  <2>2. /\ id \in 1..Len(Selected(rows, keep))
        /\ RemoveAt(Selected(rows, keep), id) = Selected(rows, keep \ {id})
    <3>1. PICK S : rows \in Seq(S)
      BY <1>4
    <3> QED BY <1>8, <1>9, <3>1, SelectedLess
  <2> QED BY <2>1, <2>2
<1>11. keep \ {id} = Staying(rows, s.key, rest)
  <2>1. id \notin rest
    <3> SUFFICES ASSUME id \in rest PROVE FALSE
      OBVIOUS
    <3>1. id < id
      BY <1>3
    <3> QED BY <1>8, <3>1
  <2>2. \A i : i \in Staying(rows, s.key, rest) <=> i \in DOMAIN rows /\ (rows[i][1] # s.key \/ i \in rest)
    BY DEF Staying
  <2>3. rows[id][1] = s.key
    BY <1>5
  <2> QED BY <1>7, <2>1, <2>2, <2>3
<1>12. EraseRow(lines, id) = Selected(rows, Staying(rows, s.key, rest))
  <2>1. lines \in Seq(ToSet(rows))
    BY <1>4, <1>5, SelectedElements
  <2>2. id <= Len(lines)
    BY <1>10, <2>1, LenProperties
  <2> QED BY <1>10, <1>11, <2>2 DEF EraseRow
<1>13. ASSUME NEW i \in DOMAIN rows, rows[i][1] = s.key, NEW j \in rest, i <= j PROVE i \in rest
  <2>1. i \in rest \cup {id}
    BY <1>5, <1>13
  <2>2. j < id /\ j \in DOMAIN rows
    BY <1>3, <1>5
  <2>3. i # id
    BY <1>4, <1>13, <2>2
  <2> QED BY <2>1, <2>3
<1> QED BY <1>1, <1>3, <1>5, <1>12, <1>13 DEF DeleteDone

\* ... and with nothing left has made the table that Table.tla says.
LEMMA DeleteEnds ==
  ASSUME NEW T, IsTable(T), NEW s, NEW lines, DeleteDone(T, s, <<>>, lines)
  PROVE  /\ IsTable([cols |-> T.cols, rows |-> lines])
         /\ [cols |-> T.cols, rows |-> lines] = Abstract!Delete(T, s.key)
<1>1. PICK rows, keep : rows = T.rows /\ keep = {i \in DOMAIN rows : rows[i][1] # s.key}
  OBVIOUS
<1>2. Staying(rows, s.key, {}) = keep
  BY <1>1 DEF Staying
<1>3. lines = Selected(rows, keep)
  BY <1>1, <1>2, NoIds DEF DeleteDone
<1>4. Abstract!Delete(T, s.key) = [cols |-> T.cols, rows |-> Selected(rows, keep)]
  BY <1>1 DEF Abstract!Delete, Abstract!Selected, Selected
<1>5. rows \in Seq(ToSet(rows)) /\ (\A l \in ToSet(rows) : IsRow(l)) /\ Fit(rows, T.cols) /\ AreColumns(T.cols)
  BY <1>1, TableProperties DEF AreRows
<1>6. lines \in Seq(ToSet(rows))
  BY <1>3, <1>5, SelectedElements
<1>7. AreRows(lines) /\ ToSet(lines) \subseteq ToSet(rows)
  BY <1>5, <1>6, RowsOfSeq, ElementsOfSeq
<1>8. Fit(lines, T.cols)
  BY <1>5, <1>7 DEF Fit
<1> QED BY <1>3, <1>4, <1>5, <1>7, <1>8 DEF IsTable

\* What is left in the middle of a DELETE fits as well.
LEMMA DeletingFits ==
  ASSUME NEW T, IsTable(T), NEW s, NEW p, NEW lines, DeleteDone(T, s, p, lines)
  PROVE  Fit(lines, T.cols)
<1>1. T.rows \in Seq(ToSet(T.rows)) /\ Fit(T.rows, T.cols)
  BY TableProperties
<1>2. lines \in Seq(ToSet(T.rows))
  BY <1>1, SelectedElements DEF DeleteDone
<1> QED BY <1>1, <1>2, ElementsOfSeq DEF Fit
-----------------------------------------------------------------------------
(* INSERT and ALTER                                                        *)

\* The row that is written goes from the front of the plan to the end of the lines.
LEMMA AppendedOrder ==
  ASSUME NEW S, NEW lines \in Seq(S), NEW p \in Seq(S), p # <<>>
  PROVE  Append(lines, Head(p)) \o Tail(p) = lines \o p
<1>1. PICK k, n, q, e : k = Len(lines) /\ n = Len(p) /\ q = Tail(p) /\ e = Head(p)
  OBVIOUS
<1>2. k \in Nat /\ n \in Nat \ {0} /\ q \in Seq(S) /\ Len(q) = n - 1 /\ e = p[1] /\ e \in S
      /\ \A i \in 1..n - 1 : q[i] = p[i + 1]
  BY <1>1, HeadTailProperties, LenProperties, EmptySeq
<1>3. PICK l : l = Append(lines, e)
  OBVIOUS
<1>4. l \in Seq(S) /\ Len(l) = k + 1 /\ l[k + 1] = e /\ \A i \in 1..k : l[i] = lines[i]
  BY <1>1, <1>2, <1>3, AppendProperties
<1>5. PICK a, b : a = l \o q /\ b = lines \o p
  OBVIOUS
<1>6. /\ a \in Seq(S) /\ Len(a) = (k + 1) + (n - 1)
      /\ \A i \in 1..(k + 1) + (n - 1) : a[i] = IF i <= k + 1 THEN l[i] ELSE q[i - (k + 1)]
  <2>1. /\ a \in Seq(S) /\ Len(a) = Len(l) + Len(q)
        /\ \A i \in 1..Len(l) + Len(q) : a[i] = IF i <= Len(l) THEN l[i] ELSE q[i - Len(l)]
    BY <1>2, <1>4, <1>5, ConcatProperties
  <2>2. Len(l) = k + 1 /\ Len(q) = n - 1
    BY <1>2, <1>4
  <2> QED BY <2>1, <2>2, Zenon
<1>7. /\ b \in Seq(S) /\ Len(b) = k + n
      /\ \A i \in 1..k + n : b[i] = IF i <= k THEN lines[i] ELSE p[i - k]
  BY <1>1, <1>5, ConcatProperties
<1>8. (k + 1) + (n - 1) = k + n
  BY <1>2
<1>9. ASSUME NEW i \in 1..k + n PROVE a[i] = b[i]
  <2>1. CASE i <= k
    <3>1. i \in 1..k /\ i <= k + 1
      BY <1>2, <2>1
    <3> QED BY <1>4, <1>6, <1>7, <1>8, <2>1, <3>1
  <2>2. CASE i = k + 1
    <3>1. i <= k + 1 /\ ~(i <= k) /\ i - k = 1
      BY <1>2, <2>2
    <3> QED BY <1>2, <1>4, <1>6, <1>7, <1>8, <2>2, <3>1
  <2>3. CASE i > k + 1
    <3>1. ~(i <= k + 1) /\ ~(i <= k) /\ i - (k + 1) \in 1..n - 1 /\ (i - (k + 1)) + 1 = i - k
      BY <1>2, <2>3
    <3> QED BY <1>2, <1>6, <1>7, <1>8, <3>1
  <2> QED BY <1>2, <2>1, <2>2, <2>3
<1>10. Len(a) = Len(b)
  BY <1>6, <1>7, <1>8
<1>11. a = b
  BY <1>6, <1>7, <1>8, <1>9, <1>10, SeqEqual
<1> QED BY <1>1, <1>3, <1>5, <1>11

\* INSERT with nothing left to append.
LEMMA NothingToAppend ==
  ASSUME NEW S, NEW s \in Seq(S)
  PROVE  s \o <<>> = s
BY ConcatEmptySeq

\* The table that INSERT has made is one.
LEMMA InsertEnds ==
  ASSUME NEW T, IsTable(T), NEW rows, AreRows(rows), Fit(rows, T.cols)
  PROVE  IsTable(Abstract!Insert(T, rows))
<1>1. PICK S, old : S = ToSet(T.rows) \cup ToSet(rows) /\ old = T.rows
  OBVIOUS
<1>2. old \in Seq(S) /\ rows \in Seq(S) /\ (\A l \in S : IsRow(l))
      /\ (\A l \in S : Len(l) <= Len(T.cols)) /\ AreColumns(T.cols)
  <2>1. old \in Seq(ToSet(old)) /\ rows \in Seq(ToSet(rows)) /\ AreRows(old) /\ AreColumns(T.cols) /\ Fit(old, T.cols)
    BY <1>1, SomeRows, TableProperties
  <2>2. old \in Seq(S) /\ rows \in Seq(S)
    BY <1>1, <2>1, SeqMonotonic
  <2> QED BY <1>1, <2>1, <2>2 DEF AreRows, Fit
<1>3. old \o rows \in Seq(S)
  BY <1>2, ConcatProperties
<1>4. AreRows(old \o rows) /\ ToSet(old \o rows) \subseteq S
  BY <1>2, <1>3, RowsOfSeq, ElementsOfSeq
<1>5. Fit(old \o rows, T.cols)
  BY <1>2, <1>4 DEF Fit
<1>6. Abstract!Insert(T, rows) = [cols |-> T.cols, rows |-> old \o rows]
  BY <1>1 DEF Abstract!Insert
<1> QED BY <1>2, <1>4, <1>5, <1>6 DEF IsTable

\* The table that ALTER makes of T.
Altered(s, T) ==
  IF s.kind = "add" THEN Abstract!AddColumn(T, s.col) ELSE Abstract!DropColumn(T, s.col)

\* Dropping column j from a row.
LEMMA CellsOfRow ==
  ASSUME NEW cols, AreColumns(cols), NEW j \in 2..Len(cols),
         NEW row, IsRow(row), Len(row) <= Len(cols)
  PROVE  /\ Selected(row, {i \in DOMAIN row : cols[i] # cols[j]}) = IF Len(row) >= j THEN RemoveAt(row, j) ELSE row
         /\ Len(Selected(row, {i \in DOMAIN row : cols[i] # cols[j]})) <= Len(cols) - 1
<1>1. row \in Seq(ToSet(row)) /\ DOMAIN row = 1..Len(row) /\ Len(row) \in Nat \ {0}
  BY RowProperties
<1>2. /\ DOMAIN cols = 1..Len(cols) /\ Len(cols) \in Nat /\ j \in Nat /\ 2 <= j /\ j <= Len(cols)
      /\ \A i, k \in DOMAIN cols : cols[i] = cols[k] => i = k
  <2>1. DOMAIN cols = 1..Len(cols) /\ Len(cols) \in Nat /\ \A i, k \in DOMAIN cols : cols[i] = cols[k] => i = k
    BY RowProperties DEF AreColumns
  <2> QED BY <2>1
<1>3. PICK keep : keep = {i \in DOMAIN row : cols[i] # cols[j]}
  OBVIOUS
<1>4. \A i : i \in keep <=> i \in DOMAIN row /\ i # j
  <2> SUFFICES ASSUME NEW i \in DOMAIN row PROVE cols[i] # cols[j] <=> i # j
    BY <1>3
  <2>1. i \in DOMAIN cols /\ j \in DOMAIN cols
    BY <1>1, <1>2
  <2> QED BY <1>2, <2>1
<1>5. CASE Len(row) >= j
  <2>1. j \in DOMAIN row /\ j \in 1..Len(row)
    BY <1>1, <1>2, <1>5
  <2>2. keep = DOMAIN row \ {j}
    BY <1>4
  <2>3. Selected(row, keep) = RemoveAt(row, j)
    BY SMTT(30), <1>1, <2>1, <2>2, SelectedOthers
  <2>4. Len(RemoveAt(row, j)) = Len(row) - 1
    BY ZenonT(30), <1>1, <2>1, RemovedAt
  <2>5. Len(row) - 1 <= Len(cols) - 1
    BY <1>1, <1>2
  <2> QED BY <1>3, <1>5, <2>3, <2>4, <2>5
<1>6. CASE ~(Len(row) >= j)
  <2>1. DOMAIN row \subseteq keep
    BY <1>1, <1>2, <1>4, <1>6
  <2>2. Selected(row, keep) = row
    BY <1>1, <2>1, SelectedAll
  <2>3. Len(row) <= Len(cols) - 1
    BY <1>1, <1>2, <1>6
  <2> QED BY <1>3, <1>6, <2>2, <2>3
<1> QED BY <1>5, <1>6

\* ALTER writes the columns and the lines of the table that the statement is to make.
LEMMA AlterEnds ==
  ASSUME NEW w, NEW T, IsTable(T), def[w] = T.cols, MayAlter(stmt[w], T.cols),
         stmt[w].kind \in {"add", "dropcol"}
  PROVE  /\ Altered(stmt[w], T) =
              [cols |-> NewColumns(w), rows |-> [i \in DOMAIN T.rows |-> NewLine(w, T.rows[i])]]
         /\ \A i \in DOMAIN T.rows : Len(NewLine(w, T.rows[i])) <= Len(NewColumns(w))
<1>1. PICK cols, rows, col : cols = T.cols /\ rows = T.rows /\ col = stmt[w].col
  OBVIOUS
<1>2. AreColumns(cols) /\ (\A i \in DOMAIN rows : IsRow(rows[i]) /\ Len(rows[i]) <= Len(cols))
      /\ Len(cols) \in Nat /\ DOMAIN cols = 1..Len(cols)
  BY <1>1, TableProperties
<1>3. cols \in Seq(ToSet(cols))
  BY <1>2, RowProperties DEF AreColumns
<1>4. CASE stmt[w].kind = "add"
  <2>1. NewColumns(w) = Append(cols, col) /\ \A l : NewLine(w, l) = Append(l, Null)
    BY <1>1, <1>4 DEF NewColumns, NewLine
  <2>2. Altered(stmt[w], T) = [cols |-> Append(cols, col), rows |-> [i \in DOMAIN rows |-> Append(rows[i], Null)]]
    BY <1>1, <1>4 DEF Altered, Abstract!AddColumn
  <2>3. ASSUME NEW i \in DOMAIN rows PROVE Len(Append(rows[i], Null)) <= Len(Append(cols, col))
    <3>1. cols \in Seq(ToSet(cols) \cup {col})
      BY <1>3, SeqMonotonic
    <3>2. Len(Append(cols, col)) = Len(cols) + 1
      BY <3>1, AppendProperties
    <3>3. PICK row : row = rows[i]
      OBVIOUS
    <3>4. row \in Seq(ToSet(row) \cup {Null}) /\ Len(row) \in Nat /\ Len(row) <= Len(cols)
      BY <1>2, <3>3, RowProperties, SeqMonotonic
    <3>5. Len(Append(row, Null)) = Len(row) + 1
      BY <3>4, AppendProperties
    <3>6. Len(row) + 1 <= Len(cols) + 1
      BY <1>2, <3>4
    <3> QED BY <3>2, <3>3, <3>5, <3>6
  <2> QED BY <1>1, <2>1, <2>2, <2>3
<1>5. CASE stmt[w].kind = "dropcol"
  <2>1. PICK j \in 2..Len(cols) : j = Position(cols, col) /\ cols[j] = col
    BY <1>1, <1>2, <1>5, PositionToDrop DEF MayAlter
  <2>2. NewColumns(w) = RemoveAt(cols, j)
        /\ \A l : NewLine(w, l) = IF Len(l) >= j THEN RemoveAt(l, j) ELSE l
    BY <1>1, <1>5, <2>1 DEF NewColumns, NewLine
  <2> DEFINE CellsOf(s) == Selected(s, {i \in DOMAIN s : cols[i] # col})
  <2>3. Altered(stmt[w], T) = [cols |-> CellsOf(cols), rows |-> [i \in DOMAIN rows |-> CellsOf(rows[i])]]
    BY <1>1, <1>5 DEF Altered, Abstract!DropColumn, Abstract!Selected, Selected
  <2>4. \A i \in DOMAIN rows : CellsOf(rows[i]) = NewLine(w, rows[i]) /\ Len(CellsOf(rows[i])) <= Len(cols) - 1
    <3> SUFFICES ASSUME NEW i \in DOMAIN rows
                 PROVE  CellsOf(rows[i]) = NewLine(w, rows[i]) /\ Len(CellsOf(rows[i])) <= Len(cols) - 1
      BY Zenon
    <3>1. PICK row : row = rows[i]
      OBVIOUS
    <3>2. IsRow(row) /\ Len(row) <= Len(cols)
      BY <1>2, <3>1
    <3>3. /\ CellsOf(row) = IF Len(row) >= j THEN RemoveAt(row, j) ELSE row
          /\ Len(CellsOf(row)) <= Len(cols) - 1
      BY <1>2, <2>1, <3>2, CellsOfRow
    <3> QED BY <2>2, <3>1, <3>3
  <2>5. CellsOf(cols) = RemoveAt(cols, j)
    <3>1. IsRow(cols) /\ Len(cols) <= Len(cols) /\ Len(cols) >= j
      BY <1>2, <2>1 DEF AreColumns
    <3> QED BY <1>2, <2>1, <3>1, CellsOfRow
  <2>6. Len(RemoveAt(cols, j)) = Len(cols) - 1
    <3>1. j \in 1..Len(cols)
      BY <1>2, <2>1
    <3> QED BY <1>3, <3>1, RemovedAt
  <2> HIDE DEF CellsOf
  <2> QED BY <1>1, <2>2, <2>3, <2>4, <2>5, <2>6
<1> QED BY <1>4, <1>5
-----------------------------------------------------------------------------
(* Steps of one statement                                                  *)

\* What a statement makes of the table old that it finds.
Makes(s, old, T) ==
  \/ s.kind = "create" /\ old = NoFile /\ T = [cols |-> Columns, rows |-> <<>>]
  \/ s.kind = "insert" /\ old # NoFile /\ T = Abstract!Insert(old, s.rows)
  \/ s.kind = "update" /\ old # NoFile /\ T = Abstract!Update(old, s.key, s.col, s.value)
  \/ s.kind = "delete" /\ old # NoFile /\ T = Abstract!Delete(old, s.key)
  \/ s.kind = "drop" /\ old # NoFile /\ T = NoFile
  \/ s.kind \in {"add", "dropcol"} /\ old # NoFile /\ MayAlter(s, old.cols) /\ T = Altered(s, old)

\* ... and of all tables. One that fails, or has nothing to do, leaves them as they are.
Results(s, old, new) ==
  \/ new = old
  \/ s.kind # "rename" /\ \E T : Makes(s, old[s.table], T) /\ new = [old EXCEPT ![s.table] = T]
  \/ /\ s.kind = "rename" /\ s.to # s.table
     /\ old[s.table] # NoFile /\ old[s.to] = NoFile
     /\ new = [old EXCEPT ![s.to] = old[s.table], ![s.table] = NoFile]

\* A step keeps the invariant, or it is the last one of a statement that takes effect as a whole.
Goes(w) == pc'[w] # Idle /\ stmt'[w] = stmt[w] /\ Turn(w)'

Finishes(w) ==
  /\ pc'[w] = Idle
  /\ \E new : /\ Results(stmt[w], before[w], new)
              /\ \A t \in TablesOf(stmt[w]) : Hold(t, new[t])'

\* What the invariants say of a worker with a statement.
LEMMA InTurn ==
  ASSUME Sound, Turns, TakingTurns, NEW w \in Workers, pc[w] # Idle
  PROVE  /\ Turn(w)
         /\ stmt[w] \in Statements /\ stmt[w].kind \in AllKinds /\ pc[w] \in StagesOf(stmt[w].kind)
         /\ Table(w) \in Names /\ (stmt[w].kind = "rename" => stmt[w].to \in Names)
         /\ Table(w) \in TablesOf(stmt[w])
         /\ DOMAIN before[w] = Names /\ Found(w) = before[w][Table(w)]
         /\ Checked(stmt[w]) = Writing(stmt[w])
<1>1. stmt[w] \in Statements /\ stmt[w].kind \in AllKinds /\ pc[w] \in StagesOf(stmt[w].kind)
      /\ Table(w) \in Names /\ (stmt[w].kind = "rename" => stmt[w].to \in Names)
  BY BusySound
<1>2. Turn(w) /\ DOMAIN before[w] = Names
  BY DEF Turns, Recorded
<1>3. Checked(stmt[w]) = Writing(stmt[w])
  BY <1>1 DEF TakingTurns, Checked, Table
<1>4. Table(w) \in TablesOf(stmt[w])
  BY DEF TablesOf, Table
<1> QED BY <1>1, <1>2, <1>3, <1>4 DEF Found

\* What the invariants say of the files and the locals.
LEMMA Domains ==
  ASSUME Sound
  PROVE  /\ DOMAIN meta = Names /\ DOMAIN data = Names
         /\ pc \in [Workers -> States] /\ DOMAIN stmt = Workers /\ DOMAIN def = Workers
         /\ DOMAIN content = Workers /\ DOMAIN plan = Workers
         /\ \A t \in Names : data[t] # NoFile => IsFile(data[t]) /\ AreRows(data[t].lines)
<1>1. \A t \in Names : data[t] # NoFile => IsFile(data[t])
  BY DEF Sound, SoundFiles
<1>2. \A f : IsFile(f) => AreRows(f.lines)
  BY DEF IsFile
<1> QED BY <1>1, <1>2 DEF Sound, SoundFiles, HasLocals

\* What the files of a table that is there hold.
LEMMA HeldTable ==
  ASSUME TakingTurns, NEW t, NEW T, Hold(t, T)
  PROVE  /\ T = NoFile <=> meta[t] = NoFile
         /\ T = NoFile <=> meta[t] \in Unreadable
         /\ T = NoFile => data[t] = NoFile
         /\ T # NoFile => /\ IsTable(T) /\ meta[t] = T.cols
                          /\ data[t] # NoFile /\ data[t].lines = T.rows
<1>1. ~AreColumns(NoFile)
  BY DEF TakingTurns
<1>2. T # NoFile => AreColumns(T.cols) /\ T.cols # Torn
  BY DEF Hold, IsTable, AreColumns, IsRow, Torn
<1> QED BY <1>1, <1>2 DEF Hold, Unreadable

\* The names of a statement are the same after a step.
LEMMA SameStatement ==
  ASSUME NEW w, stmt'[w] = stmt[w], UNCHANGED before
  PROVE  Table(w)' = Table(w) /\ Found(w)' = Found(w)
BY DEF Table, Found

\* A step that writes no file leaves the tables as found.
LEMMA AsFoundStays ==
  ASSUME NEW w, stmt'[w] = stmt[w], UNCHANGED before, UNCHANGED <<meta, data>>, AsFound(w)
  PROVE  AsFound(w)'
BY DEF AsFound, Hold

\* A statement that ends with the tables as found has done nothing.
LEMMA FinishesAsFound ==
  ASSUME NEW w, pc'[w] = Idle, UNCHANGED <<meta, data>>, AsFound(w)
  PROVE  Finishes(w)
<1>1. PICK old : old = before[w]
  OBVIOUS
<1>2. ASSUME NEW t \in TablesOf(stmt[w]) PROVE Hold(t, old[t])'
  BY <1>1 DEF AsFound, Hold
<1>3. Results(stmt[w], before[w], old)
  BY <1>1 DEF Results
<1> QED BY <1>2, <1>3 DEF Finishes

\* A statement that ends with the files of its table as it should make them.
LEMMA FinishesTable ==
  ASSUME Sound, Turns, TakingTurns, NEW w \in Workers, pc[w] # Idle, pc'[w] = Idle,
         stmt[w].kind # "rename", NEW t, t = Table(w), NEW T, Makes(stmt[w], Found(w), T), Hold(t, T)'
  PROVE  Finishes(w)
<1>1. PICK new : new = [before[w] EXCEPT ![t] = T]
  OBVIOUS
<1>2. t \in Names /\ DOMAIN before[w] = Names /\ Found(w) = before[w][t] /\ t = stmt[w].table
  BY InTurn DEF Table
<1>3. new[t] = T /\ TablesOf(stmt[w]) = {t}
  BY <1>1, <1>2 DEF TablesOf
<1>4. Results(stmt[w], before[w], new)
  BY <1>1, <1>2 DEF Results
<1>5. \A u \in TablesOf(stmt[w]) : Hold(u, new[u])'
  BY <1>3
<1> QED BY <1>4, <1>5 DEF Finishes

\* After the last step the worker is idle.
LEMMA LeaveIdle ==
  ASSUME Sound, NEW w \in Workers, Leave(w)
  PROVE  pc'[w] = Idle
BY Domains DEF Leave

\* The first getTableDef() of a statement.
LEMMA ReadDefTurns ==
  ASSUME Sound, Turns, TakingTurns, NEW w \in Workers, ReadDef(w)
  PROVE  Goes(w) \/ Finishes(w)
<1>1. /\ pc[w] = "start" /\ pc[w] # Idle /\ UNCHANGED <<meta, data>> /\ UNCHANGED before
      /\ stmt[w].kind \notin {"create", "drop"}
  BY DEF ReadDef, Idle, files
<1>2. AsFound(w)
  BY <1>1, InTurn DEF Turn
<1>3. PICK t, T, s : t = Table(w) /\ T = Found(w) /\ s = stmt[w]
  OBVIOUS
<1>4. Hold(t, T)
  BY <1>1, <1>2, <1>3, InTurn DEF AsFound
<1>5. CASE Fail(w)
  BY <1>1, <1>2, <1>5, LeaveIdle, FinishesAsFound DEF Fail
<1>6. CASE ~Fail(w)
  <2>1. /\ meta[t] \notin Unreadable
        /\ def' = [def EXCEPT ![w] = meta[t]]
        /\ plan' = [plan EXCEPT ![w] = IF s.kind = "insert" THEN s.rows ELSE <<>>]
        /\ Goto(w, AfterDef(s)) /\ UNCHANGED <<stmt, content>>
    BY <1>3, <1>6 DEF ReadDef
  <2>2. T # NoFile /\ IsTable(T) /\ meta[t] = T.cols /\ data[t] # NoFile /\ data[t].lines = T.rows
    BY <1>4, <2>1, HeldTable
  <2>3. /\ stmt'[w] = s /\ pc'[w] = AfterDef(s) /\ def'[w] = T.cols
        /\ s.kind = "insert" => plan'[w] = s.rows
    BY <1>3, <2>1, <2>2, Domains DEF Goto
  <2>4. Table(w)' = t /\ Found(w)' = T /\ AsFound(w)'
    BY <1>1, <1>2, <1>3, <2>3, SameStatement, AsFoundStays
  <2>5. CASE s.kind = "insert"
    <3>1. pc'[w] = "append"
      BY <1>1, <1>3, <2>3, <2>5, InTurn DEF AfterDef, Writing
    <3>2. meta'[t] = T.cols /\ data'[t] # NoFile /\ Lines(w)' = T.rows
      BY <1>1, <2>2, <2>4 DEF Lines
    <3>3. Appending(w)'
      BY <2>3, <2>4, <2>5, <3>2 DEF Appending
    <3>4. Turn(w)'
      BY <2>2, <2>3, <2>4, <3>1, <3>2, <3>3 DEF Turn, Idle
    <3> QED BY <1>3, <2>3, <3>1, <3>4 DEF Goes, Idle
  <2>6. CASE s.kind # "insert"
    <3>1. pc'[w] \in {"loadDef", "alterMeta", "renameCheck"}
      BY <1>1, <1>3, <2>3, <2>6, InTurn DEF AfterDef, AllKinds, KindsHere
    <3>2. Turn(w)'
      BY <2>2, <2>3, <2>4, <3>1 DEF Turn, Idle
    <3> QED BY <1>3, <2>3, <3>1, <3>2 DEF Goes, Idle
  <2> QED BY <2>5, <2>6
<1> QED BY <1>5, <1>6

\* One row of INSERT.
LEMMA InsertRowTurns ==
  ASSUME Sound, Turns, TakingTurns, NEW w \in Workers, InsertRow(w)
  PROVE  Goes(w) \/ Finishes(w)
<1>1. pc[w] = "append" /\ pc[w] # Idle /\ pc[w] \in Planned /\ meta' = meta /\ UNCHANGED before
  BY DEF InsertRow, Idle, Planned
<1>2. PICK t, T, s, p : t = Table(w) /\ T = Found(w) /\ s = stmt[w] /\ p = plan[w]
  OBVIOUS
<1>3. /\ IsTable(T) /\ def[w] = T.cols /\ meta[t] = T.cols /\ data[t] # NoFile /\ Appending(w)
      /\ s \in Inserts /\ t \in Names /\ s.table = t /\ t \in TablesOf(s)
      /\ IsPlan("insert", p) /\ AreRows(s.rows) /\ s.rows # <<>>
  <2>1. IsTable(T) /\ def[w] = T.cols /\ meta[t] = T.cols /\ data[t] # NoFile /\ Appending(w)
    BY <1>1, <1>2, InTurn DEF Turn, Idle
  <2>2. s.kind = "insert" /\ s \in Statements /\ t \in Names /\ t \in TablesOf(s)
    BY <1>1, <1>2, InTurn, KindsByStage
  <2>3. IsPlan("insert", p)
    BY <1>1, <1>2, <2>2, BusySound
  <2> QED BY <1>2, <2>1, <2>2, <2>3, StatementsAssumption DEF Inserts, Table
<1>4. PICK lines : lines = data[t].lines
  OBVIOUS
<1>5. /\ AreRows(lines) /\ data[t].ended /\ Fit(s.rows, T.cols) /\ T # NoFile
      /\ lines \o p = T.rows \o s.rows
      /\ (p = s.rows /\ lines = T.rows) \/ \A row \in ToSet(p) : Refuse \notin ToSet(row)
      /\ \A row \in ToSet(Tail(s.rows)) : Refuse \notin ToSet(row)
  <2>1. AreRows(lines)
    BY <1>3, <1>4, Domains
  <2>2. data[t].ended /\ Fit(s.rows, T.cols)
    <3>1. T.cols # NoFile
      BY <1>3 DEF TakingTurns, IsTable
    <3> QED BY <1>3, <3>1 DEF Turns, Ready
  <2>3. T # NoFile
    BY <1>3 DEF TakingTurns
  <2>4. lines \o p = T.rows \o s.rows
        /\ ((p = s.rows /\ lines = T.rows) \/ \A row \in ToSet(p) : Refuse \notin ToSet(row))
    BY <1>2, <1>3, <1>4 DEF Appending, Lines
  <2> QED BY <1>3, <2>1, <2>2, <2>3, <2>4 DEF TakingTurns
<1>6. /\ Head(p) \in ToSet(p) /\ IsRow(Head(p)) /\ (\A e \in ToSet(Tail(p)) : e \in ToSet(p))
      /\ p # <<>> /\ IsSeq(p)
  BY <1>3, PlanProperties DEF IsEntry, IsPlan
<1>7. CASE Refuse \in ToSet(Head(p))
  <2>1. Leave(w) /\ UNCHANGED <<meta, data>>
    BY <1>1, <1>2, <1>7 DEF InsertRow, Fail
  <2>2. lines = T.rows
    BY <1>5, <1>6, <1>7
  <2>3. AsFound(w)
    <3>1. TablesOf(stmt[w]) = {t}
      BY <1>2, <1>3 DEF TablesOf, Inserts
    <3>2. Hold(t, T)
      BY <1>3, <1>4, <1>5, <2>2 DEF Hold
    <3> QED BY <1>2, <3>1, <3>2 DEF AsFound, Found
  <2> QED BY <2>1, <2>3, LeaveIdle, FinishesAsFound
<1>8. CASE Refuse \notin ToSet(Head(p))
  <2>1. PICK new : new = Append(lines, Head(p))
    OBVIOUS
  <2>2. data' = [data EXCEPT ![t] = Ended(new)]
    <3>1. AppendRow(data[t], Head(p)) = Ended(new)
      BY <1>3, <1>4, <1>5, <2>1 DEF AppendRow
    <3>2. data' = [data EXCEPT ![t] = AppendRow(data[t], Head(p))]
      BY <1>2, <1>8 DEF InsertRow
    <3> QED BY <3>1, <3>2
  <2>3. data'[t] = Ended(new) /\ data'[t] # NoFile /\ data'[t].lines = new /\ meta'[t] = T.cols
    <3>1. data'[t] = Ended(new)
      BY <1>3, <2>2, Domains
    <3>2. AreRows(new)
      BY <1>5, <1>6, <2>1, AppendedRow
    <3>3. Ended(new) # NoFile
      BY <3>2, EndedFile DEF TakingTurns
    <3> QED BY <1>1, <1>3, <3>1, <3>3 DEF Ended
  <2>4. new \o Tail(p) = T.rows \o s.rows
    <3>1. PICK S : S = ToSet(lines) \cup ToSet(p)
      OBVIOUS
    <3>2. lines \in Seq(S) /\ p \in Seq(S)
      BY <1>5, <1>6, <3>1, SomeRows, SeqMonotonic DEF IsSeq
    <3> QED BY <1>5, <1>6, <2>1, <3>2, AppendedOrder
  <2>5. CASE Tail(p) = <<>>
    <3>1. Leave(w)
      BY <1>2, <1>8, <2>5 DEF InsertRow, Succeed
    <3>2. new = T.rows \o s.rows
      <4>1. new \in Seq(ToSet(new))
        BY <1>5, <1>6, <2>1, AppendedRow, SomeRows
      <4> QED BY <2>4, <2>5, <4>1, NothingToAppend
    <3>3. PICK U : U = Abstract!Insert(T, s.rows)
      OBVIOUS
    <3>4. IsTable(U) /\ U.cols = T.cols /\ U.rows = new /\ U # NoFile
      <4>1. IsTable(U)
        BY <1>3, <1>5, <3>3, InsertEnds
      <4> QED BY <3>2, <3>3, <4>1 DEF Abstract!Insert, TakingTurns
    <3>5. Hold(t, U)'
      BY <2>3, <3>4 DEF Hold
    <3>6. Makes(stmt[w], Found(w), U) /\ stmt[w].kind # "rename"
      BY <1>2, <1>3, <1>5, <3>3 DEF Makes, Inserts
    <3> QED BY <1>1, <1>2, <3>1, <3>5, <3>6, LeaveIdle, FinishesTable
  <2>6. CASE Tail(p) # <<>>
    <3>1. plan' = [plan EXCEPT ![w] = Tail(p)] /\ Goto(w, Checked(s)) /\ UNCHANGED <<stmt, def, content>>
      BY <1>2, <1>8, <2>6 DEF InsertRow
    <3>2. plan'[w] = Tail(p) /\ pc'[w] = "append" /\ stmt'[w] = s /\ def'[w] = T.cols
      <4>1. Checked(s) = "append"
        BY <1>1, <1>2, <1>3, InTurn DEF Writing, Inserts
      <4> QED BY <1>2, <1>3, <3>1, <4>1, Domains DEF Goto
    <3>3. Table(w)' = t /\ Found(w)' = T
      BY <1>1, <1>2, <3>2, SameStatement
    <3>4. Lines(w)' = new
      BY <2>3, <3>3 DEF Lines
    <3>5. \A row \in ToSet(Tail(p)) : Refuse \notin ToSet(row)
      BY <1>5, <1>6
    <3>6. Appending(w)'
      BY <2>4, <3>2, <3>3, <3>4, <3>5 DEF Appending
    <3>7. Turn(w)'
      BY <1>3, <2>3, <3>2, <3>3, <3>6 DEF Turn, Idle
    <3> QED BY <1>2, <3>2, <3>7 DEF Goes, Idle
  <2> QED BY <2>5, <2>6
<1> QED BY <1>7, <1>8

\* loadTable() reads the definition,
LEMMA LoadDefTurns ==
  ASSUME Sound, Turns, TakingTurns, NEW w \in Workers, LoadDef(w)
  PROVE  Goes(w) \/ Finishes(w)
<1>1. pc[w] \in {"loadDef", "againDef"} /\ pc[w] # Idle /\ UNCHANGED <<meta, data>> /\ UNCHANGED before
  BY DEF LoadDef, Idle, files
<1>2. PICK t, T, s : t = Table(w) /\ T = Found(w) /\ s = stmt[w]
  OBVIOUS
<1>3. /\ IsTable(T) /\ def[w] = T.cols /\ T # NoFile
      /\ pc[w] = "loadDef" => AsFound(w)
      /\ pc[w] = "againDef" => /\ meta[t] = T.cols /\ data[t] # NoFile
                              /\ IF s.kind = "update" THEN UpdateDone(T, s, plan[w], Lines(w))
                                 ELSE DeleteDone(T, s, plan[w], Lines(w))
  BY <1>1, <1>2, InTurn DEF Turn, Idle, TakingTurns
<1>4. meta[t] = T.cols /\ T.cols \notin Unreadable
  <2>1. pc[w] = "loadDef" => Hold(t, T)
    BY <1>1, <1>2, <1>3, InTurn DEF AsFound
  <2>2. meta[t] = T.cols
    BY <1>1, <1>3, <2>1 DEF Hold
  <2>3. T.cols # NoFile /\ T.cols # Torn
    BY <1>3 DEF TakingTurns, IsTable, AreColumns, IsRow, Torn
  <2> QED BY <2>2, <2>3 DEF Unreadable
<1>5. /\ content' = [content EXCEPT ![w] = T.cols]
      /\ Goto(w, IF pc[w] = "loadDef" THEN "loadData" ELSE "againData")
      /\ UNCHANGED <<stmt, def, plan>>
  BY <1>2, <1>4 DEF LoadDef
<1>6. /\ content'[w] = T.cols /\ stmt'[w] = s /\ plan'[w] = plan[w] /\ def'[w] = T.cols
      /\ pc'[w] = IF pc[w] = "loadDef" THEN "loadData" ELSE "againData"
  BY <1>2, <1>3, <1>5, Domains DEF Goto
<1>7. Table(w)' = t /\ Found(w)' = T
  BY <1>1, <1>2, <1>6, SameStatement
<1>8. CASE pc[w] = "loadDef"
  <2>1. AsFound(w)'
    BY <1>1, <1>2, <1>3, <1>6, <1>8, AsFoundStays
  <2>2. Turn(w)'
    BY <1>3, <1>6, <1>7, <1>8, <2>1 DEF Turn, Idle
  <2> QED BY <1>2, <1>6, <1>8, <2>2 DEF Goes, Idle
<1>9. CASE pc[w] = "againDef"
  <2>1. pc'[w] = "againData"
    BY <1>6, <1>9
  <2>2. Lines(w)' = Lines(w) /\ meta'[t] = T.cols /\ data'[t] # NoFile
    BY <1>1, <1>2, <1>3, <1>7, <1>9 DEF Lines
  <2>3. IF s.kind = "update" THEN UpdateDone(T, s, plan'[w], Lines(w)') ELSE DeleteDone(T, s, plan'[w], Lines(w)')
    BY <1>3, <1>6, <1>9, <2>2
  <2>4. Turn(w)'
    BY <1>3, <1>6, <1>7, <2>1, <2>2, <2>3 DEF Turn, Idle
  <2> QED BY <1>2, <1>6, <2>1, <2>4 DEF Goes, Idle
<1> QED BY <1>1, <1>8, <1>9

\* ... the rows, from which UPDATE and DELETE make their plan,
LEMMA LoadDataTurns ==
  ASSUME Sound, Turns, TakingTurns, NEW w \in Workers, LoadData(w)
  PROVE  Goes(w) \/ Finishes(w)
<1>1. pc[w] = "loadData" /\ pc[w] # Idle /\ UNCHANGED <<meta, data>> /\ UNCHANGED before
  BY DEF LoadData, Idle, files
<1>2. PICK t, T, s : t = Table(w) /\ T = Found(w) /\ s = stmt[w]
  OBVIOUS
<1>3. /\ IsTable(T) /\ def[w] = T.cols /\ T # NoFile /\ content[w] = T.cols /\ AsFound(w)
      /\ s.kind \in {"update", "delete"}
  BY <1>1, <1>2, InTurn, KindsByStage DEF Turn, Idle, TakingTurns
<1>4. meta[t] = T.cols /\ data[t] # NoFile /\ data[t].lines = T.rows
  <2>1. Hold(t, T)
    BY <1>1, <1>2, <1>3, InTurn DEF AsFound
  <2> QED BY <1>3, <2>1 DEF Hold
<1>5. Loaded(w, t) = T.rows
  <2>1. AreRows(T.rows) /\ Fit(T.rows, T.cols)
    BY <1>3, TableProperties
  <2>2. Parse(T.rows, T.cols) = T.rows
    BY <2>1, ParsedAll
  <2> QED BY <1>3, <1>4, <2>2 DEF Loaded
<1>6. PICK next : next = IF s.kind = "update" THEN UpdatePlan(T.rows, T.cols, s) ELSE DeletePlan(T.rows, s)
  OBVIOUS
<1>7. CASE next = <<>>
  <2>1. Leave(w)
    BY <1>2, <1>3, <1>5, <1>6, <1>7 DEF LoadData, Succeed
  <2> QED BY <1>1, <1>3, <2>1, LeaveIdle, FinishesAsFound
<1>8. CASE next # <<>>
  <2>1. plan' = [plan EXCEPT ![w] = next] /\ Goto(w, Checked(s)) /\ UNCHANGED <<stmt, def, content>>
    BY <1>2, <1>3, <1>5, <1>6, <1>8 DEF LoadData
  <2>2. plan'[w] = next /\ pc'[w] = "againDef" /\ stmt'[w] = s /\ def'[w] = T.cols
    <3>1. Checked(s) = "againDef"
      BY <1>1, <1>2, <1>3, InTurn DEF Writing
    <3> QED BY <1>2, <1>3, <2>1, <3>1, Domains DEF Goto
  <2>3. Table(w)' = t /\ Found(w)' = T
    BY <1>1, <1>2, <2>2, SameStatement
  <2>4. Lines(w)' = T.rows /\ meta'[t] = T.cols /\ data'[t] # NoFile
    BY <1>1, <1>4, <2>3 DEF Lines
  <2>5. IF s.kind = "update" THEN UpdateDone(T, s, next, T.rows) ELSE DeleteDone(T, s, next, T.rows)
    BY <1>3, <1>6, UpdateStarts, DeleteStarts
  <2>6. Turn(w)'
    BY <1>3, <2>2, <2>3, <2>4, <2>5 DEF Turn, Idle
  <2> QED BY <1>2, <2>2, <2>6 DEF Goes, Idle
<1> QED BY <1>7, <1>8

\* What a worker knows in the middle of UPDATE or DELETE.
LEMMA Rewriting ==
  ASSUME Sound, Turns, TakingTurns, NEW w \in Workers, pc[w] \in {"againData", "rewrite"},
         NEW t, t = Table(w), NEW T, T = Found(w), NEW s, s = stmt[w]
  PROVE  /\ pc[w] # Idle /\ t \in Names /\ s.kind \in {"update", "delete"}
         /\ IsTable(T) /\ def[w] = T.cols /\ T # NoFile
         /\ meta[t] = T.cols /\ data[t] # NoFile /\ Lines(w) = data[t].lines
         /\ pc[w] = "againData" => content[w] = T.cols
         /\ pc[w] = "rewrite" => content[w] = Lines(w)
         /\ AreRows(Lines(w)) /\ Fit(Lines(w), T.cols)
         /\ IsPlan(s.kind, plan[w])
         /\ IF s.kind = "update" THEN UpdateDone(T, s, plan[w], Lines(w))
            ELSE DeleteDone(T, s, plan[w], Lines(w))
<1>1. pc[w] # Idle /\ pc[w] \in Planned
  BY DEF Idle, Planned
<1>2. t \in Names /\ s.kind \in {"update", "delete"} /\ IsPlan(s.kind, plan[w])
  BY <1>1, InTurn, BusySound, KindsByStage
<1>3. /\ IsTable(T) /\ def[w] = T.cols /\ T # NoFile
      /\ meta[t] = T.cols /\ data[t] # NoFile
      /\ pc[w] = "againData" => content[w] = T.cols
      /\ pc[w] = "rewrite" => content[w] = Lines(w)
      /\ IF s.kind = "update" THEN UpdateDone(T, s, plan[w], Lines(w))
         ELSE DeleteDone(T, s, plan[w], Lines(w))
  BY <1>1, InTurn DEF Turn, Idle, TakingTurns
<1>4. Lines(w) = data[t].lines
  BY DEF Lines
<1>5. AreRows(Lines(w))
  BY <1>2, <1>3, <1>4, Domains
<1>6. Fit(Lines(w), T.cols)
  BY <1>3, DeletingFits DEF UpdateDone
<1> QED BY <1>1, <1>2, <1>3, <1>4, <1>5, <1>6

\* ... and the rows again before each one is written.
LEMMA LoadAgainTurns ==
  ASSUME Sound, Turns, TakingTurns, NEW w \in Workers, LoadAgain(w)
  PROVE  Goes(w)
<1>1. pc[w] = "againData" /\ UNCHANGED <<meta, data>> /\ UNCHANGED before
  BY DEF LoadAgain, files
<1>2. PICK t, T, s : t = Table(w) /\ T = Found(w) /\ s = stmt[w]
  OBVIOUS
<1>3. PICK lines : lines = Lines(w)
  OBVIOUS
<1>4. /\ pc[w] # Idle /\ t \in Names /\ IsTable(T) /\ def[w] = T.cols
      /\ meta[t] = T.cols /\ data[t] # NoFile /\ lines = data[t].lines /\ content[w] = T.cols
      /\ AreRows(lines) /\ Fit(lines, T.cols)
      /\ IF s.kind = "update" THEN UpdateDone(T, s, plan[w], lines) ELSE DeleteDone(T, s, plan[w], lines)
  BY <1>1, <1>2, <1>3, Rewriting
<1>5. Loaded(w, t) = lines
  BY <1>4, ParsedAll DEF Loaded
<1>6. content' = [content EXCEPT ![w] = lines] /\ Goto(w, "rewrite") /\ UNCHANGED <<stmt, def, plan>>
  BY <1>2, <1>5 DEF LoadAgain
<1>7. /\ content'[w] = lines /\ pc'[w] = "rewrite" /\ stmt'[w] = s /\ def'[w] = T.cols /\ plan'[w] = plan[w]
  BY <1>2, <1>4, <1>6, Domains DEF Goto
<1>8. Table(w)' = t /\ Found(w)' = T
  BY <1>1, <1>2, <1>7, SameStatement
<1>9. Lines(w)' = lines /\ meta'[t] = T.cols /\ data'[t] # NoFile
  BY <1>1, <1>4, <1>8 DEF Lines
<1>10. Turn(w)'
  BY <1>4, <1>7, <1>8, <1>9 DEF Turn, Idle
<1> QED BY <1>2, <1>7, <1>10 DEF Goes, Idle

\* updateRow() and deleteRow() write the whole file.
LEMMA RewriteTurns ==
  ASSUME Sound, Turns, TakingTurns, NEW w \in Workers, Rewrite(w)
  PROVE  Goes(w) \/ Finishes(w)
<1>1. pc[w] = "rewrite" /\ meta' = meta /\ UNCHANGED before
  BY DEF Rewrite
<1>2. PICK t, T, s, p : t = Table(w) /\ T = Found(w) /\ s = stmt[w] /\ p = plan[w]
  OBVIOUS
<1>3. PICK lines : lines = Lines(w)
  OBVIOUS
<1>4. /\ pc[w] # Idle /\ t \in Names /\ IsTable(T) /\ def[w] = T.cols /\ T # NoFile
      /\ s.kind \in {"update", "delete"}
      /\ meta[t] = T.cols /\ data[t] # NoFile /\ content[w] = lines
      /\ AreRows(lines) /\ IsPlan(s.kind, p)
      /\ IF s.kind = "update" THEN UpdateDone(T, s, p, lines) ELSE DeleteDone(T, s, p, lines)
  BY <1>1, <1>2, <1>3, Rewriting
<1>5. PICK new : new = Rewritten(w).lines
  OBVIOUS
<1>6. /\ new = IF s.kind = "update" THEN PutRow(lines, Head(p).id, Head(p).row) ELSE EraseRow(lines, Head(p).id)
      /\ AreRows(new) /\ data'[t] = Ended(new)
  <2>1. Rewritten(w) = Ended(new) /\ AreRows(new)
    BY <1>2, <1>4, <1>5, Domains, RewrittenRows
  <2>2. data' = [data EXCEPT ![t] = Ended(new)]
    BY <1>2, <2>1 DEF Rewrite
  <2>3. new = IF s.kind = "update" THEN PutRow(lines, Head(p).id, Head(p).row) ELSE EraseRow(lines, Head(p).id)
    BY <1>2, <1>4, <1>5 DEF Rewritten, Ended
  <2> QED BY <1>4, <2>1, <2>2, <2>3, Domains
<1>7. IF s.kind = "update" THEN UpdateDone(T, s, Tail(p), new) ELSE DeleteDone(T, s, Tail(p), new)
  <2>1. CASE s.kind = "update"
    BY <1>4, <1>6, <2>1, UpdateStep
  <2>2. CASE s.kind = "delete"
    BY <1>4, <1>6, <2>2, DeleteStep
  <2> QED BY <1>4, <2>1, <2>2
<1>8. data'[t] # NoFile /\ data'[t].lines = new /\ meta'[t] = T.cols
  BY <1>1, <1>4, <1>6, EndedFile DEF Ended, TakingTurns
<1>9. CASE Tail(p) = <<>>
  <2>1. Leave(w)
    BY <1>2, <1>9 DEF Rewrite, Succeed
  <2>2. PICK U : U = [cols |-> T.cols, rows |-> new]
    OBVIOUS
  <2>3. IsTable(U) /\ Makes(s, T, U)
    <3>1. CASE s.kind = "update"
      BY <1>4, <1>6, <1>7, <1>9, <2>2, <3>1, UpdateEnds DEF Makes
    <3>2. CASE s.kind = "delete"
      BY <1>4, <1>6, <1>7, <1>9, <2>2, <3>2, DeleteEnds DEF Makes
    <3> QED BY <1>4, <3>1, <3>2
  <2>4. Hold(t, U)'
    <3>1. U # NoFile /\ U.cols = T.cols /\ U.rows = new
      BY <2>2, <2>3 DEF TakingTurns
    <3> QED BY <1>8, <2>3, <3>1 DEF Hold
  <2> QED BY <1>2, <1>4, <2>1, <2>3, <2>4, LeaveIdle, FinishesTable
<1>10. CASE Tail(p) # <<>>
  <2>1. plan' = [plan EXCEPT ![w] = Tail(p)] /\ Goto(w, Checked(s)) /\ UNCHANGED <<stmt, def, content>>
    BY <1>2, <1>10 DEF Rewrite
  <2>2. plan'[w] = Tail(p) /\ pc'[w] = "againDef" /\ stmt'[w] = s /\ def'[w] = T.cols
    <3>1. Checked(s) = "againDef"
      BY <1>2, <1>4, InTurn DEF Writing
    <3> QED BY <1>2, <1>4, <2>1, <3>1, Domains DEF Goto
  <2>3. Table(w)' = t /\ Found(w)' = T
    BY <1>1, <1>2, <2>2, SameStatement
  <2>4. Lines(w)' = new
    BY <1>8, <2>3 DEF Lines
  <2>5. Turn(w)'
    BY <1>4, <1>7, <1>8, <2>2, <2>3, <2>4 DEF Turn, Idle
  <2> QED BY <1>2, <2>2, <2>5 DEF Goes, Idle
<1> QED BY <1>9, <1>10

\* CREATE TABLE: the .meta file, then an empty .data file.
LEMMA CreateTurns ==
  ASSUME Sound, Turns, TakingTurns, NEW w \in Workers, CreateCheck(w) \/ CreateMeta(w) \/ CreateData(w)
  PROVE  Goes(w) \/ Finishes(w)
<1>1. /\ pc[w] \in {"start", "createMeta", "createData"} /\ pc[w] # Idle /\ UNCHANGED before
      /\ pc[w] = "start" => stmt[w].kind = "create"
  BY DEF CreateCheck, CreateMeta, CreateData, Idle
<1>2. PICK t, T, s : t = Table(w) /\ T = Found(w) /\ s = stmt[w]
  OBVIOUS
<1>3. /\ s.kind = "create" /\ t \in Names
      /\ pc[w] \in {"start", "createMeta"} => AsFound(w)
      /\ pc[w] \in {"createMeta", "createData"} => T = NoFile /\ def[w] = Columns
      /\ pc[w] = "createData" => meta[t] = Columns
  BY <1>1, <1>2, InTurn, KindsByStage DEF Turn, Idle
<1>4. CASE CreateCheck(w)
  <2>1. pc[w] = "start" /\ UNCHANGED <<meta, data>>
    BY <1>4 DEF CreateCheck, files
  <2>2. Hold(t, T)
    BY <1>1, <1>2, <1>3, <2>1, InTurn DEF AsFound
  <2>3. CASE meta[t] # NoFile
    <3>1. Leave(w)
      BY <1>2, <1>4, <2>3 DEF CreateCheck, Fail
    <3> QED BY <1>3, <2>1, <3>1, LeaveIdle, FinishesAsFound
  <2>4. CASE meta[t] = NoFile
    <3>1. def' = [def EXCEPT ![w] = Columns] /\ Goto(w, "createMeta") /\ UNCHANGED stmt
      BY <1>2, <1>4, <2>4 DEF CreateCheck
    <3>2. def'[w] = Columns /\ pc'[w] = "createMeta" /\ stmt'[w] = s /\ T = NoFile
      BY <1>2, <2>2, <2>4, <3>1, Domains, HeldTable DEF Goto
    <3>3. Table(w)' = t /\ Found(w)' = T /\ AsFound(w)'
      BY <1>1, <1>2, <1>3, <2>1, <3>2, SameStatement, AsFoundStays
    <3>4. Turn(w)'
      BY <3>2, <3>3 DEF Turn, Idle
    <3> QED BY <1>2, <3>2, <3>4 DEF Goes, Idle
  <2> QED BY <2>3, <2>4
<1>5. CASE CreateMeta(w)
  <2>1. pc[w] = "createMeta" /\ meta' = [meta EXCEPT ![t] = def[w]] /\ Goto(w, "createData") /\ UNCHANGED <<stmt, def>>
    BY <1>2, <1>5 DEF CreateMeta
  <2>2. meta'[t] = Columns /\ pc'[w] = "createData" /\ stmt'[w] = s /\ def'[w] = Columns /\ T = NoFile
    BY <1>2, <1>3, <2>1, Domains DEF Goto
  <2>3. Table(w)' = t /\ Found(w)' = T
    BY <1>1, <1>2, <2>2, SameStatement
  <2>4. Turn(w)'
    BY <2>2, <2>3 DEF Turn, Idle
  <2> QED BY <1>2, <2>2, <2>4 DEF Goes, Idle
<1>6. CASE CreateData(w)
  <2>1. pc[w] = "createData" /\ data' = [data EXCEPT ![t] = Ended(<<>>)] /\ meta' = meta /\ Leave(w)
    BY <1>2, <1>6 DEF CreateData, Succeed
  <2>2. PICK U : U = [cols |-> Columns, rows |-> <<>>]
    OBVIOUS
  <2>3. IsTable(U) /\ U # NoFile /\ U.cols = Columns /\ U.rows = <<>>
    <3>1. IsTable(U)
      BY <2>2, ColumnsAssumption, NoRows, IsTableIf
    <3> QED BY <2>2, <3>1 DEF TakingTurns
  <2>4. data'[t] # NoFile /\ data'[t].lines = <<>> /\ meta'[t] = Columns
    BY <1>3, <2>1, Domains, NoRows, EndedFile DEF Ended, TakingTurns
  <2>5. Hold(t, U)'
    BY <2>3, <2>4 DEF Hold
  <2>6. Makes(s, T, U)
    BY <1>3, <2>1, <2>2 DEF Makes
  <2> QED BY <1>1, <1>2, <1>3, <2>1, <2>5, <2>6, LeaveIdle, FinishesTable
<1> QED BY <1>4, <1>5, <1>6

\* DROP TABLE: both files.
LEMMA DropTurns ==
  ASSUME Sound, Turns, TakingTurns, NEW w \in Workers, DropMeta(w) \/ DropData(w)
  PROVE  Goes(w) \/ Finishes(w)
<1>1. /\ pc[w] \in {"start", "dropData"} /\ pc[w] # Idle /\ UNCHANGED before
      /\ pc[w] = "start" => stmt[w].kind = "drop"
  BY DEF DropMeta, DropData, Idle
<1>2. PICK t, T, s : t = Table(w) /\ T = Found(w) /\ s = stmt[w]
  OBVIOUS
<1>3. /\ s.kind = "drop" /\ t \in Names
      /\ pc[w] = "start" => AsFound(w)
      /\ pc[w] = "dropData" => IsTable(T) /\ meta[t] = NoFile
  BY <1>1, <1>2, InTurn, KindsByStage DEF Turn, Idle
<1>4. CASE DropMeta(w)
  <2>1. pc[w] = "start" /\ data' = data
    BY <1>4 DEF DropMeta
  <2>2. Hold(t, T)
    BY <1>1, <1>2, <1>3, <2>1, InTurn DEF AsFound
  <2>3. CASE meta[t] = NoFile
    <3>1. Leave(w) /\ meta' = meta
      BY <1>2, <1>4, <2>3 DEF DropMeta, Fail
    <3> QED BY <1>3, <2>1, <3>1, LeaveIdle, FinishesAsFound
  <2>4. CASE meta[t] # NoFile
    <3>1. meta' = [meta EXCEPT ![t] = NoFile] /\ Goto(w, "dropData") /\ UNCHANGED stmt
      BY <1>2, <1>4, <2>4 DEF DropMeta
    <3>2. meta'[t] = NoFile /\ pc'[w] = "dropData" /\ stmt'[w] = s /\ IsTable(T)
      BY <1>2, <1>3, <2>2, <2>4, <3>1, Domains, HeldTable DEF Goto
    <3>3. Table(w)' = t /\ Found(w)' = T
      BY <1>1, <1>2, <3>2, SameStatement
    <3>4. Turn(w)'
      BY <3>2, <3>3 DEF Turn, Idle
    <3> QED BY <1>2, <3>2, <3>4 DEF Goes, Idle
  <2> QED BY <2>3, <2>4
<1>5. CASE DropData(w)
  <2>1. pc[w] = "dropData" /\ data' = [data EXCEPT ![t] = NoFile] /\ meta' = meta /\ Leave(w)
    BY <1>2, <1>5 DEF DropData, Succeed
  <2>2. data'[t] = NoFile /\ meta'[t] = NoFile
    BY <1>3, <2>1, Domains
  <2>3. Hold(t, NoFile)'
    BY <2>2 DEF Hold
  <2>4. Makes(s, T, NoFile)
    BY <1>3, <2>1 DEF Makes, TakingTurns
  <2> QED BY <1>1, <1>2, <1>3, <2>1, <2>3, <2>4, LeaveIdle, FinishesTable
<1> QED BY <1>4, <1>5

\* ALTER TABLE: the .meta file, then the lines of the .data file.
LEMMA AlterTurns ==
  ASSUME Sound, Turns, TakingTurns, NEW w \in Workers, AlterMeta(w) \/ AlterRead(w) \/ AlterWrite(w)
  PROVE  Goes(w) \/ Finishes(w)
<1>1. pc[w] \in {"alterMeta", "alterRead", "alterWrite"} /\ pc[w] # Idle /\ UNCHANGED before
  BY DEF AlterMeta, AlterRead, AlterWrite, Idle
<1>2. PICK t, T, s : t = Table(w) /\ T = Found(w) /\ s = stmt[w]
  OBVIOUS
<1>3. /\ s.kind \in {"add", "dropcol"} /\ t \in Names /\ IsTable(T) /\ T # NoFile /\ def[w] = T.cols
      /\ pc[w] = "alterMeta" => AsFound(w)
      /\ pc[w] \in {"alterRead", "alterWrite"} => meta[t] = NewColumns(w)
      /\ pc[w] = "alterRead" => data[t] # NoFile /\ data[t].lines = T.rows
      /\ pc[w] = "alterWrite" => content[w] = T.rows
  BY <1>1, <1>2, InTurn, KindsByStage DEF Turn, Idle, TakingTurns, Lines
<1>4. MayAlter(s, T.cols)
  BY <1>1, <1>2, <1>3, BusySound
<1>5. PICK U, cols, rows : /\ U = Altered(s, T) /\ cols = NewColumns(w)
                           /\ rows = [i \in DOMAIN T.rows |-> NewLine(w, T.rows[i])]
  OBVIOUS
<1>6. U = [cols |-> cols, rows |-> rows] /\ AreColumns(cols)
      /\ \A i \in DOMAIN T.rows : Len(NewLine(w, T.rows[i])) <= Len(cols)
  <2>1. AreColumns(T.cols)
    BY <1>3, TableProperties
  <2>2. AreColumns(cols)
    BY <1>2, <1>3, <1>4, <1>5, <2>1, NewColumnsAreColumns
  <2> QED BY <1>2, <1>3, <1>4, <1>5, <2>2, AlterEnds
<1>7. Makes(s, T, U)
  BY <1>3, <1>4, <1>5 DEF Makes
<1>8. AreRows(rows) => IsTable(U) /\ U # NoFile /\ U.cols = cols /\ U.rows = rows
  <2> SUFFICES ASSUME AreRows(rows) PROVE IsTable(U)
    BY <1>6 DEF TakingTurns
  <2>1. \A i \in DOMAIN rows : Len(rows[i]) <= Len(cols)
    BY <1>5, <1>6
  <2> QED BY <1>6, <2>1, IsTableIf
<1>9. CASE AlterMeta(w)
  <2>1. /\ pc[w] = "alterMeta" /\ meta' = [meta EXCEPT ![t] = cols] /\ data' = data
        /\ Goto(w, "alterRead") /\ UNCHANGED <<stmt, def>>
    BY <1>2, <1>5, <1>9 DEF AlterMeta
  <2>2. meta'[t] = cols /\ pc'[w] = "alterRead" /\ stmt'[w] = s /\ def'[w] = def[w]
    BY <1>2, <1>3, <2>1, Domains DEF Goto
  <2>3. Table(w)' = t /\ Found(w)' = T
    BY <1>1, <1>2, <2>2, SameStatement
  <2>4. data'[t] # NoFile /\ Lines(w)' = T.rows
    <3>1. Hold(t, T)
      BY <1>1, <1>2, <1>3, <2>1, InTurn DEF AsFound
    <3> QED BY <1>3, <2>1, <2>3, <3>1 DEF Hold, Lines
  <2>5. NewColumns(w)' = cols
    BY <1>2, <1>5, <2>2 DEF NewColumns
  <2>6. Turn(w)'
    BY <1>3, <2>2, <2>3, <2>4, <2>5 DEF Turn, Idle
  <2> QED BY <1>2, <2>2, <2>6 DEF Goes, Idle
<1>10. CASE AlterRead(w)
  <2>1. pc[w] = "alterRead" /\ UNCHANGED <<meta, data>>
    BY <1>10 DEF AlterRead, files
  <2>2. CASE data[t] = Ended(<<>>)
    <3>1. Leave(w)
      BY <1>2, <1>10, <2>2 DEF AlterRead, Succeed
    <3>2. T.rows = <<>>
      BY <1>3, <2>1, <2>2 DEF Ended
    <3>3. rows = <<>>
      <4>1. DOMAIN T.rows = {}
        BY <3>2
      <4> QED BY <1>5, <4>1
    <3>4. Hold(t, U)'
      BY <1>3, <1>5, <1>8, <2>1, <3>2, <3>3, NoRows DEF Hold
    <3> QED BY <1>1, <1>2, <1>3, <1>7, <3>1, <3>4, LeaveIdle, FinishesTable
  <2>3. CASE data[t] # Ended(<<>>)
    <3>1. content' = [content EXCEPT ![w] = T.rows] /\ Goto(w, "alterWrite") /\ UNCHANGED <<stmt, def>>
      BY <1>2, <1>3, <1>10, <2>1, <2>3 DEF AlterRead
    <3>2. content'[w] = T.rows /\ pc'[w] = "alterWrite" /\ stmt'[w] = s /\ def'[w] = def[w]
      BY <1>2, <3>1, Domains DEF Goto
    <3>3. Table(w)' = t /\ Found(w)' = T
      BY <1>1, <1>2, <3>2, SameStatement
    <3>4. NewColumns(w)' = cols /\ meta'[t] = cols
      BY <1>2, <1>3, <1>5, <2>1, <3>2 DEF NewColumns
    <3>5. Turn(w)'
      BY <1>3, <3>2, <3>3, <3>4 DEF Turn, Idle
    <3> QED BY <1>2, <3>2, <3>5 DEF Goes, Idle
  <2> QED BY <2>2, <2>3
<1>11. CASE AlterWrite(w)
  <2>1. /\ pc[w] = "alterWrite" /\ meta' = meta /\ Leave(w)
        /\ data' = [data EXCEPT ![t] = [lines |-> rows, ended |-> FALSE]]
    <3>1. NewLines(w) = rows
      BY <1>3, <1>5, <1>11 DEF AlterWrite, NewLines
    <3> QED BY <1>2, <1>11, <3>1 DEF AlterWrite, Succeed
  <2>2. AreRows(rows) /\ rows # <<>>
    <3>1. content[w] # <<>> /\ AreRows(content[w]) /\ AreColumns(def[w]) /\ MayAlter(stmt[w], def[w])
      BY <1>1, <2>1, BusySound
    <3>2. NewLines(w) = rows
      BY <1>3, <1>5, <2>1 DEF NewLines
    <3> QED BY <1>2, <1>3, <3>1, <3>2, NewLinesAreRows
  <2>3. data'[t] = [lines |-> rows, ended |-> FALSE] /\ data'[t] # NoFile /\ meta'[t] = cols
    <3>1. data'[t] = [lines |-> rows, ended |-> FALSE]
      BY <1>3, <2>1, Domains
    <3> QED BY <1>3, <1>5, <2>1, <2>2, <3>1, OpenFile DEF TakingTurns
  <2>4. Hold(t, U)'
    BY <1>8, <2>2, <2>3 DEF Hold
  <2> QED BY <1>1, <1>2, <1>3, <1>7, <2>1, <2>4, LeaveIdle, FinishesTable
<1> QED BY <1>9, <1>10, <1>11

\* RENAME: the new .meta file, the .data file, the old .meta file.
LEMMA RenameTurns ==
  ASSUME Sound, Turns, TakingTurns, NEW w \in Workers,
         RenameCheck(w) \/ RenameMeta(w) \/ RenameData(w) \/ RenameDone(w)
  PROVE  Goes(w) \/ Finishes(w)
<1>1. pc[w] \in {"renameCheck", "renameMeta", "renameData", "renameDone"} /\ pc[w] # Idle /\ UNCHANGED before
  BY DEF RenameCheck, RenameMeta, RenameData, RenameDone, Idle
<1>2. PICK t, T, s, to : t = Table(w) /\ T = Found(w) /\ s = stmt[w] /\ to = s.to
  OBVIOUS
<1>3. /\ s.kind = "rename" /\ t \in Names /\ to \in Names /\ IsTable(T) /\ T # NoFile /\ def[w] = T.cols
      /\ t = s.table /\ T = before[w][t] /\ TablesOf(s) = {t, to} /\ DOMAIN before[w] = Names
      /\ pc[w] \in {"renameCheck", "renameMeta"} => AsFound(w)
      /\ pc[w] # "renameCheck" => to # t /\ before[w][to] = NoFile
      /\ pc[w] \in {"renameData", "renameDone"} => meta[to] = T.cols
      /\ pc[w] = "renameData" => data[to] = NoFile /\ data[t] # NoFile /\ data[t].lines = T.rows
      /\ pc[w] = "renameDone" => data[t] = NoFile /\ data[to] # NoFile /\ data[to].lines = T.rows
  <2>1. s.kind = "rename" /\ t \in Names /\ to \in Names /\ DOMAIN before[w] = Names /\ T = before[w][t]
    BY <1>1, <1>2, InTurn, KindsByStage
  <2>2. t = s.table /\ TablesOf(s) = {t, to}
    BY <1>2, <2>1 DEF TablesOf, Table
  <2>3. Turn(w)
    BY <1>1, InTurn
  <2>4. /\ IsTable(Found(w)) /\ def[w] = Found(w).cols
        /\ pc[w] \in {"renameCheck", "renameMeta"} => AsFound(w)
        /\ pc[w] # "renameCheck" => stmt[w].to # Table(w) /\ before[w][stmt[w].to] = NoFile
        /\ pc[w] \in {"renameData", "renameDone"} => meta[stmt[w].to] = def[w]
    BY <1>1, <2>3 DEF Turn, Idle
  <2>5. /\ pc[w] = "renameData" => /\ data[stmt[w].to] = NoFile
                                  /\ data[Table(w)] # NoFile /\ Lines(w) = Found(w).rows
        /\ pc[w] = "renameDone" => /\ data[Table(w)] = NoFile /\ data[stmt[w].to] # NoFile
                                  /\ data[stmt[w].to].lines = Found(w).rows
    BY <1>1, <2>3 DEF Turn, Idle
  <2>6. Lines(w) = data[t].lines /\ T # NoFile
    BY <1>2, <2>4 DEF Lines, TakingTurns
  <2> QED BY <1>2, <2>1, <2>2, <2>4, <2>5, <2>6
<1>4. AsFound(w) => Hold(t, T) /\ Hold(to, before[w][to])
  BY <1>2, <1>3 DEF AsFound
<1>5. CASE RenameCheck(w)
  <2>1. pc[w] = "renameCheck" /\ UNCHANGED <<meta, data>>
    BY <1>5 DEF RenameCheck, files
  <2>2. CASE meta[to] # NoFile
    <3>1. Leave(w)
      BY <1>2, <1>5, <2>2 DEF RenameCheck, Fail
    <3> QED BY <1>3, <2>1, <3>1, LeaveIdle, FinishesAsFound
  <2>3. CASE meta[to] = NoFile
    <3>1. Goto(w, "renameMeta") /\ UNCHANGED <<stmt, def>>
      BY <1>2, <1>5, <2>3 DEF RenameCheck
    <3>2. pc'[w] = "renameMeta" /\ stmt'[w] = s /\ def'[w] = T.cols
      BY <1>2, <1>3, <3>1, Domains DEF Goto
    <3>3. Table(w)' = t /\ Found(w)' = T /\ AsFound(w)'
      BY <1>1, <1>2, <1>3, <2>1, <3>2, SameStatement, AsFoundStays
    <3>4. meta[t] # NoFile
      BY <1>3, <1>4, <2>1, HeldTable
    <3>5. to # t /\ before'[w][to] = NoFile
      BY <1>1, <1>3, <1>4, <2>1, <2>3, <3>4, HeldTable
    <3>6. Turn(w)'
      BY <1>2, <1>3, <3>2, <3>3, <3>5 DEF Turn, Idle
    <3> QED BY <1>2, <3>2, <3>6 DEF Goes, Idle
  <2> QED BY <2>2, <2>3
<1>6. CASE RenameMeta(w)
  <2>1. /\ pc[w] = "renameMeta" /\ meta' = [meta EXCEPT ![to] = T.cols] /\ data' = data
        /\ Goto(w, "renameData") /\ UNCHANGED <<stmt, def>>
    BY <1>2, <1>3, <1>6 DEF RenameMeta
  <2>2. pc'[w] = "renameData" /\ stmt'[w] = s /\ def'[w] = T.cols /\ meta'[to] = T.cols
    BY <1>2, <1>3, <2>1, Domains DEF Goto
  <2>3. Table(w)' = t /\ Found(w)' = T
    BY <1>1, <1>2, <2>2, SameStatement
  <2>4. data'[to] = NoFile /\ data'[t] # NoFile /\ Lines(w)' = T.rows /\ to # t /\ before'[w][to] = NoFile
    <3>1. data[to] = NoFile /\ data[t] # NoFile /\ data[t].lines = T.rows
      BY <1>3, <1>4, <2>1 DEF Hold
    <3> QED BY <1>1, <1>3, <2>1, <2>3, <3>1 DEF Lines
  <2>5. Turn(w)'
    BY <1>2, <1>3, <2>2, <2>3, <2>4 DEF Turn, Idle
  <2> QED BY <1>2, <2>2, <2>5 DEF Goes, Idle
<1>7. CASE RenameData(w)
  <2>1. /\ pc[w] = "renameData" /\ meta' = meta /\ Goto(w, "renameDone") /\ UNCHANGED <<stmt, def>>
    BY <1>7 DEF RenameData
  <2>2. data' = [data EXCEPT ![to] = data[t], ![t] = NoFile]
    BY <1>2, <1>3, <1>7, <2>1 DEF RenameData
  <2>3. data'[t] = NoFile /\ data'[to] = data[t]
    BY <1>3, <2>1, <2>2, Domains
  <2>4. pc'[w] = "renameDone" /\ stmt'[w] = s /\ def'[w] = T.cols
    BY <1>2, <1>3, <2>1, Domains DEF Goto
  <2>5. Table(w)' = t /\ Found(w)' = T
    BY <1>1, <1>2, <2>4, SameStatement
  <2>6. data'[to] # NoFile /\ data'[to].lines = T.rows /\ meta'[to] = T.cols /\ to # t /\ before'[w][to] = NoFile
    BY <1>1, <1>3, <2>1, <2>3
  <2>7. Turn(w)'
    BY <1>2, <1>3, <2>3, <2>4, <2>5, <2>6 DEF Turn, Idle
  <2> QED BY <1>2, <2>4, <2>7 DEF Goes, Idle
<1>8. CASE RenameDone(w)
  <2>1. pc[w] = "renameDone" /\ meta' = [meta EXCEPT ![t] = NoFile] /\ data' = data /\ Leave(w)
    BY <1>2, <1>8 DEF RenameDone, Succeed
  <2>2. PICK new : new = [before[w] EXCEPT ![to] = T, ![t] = NoFile]
    OBVIOUS
  <2>3. new[to] = T /\ new[t] = NoFile
    BY <1>3, <2>1, <2>2
  <2>4. meta'[t] = NoFile /\ data'[t] = NoFile /\ meta'[to] = T.cols /\ data'[to] # NoFile /\ data'[to].lines = T.rows
    BY <1>3, <2>1, Domains
  <2>5. Hold(t, new[t])' /\ Hold(to, new[to])'
    BY <1>3, <2>3, <2>4 DEF Hold
  <2>6. Results(s, before[w], new)
    BY <1>2, <1>3, <2>1, <2>2 DEF Results
  <2>7. \A u \in TablesOf(stmt[w]) : Hold(u, new[u])'
    BY <1>2, <1>3, <2>5
  <2>8. pc'[w] = Idle
    BY <2>1, LeaveIdle
  <2> QED BY <1>2, <2>6, <2>7, <2>8 DEF Finishes
<1> QED BY <1>5, <1>6, <1>7, <1>8

\* The checks of foreign keys are not reached.
LEMMA StepTurns ==
  ASSUME Sound, Turns, TakingTurns, NEW w \in Workers, Step(w)
  PROVE  Goes(w) \/ Finishes(w)
<1>1. ~CheckDef(w) /\ ~CheckLoad(w) /\ ~CheckData(w)
  <2>1. Turn(w)
    BY DEF Turns
  <2> QED BY <2>1 DEF Turn, CheckDef, CheckLoad, CheckData
<1> QED BY <1>1, ReadDefTurns, InsertRowTurns, LoadDefTurns, LoadDataTurns, LoadAgainTurns, RewriteTurns,
       CreateTurns, DropTurns, AlterTurns, RenameTurns DEF Step
-----------------------------------------------------------------------------
(* Statements on different tables leave each other alone                   *)

\* A step of one worker leaves the locals of the others alone.
LEMMA StepFrame ==
  ASSUME Sound, NEW w \in Workers, Step(w)
  PROVE  /\ pc[w] # Idle /\ UNCHANGED before
         /\ \A v \in Workers \ {w} : /\ pc'[v] = pc[v] /\ stmt'[v] = stmt[v] /\ plan'[v] = plan[v]
                                    /\ def'[v] = def[v] /\ content'[v] = content[v]
<1>1. pc[w] # Idle /\ UNCHANGED before
  BY DEF Step, ReadDef, InsertRow, CheckDef, CheckLoad, CheckData, LoadDef, LoadData,
         LoadAgain, Rewrite, CreateCheck, CreateMeta, CreateData, DropMeta, DropData,
         AlterMeta, AlterRead, AlterWrite, RenameCheck, RenameMeta, RenameData, RenameDone, Idle
<1>2. \/ Leave(w)
      \/ /\ UNCHANGED def \/ \E d : def' = [def EXCEPT ![w] = d]
         /\ UNCHANGED content \/ \E c : content' = [content EXCEPT ![w] = c]
  <2>1. CASE Leave(w)
    BY <2>1
  <2>2. CASE ~Leave(w)
    <3>1. UNCHANGED def \/ \E d : def' = [def EXCEPT ![w] = d]
      BY <2>2 DEF Succeed, Fail, Step, ReadDef, InsertRow, CheckDef, CheckLoad, CheckData, LoadDef, LoadData,
         LoadAgain, Rewrite, CreateCheck, CreateMeta, CreateData, DropMeta, DropData,
         AlterMeta, AlterRead, AlterWrite, RenameCheck, RenameMeta, RenameData, RenameDone
    <3>2. UNCHANGED content \/ \E c : content' = [content EXCEPT ![w] = c]
      BY <2>2 DEF Succeed, Fail, Step, ReadDef, InsertRow, CheckDef, CheckLoad, CheckData, LoadDef, LoadData,
         LoadAgain, Rewrite, CreateCheck, CreateMeta, CreateData, DropMeta, DropData,
         AlterMeta, AlterRead, AlterWrite, RenameCheck, RenameMeta, RenameData, RenameDone
    <3> QED BY <3>1, <3>2
  <2> QED BY <2>1, <2>2
<1>3. \A v \in Workers \ {w} : def'[v] = def[v] /\ content'[v] = content[v]
  <2>1. CASE Leave(w)
    BY <2>1, Domains DEF Leave
  <2>2. CASE ~Leave(w)
    BY <1>2, <2>2, Domains
  <2> QED BY <2>1, <2>2
<1> QED BY <1>1, <1>3, StepOthers

\* A worker is as far as it was while nobody touches its tables.
LEMMA TurnKept ==
  ASSUME Sound, NEW v \in Workers, Turn(v), pc'[v] = pc[v], stmt'[v] = stmt[v], def'[v] = def[v],
         content'[v] = content[v], plan'[v] = plan[v], before'[v] = before[v],
         \A t \in TablesOf(stmt[v]) : meta'[t] = meta[t] /\ data'[t] = data[t]
  PROVE  Turn(v)'
<1>1. CASE pc[v] = Idle
  BY <1>1 DEF Turn, Idle
<1>2. CASE pc[v] # Idle
  <2>1. PICK t, to : t = Table(v) /\ to = stmt[v].to
    OBVIOUS
  <2>2. meta'[t] = meta[t] /\ data'[t] = data[t]
    BY <2>1 DEF TablesOf, Table
  <2>3. pc[v] \in {"renameMeta", "renameData", "renameDone"} => meta'[to] = meta[to] /\ data'[to] = data[to]
    <3>1. pc[v] \in {"renameMeta", "renameData", "renameDone"} => stmt[v].kind = "rename"
      BY <1>2, BusySound, KindsByStage
    <3> QED BY <2>1, <3>1 DEF TablesOf
  <2>4. Table(v)' = t /\ Found(v)' = Found(v)
    BY <2>1 DEF Table, Found
  <2>5. Lines(v)' = Lines(v) /\ NewColumns(v)' = NewColumns(v) /\ stmt'[v].to = to
    BY <2>1, <2>2, <2>4 DEF Lines, NewColumns
  <2>6. AsFound(v) => AsFound(v)'
    BY DEF AsFound, Hold
  <2>7. Appending(v) => Appending(v)'
    BY <2>4, <2>5 DEF Appending
  <2>8. /\ pc[v] \notin {"checkDef", "checkLoad", "checkData"}
        /\ pc[v] \in {"start", "loadDef", "loadData", "createMeta", "alterMeta", "renameCheck", "renameMeta"} =>
             AsFound(v)
        /\ pc[v] \notin {Idle, "start", "createMeta", "createData"} => IsTable(Found(v))
        /\ pc[v] \notin {Idle, "start", "createMeta", "createData", "dropData"} => def[v] = Found(v).cols
        /\ pc[v] \in {"createMeta", "createData"} => Found(v) = NoFile /\ def[v] = Columns
        /\ pc[v] = "createData" => meta[t] = Columns
        /\ pc[v] = "dropData" => meta[t] = NoFile
        /\ pc[v] \in {"append", "againDef", "againData", "rewrite"} =>
             meta[t] = Found(v).cols /\ data[t] # NoFile
        /\ pc[v] = "append" => Appending(v)
        /\ pc[v] \in {"againDef", "againData", "rewrite"} =>
             IF stmt[v].kind = "update" THEN UpdateDone(Found(v), stmt[v], plan[v], Lines(v))
             ELSE DeleteDone(Found(v), stmt[v], plan[v], Lines(v))
        /\ pc[v] \in {"loadData", "againData"} => content[v] = Found(v).cols
        /\ pc[v] = "rewrite" => content[v] = Lines(v)
        /\ pc[v] \in {"alterRead", "alterWrite"} => meta[t] = NewColumns(v)
        /\ pc[v] = "alterRead" => data[t] # NoFile /\ Lines(v) = Found(v).rows
        /\ pc[v] = "alterWrite" => content[v] = Found(v).rows
        /\ pc[v] \in {"renameMeta", "renameData", "renameDone"} => to # t /\ before[v][to] = NoFile
        /\ pc[v] \in {"renameData", "renameDone"} => meta[to] = def[v]
        /\ pc[v] = "renameData" => data[to] = NoFile /\ data[t] # NoFile /\ Lines(v) = Found(v).rows
        /\ pc[v] = "renameDone" => data[t] = NoFile /\ data[to] # NoFile /\ data[to].lines = Found(v).rows
    BY <2>1 DEF Turn
  <2> QED BY <2>2, <2>3, <2>4, <2>5, <2>6, <2>7, <2>8 DEF Turn
<1> QED BY <1>1, <1>2

\* Who uses a table after a step.
LEMMA StepUses ==
  ASSUME Sound, NEW w \in Workers, Step(w), Goes(w) \/ Finishes(w), NEW t
  PROVE  /\ \A v \in Workers \ {w} : Uses(v, t)' <=> Uses(v, t)
         /\ Uses(w, t) <=> t \in TablesOf(stmt[w])
         /\ Uses(w, t)' => Uses(w, t)
         /\ Goes(w) => (Uses(w, t)' <=> Uses(w, t))
         /\ Finishes(w) => ~Uses(w, t)'
<1>1. pc[w] # Idle /\ \A v \in Workers \ {w} : pc'[v] = pc[v] /\ stmt'[v] = stmt[v]
  BY StepFrame
<1>2. Goes(w) => pc'[w] # Idle /\ stmt'[w] = stmt[w]
  BY DEF Goes
<1>3. Finishes(w) => pc'[w] = Idle
  BY DEF Finishes
<1> QED BY <1>1, <1>2, <1>3 DEF Uses

\* A step touches no table that another worker uses.
LEMMA OthersTurn ==
  ASSUME Sound, Turns, TakingTurns, NEW w \in Workers, Step(w), NEW v \in Workers \ {w}
  PROVE  Turn(v)'
<1>1. Turn(v)
  BY DEF Turns
<1>2. /\ pc'[v] = pc[v] /\ stmt'[v] = stmt[v] /\ plan'[v] = plan[v]
      /\ def'[v] = def[v] /\ content'[v] = content[v] /\ before'[v] = before[v]
  BY StepFrame
<1>3. CASE pc[v] = Idle
  BY <1>2, <1>3 DEF Turn, Idle
<1>4. CASE pc[v] # Idle
  <2>1. ASSUME NEW t \in TablesOf(stmt[v]) PROVE meta'[t] = meta[t] /\ data'[t] = data[t]
    <3>1. t \in Names
      BY <1>4, InTurn DEF TablesOf, Table
    <3>2. Uses(v, t)
      BY <1>4 DEF Uses
    <3>3. t \notin TablesOf(stmt[w])
      <4>1. pc[w] # Idle
        BY StepFrame
      <4> QED BY <3>1, <3>2, <4>1 DEF Turns, OneUser, Uses
    <3> QED BY <3>1, <3>3, StepTouches
  <2> QED BY <1>1, <1>2, <2>1, TurnKept
<1> QED BY <1>3, <1>4

\* The tables that INSERT adds to stay fit for it.
LEMMA StepReady ==
  ASSUME Sound, Turns, TakingTurns, NEW w \in Workers, Step(w)
  PROVE  Ready'
<1> SUFFICES ASSUME NEW s \in Inserts
             PROVE  /\ data'[s.table] # NoFile => data'[s.table].ended
                    /\ meta'[s.table] # NoFile => Fit(s.rows, meta'[s.table])
  BY DEF Ready
<1>1. PICK t, u : t = s.table /\ u = Table(w)
  OBVIOUS
<1>2. /\ t \in Names /\ u \in Names /\ pc[w] # Idle
      /\ data[t] # NoFile => data[t].ended
      /\ meta[t] # NoFile => Fit(s.rows, meta[t])
      /\ Fit(s.rows, Columns)
      /\ stmt[w].kind \in {"add", "dropcol"} => u # t
      /\ stmt[w].kind = "rename" => stmt[w].to # t
  <2>1. pc[w] # Idle
    BY StepFrame
  <2>2. u \in Names /\ stmt[w] \in Statements /\ u = stmt[w].table
    BY <1>1, <2>1, InTurn DEF Table
  <2>3. t \in Names
    BY <1>1, StatementsAssumption DEF Inserts
  <2>4. (data[t] # NoFile => data[t].ended) /\ (meta[t] # NoFile => Fit(s.rows, meta[t]))
    BY <1>1 DEF Turns, Ready
  <2>5. Fit(s.rows, Columns)
    BY DEF TakingTurns
  <2>6. (stmt[w].kind \in {"add", "dropcol"} => u # t) /\ (stmt[w].kind = "rename" => stmt[w].to # t)
    BY <1>1, <2>2 DEF TakingTurns
  <2> QED BY <2>1, <2>2, <2>3, <2>4, <2>5, <2>6
<1>3. /\ AlterMeta(w) \/ AlterWrite(w) => u # t
      /\ RenameMeta(w) \/ RenameData(w) => stmt[w].to # t
      /\ CreateMeta(w) => def[w] = Columns
  <2>1. /\ AlterMeta(w) \/ AlterWrite(w) => pc[w] \in {"alterMeta", "alterWrite"}
        /\ RenameMeta(w) \/ RenameData(w) => pc[w] \in {"renameMeta", "renameData"}
        /\ CreateMeta(w) => pc[w] = "createMeta"
    BY DEF AlterMeta, AlterWrite, RenameMeta, RenameData, CreateMeta
  <2>2. /\ AlterMeta(w) \/ AlterWrite(w) => stmt[w].kind \in {"add", "dropcol"}
        /\ RenameMeta(w) \/ RenameData(w) => stmt[w].kind = "rename"
    BY <1>2, <2>1, InTurn, KindsByStage
  <2>3. CreateMeta(w) => def[w] = Columns
    BY <1>2, <2>1, InTurn DEF Turn
  <2> QED BY <1>2, <2>2, <2>3
<1>4. data'[t] = data[t] \/ data'[t] = NoFile \/ data'[t].ended
  <2>1. CASE ReadDef(w) \/ CheckDef(w) \/ CheckLoad(w) \/ CheckData(w) \/ LoadDef(w) \/ LoadData(w) \/ LoadAgain(w)
             \/ CreateCheck(w) \/ CreateMeta(w) \/ DropMeta(w) \/ AlterMeta(w) \/ AlterRead(w)
             \/ RenameCheck(w) \/ RenameMeta(w) \/ RenameDone(w)
    BY <2>1 DEF ReadDef, CheckDef, CheckLoad, CheckData, LoadDef, LoadData, LoadAgain, CreateCheck, CreateMeta,
       DropMeta, AlterMeta, AlterRead, RenameCheck, RenameMeta, RenameDone, files
  <2>2. CASE InsertRow(w)
    <3>1. \E lines : AppendRow(data[u], Head(plan[w])) = Ended(lines)
      BY DEF AppendRow
    <3>2. data' = data \/ data' = [data EXCEPT ![u] = AppendRow(data[u], Head(plan[w]))]
      BY <1>1, <2>2 DEF InsertRow
    <3> QED BY <1>2, <3>1, <3>2, Domains DEF Ended
  <2>3. CASE Rewrite(w) \/ CreateData(w) \/ DropData(w)
    <3>1. data' = [data EXCEPT ![u] = NoFile] \/ \E lines : data' = [data EXCEPT ![u] = Ended(lines)]
      BY <1>1, <2>3 DEF Rewrite, Rewritten, CreateData, DropData
    <3> QED BY <1>2, <3>1, Domains DEF Ended
  <2>4. CASE AlterWrite(w)
    BY <1>1, <1>2, <1>3, <2>4, Domains DEF AlterWrite
  <2>5. CASE RenameData(w)
    BY <1>1, <1>2, <1>3, <2>5, Domains DEF RenameData
  <2> QED BY <2>1, <2>2, <2>3, <2>4, <2>5 DEF Step
<1>5. meta'[t] = meta[t] \/ meta'[t] = NoFile \/ meta'[t] = Columns
  <2>1. CASE ReadDef(w) \/ CheckDef(w) \/ CheckLoad(w) \/ CheckData(w) \/ LoadDef(w) \/ LoadData(w) \/ LoadAgain(w)
             \/ CreateCheck(w) \/ InsertRow(w) \/ Rewrite(w) \/ CreateData(w) \/ DropData(w) \/ AlterRead(w)
             \/ AlterWrite(w) \/ RenameCheck(w) \/ RenameData(w)
    BY <2>1 DEF ReadDef, CheckDef, CheckLoad, CheckData, LoadDef, LoadData, LoadAgain, CreateCheck, InsertRow,
       Rewrite, CreateData, DropData, AlterRead, AlterWrite, RenameCheck, RenameData, files
  <2>2. CASE CreateMeta(w) \/ DropMeta(w) \/ RenameDone(w)
    BY <1>1, <1>2, <1>3, <2>2, Domains DEF CreateMeta, DropMeta, RenameDone
  <2>3. CASE AlterMeta(w) \/ RenameMeta(w)
    BY <1>1, <1>2, <1>3, <2>3, Domains DEF AlterMeta, RenameMeta
  <2> QED BY <2>1, <2>2, <2>3 DEF Step
<1> QED BY <1>1, <1>2, <1>4, <1>5
-----------------------------------------------------------------------------
(* The tables that the files stand for                                     *)

\* What the files hold is what is read from them.
Viewed == \A t, T : Hold(t, T) => View(t) = T

\* A client that reads the files of a table sees the table they hold.
LEMMA HeldView ==
  TakingTurns => Viewed
<1> SUFFICES ASSUME NEW t, NEW T, TakingTurns, Hold(t, T) PROVE View(t) = T
  BY DEF Viewed
<1>1. CASE T = NoFile
  BY <1>1 DEF Hold, View, Unreadable
<1>2. CASE T # NoFile
  <2>1. IsTable(T) /\ meta[t] = T.cols /\ meta[t] \notin Unreadable /\ data[t] # NoFile /\ data[t].lines = T.rows
    BY <1>2, HeldTable
  <2>2. T = [cols |-> T.cols, rows |-> T.rows] /\ AreRows(T.rows) /\ Fit(T.rows, T.cols)
    BY <2>1, TableProperties
  <2>3. Parse(T.rows, T.cols) = T.rows
    BY <2>2, ParsedAll
  <2> QED BY <2>1, <2>2, <2>3 DEF View
<1> QED BY <1>1, <1>2

\* What Tables is, table by table.
Mapped ==
  \A t \in Names :
    /\ \A w \in Workers : Uses(w, t) => Tables[t] = before[w][t]
    /\ (\A w \in Workers : ~Uses(w, t)) => Tables[t] = View(t)

\* The refinement mapping, without its choice: the table a statement in use found, or
\* the one in the files.
LEMMA MappedTables ==
  OneUser => Mapped
<1> SUFFICES ASSUME OneUser, NEW t \in Names
             PROVE  /\ \A w \in Workers : Uses(w, t) => Tables[t] = before[w][t]
                    /\ (\A w \in Workers : ~Uses(w, t)) => Tables[t] = View(t)
  BY DEF Mapped
<1> DEFINE User == CHOOSE w \in Workers : pc[w] # Idle /\ t \in TablesOf(stmt[w])
<1>1. Tables[t] = IF \E w \in Workers : pc[w] # Idle /\ t \in TablesOf(stmt[w])
                    THEN before[User][t] ELSE View(t)
  BY DEF Tables
<1>2. ASSUME NEW w \in Workers, Uses(w, t) PROVE Tables[t] = before[w][t]
  <2>1. User \in Workers /\ pc[User] # Idle /\ t \in TablesOf(stmt[User])
    BY <1>2 DEF Uses
  <2>2. \E v \in Workers : pc[v] # Idle /\ t \in TablesOf(stmt[v])
    BY <2>1
  <2> HIDE DEF User
  <2>3. User = w
    BY <1>2, <2>1 DEF OneUser, Uses
  <2> QED BY <1>1, <2>2, <2>3
<1>3. ASSUME \A w \in Workers : ~Uses(w, t) PROVE Tables[t] = View(t)
  <2>1. ~ \E w \in Workers : pc[w] # Idle /\ t \in TablesOf(stmt[w])
    BY <1>3 DEF Uses
  <2> HIDE DEF User
  <2> QED BY <1>1, <2>1
<1> QED BY <1>2, <1>3

\* The refinement mapping is a function on the names.
LEMMA TablesIsFunction ==
  Tables = [t \in Names |-> Tables[t]]
BY DEF Tables

\* A statement whose last step this is takes effect as a whole, any other step changes nothing.
StepChanges(w) ==
  \/ Tables' = Tables
  \/ \E new : /\ Results(stmt[w], before[w], new)
              /\ Tables' = [t \in Names |-> IF t \in TablesOf(stmt[w]) THEN new[t] ELSE Tables[t]]
              /\ \A t \in TablesOf(stmt[w]) : Tables[t] = before[w][t]

\* The invariant is kept, and what a step changes of the tables.
LEMMA StepKeepsTurns ==
  ASSUME Sound, Turns, TakingTurns, NEW w \in Workers, Step(w)
  PROVE  Turns' /\ StepChanges(w)
<1>1. Goes(w) \/ Finishes(w)
  BY StepTurns
<1>2. pc[w] # Idle /\ UNCHANGED before /\ TablesOf(stmt[w]) \subseteq Names
  BY StepFrame, InTurn DEF TablesOf, Table
<1>3. OneUser'
  <2> SUFFICES ASSUME NEW u \in Workers, NEW v \in Workers, NEW t \in Names, Uses(u, t)', Uses(v, t)' PROVE u = v
    BY DEF OneUser
  <2>1. Uses(u, t) /\ Uses(v, t)
    BY <1>1, StepUses
  <2> QED BY <2>1 DEF Turns, OneUser
<1>4. \A v \in Workers : Turn(v)'
  <2>1. Turn(w)'
    <3>1. CASE Goes(w)
      BY <3>1 DEF Goes
    <3>2. CASE Finishes(w)
      BY <3>2 DEF Finishes, Turn, Idle
    <3> QED BY <1>1, <3>1, <3>2
  <2> QED BY <2>1, OthersTurn
<1>5. Recorded' /\ Ready'
  BY <1>2, StepReady DEF Turns, Recorded
<1>6. Mapped'
  <2>1. (OneUser => Mapped)'
    BY MappedTables, PTL
  <2> QED BY <1>3, <2>1
<1>7. Viewed'
  <2>1. (TakingTurns => Viewed)'
    BY HeldView, PTL
  <2>2. TakingTurns'
    BY DEF TakingTurns
  <2> QED BY <2>1, <2>2
<1>8. ASSUME NEW t \in Names, t \notin TablesOf(stmt[w])
      PROVE  /\ View(t)' = View(t) /\ Tables'[t] = Tables[t]
             /\ (\A v \in Workers : ~Uses(v, t)') => Hold(t, View(t))'
  <2>1. meta'[t] = meta[t] /\ data'[t] = data[t]
    BY <1>8, StepTouches
  <2>2. View(t)' = View(t)
    BY <2>1 DEF View
  <2>3. \A v \in Workers : Uses(v, t)' <=> Uses(v, t)
    BY <1>1, <1>8, StepUses
  <2>4. Tables'[t] = Tables[t]
    <3>1. Mapped'
      BY <1>6
    <3>2. CASE \E v \in Workers : Uses(v, t)
      <4>1. PICK v \in Workers : Uses(v, t) /\ Uses(v, t)'
        BY <2>3, <3>2
      <4>2. Tables[t] = before[v][t]
        BY <4>1, MappedTables DEF Turns, Mapped
      <4>3. Tables'[t] = before'[v][t]
        BY <3>1, <4>1 DEF Mapped
      <4> QED BY <1>2, <4>2, <4>3
    <3>3. CASE \A v \in Workers : ~Uses(v, t)
      <4>1. Tables[t] = View(t)
        BY <3>3, MappedTables DEF Turns, Mapped
      <4>2. Tables'[t] = View(t)'
        BY <2>3, <3>1, <3>3 DEF Mapped
      <4> QED BY <2>2, <4>1, <4>2
    <3> QED BY <3>2, <3>3
  <2>5. (\A v \in Workers : ~Uses(v, t)') => Hold(t, View(t))'
    <3> SUFFICES ASSUME \A v \in Workers : ~Uses(v, t)' PROVE Hold(t, View(t))'
      OBVIOUS
    <3>1. PICK V : V = View(t)
      OBVIOUS
    <3>2. Hold(t, V)
      BY <2>3, <3>1 DEF Turns, Rest
    <3>3. Hold(t, V)'
      BY <2>1, <3>2 DEF Hold
    <3>4. View(t)' = V
      BY <2>2, <3>1
    <3> QED BY <3>3, <3>4
  <2> QED BY <2>2, <2>4, <2>5
<1>9. ASSUME NEW t \in TablesOf(stmt[w]) PROVE Tables[t] = before[w][t] /\ Uses(w, t) /\ t \in Names
  <2>1. Uses(w, t) /\ t \in Names
    BY <1>1, <1>2, StepUses
  <2> QED BY <2>1, MappedTables DEF Turns, Mapped
<1>10. Tables = [t \in Names |-> Tables[t]] /\ Tables' = [t \in Names |-> Tables'[t]]
  <2>1. (Tables = [t \in Names |-> Tables[t]])'
    BY TablesIsFunction, PTL
  <2> QED BY <2>1, TablesIsFunction
<1>11. CASE Goes(w)
  <2>1. ASSUME NEW t \in TablesOf(stmt[w]) PROVE Uses(w, t)' /\ Tables'[t] = Tables[t]
    <3>1. Uses(w, t)' /\ t \in Names
      BY <1>1, <1>9, <1>11, StepUses
    <3>2. Mapped'
      BY <1>6
    <3>3. Tables'[t] = before'[w][t]
      BY <3>1, <3>2 DEF Mapped
    <3> QED BY <1>2, <1>9, <3>1, <3>3
  <2>2. Rest'
    <3> SUFFICES ASSUME NEW t \in Names, \A v \in Workers : ~Uses(v, t)' PROVE Hold(t, View(t))'
      BY DEF Rest
    <3> QED BY <1>8, <2>1
  <2>3. \A t \in Names : Tables'[t] = Tables[t]
    BY <1>8, <2>1
  <2>4. Tables' = Tables
    BY <1>10, <2>3
  <2> QED BY <1>3, <1>4, <1>5, <2>2, <2>4 DEF Turns, StepChanges
<1>12. CASE Finishes(w)
  <2>1. PICK new : /\ Results(stmt[w], before[w], new)
                   /\ \A t \in TablesOf(stmt[w]) : Hold(t, new[t])'
    BY <1>12 DEF Finishes
  <2>2. ASSUME NEW t \in TablesOf(stmt[w])
        PROVE  Hold(t, View(t))' /\ Tables'[t] = new[t]
    <3>1. PICK V : V = new[t]
      OBVIOUS
    <3>2. Hold(t, V)'
      BY <2>1, <3>1
    <3>3. View(t)' = V
      BY <1>7, <3>2 DEF Viewed
    <3>4. \A v \in Workers : ~Uses(v, t)'
      <4>1. ~Uses(w, t)' /\ \A v \in Workers \ {w} : Uses(v, t)' <=> Uses(v, t)
        BY <1>1, <1>12, StepUses
      <4>2. \A v \in Workers \ {w} : ~Uses(v, t)
        BY <1>9 DEF Turns, OneUser
      <4> QED BY <4>1, <4>2
    <3>5. Tables'[t] = View(t)'
      <4>1. Mapped'
        BY <1>6
      <4> QED BY <1>9, <3>4, <4>1 DEF Mapped
    <3> QED BY <3>1, <3>2, <3>3, <3>5
  <2>3. Rest'
    <3> SUFFICES ASSUME NEW t \in Names, \A v \in Workers : ~Uses(v, t)' PROVE Hold(t, View(t))'
      BY DEF Rest
    <3> QED BY <1>8, <2>2
  <2>4. Tables' = [t \in Names |-> IF t \in TablesOf(stmt[w]) THEN new[t] ELSE Tables[t]]
    <3>1. \A t \in Names : Tables'[t] = IF t \in TablesOf(stmt[w]) THEN new[t] ELSE Tables[t]
      BY <1>8, <2>2
    <3> QED BY <1>10, <3>1
  <2> QED BY <1>3, <1>4, <1>5, <1>9, <2>1, <2>3, <2>4 DEF Turns, StepChanges
<1> QED BY <1>1, <1>11, <1>12

\* A client that takes turns begins with the tables as they are.
LEMMA BeginTurns ==
  ASSUME Sound, Turns, TakingTurns, NEW w \in Workers, NEW s \in Statements, Begin(w, s)
  PROVE  Turns' /\ Tables' = Tables
<1>1. /\ pc[w] = Idle /\ UNCHANGED <<meta, data>>
      /\ \A v \in Workers : pc[v] # Idle => TablesOf(stmt[v]) \cap TablesOf(s) = {}
      /\ stmt' = [stmt EXCEPT ![w] = s] /\ pc' = [pc EXCEPT ![w] = "start"]
      /\ before' = [before EXCEPT ![w] = [t \in Names |-> View(t)]]
      /\ UNCHANGED <<def, content, plan>>
  BY DEF Begin, Goto, files, TakingTurns
<1>2. /\ stmt'[w] = s /\ pc'[w] = "start"
      /\ \A v \in Workers \ {w} : stmt'[v] = stmt[v] /\ pc'[v] = pc[v]
  BY <1>1, Domains
<1>3. /\ before'[w] = [t \in Names |-> View(t)]
      /\ \A v \in Workers \ {w} : before'[v] = before[v]
  BY <1>1 DEF Turns, Recorded
<1>4. ASSUME NEW t \in Names
      PROVE  /\ Uses(w, t)' <=> t \in TablesOf(s)
             /\ ~Uses(w, t)
             /\ \A v \in Workers \ {w} : Uses(v, t)' <=> Uses(v, t)
             /\ t \in TablesOf(s) => \A v \in Workers : ~Uses(v, t)
             /\ View(t)' = View(t)
  <2>1. Uses(w, t)' <=> t \in TablesOf(s)
    BY <1>2 DEF Uses, Idle
  <2>2. \A v \in Workers \ {w} : Uses(v, t)' <=> Uses(v, t)
    BY <1>2 DEF Uses
  <2>3. ~Uses(w, t) /\ (t \in TablesOf(s) => \A v \in Workers : ~Uses(v, t))
    BY <1>1 DEF Uses
  <2>4. View(t)' = View(t)
    BY <1>1 DEF View
  <2> QED BY <2>1, <2>2, <2>3, <2>4
<1>5. OneUser'
  <2> SUFFICES ASSUME NEW u \in Workers, NEW v \in Workers, NEW t \in Names, Uses(u, t)', Uses(v, t)' PROVE u = v
    BY DEF OneUser
  <2>1. u # w /\ v # w => Uses(u, t) /\ Uses(v, t)
    BY <1>4
  <2>2. u # v => u # w /\ v # w
    BY <1>4
  <2> QED BY <2>1, <2>2 DEF Turns, OneUser
<1>6. \A t \in Names : Hold(t, View(t))' \/ \E v \in Workers : Uses(v, t)
  <2> SUFFICES ASSUME NEW t \in Names, \A v \in Workers : ~Uses(v, t) PROVE Hold(t, View(t))'
    OBVIOUS
  <2>1. PICK V : V = View(t)
    OBVIOUS
  <2>2. Hold(t, V)
    BY <2>1 DEF Turns, Rest
  <2>3. Hold(t, V)' /\ View(t)' = V
    BY <1>1, <1>4, <2>1, <2>2 DEF Hold
  <2> QED BY <2>3
<1>7. Rest'
  <2> SUFFICES ASSUME NEW t \in Names, \A v \in Workers : ~Uses(v, t)' PROVE Hold(t, View(t))'
    BY DEF Rest
  <2> QED BY <1>4, <1>6
<1>8. Turn(w)'
  <2>1. ASSUME NEW t \in TablesOf(s) PROVE \E V : V = before'[w][t] /\ Hold(t, V)'
    <3>1. t \in Names
      BY StatementsAssumption DEF TablesOf
    <3>2. PICK V : V = View(t)
      OBVIOUS
    <3>3. Hold(t, V)'
      BY <1>4, <1>6, <3>1, <3>2
    <3>4. before'[w][t] = V
      BY <1>3, <3>1, <3>2
    <3> QED BY <3>3, <3>4
  <2>2. AsFound(w)'
    BY <1>2, <2>1 DEF AsFound, Hold
  <2> QED BY <1>2, <2>2 DEF Turn, Idle
<1>9. ASSUME NEW v \in Workers \ {w} PROVE Turn(v)'
  BY <1>1, <1>2, <1>3, TurnKept DEF Turns
<1>10. Ready' /\ Recorded'
  <2>1. Ready'
    BY <1>1 DEF Turns, Ready
  <2>2. DOMAIN before' = Workers /\ \A v \in Workers : DOMAIN before'[v] = Names
    BY <1>1, <1>3 DEF Turns, Recorded
  <2> QED BY <2>1, <2>2 DEF Recorded
<1>11. Tables' = Tables
  <2>1. Mapped /\ Mapped'
    <3>1. (OneUser => Mapped)'
      BY MappedTables, PTL
    <3> QED BY <1>5, <3>1, MappedTables DEF Turns
  <2>2. ASSUME NEW t \in Names PROVE Tables'[t] = Tables[t]
    <3>1. CASE t \in TablesOf(s)
      <4>1. Tables[t] = View(t)
        BY <1>4, <2>1, <3>1 DEF Mapped
      <4>2. Tables'[t] = before'[w][t]
        BY <1>4, <2>1, <3>1 DEF Mapped
      <4> QED BY <1>3, <4>1, <4>2
    <3>2. CASE \E v \in Workers \ {w} : Uses(v, t)
      <4>1. PICK v \in Workers \ {w} : Uses(v, t) /\ Uses(v, t)'
        BY <1>4, <3>2
      <4>2. Tables[t] = before[v][t] /\ Tables'[t] = before'[v][t]
        BY <2>1, <4>1 DEF Mapped
      <4> QED BY <1>3, <4>2
    <3>3. CASE t \notin TablesOf(s) /\ \A v \in Workers \ {w} : ~Uses(v, t)
      <4>1. \A v \in Workers : ~Uses(v, t) /\ ~Uses(v, t)'
        BY <1>4, <3>3
      <4>2. Tables[t] = View(t) /\ Tables'[t] = View(t)'
        BY <2>1, <4>1 DEF Mapped
      <4> QED BY <1>4, <4>2
    <3> QED BY <3>1, <3>2, <3>3
  <2>3. (Tables = [t \in Names |-> Tables[t]])'
    BY TablesIsFunction, PTL
  <2>4. Tables' = [t \in Names |-> Tables'[t]]
    BY <2>3
  <2> QED BY <2>2, <2>4, TablesIsFunction
<1> QED BY <1>5, <1>7, <1>8, <1>9, <1>10, <1>11 DEF Turns
-----------------------------------------------------------------------------
(* The refinement                                                          *)

\* At the start the files are the tables.
LEMMA TurnsInitially ==
  ASSUME Init, TakingTurns
  PROVE  Turns /\ Abstract!Init
<1>1. /\ meta = Meta0 /\ data = Data0 /\ \A w \in Workers : pc[w] = Idle
      /\ before = [w \in Workers |-> [t \in Names |-> View(t)]]
  BY DEF Init
<1>2. \A w \in Workers, t \in Names : ~Uses(w, t)
  BY <1>1 DEF Uses
<1> DEFINE Start(t) == IF Meta0[t] = NoFile THEN NoFile
                       ELSE [cols |-> Meta0[t], rows |-> Parse(Data0[t].lines, Meta0[t])]
<1>3. ASSUME NEW t \in Names PROVE View(t) = Start(t) /\ Hold(t, Start(t))
  <2>1. PICK cols, file : cols = Meta0[t] /\ file = Data0[t] /\ cols = meta[t] /\ file = data[t]
    BY <1>1
  <2>2. CASE cols = NoFile
    BY <2>1, <2>2 DEF TakingTurns, View, Unreadable, Hold
  <2>3. CASE cols # NoFile
    <3>1. file # NoFile /\ AreColumns(cols) /\ IsFile(file) /\ Fit(file.lines, cols)
      BY <2>1, <2>3, FilesAssumption DEF TakingTurns
    <3>2. AreRows(file.lines) /\ cols \notin Unreadable
      BY <2>3, <3>1 DEF IsFile, AreColumns, IsRow, Unreadable, Torn
    <3>3. Parse(file.lines, cols) = file.lines
      BY <3>1, <3>2, ParsedAll
    <3>4. PICK T : T = [cols |-> cols, rows |-> file.lines]
      OBVIOUS
    <3>5. IsTable(T) /\ T.cols = cols /\ T.rows = file.lines
      BY <3>1, <3>2, <3>4 DEF IsTable
    <3>6. View(t) = T /\ Start(t) = T
      BY <2>1, <2>3, <3>1, <3>2, <3>3, <3>4 DEF View
    <3>7. Hold(t, T)
      BY <2>1, <3>1, <3>5 DEF Hold, TakingTurns
    <3> HIDE DEF Start
    <3> QED BY <3>6, <3>7
  <2> QED BY <2>2, <2>3
<1> HIDE DEF Start
<1>4. OneUser /\ Recorded /\ \A w \in Workers : Turn(w)
  <2>1. OneUser
    BY <1>2 DEF OneUser
  <2>2. Recorded
    BY <1>1 DEF Recorded
  <2>3. \A w \in Workers : Turn(w)
    BY <1>1 DEF Turn, Idle
  <2> QED BY <2>1, <2>2, <2>3
<1>5. Rest
  <2>1. ASSUME NEW t \in Names PROVE Hold(t, View(t))
    <3>1. PICK V : V = View(t) /\ V = Start(t)
      BY <1>3
    <3> QED BY <1>3, <3>1
  <2> QED BY <2>1 DEF Rest
<1>6. Ready
  <2> SUFFICES ASSUME NEW s \in Inserts
               PROVE  /\ data[s.table] # NoFile => data[s.table].ended
                      /\ meta[s.table] # NoFile => Fit(s.rows, meta[s.table])
    BY DEF Ready
  <2>1. s.table \in Names
    BY StatementsAssumption DEF Inserts
  <2>2. Meta0[s.table] # NoFile => Fit(s.rows, Meta0[s.table]) /\ Data0[s.table].ended
    BY DEF TakingTurns
  <2>3. Meta0[s.table] = NoFile <=> Data0[s.table] = NoFile
    BY <2>1 DEF TakingTurns
  <2> QED BY <1>1, <2>2, <2>3
<1>7. Abstract!Init
  <2>1. Mapped
    BY <1>4, MappedTables
  <2>2. \A t \in Names : Tables[t] = Start(t)
    BY <1>2, <1>3, <2>1 DEF Mapped
  <2>3. Tables = [t \in Names |-> Start(t)]
    BY <2>2, TablesIsFunction
  <2> QED BY <2>3 DEF Abstract!Init, Start
<1> QED BY <1>4, <1>5, <1>6, <1>7 DEF Turns

\* What a statement makes of its tables is a step of Table.
LEMMA StepImplements ==
  ASSUME Sound, Turns, TakingTurns, NEW w \in Workers, Step(w), StepChanges(w)
  PROVE  [Abstract!Next]_Tables
<1>1. PICK s, old, t : s = stmt[w] /\ old = before[w] /\ t = s.table
  OBVIOUS
<1>2. /\ s \in Statements /\ DOMAIN old = Names /\ t \in Names /\ t \in TablesOf(s)
      /\ s.kind = "rename" => s.to \in Names
      /\ Tables = [u \in Names |-> Tables[u]]
  <2>1. pc[w] # Idle
    BY StepFrame
  <2> QED BY <1>1, <2>1, InTurn, TablesIsFunction DEF Table
<1>3. CASE Tables' = Tables
  BY <1>3
<1>4. CASE Tables' # Tables
  <2>1. PICK new : /\ Results(s, old, new)
                   /\ Tables' = [u \in Names |-> IF u \in TablesOf(s) THEN new[u] ELSE Tables[u]]
                   /\ \A u \in TablesOf(s) : Tables[u] = old[u]
    BY <1>1, <1>4 DEF StepChanges
  <2>2. new # old
    <3> SUFFICES ASSUME new = old PROVE Tables' = Tables
      BY <1>4
    <3>1. Tables' = [u \in Names |-> Tables[u]]
      BY <2>1
    <3> QED BY <1>2, <3>1
  <2>3. CASE s.kind # "rename"
    <3>1. PICK T : Makes(s, old[t], T) /\ new = [old EXCEPT ![t] = T]
      BY <1>1, <2>1, <2>2, <2>3 DEF Results
    <3>2. Tables[t] = old[t] /\ TablesOf(s) = {t} /\ new[t] = T
      BY <1>1, <1>2, <2>1, <2>3, <3>1 DEF TablesOf
    <3>3. Tables' = [Tables EXCEPT ![t] = T]
      <4>1. Tables' = [u \in Names |-> IF u = t THEN T ELSE Tables[u]]
        BY <2>1, <3>2
      <4> QED BY <1>2, <4>1
    <3>4. PICK V : V = Tables[t]
      OBVIOUS
    <3>5. Makes(s, V, T)
      BY <3>1, <3>2, <3>4
    <3>6. CASE s.kind = "create"
      <4>1. V = NoFile /\ T = [cols |-> Columns, rows |-> <<>>]
        BY <3>5, <3>6 DEF Makes
      <4>2. Abstract!Create(s)
        BY <1>1, <3>3, <3>4, <3>6, <4>1 DEF Abstract!Create
      <4> QED BY <1>2, <4>2 DEF Abstract!Next
    <3>7. CASE s.kind # "create"
      <4>1. Tables[s.table] # NoFile /\ Tables' = [Tables EXCEPT ![s.table] = T]
        BY <1>1, <3>3, <3>4, <3>5, <3>7 DEF Makes
      <4>2. Makes(s, Tables[s.table], T)
        BY <1>1, <3>4, <3>5
      <4>3. Abstract!Change(s)
        <5>1. CASE s.kind = "insert"
          <6>1. T = Abstract!Insert(Tables[s.table], s.rows)
            BY <4>2, <5>1 DEF Makes
          <6> QED BY <4>1, <5>1, <6>1 DEF Abstract!Change
        <5>2. CASE s.kind = "update"
          <6>1. T = Abstract!Update(Tables[s.table], s.key, s.col, s.value)
            BY <4>2, <5>2 DEF Makes
          <6> QED BY <4>1, <5>2, <6>1 DEF Abstract!Change
        <5>3. CASE s.kind = "delete"
          <6>1. T = Abstract!Delete(Tables[s.table], s.key)
            BY <4>2, <5>3 DEF Makes
          <6> QED BY <4>1, <5>3, <6>1 DEF Abstract!Change
        <5>4. CASE s.kind = "drop"
          <6>1. T = NoFile
            BY <4>2, <5>4 DEF Makes
          <6> QED BY <4>1, <5>4, <6>1 DEF Abstract!Change
        <5>5. CASE s.kind = "add"
          <6>1. /\ s.col \notin Abstract!ToSet(Tables[s.table].cols)
                /\ T = Abstract!AddColumn(Tables[s.table], s.col)
            BY <4>2, <5>5 DEF Makes, MayAlter, Altered, ToSet, Abstract!ToSet
          <6> QED BY <4>1, <5>5, <6>1 DEF Abstract!Change
        <5>6. CASE s.kind = "dropcol"
          <6>1. /\ s.col \in Abstract!ToSet(Tail(Tables[s.table].cols))
                /\ T = Abstract!DropColumn(Tables[s.table], s.col)
            BY <4>2, <5>6 DEF Makes, MayAlter, Altered, ToSet, Abstract!ToSet
          <6> QED BY <4>1, <5>6, <6>1 DEF Abstract!Change
        <5> QED BY <2>3, <3>5, <3>7, <5>1, <5>2, <5>3, <5>4, <5>5, <5>6 DEF Makes
      <4> QED BY <1>2, <4>3 DEF Abstract!Next
    <3> QED BY <3>6, <3>7
  <2>4. CASE s.kind = "rename"
    <3>1. PICK to : to = s.to
      OBVIOUS
    <3>2. /\ to # t /\ old[t] # NoFile /\ old[to] = NoFile
          /\ new = [old EXCEPT ![to] = old[t], ![t] = NoFile]
      BY <1>1, <2>1, <2>2, <2>4, <3>1 DEF Results
    <3>3. TablesOf(s) = {t, to} /\ Tables[t] = old[t] /\ Tables[to] = old[to] /\ to \in Names
      BY <1>1, <1>2, <2>1, <2>4, <3>1 DEF TablesOf
    <3>4. new[to] = old[t] /\ new[t] = NoFile
      BY <1>2, <3>2, <3>3
    <3>5. Tables' = [Tables EXCEPT ![to] = Tables[t], ![t] = NoFile]
      <4>1. Tables' = [u \in Names |-> IF u = t THEN NoFile ELSE IF u = to THEN old[t] ELSE Tables[u]]
        BY <2>1, <3>3, <3>4
      <4> QED BY <1>2, <3>2, <3>3, <4>1
    <3>6. Abstract!Change(s)
      BY <1>1, <2>4, <3>1, <3>2, <3>3, <3>5 DEF Abstract!Change
    <3> QED BY <1>2, <3>6 DEF Abstract!Next
  <2> QED BY <2>3, <2>4
<1> QED BY <1>3, <1>4

\* Every step keeps the invariant and is a step of Table, or none.
LEMMA NextImplements ==
  ASSUME Sound, Turns, TakingTurns, [Next]_vars
  PROVE  Turns' /\ [Abstract!Next]_Tables
<1>1. ASSUME NEW w \in Workers, Step(w) PROVE Turns' /\ [Abstract!Next]_Tables
  BY <1>1, StepKeepsTurns, StepImplements
<1>2. ASSUME NEW w \in Workers, NEW s \in Statements, Begin(w, s) PROVE Turns' /\ [Abstract!Next]_Tables
  BY <1>2, BeginTurns
<1>3. ~Crash
  BY DEF Crash, TakingTurns, Sound, SoundHistory
<1>4. CASE UNCHANGED vars
  <2>1. UNCHANGED <<meta, data, pc, stmt, def, content, plan, before>>
    BY <1>4 DEF vars
  <2>2. Tables' = Tables
    BY <2>1 DEF Tables, View
  <2>3. OneUser' /\ Ready' /\ Recorded'
    BY <2>1 DEF Turns, OneUser, Uses, Ready, Recorded
  <2>4. Rest'
    BY <2>1 DEF Turns, Rest, Uses, Hold, View
  <2>5. \A w \in Workers : Turn(w)'
    BY <2>1, TurnKept DEF Turns
  <2> QED BY <2>2, <2>3, <2>4, <2>5 DEF Turns
<1> QED BY <1>1, <1>2, <1>3, <1>4 DEF Next

\* While no client uses a table that a statement is running on, a statement is one step of
\* the tables, however its file operations interleave with those on other tables: the
\* executors read a table, compute from it and write it as if they held it.
THEOREM TurnsImplementTable == TakingTurns /\ Spec => ImplementsTable
<1>1. Init => Sound
  BY SoundInitially
<1>2. Init /\ TakingTurns => Turns /\ Abstract!Init
  BY TurnsInitially
<1>3. Sound /\ [Next]_vars => Sound'
  BY SoundInductive
<1>4. Sound /\ Turns /\ TakingTurns /\ [Next]_vars => Turns' /\ [Abstract!Next]_Tables
  BY NextImplements
<1>5. TakingTurns => TakingTurns'
  BY DEF TakingTurns
<1> QED BY <1>1, <1>2, <1>3, <1>4, <1>5, PTL DEF Spec, ImplementsTable, Abstract!Spec
=============================================================================
