---------------------------- MODULE TableStoreMC ----------------------------
(* TableStore for TLC: what is in the tables and what the clients issue, run by run. *)
EXTENDS TableStore

CONSTANTS a, b, c,   \* keys
          x, y,    \* values
          t1, t2, t3

OneColumnPair == <<"id", "val">>

Loaded1 == [t \in Names |-> IF t = t1 THEN OneColumnPair ELSE NoFile]

\* Two rows share a key, so UPDATE and DELETE have two rows to write.
Rows1 == [t \in Names |-> IF t = t1 THEN Ended(<<<<a, x>>, <<a, y>>, <<b, x>>>>) ELSE NoFile]
Loaded2 == [t \in Names |-> IF t \in {t1, t2} THEN OneColumnPair ELSE NoFile]
Empty2 == [t \in Names |-> IF t \in {t1, t2} THEN Ended(<<>>) ELSE NoFile]

NoForeignKey == [t \in Names |-> NoFile]
Child3 == [t \in Names |-> IF t = t3 THEN t2 ELSE NoFile]

InsertOf(t, rows) == [kind |-> "insert", table |-> t, rows |-> rows]
UpdateOf(t, key, value) ==
  [kind |-> "update", table |-> t, key |-> key, col |-> "val", value |-> value]
UpdateKeyOf(t, key, value) ==
  [kind |-> "update", table |-> t, key |-> key, col |-> "id", value |-> value]
DeleteOf(t, key) == [kind |-> "delete", table |-> t, key |-> key]
CreateOf(t) == [kind |-> "create", table |-> t]
DropOf(t) == [kind |-> "drop", table |-> t]
RenameOf(t, to) == [kind |-> "rename", table |-> t, to |-> to]
AddOf(t, col) == [kind |-> "add", table |-> t, col |-> col]
DropColumnOf(t, col) == [kind |-> "dropcol", table |-> t, col |-> col]

\* Every kind of statement. INSERT stays away from the table that ALTER changes.
Mixed ==
  {UpdateOf(t1, a, y), DeleteOf(t1, a), DropOf(t1), RenameOf(t1, t2),
   AddOf(t1, "new"), AddOf(t1, "val"), DropColumnOf(t1, "val"), DropColumnOf(t1, "id"),
   DropColumnOf(t2, "new"), CreateOf(t3), InsertOf(t3, <<<<b, y>>, <<a, x>>>>),
   InsertOf(t3, <<<<a, Refuse>>>>), DeleteOf(t3, b), DropOf(t3)}

\* Clients that write one table at the same time, others that only insert into a second
\* one, and others that create and write a third one, whose keys are keys of the second.
Writers ==
  {InsertOf(t1, <<<<a, x>>, <<b, x>>>>), UpdateOf(t1, a, y),
   DeleteOf(t1, b), InsertOf(t2, <<<<a, x>>>>), InsertOf(t2, <<<<b, x>>>>),
   CreateOf(t3), InsertOf(t3, <<<<a, x>>, <<b, y>>>>), UpdateKeyOf(t3, a, b)}

InsertAndUpdate == {InsertOf(t1, <<<<c, y>>>>), UpdateOf(t1, a, y)}
AddThenInsert == {AddOf(t1, "new"), InsertOf(t1, <<<<c, y>>>>)}
=============================================================================
