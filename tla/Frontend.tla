------------------------------- MODULE Frontend -------------------------------
(***************************************************************************)
(* A client composes the text of a request; the server parses it and may   *)
(* rewrite its condition. Either the text is a statement written out, or   *)
(* the client goes on from an opening, token by token, as long as the text *)
(* may become one: the parser has read it all.                             *)
(***************************************************************************)
EXTENDS Grammar

CONSTANTS Statements,  \* the statements that clients write out
          Openings,    \* texts that clients go on from, with the tokens and how many of them
          Rows         \* the rows that a condition is evaluated on

VARIABLES text,    \* the tokens of the request
          goal,    \* the statement that was written out
          opening, \* what the text began with
          parsed   \* the server's cursor after it parsed the text

vars == <<text, goal, opening, parsed>>

NoGoal == [stmt |-> "none"]
NoOpening == [tokens |-> <<>>, alphabet |-> {}, more |-> 0]

Init ==
  /\ \/ /\ goal \in Statements
        /\ \E full \in BOOLEAN : text = WrittenStatement(goal, full)
        /\ opening = NoOpening
     \/ /\ goal = NoGoal
        /\ opening \in Openings
        /\ text = opening.tokens
  /\ parsed = ParseStatement(text)

\* Only the end of the text kept the parser from going on.
Unfinished == parsed.state \in {"parsing", "refused"} /\ parsed.at > Len(text)

Type(token) ==
  /\ Len(text) < Len(opening.tokens) + opening.more
  /\ Unfinished
  /\ text' = Append(text, token)
  /\ parsed' = ParseStatement(text')
  /\ UNCHANGED <<goal, opening>>

Next == \E token \in opening.alphabet : Type(token)

Spec == Init /\ [][Next]_vars
-----------------------------------------------------------------------------
(* Properties. *)

Accepted == parsed.state = "parsing"
Consumed == SubSeq(text, 1, parsed.at - 1)

\* A statement that was written out is parsed to the end of its text and to its tree:
\* clauses, lists and subqueries, whatever they are nested in, and whether optional words
\* are there or not.
StatementIsParsed ==
  goal # NoGoal => Accepted /\ parsed.at = Len(text) + 1 /\ parsed.node = goal

\* A NOT after an operand is read and dropped.
Heard(s) ==
  LET ends[i \in 0..Len(s)] == /\ i > 0
                               /\ \/ s[i] \in Identifiers \cup DOMAIN Literals \cup {")"}
                                  \/ s[i] = "*" /\ ~ends[i - 1]
      kept == SelectSeq([i \in DOMAIN s |-> i], LAMBDA i : ~(s[i] = "NOT" /\ ends[i - 1]))
  IN  [k \in DOMAIN kept |-> s[kept[k]]]

Deletes == <<"DELETE", "FROM", "t", "WHERE">>
Condition(s) == SubSeq(s, Len(Deletes) + 1, Len(s))

\* The condition of a DELETE is parsed as the grammar derives it: a text that it derives is
\* read to its end, and the tree is the one that the tokens read have: no level of
\* precedence and no parenthesis is regrouped. A NOT after an operand is dropped (Heard),
\* and text that follows a condition and is none of it is ignored (Consumed).
ConditionIsDerived ==
  opening.tokens = Deletes =>
    /\ Accepted => DerivedFrom(1, Heard(Condition(Consumed))) = {parsed.node.where}
    /\ DerivedFrom(1, Condition(text)) # {} => Accepted /\ parsed.at = Len(text) + 1

\* The definitions between the commas of the outer parentheses of a CREATE TABLE.
Depth(s, i) ==
  Cardinality({j \in 1..i : s[j] = "("}) - Cardinality({j \in 1..i : s[j] = ")"})
Creates(s) == Len(s) > 3 /\ SubSeq(s, 1, 2) = <<"CREATE", "TABLE">> /\ s[4] = "("
Openers(s) == {4} \cup {i \in DOMAIN s : s[i] = "," /\ Depth(s, i) = 1}
Bare(s, i) ==
  s[i] \in {"UNIQUE", "FOREIGN"}
    /\ s[IF s[i + 1] \in {"KEY", "INDEX"} THEN i + 2 ELSE i + 1] \in {",", ")"}
Definitions(s) == {i \in Openers(s) : s[i + 1] # ")" /\ ~Bare(s, i + 1)}

\* A CREATE TABLE whose text was read to its end, with its parentheses closed, has made a
\* column, an index or a foreign key of each of its definitions, words alone excepted: none
\* is dropped.
DefinitionsAreKept ==
  Accepted /\ parsed.at > Len(text) /\ Creates(text) /\ Depth(text, Len(text)) = 0 =>
    Len(parsed.node.columns) + Len(parsed.node.indexes) + Len(parsed.node.foreignKeys)
      = Cardinality(Definitions(text))

WholeNumbers(s) == \A i \in DOMAIN s : s[i] \in DOMAIN Literals => Literals[s[i]][3] = 1

\* The rewritten condition keeps the rows that the condition keeps, where that has a value
\* and computes with no fractions.
RewriteKeepsRows ==
  Accepted /\ opening.tokens = Deletes /\ WholeNumbers(text) =>
    \A row \in Rows :
      LET v == Evaluate(parsed.node.where, row, <<>>)
          w == Evaluate(Rewrite(parsed.node.where), row, <<>>)
      IN  ~Failed(v) => ~Failed(w) /\ Keeps(w) = Keeps(v)
=============================================================================
