-------------------------- MODULE SelectionProofs ---------------------------
(***************************************************************************)
(* What the proofs about tables and about indexes share: the smallest of a *)
(* set of numbers, the loop that selects from a sequence, and numbers in   *)
(* ascending order.                                                        *)
(***************************************************************************)
EXTENDS Selection, SequencesExt, SequenceTheorems, FiniteSetTheorems, WellFoundedInduction, TLAPS

\* A set of numbers that is not empty has a smallest element: induction, in the form
\* that needs no operator as a parameter.
LEMMA LeastNumber ==
  ASSUME NEW T, T \subseteq Nat, T # {}
  PROVE  \E m \in T : \A k \in T : m <= k
<1>1. IsWellFoundedOn(OpToRel(<, Nat), Nat)
  BY ZenonT(30), NatLessThanWellFounded
<1>2. PICK m \in T : \A k \in T : ~ (<<k, m>> \in OpToRel(<, Nat))
  BY ZenonT(30), <1>1, WFMin
<1>3. ASSUME NEW k \in T PROVE m <= k
  <2>1. ~ (<<k, m>> \in OpToRel(<, Nat))
    BY ZenonT(30), <1>2
  <2>2. ~ (k < m)
    BY <2>1 DEF OpToRel
  <2> QED BY <2>2
<1> QED BY <1>3

\* Append adds one element, and keeps the others.
LEMMA AppendedElements ==
  ASSUME NEW S, NEW s \in Seq(S), NEW e \in S
  PROVE  /\ Append(s, e) \in Seq(S)
         /\ ToSet(Append(s, e)) = ToSet(s) \cup {e}
<1> DEFINE r == Append(s, e)
<1>1. /\ r \in Seq(S) /\ Len(s) \in Nat
      /\ DOMAIN s = 1..Len(s) /\ DOMAIN r = 1..Len(s) + 1
      /\ \A i \in 1..Len(s) : r[i] = s[i]
      /\ r[Len(s) + 1] = e
  BY AppendProperties, LenProperties
<1> HIDE DEF r
<1>2. Len(s) + 1 \in DOMAIN r /\ DOMAIN s \subseteq DOMAIN r
  BY <1>1
<1>3. ASSUME NEW i \in DOMAIN r PROVE r[i] \in ToSet(s) \cup {e}
  <2>1. i \in DOMAIN s \/ i = Len(s) + 1
    BY <1>1
  <2> QED BY <1>1, <2>1 DEF ToSet
<1>4. ToSet(r) \subseteq ToSet(s) \cup {e}
  BY <1>3 DEF ToSet
<1>5. ToSet(s) \cup {e} \subseteq ToSet(r)
  BY <1>1, <1>2 DEF ToSet
<1>6. ToSet(r) = ToSet(s) \cup {e} /\ r \in Seq(S)
  BY <1>1, <1>4, <1>5
<1> QED BY <1>6 DEF r
-----------------------------------------------------------------------------
(* The loop of Selected. Its recursive function is one that exists, so    *)
(* that it unfolds; then what it collects follows by induction on how far  *)
(* the loop has come.                                                      *)

Loops(s, keep, up) ==
  \A n \in 0..Len(s) :
    up[n] = IF n = 0 THEN <<>>
            ELSE IF n \in keep THEN Append(up[n - 1], s[n]) ELSE up[n - 1]

\* Selected is a loop over the sequence.
LEMMA SelectedLoops ==
  ASSUME NEW S, NEW s \in Seq(S), NEW keep
  PROVE  \E up : Loops(s, keep, up) /\ Selected(s, keep) = up[Len(s)]
<1> DEFINE N == Len(s)
           Follows(f, n, v) == v = IF n = 0 THEN <<>>
                                   ELSE IF n \in keep THEN Append(f[n - 1], s[n]) ELSE f[n - 1]
           Good(f, n) == f \in [0..n -> Seq(S)] /\ \A i \in 0..n : Follows(f, i, f[i])
           Bad == {n \in 0..N : ~ \E f : Good(f, n)}
           Body(h) == [n \in 0..N |-> IF n = 0 THEN <<>>
                        ELSE IF n \in keep THEN Append(h[n - 1], s[n]) ELSE h[n - 1]]
           up == CHOOSE h : h = Body(h)
<1>1. N \in Nat /\ <<>> \in Seq(S)
  BY EmptySeq
<1>2. Bad = {}
  <2> SUFFICES ASSUME Bad # {} PROVE FALSE
    OBVIOUS
  <2>1. PICK m \in Bad : \A k \in Bad : m <= k
    <3>1. Bad \subseteq Nat
      BY <1>1
    <3> HIDE DEF Bad
    <3> QED BY <3>1, LeastNumber
  <2>2. CASE m = 0
    <3>1. Good([i \in 0..0 |-> <<>>], 0)
      BY <1>1
    <3> QED BY <2>1, <2>2, <3>1
  <2>3. CASE m # 0
    <3>1. m \in 1..N /\ m - 1 \in 0..N /\ m - 1 \notin Bad
      <4>1. m \in 1..N /\ ~(m <= m - 1)
        BY <1>1, <2>3
      <4> HIDE DEF Bad
      <4> QED BY <1>1, <2>1, <4>1
    <3>2. PICK f : Good(f, m - 1)
      BY <3>1
    <3> DEFINE v == IF m \in keep THEN Append(f[m - 1], s[m]) ELSE f[m - 1]
               g == [i \in 0..m |-> IF i = m THEN v ELSE f[i]]
    <3>3. v \in Seq(S)
      BY <3>1, <3>2
    <3>4. g \in [0..m -> Seq(S)]
      BY <3>1, <3>2, <3>3
    <3>5. ASSUME NEW i \in 0..m PROVE Follows(g, i, g[i])
      <4>1. CASE i = m
        BY <3>1, <4>1
      <4>2. CASE i # m
        <5>1. i \in 0..m - 1 /\ (i # 0 => i - 1 \in 0..m - 1)
          BY <3>1, <4>2
        <5>2. g[i] = f[i] /\ (i # 0 => g[i - 1] = f[i - 1])
          BY <5>1, <3>1, <4>2
        <5>3. Follows(f, i, f[i])
          BY <5>1, <3>2
        <5> HIDE DEF g
        <5> QED BY <5>2, <5>3
      <4> QED BY <4>1, <4>2
    <3>6. Good(g, m)
      BY <3>4, <3>5
    <3> QED BY <2>1, <3>6
  <2> QED BY <2>2, <2>3
<1>3. PICK f : Good(f, N)
  <2>1. N \in 0..N
    BY <1>1
  <2> HIDE DEF Good
  <2> QED BY <1>2, <2>1
<1>4. f = Body(f)
  BY <1>3
<1>5. up = Body(up)
  <2> HIDE DEF Body
  <2> QED BY <1>4
<1>6. Selected(s, keep) = up[N]
  BY DEF Selected
<1> HIDE DEF up
<1>7. Loops(s, keep, up)
  BY <1>5 DEF Loops
<1> QED BY <1>6, <1>7

\* What is selected are the elements of s at the positions in keep.
LEMMA SelectedElements ==
  ASSUME NEW S, NEW s \in Seq(S), NEW keep
  PROVE  /\ Selected(s, keep) \in Seq(S)
         /\ ToSet(Selected(s, keep)) = {s[i] : i \in {j \in DOMAIN s : j \in keep}}
<1> DEFINE N == Len(s)
           Chosen(n) == {s[i] : i \in {j \in 1..n : j \in keep}}
<1>1. PICK up : Loops(s, keep, up) /\ Selected(s, keep) = up[N]
  BY SelectedLoops
<1> DEFINE Right(n) == up[n] \in Seq(S) /\ ToSet(up[n]) = Chosen(n)
           Wrong == {n \in 0..N : ~Right(n)}
<1>2. N \in Nat /\ DOMAIN s = 1..N /\ <<>> \in Seq(S) /\ ToSet(<<>>) = {}
  BY EmptySeq DEF ToSet
<1>3. Wrong = {}
  <2> SUFFICES ASSUME Wrong # {} PROVE FALSE
    OBVIOUS
  <2>1. PICK m \in Wrong : \A k \in Wrong : m <= k
    <3>1. Wrong \subseteq Nat
      BY <1>2
    <3> HIDE DEF Wrong
    <3> QED BY <3>1, LeastNumber
  <2>2. up[m] = IF m = 0 THEN <<>>
                ELSE IF m \in keep THEN Append(up[m - 1], s[m]) ELSE up[m - 1]
    BY <1>1 DEF Loops
  <2>3. m \in 0..N /\ ~Right(m)
    OBVIOUS
  <2>4. m # 0
    <3>1. Chosen(0) = {}
      OBVIOUS
    <3> HIDE DEF Chosen
    <3> QED BY <1>2, <2>2, <2>3, <3>1
  <2>5. m \in 1..N /\ m - 1 \in 0..N /\ Right(m - 1)
    <3>1. m \in 1..N /\ ~(m <= m - 1)
      BY <1>2, <2>4
    <3> HIDE DEF Right
    <3> QED BY <1>2, <2>1, <3>1
  <2>6. Chosen(m) = IF m \in keep THEN Chosen(m - 1) \cup {s[m]} ELSE Chosen(m - 1)
    <3>1. 1..m = (1..m - 1) \cup {m}
      BY <2>5
    <3> QED BY <3>1
  <2>7. m \in keep => Right(m)
    <3> SUFFICES ASSUME m \in keep PROVE Right(m)
      OBVIOUS
    <3>1. up[m - 1] \in Seq(S) /\ s[m] \in S
      BY <1>2, <2>5
    <3>2. /\ Append(up[m - 1], s[m]) \in Seq(S)
          /\ ToSet(Append(up[m - 1], s[m])) = ToSet(up[m - 1]) \cup {s[m]}
      BY <3>1, AppendedElements
    <3> HIDE DEF Chosen
    <3> QED BY <2>2, <2>4, <2>5, <2>6, <3>2
  <2>8. m \notin keep => Right(m)
    <3> HIDE DEF Chosen
    <3> QED BY <2>2, <2>4, <2>5, <2>6
  <2> HIDE DEF Right
  <2> QED BY <2>3, <2>7, <2>8
<1>4. Right(N)
  <2>1. N \in 0..N
    BY <1>2
  <2> HIDE DEF Right
  <2> QED BY <1>3, <2>1
<1> QED BY <1>1, <1>2, <1>4
-----------------------------------------------------------------------------
(* Numbers in order.                                                       *)

\* A set of positions that has with each one all before it is an initial segment, as long
\* as the set is large: what lower_bound() and the scan of findChildIndex() count.
LEMMA InitialSegment ==
  ASSUME NEW n \in Nat, NEW S, S \subseteq 1..n, \A i \in S : \A j \in 1..i : j \in S
  PROVE  Cardinality(S) \in 0..n /\ S = 1..Cardinality(S)
<1> DEFINE Out == {i \in 0..n : i + 1 \notin S}
<1>1. Out \subseteq Nat /\ n \in Out
  OBVIOUS
<1>2. PICK p \in Out : \A k \in Out : p <= k
  <2> HIDE DEF Out
  <2> QED BY <1>1, LeastNumber
<1>3. p \in 0..n /\ p + 1 \notin S
  OBVIOUS
<1>4. ASSUME NEW i \in S PROVE i \in 1..p
  <2>1. i \in 1..n /\ (p + 1 \in 1..i => p + 1 \in S)
    OBVIOUS
  <2> QED BY <1>3, <2>1
<1>5. ASSUME NEW i \in 1..p PROVE i \in S
  <2>1. i - 1 \in 0..n /\ i - 1 < p /\ (i - 1) + 1 = i
    BY <1>3
  <2>2. i - 1 \notin Out
    <3> HIDE DEF Out
    <3> QED BY <1>2, <2>1, <1>3
  <2> QED BY <2>1, <2>2
<1>6. S = 1..p
  BY <1>4, <1>5
<1>7. Cardinality(1..p) = p
  BY <1>3, FS_Interval
<1> QED BY <1>3, <1>6, <1>7

Ascending(keys) == \A a, b \in DOMAIN keys : a < b => keys[a] < keys[b]

\* The numbers in S in ascending order.
Lists(keys, S) == keys \in Seq(Int) /\ Ascending(keys) /\ ToSet(keys) = S

\* In an ascending sequence, the place of a number is how many are not larger.
LEMMA ListedByRank ==
  ASSUME NEW keys, NEW S, Lists(keys, S)
  PROVE  /\ IsFiniteSet(S) /\ Len(keys) = Cardinality(S)
         /\ \A i \in 1..Len(keys) : Cardinality({k \in S : k <= keys[i]}) = i
<1> DEFINE N == Len(keys)
           First(i) == {keys[a] : a \in 1..i}
<1>1. N \in Nat /\ DOMAIN keys = 1..N /\ \A a \in 1..N : keys[a] \in Int
  BY LenProperties, ElementOfSeq DEF Lists
<1>2. \A a, b \in 1..N : a < b => keys[a] < keys[b]
  BY <1>1 DEF Lists, Ascending
<1>3. ASSUME NEW i \in 0..N PROVE IsFiniteSet(First(i)) /\ Cardinality(First(i)) = i
  <2> DEFINE f == [a \in 1..i |-> keys[a]]
  <2>1. \A a, b \in 1..i : f[a] = f[b] => a = b
    <3>1. \A a, b \in 1..i : a \in 1..N /\ b \in 1..N /\ a \in Int /\ b \in Int
      BY <1>1
    <3> QED BY <1>1, <1>2, <3>1
  <2>2. f \in Bijection(1..i, First(i))
    BY <2>1 DEF Bijection, Injection, Surjection, IsInjective
  <2>3. ExistsBijection(1..i, First(i))
    BY <2>2 DEF ExistsBijection
  <2>4. IsFiniteSet(1..i) /\ Cardinality(1..i) = i
    BY <1>1, FS_Interval
  <2> HIDE DEF First
  <2> QED BY <2>3, <2>4, FS_Bijection
<1>4. S = First(N)
  BY <1>1 DEF Lists, ToSet
<1>5. ASSUME NEW i \in 1..N PROVE {k \in S : k <= keys[i]} = First(i)
  <2>1. \A a \in 1..N : keys[a] <= keys[i] <=> a \in 1..i
    <3> SUFFICES ASSUME NEW a \in 1..N PROVE keys[a] <= keys[i] <=> a \in 1..i
      OBVIOUS
    <3>1. keys[a] \in Int /\ keys[i] \in Int /\ (a < i => keys[a] < keys[i])
          /\ (i < a => keys[i] < keys[a])
      BY <1>1, <1>2
    <3>2. a \in Int /\ i \in Int /\ (a = i \/ a < i \/ i < a) /\ (a \in 1..i <=> a <= i)
      BY <1>1
    <3> QED BY <3>1, <3>2
  <2>2. 1..i \subseteq 1..N
    BY <1>1
  <2> QED BY <1>4, <2>1, <2>2
<1>6. N \in 0..N /\ \A i \in 1..N : i \in 0..N
  BY <1>1
<1> HIDE DEF First
<1> QED BY <1>3, <1>4, <1>5, <1>6

\* One ascending sequence after another.
LEMMA ListsConcat ==
  ASSUME NEW s, NEW S, NEW t, NEW T, Lists(s, S), Lists(t, T),
         \A x \in S, y \in T : x < y
  PROVE  Lists(s \o t, S \cup T)
<1> DEFINE r == s \o t
           m == Len(s)
           n == Len(t)
<1>1. /\ m \in Nat /\ n \in Nat /\ DOMAIN s = 1..m /\ DOMAIN t = 1..n
      /\ s \in Seq(Int) /\ t \in Seq(Int)
  BY LenProperties DEF Lists
<1>2. /\ r \in Seq(Int) /\ Len(r) = m + n
      /\ \A i \in 1..m + n : r[i] = IF i <= m THEN s[i] ELSE t[i - m]
  BY <1>1, ConcatProperties
<1>3. DOMAIN r = 1..m + n
  BY <1>2, LenProperties
<1>4. S = {s[i] : i \in 1..m} /\ T = {t[i] : i \in 1..n}
  BY <1>1 DEF Lists, ToSet
<1> HIDE DEF r, m, n
<1>5. Ascending(r)
  <2> SUFFICES ASSUME NEW a \in 1..m + n, NEW b \in 1..m + n, a < b PROVE r[a] < r[b]
    BY <1>3 DEF Ascending
  <2>1. CASE b <= m
    <3>1. a \in 1..m /\ b \in 1..m /\ r[a] = s[a] /\ r[b] = s[b]
      BY <1>1, <1>2, <2>1
    <3> QED BY <1>1, <3>1 DEF Lists, Ascending
  <2>2. CASE a > m
    <3>1. a - m \in 1..n /\ b - m \in 1..n /\ a - m < b - m /\ r[a] = t[a - m] /\ r[b] = t[b - m]
      BY <1>1, <1>2, <2>2
    <3> QED BY <1>1, <3>1 DEF Lists, Ascending
  <2>3. CASE a <= m /\ b > m
    <3>1. a \in 1..m /\ b - m \in 1..n /\ ~(b <= m)
      BY <1>1, <2>3
    <3>2. r[a] = s[a] /\ r[b] = t[b - m]
      BY <1>2, <2>3, <3>1
    <3> QED BY <1>4, <3>1, <3>2
  <2> QED BY <1>1, <2>1, <2>2, <2>3
<1>6. ToSet(r) = S \cup T
  <2>1. ToSet(r) = {r[i] : i \in 1..m + n}
    BY <1>3 DEF ToSet
  <2>2. ASSUME NEW i \in 1..m + n PROVE r[i] \in S \cup T
    <3>1. (i <= m /\ i \in 1..m) \/ (i > m /\ i - m \in 1..n)
      BY <1>1
    <3> QED BY <1>2, <1>4, <3>1
  <2>3. ASSUME NEW i \in 1..m PROVE i \in 1..m + n /\ r[i] = s[i]
    BY <1>1, <1>2
  <2>4. ASSUME NEW i \in 1..n PROVE i + m \in 1..m + n /\ r[i + m] = t[i]
    <3>1. i + m \in 1..m + n /\ ~(i + m <= m) /\ (i + m) - m = i
      BY <1>1
    <3> QED BY <1>2, <3>1
  <2> QED BY <1>4, <2>1, <2>2, <2>3, <2>4
<1> QED BY <1>2, <1>5, <1>6 DEF Lists, r

\* One number alone.
LEMMA ListsOne ==
  ASSUME NEW k \in Int
  PROVE  Lists(<<k>>, {k})
<1>1. <<k>> \in Seq(Int) /\ DOMAIN <<k>> = {1} /\ <<k>>[1] = k
  OBVIOUS
<1> QED BY <1>1 DEF Lists, Ascending, ToSet

\* What is selected comes from ascending positions, so that it keeps its order.
LEMMA SelectedInOrder ==
  ASSUME NEW S, NEW s \in Seq(S), NEW keep \in SUBSET DOMAIN s
  PROVE  \E places : /\ Lists(places, keep) /\ Len(Selected(s, keep)) = Len(places)
                     /\ Selected(s, keep) \in Seq(S)
                     /\ \A i \in 1..Len(places) : /\ places[i] \in keep
                                                  /\ Selected(s, keep)[i] = s[places[i]]
<1> DEFINE N == Len(s)
           Taken(r, K, places) ==
             /\ Lists(places, K) /\ Len(r) = Len(places) /\ r \in Seq(S)
             /\ \A i \in 1..Len(places) : places[i] \in K /\ r[i] = s[places[i]]
<1>1. PICK up : Loops(s, keep, up) /\ Selected(s, keep) = up[N]
  BY SelectedLoops
<1> DEFINE Kept(n) == keep \cap 1..n
           Right(n) == \E places : Taken(up[n], Kept(n), places)
           Wrong == {n \in 0..N : ~Right(n)}
<1>2. N \in Nat /\ DOMAIN s = 1..N /\ \A i \in 1..N : s[i] \in S
  BY LenProperties, ElementOfSeq
<1>3. Wrong = {}
  <2> SUFFICES ASSUME Wrong # {} PROVE FALSE
    OBVIOUS
  <2>1. PICK m \in Wrong : \A k \in Wrong : m <= k
    <3>1. Wrong \subseteq Nat
      BY <1>2
    <3> HIDE DEF Wrong
    <3> QED BY <3>1, LeastNumber
  <2>2. up[m] = IF m = 0 THEN <<>>
                ELSE IF m \in keep THEN Append(up[m - 1], s[m]) ELSE up[m - 1]
    BY <1>1 DEF Loops
  <2>3. m \in 0..N /\ ~Right(m)
    OBVIOUS
  <2>4. m # 0
    <3> SUFFICES ASSUME m = 0 PROVE FALSE
      OBVIOUS
    <3>1. Kept(0) = {} /\ up[0] = <<>>
      BY <2>2
    <3>2. Lists(<<>>, {})
      BY DEF Lists, Ascending, ToSet
    <3>3. Taken(up[0], Kept(0), <<>>)
      <4>1. Len(<<>>) = 0 /\ <<>> \in Seq(S) /\ 1..0 = {}
        BY EmptySeq
      <4> HIDE DEF Kept
      <4> QED BY <3>1, <3>2, <4>1
    <3> HIDE DEF Taken
    <3> QED BY <2>3, <3>3
  <2>5. m \in 1..N /\ m - 1 \in 0..N /\ Right(m - 1)
    <3>1. m \in 1..N /\ ~(m <= m - 1)
      BY <1>2, <2>4
    <3> HIDE DEF Right
    <3> QED BY <1>2, <2>1, <3>1
  <2>6. Kept(m) = IF m \in keep THEN Kept(m - 1) \cup {m} ELSE Kept(m - 1)
    <3>1. 1..m = (1..m - 1) \cup {m}
      BY <2>5
    <3> QED BY <3>1
  <2>7. m \notin keep => Right(m)
    <3> HIDE DEF Kept, Taken
    <3> QED BY <2>2, <2>4, <2>5, <2>6
  <2>8. m \in keep => Right(m)
    <3> SUFFICES ASSUME m \in keep PROVE Right(m)
      OBVIOUS
    <3>1. PICK places : Taken(up[m - 1], Kept(m - 1), places)
      BY <2>5
    <3> DEFINE more == places \o <<m>>
               r == up[m - 1]
    <3>2. Lists(more, Kept(m - 1) \cup {m})
      <4>1. \A x \in Kept(m - 1), y \in {m} : x < y
        BY <2>5
      <4>2. Lists(<<m>>, {m})
        BY <2>5, ListsOne
      <4> HIDE DEF Kept, more
      <4> QED BY <3>1, <4>1, <4>2, ListsConcat DEF more
    <3>3. /\ Len(more) = Len(places) + 1
          /\ \A i \in 1..Len(more) : more[i] = IF i <= Len(places) THEN places[i] ELSE m
      <4>1. places \in Seq(Int) /\ <<m>> \in Seq(Int) /\ Len(<<m>>) = 1 /\ <<m>>[1] = m
        BY <2>5, <3>1 DEF Lists
      <4>2. /\ Len(more) = Len(places) + 1
            /\ \A i \in 1..Len(places) + 1 : more[i] = IF i <= Len(places) THEN places[i]
                                                       ELSE <<m>>[i - Len(places)]
        BY <4>1, ConcatProperties
      <4>3. Len(places) \in Nat
        BY <4>1, LenProperties
      <4>4. \A i \in 1..Len(places) + 1 : ~(i <= Len(places)) => i - Len(places) = 1
        BY <4>3
      <4> HIDE DEF more
      <4> QED BY <4>1, <4>2, <4>4
    <3>4. /\ Append(r, s[m]) \in Seq(S) /\ Len(Append(r, s[m])) = Len(r) + 1
          /\ \A i \in 1..Len(r) : Append(r, s[m])[i] = r[i]
          /\ Append(r, s[m])[Len(r) + 1] = s[m]
      <4>1. r \in Seq(S) /\ s[m] \in S
        BY <1>2, <2>5, <3>1
      <4> HIDE DEF r
      <4> QED BY <4>1, AppendProperties
    <3>5. PICK l \in Nat : l = Len(places)
      BY <3>1, LenProperties DEF Lists
    <3>6. ASSUME NEW i \in 1..l + 1
          PROVE  more[i] \in Kept(m - 1) \cup {m} /\ Append(r, s[m])[i] = s[more[i]]
      <4>1. CASE i = l + 1
        <5>1. more[i] = m
          BY <3>3, <3>5, <4>1
        <5>2. Append(r, s[m])[i] = s[m]
          <6>1. Len(r) = l
            BY <3>1, <3>5
          <6> HIDE DEF r
          <6> QED BY <3>4, <4>1, <6>1
        <5> HIDE DEF more, Kept
        <5> QED BY <5>1, <5>2
      <4>2. CASE i # l + 1
        <5>1. i \in 1..l
          BY <4>2
        <5>2. more[i] = places[i]
          BY <3>3, <3>5, <5>1
        <5>3. Append(r, s[m])[i] = r[i]
          <6>1. Len(r) = l
            BY <3>1, <3>5
          <6> HIDE DEF r
          <6> QED BY <3>4, <5>1, <6>1
        <5>4. places[i] \in Kept(m - 1) /\ r[i] = s[places[i]]
          BY <3>1, <3>5, <5>1
        <5> HIDE DEF more, Kept, r
        <5> QED BY <5>2, <5>3, <5>4
      <4> QED BY <4>1, <4>2
    <3>7. up[m] = Append(r, s[m]) /\ Kept(m) = Kept(m - 1) \cup {m}
      <4> HIDE DEF Kept
      <4> QED BY <2>2, <2>4, <2>6
    <3>8. Len(r) = l /\ Len(more) = l + 1
      BY <3>1, <3>3, <3>5
    <3>9. Taken(up[m], Kept(m), more)
      <4> HIDE DEF more, Kept, r
      <4> QED BY <3>2, <3>4, <3>6, <3>7, <3>8
    <3> HIDE DEF Taken, more
    <3> QED BY <3>9
  <2> HIDE DEF Right
  <2> QED BY <2>3, <2>7, <2>8
<1>4. PICK places : Taken(up[N], Kept(N), places)
  <2>1. N \in 0..N
    BY <1>2
  <2> HIDE DEF Taken, Kept
  <2> QED BY <1>3, <2>1
<1>5. Kept(N) = keep
  BY <1>2
<1> HIDE DEF Kept
<1> QED BY <1>1, <1>4, <1>5
=============================================================================
