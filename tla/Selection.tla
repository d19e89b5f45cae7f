------------------------------ MODULE Selection ------------------------------
(***************************************************************************)
(* The loop that the code makes choices with: over a sequence from its     *)
(* start, keeping some elements. It is a recursive function, about which   *)
(* proofs can reason.                                                      *)
(***************************************************************************)
EXTENDS Naturals, Sequences

\* The elements of s at the positions in keep.
Selected(s, keep) ==
  LET upTo[n \in 0..Len(s)] ==
        IF n = 0 THEN <<>>
        ELSE IF n \in keep THEN Append(upTo[n - 1], s[n]) ELSE upTo[n - 1]
  IN  upTo[Len(s)]
=============================================================================
