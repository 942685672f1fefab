------------------------------- MODULE Lists --------------------------------
(***************************************************************************)
(* Parts of sequences, sums, and joins of functions.  SelectSeq and @@ do  *)
(* the same, but the proof system has no definitions of them.  Arguments   *)
(* are bound by a function where TLC would evaluate them again and again.  *)
(***************************************************************************)
EXTENDS Integers, Sequences

\* The elements of s at the indices in I, in their order.
Select(s, I) ==
  LET kept[n \in 0 .. Len(s)] ==
        IF n = 0 THEN <<>> ELSE IF n \in I THEN Append(kept[n - 1], s[n]) ELSE kept[n - 1]
  IN kept[Len(s)]

SumOf(s) == LET sum[n \in 0 .. Len(s)] == IF n = 0 THEN 0 ELSE sum[n - 1] + s[n] IN sum[Len(s)]

\* The first of an index set.
First(S) == CHOOSE n \in S : \A m \in S : n <= m

\* Both functions, f where they meet.
f ++ g ==
  LET joined[p \in {<<f, g>>}] ==
        [x \in DOMAIN p[1] \cup DOMAIN p[2] |-> IF x \in DOMAIN p[1] THEN p[1][x] ELSE p[2][x]]
  IN joined[<<f, g>>]
=============================================================================
