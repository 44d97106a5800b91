--------------------------------- MODULE Sums ---------------------------------
(***************************************************************************)
(* What the loops of the code make of a list, one element after the other: *)
(* the sum of its sizes, and the elements that are kept.                   *)
(***************************************************************************)
EXTENDS Naturals, Sequences

\* By the number of elements that are in, the total.
RunningTotal(s) ==
  LET total[n \in 0..Len(s)] == IF n = 0 THEN 0 ELSE total[n - 1] + s[n]
  IN  total

SumOf(s) == RunningTotal(s)[Len(s)]

\* By the number of elements that were looked at, those of them that are in the set.
RunningFilter(s, set) ==
  LET kept[n \in 0..Len(s)] ==
        IF n = 0 THEN <<>>
        ELSE IF s[n] \in set THEN Append(kept[n - 1], s[n]) ELSE kept[n - 1]
  IN  kept

Filter(s, set) == RunningFilter(s, set)[Len(s)]
=============================================================================
