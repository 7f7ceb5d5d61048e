-------------------------------- MODULE Lists --------------------------------
(* What a filter makes of a list, what is left of it from some place on,    *)
(* and what its elements weigh together.                                    *)
EXTENDS Integers, Sequences, FiniteSetsExt

\* Those of a list that are in a set, in the order of the list.
Those(list, set) ==
  LET those[n \in 0..Len(list)] ==
        IF n = 0 THEN <<>> ELSE IF list[n] \in set THEN Append(those[n - 1], list[n]) ELSE those[n - 1]
  IN  those[Len(list)]

\* The list from the first of some places on: what leads up to it is dropped.
FromFirst(list, places) ==
  IF places = {} THEN <<>> ELSE SubSeq(list, Min(places), Len(list))

Total(weight, list) ==
  LET total[n \in 0..Len(list)] == IF n = 0 THEN 0 ELSE total[n - 1] + weight[list[n]]
  IN  total[Len(list)]
=============================================================================
