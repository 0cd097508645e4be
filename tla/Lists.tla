-------------------------------- MODULE Lists --------------------------------
(***************************************************************************)
(* Comprehensions and running totals over lists, as recursive functions    *)
(* that proofs can unfold.                                                 *)
(***************************************************************************)
EXTENDS Integers, Sequences

\* The entries of a list that are in `kept`, in list order: a comprehension.
Among(list, kept) ==
  LET among[n \in 0..Len(list)] ==
        IF n = 0 THEN <<>>
        ELSE IF list[n] \in kept THEN Append(among[n - 1], list[n]) ELSE among[n - 1]
  IN  among[Len(list)]

\* What a list of numbers adds up to.
Total(weights) ==
  LET sum[n \in 0..Len(weights)] == IF n = 0 THEN 0 ELSE sum[n - 1] + weights[n]
  IN  sum[Len(weights)]
==============================================================================
