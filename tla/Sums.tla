-------------------------------- MODULE Sums --------------------------------
(***************************************************************************)
(* Sums of sequences of numbers, by recursion on the length.               *)
(***************************************************************************)
EXTENDS Integers, Sequences

Total(seq) ==
    LET upTo[i \in 0 .. Len(seq)] == IF i = 0 THEN 0 ELSE upTo[i - 1] + seq[i]
    IN  upTo[Len(seq)]
==============================================================================
