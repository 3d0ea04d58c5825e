------------------------------- MODULE Lists -------------------------------
(***************************************************************************)
(* Lists with some of their elements left out, by recursion on the length. *)
(***************************************************************************)
EXTENDS Integers, Sequences

(* the elements of seq that are in S, in their order *)
Keep(seq, S) ==
    LET kept[i \in 0 .. Len(seq)] ==
            IF i = 0 THEN <<>>
            ELSE IF seq[i] \in S THEN Append(kept[i - 1], seq[i]) ELSE kept[i - 1]
    IN  kept[Len(seq)]
==============================================================================
