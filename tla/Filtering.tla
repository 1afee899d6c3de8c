------------------------------- MODULE Filtering -------------------------------
(* The rows of a list that are kept, in their order, as the loops and list  *)
(* comprehensions of the gateway keep them: SelectSeq with the set of what  *)
(* passes for the test, written out because the prover cannot expand        *)
(* SelectSeq.                                                               *)
EXTENDS Naturals, Sequences

Filter(s, passing) ==
    LET kept[n \in 0..Len(s)] ==
            IF n = 0 THEN <<>>
            ELSE IF s[n] \in passing THEN Append(kept[n - 1], s[n]) ELSE kept[n - 1]
    IN kept[Len(s)]
===============================================================================
