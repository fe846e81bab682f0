----------------------------- MODULE Subsequence -----------------------------
(***************************************************************************)
(* A part of a sequence, chosen by places: what SelectSeq gives, with a    *)
(* recursive function in place of a recursive operator.                    *)
(***************************************************************************)
EXTENDS Naturals, Sequences

\* The elements of s at the given places, in the same order.
Chosen(s, places) ==
    LET chosen[i \in 0 .. Len(s)] ==
            IF i = 0 THEN <<>>
            ELSE IF i \in places THEN Append(chosen[i - 1], s[i])
            ELSE chosen[i - 1]
    IN  chosen[Len(s)]

==============================================================================
