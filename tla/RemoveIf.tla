------------------------------ MODULE RemoveIf ------------------------------
(***************************************************************************)
(* The erase-remove idiom of C++, erase(remove_if(...)), on a vector or a  *)
(* deque: the elements that are in S go, the others stay in their order.   *)
(***************************************************************************)
EXTENDS Integers, Sequences

RemoveIf(seq, S) ==
    LET kept[n \in 0 .. Len(seq)] ==
            IF n = 0 THEN <<>>
            ELSE IF seq[n] \in S THEN kept[n - 1] ELSE Append(kept[n - 1], seq[n])
    IN  kept[Len(seq)]
=============================================================================
