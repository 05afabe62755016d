-------------------------- MODULE MCRecurrentCells --------------------------
(* The batches TLC decodes in RecurrentCells: a ubatch of neighbouring     *)
(* sequences (split_equal with sequential ids), one or two of those, and a *)
(* ubatch of one set of two sequences (split_seq).                         *)
EXTENDS RecurrentCells

Singles(a, b) == [i \in 1 .. b - a + 1 |-> <<a + i - 1>>]
Neighbours    == {Singles(a, b) : a, b \in Seqs} \ {<<>>}
Coupled       == {<< <<a, b>> >> : a \in Seqs, b \in Seqs}

SmallBatches ==
    {<<u>> : u \in Neighbours}
    \cup {<<u, v>> : u, v \in {w \in Neighbours : Len(w) <= 2}}
    \cup {<<u>> : u \in {w \in Coupled : w[1][1] < w[1][2]}}

(* Rows are read through src only, and after a failed graph no property of *)
(* the passing run speaks of what they hold.                               *)
Readable ==
    <<mem, todo, aborted, wiped, failed,
      [c \in Cells |-> IF ~failed /\ \E d \in Cells : mem.src[d] = c THEN rows[c] ELSE <<>>],
      [s \in Seqs |-> IF failed THEN Len(text[s]) ELSE text[s]]>>

MoveBack == {-1}
=============================================================================
