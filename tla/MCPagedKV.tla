----------------------------- MODULE MCPagedKV -----------------------------
(* The batches TLC decodes in PagedKV: up to two tokens of one sequence in *)
(* one or two ubatches, and one token of each sequence in one ubatch.      *)
EXTENDS PagedKV

Tok(s, p) == [seq |-> s, pos |-> p]
Positions == 0 .. MaxBlocks * BlockSize - 1

SmallBatches ==
    {<< <<Tok(s, p)>> >> : s \in Seqs, p \in Positions}
    \cup {<< <<Tok(s, p), Tok(s, p + 1)>> >> : s \in Seqs, p \in Positions \ {MaxBlocks * BlockSize - 1}}
    \cup {<< <<Tok(s, p)>>, <<Tok(s, p + 1)>> >> : s \in Seqs, p \in Positions \ {MaxBlocks * BlockSize - 1}}
    \cup {<< <<Tok(0, p), Tok(1, q)>> >> : p, q \in Positions}

(* No action and no property of the passing runs reads the GPU table, so   *)
(* states that differ only in it need not be told apart.                   *)
WithoutGpu == <<pool, phase, trial, batch, todo, ub, unified>>
=============================================================================
