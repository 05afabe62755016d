----------------------------- MODULE MCKVCells ------------------------------
(* The configurations and ranges TLC uses in KVCells.  With one stream, a  *)
(* batch is split in order (split_simple) and may have tokens of two       *)
(* sequences, or a token of both; with a stream per sequence, ubatches hold*)
(* as many tokens of each sequence (split_equal).                          *)
EXTENDS KVCells

One(s) == <<s>>
Both   == <<0, 1>>

Single == {<< <<One(s)>> >> : s \in Seqs}
Simple == Single \cup {<< <<One(1), One(0)>> >>} \cup {<< <<One(0)>>, <<One(s)>> >> : s \in Seqs}
Shared == Single \cup {<< <<Both>> >>, << <<Both>>, <<Both>> >>}
Equal  == Single \cup {<< <<One(0), One(1)>>, <<One(1)>> >>, << <<One(1)>>, <<One(1)>> >>}

SmallConfigs ==
    {[unified |-> TRUE,  swa |-> "standard", window |-> 2, size |-> 3, maxPos |-> 2, batches |-> Simple],
     [unified |-> TRUE,  swa |-> "chunked",  window |-> 2, size |-> 2, maxPos |-> 2, batches |-> Simple],
     [unified |-> TRUE,  swa |-> "none",     window |-> 0, size |-> 2, maxPos |-> 1, batches |-> Shared],
     [unified |-> FALSE, swa |-> "none",     window |-> 0, size |-> 2, maxPos |-> 1, batches |-> Equal]}

SmallRanges == {<<0, 9>>, <<1, 9>>}
BackOne     == {-1}

(* Rows are read through occupied cells, after the pending copies; nothing *)
(* reads what the last call was; and from a state that has strayed the only*)
(* step is Clear, so one such state stands for all.                        *)
Readable ==
    <<conf, Len(copies), strayed,
      IF strayed THEN <<>> ELSE <<cells, [at \in Held |-> Key(at)]>>>>
=============================================================================
