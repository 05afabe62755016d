---------------------------- MODULE MCThreadPool ----------------------------
(* ThreadPool with three threads.  The graphs have two computed nodes in a *)
(* row, with more chunks than threads and with fewer, an empty node in the *)
(* middle, and an empty node at the end.                                   *)
EXTENDS ThreadPool

Split     == [kind |-> "split"]
Chunks(n) == [kind |-> "chunks", n |-> n]
Empty     == [kind |-> "empty"]

MCGraphs == {<<Chunks(4), Split>>, <<Split, Empty, Chunks(2), Empty>>}
=============================================================================
