--------------------------- MODULE MCServerModels ---------------------------
(* ServerModels with two models and a limit of one: every load of the other*)
(* one has to evict.                                                       *)
EXTENDS ServerModels

CONSTANTS m1, m2, c1, c2
=============================================================================
