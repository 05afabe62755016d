--------------------------- MODULE SlidingWindow ----------------------------
(***************************************************************************)
(* The attention masks of llama_hparams (src/src/llama-hparams.h): which   *)
(* earlier tokens a token does not see.                                    *)
(***************************************************************************)
EXTENDS Integers

SwaTypes == {"none", "standard", "chunked", "symmetric"}

(* is_masked_swa: the token at p1 does not see the one at p0.  The models  *)
(* whose window is symmetric have no memory.                               *)
IsMasked(n_swa, swa_type, p0, p1) ==
    \/ swa_type = "standard"  /\ p1 - p0 >= n_swa
    \/ swa_type = "chunked"   /\ p0 < (p1 \div n_swa) * n_swa
    \/ swa_type = "symmetric" /\ p1 - p0 \notin -(n_swa \div 2) .. n_swa \div 2
=============================================================================
