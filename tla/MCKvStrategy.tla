---------------------------- MODULE MCKvStrategy ----------------------------
(* KvStrategy with two slots whose sums fall on both sides of every        *)
(* threshold, with and without the hysteresis, and with scores on both     *)
(* sides of the limits of adaptive.                                        *)
EXTENDS KvStrategy

CONSTANTS s1, s2
=============================================================================
