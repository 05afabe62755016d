--------------------------- MODULE MCServerQueue ---------------------------
(* Clients and slots of ServerQueue are model values; a request for a slot *)
(* names s1, by its number or by one that wraps around; one for any slot   *)
(* names none.                                                             *)
EXTENDS ServerQueue, TLC

CONSTANTS c1, c2, c3, s1, s2

ThreeClients == {c1, c2, c3}
TwoSlots     == {s1, s2}
Anywhere     == [type |-> "completion", slot |-> None, wraps |-> FALSE]
Pinned       == [type |-> "completion", slot |-> s1, wraps |-> FALSE]
Wrapped      == [type |-> "completion", slot |-> s1, wraps |-> TRUE]
Action       == [type |-> "action", slot |-> s1, wraps |-> FALSE]
Completions  == {Anywhere, Pinned, Wrapped}
AnyOrAction  == {Anywhere, Action}
Symmetric    == Permutations(Clients)
=============================================================================
