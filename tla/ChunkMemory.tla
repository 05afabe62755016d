---------------------------- MODULE ChunkMemory ----------------------------
(***************************************************************************)
(* What the chunk storage promises its callers                             *)
(* (src/include/thunder-lmcache-storage.h), whatever its tiers do: a chunk *)
(* is what the last put() of its key stored, at once and as a whole, until *)
(* it is evicted; what is gone comes back by another put() only, and a new *)
(* process knows nothing.  A put() stores the chunk it was called with, or *)
(* none, and says which.  There are no tiers, lists, sizes or files here.  *)
(***************************************************************************)
CONSTANTS
    Keys,
    Data,
    None        (* no data                                                 *)

VARIABLES
    store,      (* the data of each key                                    *)
    call,       (* the put() that runs, NoCall if there is none            *)
    latest      (* history: the data of the last put() that returned true  *)

vars == <<store, call, latest>>

NoCall == [key |-> None, data |-> None]

Init ==
    /\ store = [k \in Keys |-> None]
    /\ call = NoCall
    /\ latest = [k \in Keys |-> None]

Call(k, d) ==
    /\ call = NoCall
    /\ call' = [key |-> k, data |-> d]
    /\ UNCHANGED <<store, latest>>

Store ==
    /\ call # NoCall
    /\ store' = [store EXCEPT ![call.key] = call.data]
    /\ latest' = [latest EXCEPT ![call.key] = call.data]
    /\ call' = NoCall

Refuse ==
    /\ call # NoCall
    /\ call' = NoCall
    /\ UNCHANGED <<store, latest>>

(* Chunks are dropped, or cannot be read any more, at any time.            *)
Forget(gone) ==
    /\ store' = [k \in Keys |-> IF k \in gone THEN None ELSE store[k]]
    /\ UNCHANGED <<call, latest>>

Restart ==
    /\ store' = [k \in Keys |-> None]
    /\ call' = NoCall
    /\ latest' = [k \in Keys |-> None]

Next ==
    \/ \E k \in Keys, d \in Data : Call(k, d)
    \/ Store
    \/ Refuse
    \/ \E gone \in SUBSET Keys : Forget(gone)
    \/ Restart

Spec == Init /\ [][Next]_vars
=============================================================================
