---------------------------- MODULE GraphCompute ----------------------------
(***************************************************************************)
(* What ggml_graph_compute promises (src/ggml/src/ggml-cpu/ggml-cpu.c,     *)
(* src/ggml/include/ggml-cpu.h), whatever its threads do: the nodes of the *)
(* graph are computed in their order, each of their parts once, and when   *)
(* it returns, all of them, or all up to the one it was aborted after.     *)
(***************************************************************************)
EXTENDS Naturals, Sequences

CONSTANTS
    Graphs,     (* graphs: sequences of nodes.  A node is split into as    *)
                (* many parts as there are threads, into a number of       *)
                (* chunks, or is empty                                     *)
    N           (* the threads of the pool                                 *)

VARIABLES
    graph,      (* the graph                                               *)
    threads,    (* the threads that compute it                             *)
    running,
    work,       (* the parts that have been computed                       *)
    abort       (* the first node that is not computed any more; 0: none   *)

vars == <<graph, threads, running, work, abort>>

Parts(k) ==
    CASE graph[k].kind = "split" -> 0..threads - 1
      [] graph[k].kind = "chunks" -> 0..graph[k].n - 1
      [] graph[k].kind = "empty" -> {}

Complete(k) == \A p \in Parts(k) : <<k, p>> \in work

Init ==
    /\ graph = <<>> /\ threads = 0
    /\ running = FALSE
    /\ work = {}
    /\ abort = 0

Begin(g, n) ==
    /\ ~running
    /\ running' = TRUE
    /\ graph' = g /\ threads' = n
    /\ work' = {} /\ abort' = 0

ComputePart(k, p) ==
    /\ running
    /\ <<k, p>> \notin work
    /\ abort = 0 \/ k < abort
    /\ \A j \in 1..k - 1 : Complete(j)
    /\ work' = work \cup {<<k, p>>}
    /\ UNCHANGED <<graph, threads, running, abort>>

(* Nodes that are being computed are completed. *)
Abort(k) ==
    /\ running /\ abort = 0
    /\ \A done \in work : done[1] < k
    /\ abort' = k
    /\ UNCHANGED <<graph, threads, running, work>>

Return ==
    /\ running
    /\ \A k \in DOMAIN graph : (abort = 0 \/ k < abort) => Complete(k)
    /\ running' = FALSE
    /\ UNCHANGED <<graph, threads, work, abort>>

Next ==
    \/ \E g \in Graphs, n \in 1..N : Begin(g, n)
    \/ \E k \in DOMAIN graph :
        \/ \E p \in Parts(k) : ComputePart(k, p)
        \/ Abort(k + 1)
    \/ Return

Spec == Init /\ [][Next]_vars
=============================================================================
