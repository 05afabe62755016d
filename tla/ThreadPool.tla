----------------------------- MODULE ThreadPool -----------------------------
(***************************************************************************)
(* The thread pool of the CPU backend without OpenMP                       *)
(* (src/ggml/src/ggml-cpu/ggml-cpu.c): kickoff, polling and sleeping       *)
(* workers, the barrier, the chunks of a matrix multiplication, abort,     *)
(* pause and resume, and the end of the pool.                              *)
(*                                                                         *)
(* Thread 0 is the one that calls ggml_graph_compute; it computes too.     *)
(* Pause, resume and free are calls of that thread as well, as in          *)
(* ggml_backend_cpu_set_threadpool.  A step is one atomic operation, one   *)
(* section under the mutex, or a part of a node; memory is sequentially    *)
(* consistent.  Polling may give up after any number of rounds.            *)
(***************************************************************************)
EXTENDS Naturals, Sequences

CONSTANTS
    N,          (* n_threads of the pool                                   *)
    Graphs,     (* see GraphCompute                                        *)
    MaxGraphs   (* bound on the number of graphs computed                  *)

ASSUME ThreadPoolAssumption ==
    /\ N \in Nat \ {0} /\ MaxGraphs \in Nat
    /\ Graphs \subseteq Seq([kind : {"split", "empty"}] \cup [kind : {"chunks"}, n : Nat])

VARIABLES
    graph,              (* cgraph                                          *)
    n_graph,            (* how many graphs there were, and how many        *)
                        (* threads the last one has                        *)
    n_barrier, n_barrier_passed,
    current_chunk,
    stop, pause,
    abort,              (* 0: none; the first node that is not computed    *)
    thread,             (* where each thread is                            *)
    work                (* (history) the parts computed: <<node, part>>    *)

vars == <<graph, n_graph, n_barrier, n_barrier_passed, current_chunk, stop, pause, abort, thread, work>>

pool    == <<graph, n_graph, stop, pause>>
barrier == <<n_barrier, n_barrier_passed>>

Threads == 0..N - 1
Workers == 1..N - 1
nth     == n_graph.threads

At(t, pc)  == thread[t].pc = pc
To(t, pc)  == [thread EXCEPT ![t].pc = pc]

(* A thread that goes to the barrier, and then to pc. *)
Enter(r, pc) == [r EXCEPT !.pc = "enter", !.then = pc]

Left(r) == [r EXCEPT !.pc = r.then, !.then = "none", !.seen = 0]

(* What all threads that wait on cond do after a broadcast. *)
WrongAwake(th) == [t \in Threads |->
    IF th[t].pc = "sleep" THEN [th[t] EXCEPT !.pc = "loop"] ELSE th[t]]

Awake(th) == [t \in Threads |->
    CASE th[t].pc = "sleep" -> [th[t] EXCEPT !.pc = "loop"]
      [] th[t].pc = "wait"  -> [th[t] EXCEPT !.pc = "check"]
      [] OTHER              -> th[t]]

Init ==
    /\ graph = <<>>
    /\ n_graph = [count |-> 0, threads |-> 0]
    /\ n_barrier = 0 /\ n_barrier_passed = 0
    /\ current_chunk = 0
    /\ stop = FALSE
    /\ pause \in BOOLEAN
    /\ abort = 0
    /\ thread = [t \in Threads |->
            [pc   |-> IF t = 0 THEN "idle" ELSE "loop",
             last |-> 0,        (* last_graph: the count                   *)
             node |-> 0,        (* node_n, from 1                          *)
             part |-> 0,        (* current_chunk, or ith                   *)
             seen |-> 0,        (* n_passed                                *)
             then |-> "none"]]  (* where the barrier leads                 *)
    /\ work = {}
-----------------------------------------------------------------------------
(* ggml_barrier. *)
BarrierEnter(t) ==
    /\ At(t, "enter")
    /\ thread' = [thread EXCEPT ![t] =
            IF nth = 1 THEN Left(@) ELSE [@ EXCEPT !.pc = "add", !.seen = n_barrier_passed]]
    /\ UNCHANGED <<pool, barrier, current_chunk, abort, work>>

WrongBarrierAdd(t) ==
    /\ At(t, "add")
    /\ n_barrier' = n_barrier + 1
    /\ thread' = To(t, IF n_barrier + 1 = nth - 1 THEN "reset" ELSE "spin")
    /\ UNCHANGED <<pool, n_barrier_passed, current_chunk, abort, work>>

BarrierAdd(t) ==
    /\ At(t, "add")
    /\ n_barrier' = n_barrier + 1
    /\ thread' = To(t, IF n_barrier = nth - 1 THEN "reset" ELSE "spin")
    /\ UNCHANGED <<pool, n_barrier_passed, current_chunk, abort, work>>

WrongBarrierReset(t) ==
    /\ At(t, "reset")
    /\ thread' = To(t, "pass")
    /\ UNCHANGED <<pool, barrier, current_chunk, abort, work>>

BarrierReset(t) ==
    /\ At(t, "reset")
    /\ n_barrier' = 0
    /\ thread' = To(t, "pass")
    /\ UNCHANGED <<pool, n_barrier_passed, current_chunk, abort, work>>

BarrierPass(t) ==
    /\ At(t, "pass")
    /\ n_barrier_passed' = n_barrier_passed + 1
    /\ thread' = [thread EXCEPT ![t] = Left(@)]
    /\ UNCHANGED <<pool, n_barrier, current_chunk, abort, work>>

BarrierSpin(t) ==
    /\ At(t, "spin")
    /\ n_barrier_passed # thread[t].seen
    /\ thread' = [thread EXCEPT ![t] = Left(@)]
    /\ UNCHANGED <<pool, barrier, current_chunk, abort, work>>

Barrier(t) ==
    BarrierEnter(t) \/ BarrierAdd(t) \/ BarrierReset(t) \/ BarrierPass(t) \/ BarrierSpin(t)
-----------------------------------------------------------------------------
(* ggml_graph_compute_thread: the loop over the nodes, and the chunks of a *)
(* matrix multiplication (ggml_compute_forward_mul_mat).                   *)
Count(k) == IF graph[k].kind = "chunks" THEN graph[k].n ELSE nth

WrongNextNode(t) ==
    LET k == thread[t].node
    IN  /\ At(t, "head")
        /\ thread' = [thread EXCEPT ![t] =
                IF k > Len(graph) \/ k = abort
                THEN [@ EXCEPT !.pc = IF t = 0 THEN "idle" ELSE "loop", !.node = 0]
                ELSE CASE graph[k].kind = "empty"  -> [@ EXCEPT !.node = k + 1]
                       [] graph[k].kind = "split"  -> [@ EXCEPT !.pc = "work", !.part = t]
                       [] graph[k].kind = "chunks" -> [Enter(@, "work") EXCEPT !.part = t]]
        /\ current_chunk' = IF t = 0 /\ thread'[t].then = "work" THEN nth ELSE current_chunk
        /\ UNCHANGED <<pool, barrier, abort, work>>

NextNode(t) ==
    LET k == thread[t].node
    IN  /\ At(t, "head")
        /\ thread' = [thread EXCEPT ![t] =
                IF k > Len(graph) \/ k = abort
                THEN [Enter(@, IF t = 0 THEN "idle" ELSE "loop") EXCEPT !.node = 0]
                ELSE CASE graph[k].kind = "empty"  -> [@ EXCEPT !.node = k + 1]
                       [] graph[k].kind = "split"  -> [@ EXCEPT !.pc = "work", !.part = t]
                       [] graph[k].kind = "chunks" -> [Enter(@, "work") EXCEPT !.part = t]]
        /\ current_chunk' = IF t = 0 /\ thread'[t].then = "work" THEN nth ELSE current_chunk
        /\ UNCHANGED <<pool, barrier, abort, work>>

Work(t) ==
    LET k == thread[t].node
        p == thread[t].part
    IN  /\ At(t, "work")
        /\ p < Count(k)
        /\ work' = work \cup {<<k, p>>}
        /\ thread' = To(t, IF nth >= Count(k) THEN "done" ELSE "take")
        /\ UNCHANGED <<pool, barrier, current_chunk, abort>>

TakeChunk(t) ==
    /\ At(t, "take")
    /\ thread' = [thread EXCEPT ![t].pc = "work", ![t].part = current_chunk]
    /\ current_chunk' = current_chunk + 1
    /\ UNCHANGED <<pool, barrier, abort, work>>

NoMoreWork(t) ==
    /\ At(t, "work")
    /\ thread[t].part >= Count(thread[t].node)
    /\ thread' = To(t, "done")
    /\ UNCHANGED <<pool, barrier, current_chunk, abort, work>>

(* The first thread asks abort_callback. *)
NodeDone(t) ==
    LET k == thread[t].node
    IN  /\ At(t, "done")
        /\ thread' = [thread EXCEPT ![t] =
                [(IF k < Len(graph) THEN Enter(@, "head") ELSE [@ EXCEPT !.pc = "head"])
                    EXCEPT !.node = k + 1, !.part = 0]]
        /\ abort' \in IF t = 0 THEN {abort, k + 1} ELSE {abort}
        /\ UNCHANGED <<pool, barrier, current_chunk, work>>

Compute(t) == NextNode(t) \/ Work(t) \/ TakeChunk(t) \/ NoMoreWork(t) \/ NodeDone(t)
-----------------------------------------------------------------------------
(* The workers: ggml_graph_compute_secondary_thread.  Observed is what a   *)
(* worker that looks for a new graph (ggml_graph_compute_thread_ready)     *)
(* remembers; it goes on to pc if it has no part in it.                    *)
New(t) == n_graph.count # thread[t].last

Observed(t, pc) ==
    [thread EXCEPT ![t] =
        IF t < nth THEN [@ EXCEPT !.last = n_graph.count, !.pc = "head", !.node = 1]
                   ELSE [@ EXCEPT !.last = n_graph.count, !.pc = pc]]

Loop(t) ==
    /\ At(t, "loop")
    /\ thread' = To(t, IF pause THEN "paused" ELSE "go")
    /\ UNCHANGED <<pool, barrier, current_chunk, abort, work>>

Go(t) ==
    /\ At(t, "go")
    /\ thread' = To(t, IF stop THEN "exited" ELSE "poll")
    /\ UNCHANGED <<pool, barrier, current_chunk, abort, work>>

Paused(t) ==
    /\ At(t, "paused")
    /\ thread' = To(t, IF pause THEN "sleep" ELSE "loop")
    /\ UNCHANGED <<pool, barrier, current_chunk, abort, work>>

(* A round of polling reads stop and pause, then n_graph, without the      *)
(* mutex, and may be the last.                                             *)
Poll(t) ==
    /\ At(t, "poll")
    /\ thread' \in {To(t, "look"), To(t, "check")}
    /\ stop \/ pause => thread' = To(t, "check")
    /\ UNCHANGED <<pool, barrier, current_chunk, abort, work>>

Look(t) ==
    /\ At(t, "look")
    /\ thread' = IF New(t) THEN Observed(t, "check") ELSE To(t, "poll")
    /\ UNCHANGED <<pool, barrier, current_chunk, abort, work>>

CheckForWork(t) ==
    /\ At(t, "check")
    /\ thread' = CASE stop \/ pause -> To(t, "loop")
                   [] ~(stop \/ pause) /\ New(t)  -> Observed(t, "loop")
                   [] ~(stop \/ pause) /\ ~New(t) -> To(t, "wait")
    /\ UNCHANGED <<pool, barrier, current_chunk, abort, work>>

Worker(t) == Loop(t) \/ Go(t) \/ Paused(t) \/ Poll(t) \/ Look(t) \/ CheckForWork(t)
-----------------------------------------------------------------------------
(* Thread 0: ggml_graph_compute sets the parameters, then wakes the        *)
(* workers (ggml_graph_compute_kickoff).                                   *)
GraphCompute(g, n) ==
    /\ At(0, "idle") /\ ~stop
    /\ n_graph.count < MaxGraphs
    /\ graph' = g
    /\ current_chunk' = 0 /\ abort' = 0
    /\ work' = {}
    /\ thread' = [thread EXCEPT ![0].pc = "kickoff", ![0].part = n]
    /\ UNCHANGED <<n_graph, stop, pause, barrier>>

Kickoff ==
    /\ At(0, "kickoff")
    /\ n_graph' = [count |-> n_graph.count + 1, threads |-> thread[0].part]
    /\ pause' = FALSE
    /\ thread' = Awake([thread EXCEPT ![0].pc = "head", ![0].node = 1, ![0].part = 0])
    /\ UNCHANGED <<graph, stop, barrier, current_chunk, abort, work>>

(* ggml_threadpool_pause and ggml_threadpool_resume. *)
PauseOrResume ==
    /\ At(0, "idle") /\ ~stop
    /\ pause' = ~pause
    /\ thread' = Awake(thread)
    /\ UNCHANGED <<graph, n_graph, stop, barrier, current_chunk, abort, work>>

WrongFree ==
    /\ At(0, "idle") /\ ~stop
    /\ stop' = TRUE
    /\ thread' = Awake([thread EXCEPT ![0].pc = "join"])
    /\ UNCHANGED <<graph, n_graph, pause, barrier, current_chunk, abort, work>>

Free ==
    /\ At(0, "idle") /\ ~stop
    /\ stop' = TRUE /\ pause' = FALSE
    /\ thread' = Awake([thread EXCEPT ![0].pc = "join"])
    /\ UNCHANGED <<graph, n_graph, barrier, current_chunk, abort, work>>

Join ==
    /\ At(0, "join")
    /\ \A t \in Workers : At(t, "exited")
    /\ thread' = To(0, "exited")
    /\ UNCHANGED <<pool, barrier, current_chunk, abort, work>>

Next ==
    \/ \E t \in Threads : Barrier(t) \/ Compute(t) \/ Worker(t)
    \/ \E g \in Graphs, n \in 1..N : GraphCompute(g, n)
    \/ Kickoff \/ PauseOrResume \/ Free \/ Join

(* Every thread runs.  Nobody has to ask for anything. *)
Spec ==
    /\ Init /\ [][Next]_vars
    /\ \A t \in Threads : WF_vars(Barrier(t) \/ Compute(t) \/ Worker(t))
    /\ WF_vars(Kickoff) /\ WF_vars(Join)
-----------------------------------------------------------------------------
TypeOK ==
    /\ graph \in {<<>>} \cup Graphs
    /\ n_graph \in [count : 0..MaxGraphs, threads : 0..N]
    /\ n_barrier \in 0..N /\ n_barrier_passed \in Nat
    /\ current_chunk \in Nat
    /\ {stop, pause} \subseteq BOOLEAN
    /\ abort \in 0..Len(graph) + 1
    /\ \A t \in Threads :
        /\ thread[t].last \in 0..n_graph.count
        /\ thread[t].node \in 0..Len(graph) + 1

Running == thread[0].pc \notin {"idle", "join", "exited"}

Promise == INSTANCE GraphCompute WITH
    threads <- IF At(0, "kickoff") THEN thread[0].part ELSE nth,
    running <- Running

(* The threads keep what ggml_graph_compute promises: no part of a node is *)
(* computed before the ones of all earlier nodes or computed twice, and    *)
(* what it returns after is complete, also if it was aborted.              *)
Implements == Promise!Spec

(* ggml_graph_compute: "No worker threads should be accessing the          *)
(* parameters below at this stage".                                        *)
ParametersQuiet ==
    At(0, "idle") \/ At(0, "kickoff") =>
        \A t \in Workers : thread[t].pc \in {"loop", "go", "paused", "sleep", "poll", "look", "check", "wait", "spin", "exited"}

(* A graph is computed in the end: no wake-up is lost, whatever a worker   *)
(* is doing when the graph comes, and no thread is left at the barrier.    *)
ComputeEnds == Running ~> At(0, "idle")

(* The end of the pool reaches workers that poll, wait, are paused or have *)
(* not left their last barrier.                                            *)
FreeEnds == At(0, "join") ~> At(0, "exited")
=============================================================================
