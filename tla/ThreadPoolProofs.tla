-------------------------- MODULE ThreadPoolProofs --------------------------
(***************************************************************************)
(* Theorems about ThreadPool, for any number of threads and any graphs:    *)
(* the variables have their types, and no worker touches the parameters of *)
(* a graph while the next one is set up.  Both follow from what the        *)
(* barrier does, which Inv describes.  And ThreadPool implements           *)
(* GraphCompute, because of what WorkInvariant says of who computes what.  *)
(*                                                                         *)
(* A barrier lets its threads go one after the other, and one may be at    *)
(* the next barrier before another has left the last.  A thread that may   *)
(* go is described by where it goes (Here), and a worker that has not yet  *)
(* seen the new graph by where it begins: so described, all threads of a   *)
(* graph are on their way to the same barrier (Key), and all of them are   *)
(* out of the graph or none is.                                            *)
(***************************************************************************)
EXTENDS ThreadPool, FiniteSetTheorems, NaturalsInduction, WellFoundedInduction, TLAPS

(* Where a thread is that has no part in a graph. *)
Rest    == {"idle", "kickoff", "join", "exited",
            "loop", "go", "paused", "sleep", "poll", "look", "check", "wait"}
Callers == {"idle", "kickoff", "join"}
Meeting == {"enter", "add", "spin", "reset", "pass"}
Calc    == {"work", "take", "done"}
Pcs     == Rest \cup Meeting \cup Calc \cup {"head"}

Home(t) == IF t = 0 THEN "idle" ELSE "loop"

Record == [pc : Pcs, last : Nat, node : Nat, part : Nat, seen : Nat,
           then : {"none", "idle", "loop", "head", "work"}]

Part == {t \in Threads : t < nth}

(* The last thread has passed the barrier that t waits at. *)
Gone(t) == At(t, "spin") /\ thread[t].seen # n_barrier_passed
Wait(t) == At(t, "spin") /\ thread[t].seen = n_barrier_passed
Here(t) == IF Gone(t) THEN Left(thread[t]) ELSE thread[t]

Due(t) == t # 0 /\ New(t)
Out(t) == Here(t).pc \in Rest /\ ~Due(t)

(* The barrier to which a thread of graph g goes if a is the node it stops *)
(* at: the one before or after a node, or the last one.                    *)
End         == <<"end", 0>>
After(g, k) == IF k < Len(g) THEN <<"head", k + 1>> ELSE End

Ends(g, a, k)  == k > Len(g) \/ k = a
Stops(g, a, k) == {j \in k..Len(g) + 1 : Ends(g, a, j) \/ g[j].kind # "empty"}
First(g, a, k) == CHOOSE j \in Stops(g, a, k) : \A i \in Stops(g, a, k) : j <= i

KeyAt(g, a, k) == IF Ends(g, a, k) THEN End
                  ELSE IF g[k].kind = "chunks" THEN <<"work", k>> ELSE After(g, k)

KeyFrom(g, a, k) == KeyAt(g, a, First(g, a, k))

KeyOf(g, a, r) ==
    CASE r.pc \in Rest    -> KeyFrom(g, a, 1)
      [] r.pc = "head"    -> KeyFrom(g, a, r.node)
      [] r.pc \in Calc    -> After(g, r.node)
      [] r.pc \in Meeting -> IF r.then \in {"head", "work"} THEN <<r.then, r.node>> ELSE End

Key(t) == KeyOf(graph, abort, Here(t))
-----------------------------------------------------------------------------
Types ==
    /\ thread \in [Threads -> Record]
    /\ graph \in {<<>>} \cup Graphs
    /\ n_graph \in [count : 0..MaxGraphs, threads : 0..N]
    /\ n_barrier \in Nat /\ n_barrier_passed \in Nat
    /\ current_chunk \in Nat
    /\ stop \in BOOLEAN /\ pause \in BOOLEAN
    /\ abort \in 0..Len(graph) + 1

Control(t) ==
    LET r == thread[t]
    IN  /\ r.pc \in IF t = 0 THEN Callers \cup {"exited"} \cup Meeting \cup Calc \cup {"head"}
                             ELSE Pcs \ Callers
        /\ r.last <= n_graph.count
        /\ r.pc \in Rest => r.node = 0
        /\ r.pc \notin Meeting => r.then = "none"
        /\ r.pc \in Calc => r.node \in 1..Len(graph)
        /\ r.pc = "head" => r.node \in 1..Len(graph) + 1
        /\ r.pc \in Meeting =>
            /\ r.then \in {"head", "work", Home(t)}
            /\ r.then = Home(t) => r.node = 0
            /\ r.then = "work" => r.node \in 1..Len(graph)
            /\ r.then = "head" => r.node \in 1..Len(graph) + 1
        /\ r.pc = "add" => r.seen = n_barrier_passed
        /\ r.pc = "spin" => r.seen <= n_barrier_passed
        /\ Here(t).pc \notin Rest => ~Due(t)

(* What thread 0 does alone: set up a graph, and abort it. *)
Caller ==
    LET r == thread[0]
    IN  /\ r.pc = "kickoff" => abort = 0 /\ r.part \in 1..N /\ n_graph.count < MaxGraphs
        /\ abort # 0 =>
            /\ r.pc \notin Calc
            /\ r.pc = "head" => r.node = abort
            /\ r.pc \in Meeting => r.then # "work" /\ (r.then = "head" => r.node = abort)

(* The barrier: the threads that have arrived are counted, and the last    *)
(* one lets them go when the others wait.                                  *)
Arrived == {t \in Threads : Wait(t) \/ At(t, "reset")}
Last(t) == At(t, "reset") \/ At(t, "pass")

Counted ==
    /\ \A t \in Threads : Last(t) => \A u \in Part \ {t} : Wait(u)
    /\ IF \E t \in Threads : At(t, "pass") THEN n_barrier = 0
                                          ELSE n_barrier = Cardinality(Arrived)

Together ==
    /\ \A t \in Threads \ Part : Here(t).pc \in Rest
    /\ \A t, u \in Part : Out(t) => Out(u)
    /\ \A t, u \in Part : ~Out(t) /\ ~Out(u) => Key(t) = Key(u)

Inv == Types /\ (\A t \in Threads : Control(t)) /\ Caller /\ Counted /\ Together
-----------------------------------------------------------------------------
LEMMA Params == N \in Nat \ {0} /\ MaxGraphs \in Nat
BY ThreadPoolAssumption

(* Every set of natural numbers has a least one.                           *)
LEMMA Least ==
    ASSUME NEW S \in SUBSET Nat, S # {}
    PROVE  \E m \in S : \A i \in S : m <= i
<1> DEFINE R == {ss \in Nat \X Nat : ss[1] < ss[2]}
<1>1. IsWellFoundedOn(R, Nat)
  BY NatLessThanWellFounded DEF OpToRel
<1>2. PICK x \in S : \A y \in S : <<y, x>> \notin R
  <2> HIDE DEF R
  <2> QED  BY <1>1, WFMin
<1>3. \A y \in S : ~(y < x)
  BY <1>2
<1> QED  BY <1>3

(* What graphs are.                                                        *)
IsGraph(g) ==
    /\ g \in Seq([kind : {"split", "empty"}] \cup [kind : {"chunks"}, n : Nat])
    /\ Len(g) \in Nat
    /\ \A k \in 1..Len(g) : g[k].kind \in {"split", "empty", "chunks"}

LEMMA GraphIs == \A g \in {<<>>} \cup Graphs : IsGraph(g)
<1> DEFINE Node == [kind : {"split", "empty"}] \cup [kind : {"chunks"}, n : Nat]
<1> SUFFICES ASSUME NEW g \in {<<>>} \cup Graphs PROVE IsGraph(g)
  OBVIOUS
<1>1. g \in Seq(Node)
  <2>1. <<>> \in Seq(Node)
    OBVIOUS
  <2> HIDE DEF Node
  <2> QED  BY <2>1, ThreadPoolAssumption DEF Node
<1>2. \A k \in 1..Len(g) : g[k] \in Node
  BY <1>1
<1>3. Len(g) \in Nat
  BY <1>1
<1> QED  BY <1>1, <1>2, <1>3 DEF IsGraph

(* First is the first node from k on that a thread does not pass over.     *)
LEMMA FirstIs ==
    ASSUME NEW g, IsGraph(g), NEW a \in Nat, NEW k \in 1..Len(g) + 1
    PROVE  /\ First(g, a, k) \in Stops(g, a, k)
           /\ \A i \in Stops(g, a, k) : First(g, a, k) <= i
           /\ \A j \in Stops(g, a, k) : (\A i \in Stops(g, a, k) : j <= i) => First(g, a, k) = j
<1>1. Len(g) \in Nat
  BY DEF IsGraph
<1>2. Stops(g, a, k) \in SUBSET Nat /\ Len(g) + 1 \in Stops(g, a, k)
  BY <1>1 DEF Stops, Ends
<1>3. \E m \in Stops(g, a, k) : \A i \in Stops(g, a, k) : m <= i
  BY <1>2, Least
<1>4. First(g, a, k) \in Stops(g, a, k) /\ \A i \in Stops(g, a, k) : First(g, a, k) <= i
  BY <1>3 DEF First
<1> QED  BY <1>2, <1>4

(* The three things a thread can do at the head of the loop.               *)
LEMMA KeyEnds ==
    ASSUME NEW g, IsGraph(g), NEW a \in Nat, NEW k \in 1..Len(g) + 1, Ends(g, a, k)
    PROVE  KeyFrom(g, a, k) = End
<1>1. Len(g) \in Nat
  BY DEF IsGraph
<1>2. k \in Stops(g, a, k) /\ \A i \in Stops(g, a, k) : k <= i
  BY <1>1 DEF Stops
<1>3. First(g, a, k) = k
  BY <1>2, FirstIs
<1> QED  BY <1>3 DEF KeyFrom, KeyAt

LEMMA KeyComputes ==
    ASSUME NEW g, IsGraph(g), NEW a \in Nat, NEW k \in 1..Len(g), ~Ends(g, a, k), g[k].kind # "empty"
    PROVE  KeyFrom(g, a, k) = IF g[k].kind = "chunks" THEN <<"work", k>> ELSE After(g, k)
<1>1. Len(g) \in Nat
  BY DEF IsGraph
<1>2. k \in Stops(g, a, k) /\ \A i \in Stops(g, a, k) : k <= i
  BY <1>1 DEF Stops
<1>3. First(g, a, k) = k
  BY <1>1, <1>2, FirstIs
<1> QED  BY <1>3 DEF KeyFrom, KeyAt

LEMMA KeyPasses ==
    ASSUME NEW g, IsGraph(g), NEW a \in Nat, NEW k \in 1..Len(g), ~Ends(g, a, k), g[k].kind = "empty"
    PROVE  KeyFrom(g, a, k) = KeyFrom(g, a, k + 1)
<1>1. Len(g) \in Nat
  BY DEF IsGraph
<1>2. Stops(g, a, k) = Stops(g, a, k + 1)
  BY <1>1 DEF Stops
<1> QED  BY <1>2 DEF First, KeyFrom

(* Thread 0 stops at the node after k: who was to meet it after k still is.*)
LEMMA KeyAborts ==
    ASSUME NEW g, IsGraph(g), NEW k \in 1..Len(g), NEW m \in 1..Len(g) + 1,
           KeyFrom(g, 0, m) = After(g, k)
    PROVE  KeyFrom(g, k + 1, m) = After(g, k)
<1> DEFINE f == First(g, 0, m)
<1>1. Len(g) \in Nat
  BY DEF IsGraph
<1>2. /\ f \in Stops(g, 0, m)
      /\ \A i \in Stops(g, 0, m) : f <= i
  BY FirstIs
<1> HIDE DEF f
<1>3. f \in m..Len(g) + 1
  BY <1>2 DEF Stops
<1>4. CASE k = Len(g)
  <2>1. Stops(g, k + 1, m) = Stops(g, 0, m)
    BY <1>1, <1>4 DEF Stops, Ends
  <2>2. First(g, k + 1, m) = f
    BY <2>1 DEF f, First
  <2>3. Ends(g, k + 1, f) <=> Ends(g, 0, f)
    BY <1>1, <1>3, <1>4 DEF Ends
  <2> QED  BY <2>2, <2>3 DEF KeyFrom, KeyAt, f
<1>5. CASE k < Len(g)
  <2>1. KeyAt(g, 0, f) = <<"head", k + 1>>
    BY <1>5 DEF KeyFrom, After, f
  <2>2. ~Ends(g, 0, f) /\ g[f].kind # "chunks" /\ f = k
    BY <2>1, <1>1, <1>3 DEF KeyAt, End, After
  <2>3. f \in Stops(g, k + 1, m) /\ \A i \in Stops(g, k + 1, m) : f <= i
    BY <1>1, <1>2, <1>3, <2>2 DEF Stops, Ends
  <2>4. First(g, k + 1, m) = f
    BY <1>1, <2>3, FirstIs
  <2>5. ~Ends(g, k + 1, f)
    BY <1>1, <1>3, <2>2 DEF Ends
  <2> QED  BY <2>2, <2>4, <2>5 DEF KeyFrom, KeyAt
<1> QED  BY <1>1, <1>4, <1>5
-----------------------------------------------------------------------------
LEMMA InitInv == Init => Inv
<1> SUFFICES ASSUME Init PROVE Inv
  OBVIOUS
<1> USE DEF Init, At, nth
<1>1. Types
  <2>1. thread \in [Threads -> Record]
    BY DEF Record, Pcs, Rest
  <2>2. /\ n_graph \in [count : 0..MaxGraphs, threads : 0..N]
        /\ abort \in 0..Len(graph) + 1
    BY Params
  <2>3. stop \in BOOLEAN /\ pause \in BOOLEAN
    OBVIOUS
  <2>4. n_barrier \in Nat /\ n_barrier_passed \in Nat /\ current_chunk \in Nat /\ graph = <<>>
    OBVIOUS
  <2> QED  BY <2>1, <2>2, <2>3, <2>4 DEF Types
<1>2. \A t \in Threads : Here(t) = thread[t] /\ ~Wait(t) /\ ~Last(t) /\ Here(t).pc \in Rest
  BY DEF Here, Gone, Wait, Last, Rest
<1>3. \A t \in Threads : Control(t)
  BY <1>2 DEF Control, Callers, Meeting, Calc, Pcs, Rest, Threads
<1>4. Caller
  BY Params DEF Caller, Threads
<1>5. Counted
  <2>1. Arrived = {}
    BY <1>2 DEF Arrived, Last
  <2> QED  BY <1>2, <2>1, FS_EmptySet DEF Counted, Last
<1>6. Part = {}
  BY Params DEF Part, Threads
<1>7. Together
  BY <1>2, <1>6 DEF Together
<1> QED  BY <1>1, <1>3, <1>4, <1>5, <1>7 DEF Inv

(* A thread that does not move.                                            *)
LEMMA Stays ==
    ASSUME NEW u \in Threads, thread'[u] = thread[u], UNCHANGED <<n_graph, n_barrier_passed>>
    PROVE  /\ Here(u)' = Here(u)
           /\ Wait(u)' <=> Wait(u)
           /\ Last(u)' <=> Last(u)
           /\ At(u, "reset")' <=> At(u, "reset")
           /\ At(u, "pass")' <=> At(u, "pass")
           /\ Due(u)' <=> Due(u)
           /\ Out(u)' <=> Out(u)
BY DEF Here, Gone, Left, Wait, Last, At, Due, New, Out

(* A step of one thread that does not open a barrier: all but Counted.     *)
LEMMA OneKeeps ==
    ASSUME Inv, NEW t \in Threads,
           \A u \in Threads \ {t} : thread'[u] = thread[u],
           UNCHANGED <<graph, n_graph, n_barrier_passed>>,
           Control(t)',
           t # 0 => abort' = abort,
           t = 0 => Caller',
           \A u \in Part \ {t} : Key(u)' = Key(u),
           t \notin Part => Here(t)'.pc \in Rest,
           t \in Part /\ Part # {t} => (Out(t)' <=> Out(t)) /\ (~Out(t) => Key(t)' = Key(t))
    PROVE  (\A u \in Threads : Control(u))' /\ Caller' /\ Together' /\ Part' = Part
<1>1. \A u \in Threads \ {t} : Here(u)' = Here(u) /\ (Due(u)' <=> Due(u)) /\ (Out(u)' <=> Out(u))
  BY Stays
<1>2. (\A u \in Threads : Control(u))'
  <2> SUFFICES ASSUME NEW u \in Threads PROVE Control(u)'
    BY DEF Threads
  <2>1. CASE u = t
    BY <2>1
  <2>2. CASE u # t
    BY <1>1, <2>2 DEF Inv, Control
  <2> QED  BY <2>1, <2>2
<1>3. Caller'
  <2>1. CASE t # 0
    <3>1. 0 \in Threads
      BY Params DEF Threads
    <3> QED  BY <2>1, <3>1 DEF Inv, Caller
  <2> QED  BY <2>1
<1>4. Part' = Part
  BY DEF Part, Threads, nth
<1>5. Together'
  <2>1. \A u \in Threads \ Part : Here(u)'.pc \in Rest
    BY <1>1 DEF Inv, Together
  <2>2. \A u, v \in Part : Out(u)' => Out(v)'
    BY <1>1 DEF Inv, Together, Part
  <2>3. \A u, v \in Part : ~Out(u)' /\ ~Out(v)' => Key(u)' = Key(v)'
    BY <1>1 DEF Inv, Together, Part
  <2> QED  BY <1>4, <2>1, <2>2, <2>3 DEF Together, Threads
<1> QED  BY <1>2, <1>3, <1>4, <1>5

(* One that does not arrive at a barrier either.                           *)
LEMMA OneMoves ==
    ASSUME Inv, NEW t \in Threads,
           \A u \in Threads \ {t} : thread'[u] = thread[u],
           UNCHANGED <<graph, n_graph, n_barrier, n_barrier_passed>>,
           ~Wait(t), ~Last(t), ~Wait(t)', ~Last(t)',
           Types', Control(t)',
           t # 0 => abort' = abort,
           t = 0 => Caller',
           \A u \in Part \ {t} : Key(u)' = Key(u),
           t \notin Part => Here(t)'.pc \in Rest,
           t \in Part /\ Part # {t} => (Out(t)' <=> Out(t)) /\ (~Out(t) => Key(t)' = Key(t))
    PROVE  Inv'
<1>1. (\A u \in Threads : Control(u))' /\ Caller' /\ Together' /\ Part' = Part
  BY OneKeeps
<1>2. \A u \in Threads \ {t} :
        /\ Wait(u)' <=> Wait(u)
        /\ Last(u)' <=> Last(u)
        /\ At(u, "reset")' <=> At(u, "reset")
        /\ At(u, "pass")' <=> At(u, "pass")
  BY Stays
<1>3. Counted'
  <2>1. Arrived' = Arrived
    BY <1>2 DEF Arrived, Last, Threads
  <2>2. (\E u \in Threads : At(u, "pass"))' <=> \E u \in Threads : At(u, "pass")
    BY <1>2 DEF Last, Threads
  <2>3. ASSUME NEW v \in Threads, Last(v)', NEW u \in Part \ {v}
        PROVE  Wait(u)'
    BY <1>2, <2>3 DEF Inv, Counted, Part
  <2> QED  BY <1>1, <2>1, <2>2, <2>3 DEF Inv, Counted, Threads
<1> QED  BY <1>1, <1>3 DEF Inv
-----------------------------------------------------------------------------
(* A thread in a graph is one of those that compute it, and knows it.      *)
LEMMA Takes ==
    ASSUME Inv, NEW t \in Threads, Here(t).pc \notin Rest
    PROVE  t \in Part /\ ~Due(t) /\ ~Out(t)
BY DEF Inv, Together, Control, Out

(* A step in which neither the graph nor its abortion changes.             *)
LEMMA KeysStay ==
    ASSUME NEW t \in Threads, \A u \in Threads \ {t} : thread'[u] = thread[u],
           UNCHANGED <<graph, n_graph, n_barrier_passed, abort>>
    PROVE  \A u \in Part \ {t} : Key(u)' = Key(u)
<1> SUFFICES ASSUME NEW u \in Part \ {t} PROVE Key(u)' = Key(u)
  OBVIOUS
<1>1. Here(u)' = Here(u)
  BY Stays DEF Part
<1> QED  BY <1>1 DEF Key

LEMMA EnterInv == ASSUME Inv, NEW t \in Threads, BarrierEnter(t) PROVE Inv'
<1> USE DEF At, nth
<1>1. thread[t].pc = "enter" /\ thread[t] \in Record /\ Types /\ Control(t)
  BY DEF BarrierEnter, Inv, Types
<1>2. Here(t) = thread[t] /\ ~Wait(t) /\ ~Last(t)
  BY <1>1 DEF Here, Gone, Wait, Last
<1>3. t \in Part /\ ~Due(t) /\ ~Out(t)
  BY <1>1, <1>2, Takes DEF Rest
<1>4. \A u \in Threads \ {t} : thread'[u] = thread[u]
  BY <1>1 DEF BarrierEnter, Types
<1>5. UNCHANGED <<graph, n_graph, n_barrier, n_barrier_passed, abort>>
  BY DEF BarrierEnter, pool, barrier
<1>6. CASE nth = 1
  <2>1. Part = {t}
    BY <1>3, <1>6 DEF Part, Threads
  <2>2. thread'[t] = Left(thread[t]) /\ thread'[t].pc \in {"head", "work", Home(t)}
    BY <1>1, <1>6 DEF BarrierEnter, Types, Control, Meeting, Left, Record
  <2>3. Types'
    BY <1>1, <1>5, <2>2 DEF BarrierEnter, Types, Left, Record, pool, barrier, Pcs, Rest, Calc, Home
  <2>4. Here(t)' = thread'[t] /\ ~Wait(t)' /\ ~Last(t)'
    BY <2>2 DEF Here, Gone, Wait, Last, Home
  <2>5. Control(t)'
    BY <1>1, <1>3, <1>5, <2>2, <2>4 DEF Control, Left, Record, Home, Pcs, Rest, Callers, Meeting, Calc, Due, New
  <2>6. t = 0 => Caller'
    BY <1>1, <1>5, <2>2 DEF Inv, Caller, Left, Record, Home, Meeting, Calc
  <2>7. \A u \in Part \ {t} : Key(u)' = Key(u)
    BY <2>1
  <2> QED  BY <1>2, <1>3, <1>4, <1>5, <2>1, <2>3, <2>4, <2>5, <2>6, <2>7, OneMoves
<1>7. CASE nth # 1
  <2>2. thread'[t] = [thread[t] EXCEPT !.pc = "add", !.seen = n_barrier_passed]
    BY <1>1, <1>7 DEF BarrierEnter, Types
  <2>3. Types'
    BY <1>1, <1>5, <1>7, <2>2 DEF BarrierEnter, Types, Record, pool, barrier, Pcs, Meeting
  <2>4. Here(t)' = thread'[t] /\ ~Wait(t)' /\ ~Last(t)'
    BY <1>1, <2>2 DEF Here, Gone, Wait, Last, Record
  <2>5. Control(t)'
    BY <1>1, <1>3, <1>5, <2>2, <2>4 DEF Control, Record, Home, Pcs, Rest, Callers, Meeting, Calc, Due, New
  <2>6. t = 0 => Caller'
    BY <1>1, <1>5, <2>2 DEF Inv, Caller, Record, Meeting, Calc
  <2>7. ~Out(t)' /\ Key(t)' = Key(t)
    BY <1>1, <1>2, <1>5, <2>2, <2>4 DEF Out, Key, KeyOf, Record, Rest, Calc, Meeting
  <2> QED  BY <1>2, <1>3, <1>4, <1>5, <2>3, <2>4, <2>5, <2>6, <2>7, KeysStay, OneMoves
<1> QED  BY <1>6, <1>7

(* The threads at a barrier are among those that compute the graph; the    *)
(* set of these has nth members.                                           *)
LEMMA Parties ==
    ASSUME Inv
    PROVE  /\ Arrived \subseteq Part
           /\ IsFiniteSet(Part) /\ Cardinality(Part) = nth
<1>1. \A u \in Arrived : Here(u).pc \notin Rest
  BY DEF Arrived, Wait, At, Here, Gone, Rest
<1>2. Part = 0..nth - 1 /\ nth \in Nat
  BY Params DEF Inv, Types, Part, Threads, nth
<1>3. Arrived \subseteq Part
  BY <1>1, Takes DEF Arrived
<1> QED  BY <1>2, <1>3, FS_Interval

LEMMA AddInv == ASSUME Inv, NEW t \in Threads, BarrierAdd(t) PROVE Inv'
<1>1. thread[t].pc = "add" /\ thread[t] \in Record /\ Types /\ Control(t)
  BY DEF BarrierAdd, Inv, Types, At
<1>2. Here(t) = thread[t] /\ ~Wait(t) /\ ~Last(t) /\ thread[t].seen = n_barrier_passed
  BY <1>1 DEF Here, Gone, Wait, Last, At, Control
<1>3. t \in Part /\ ~Due(t) /\ ~Out(t)
  BY <1>1, <1>2, Takes DEF Rest
<1>4. /\ \A u \in Threads \ {t} : thread'[u] = thread[u]
      /\ thread'[t] = [thread[t] EXCEPT !.pc = IF n_barrier = nth - 1 THEN "reset" ELSE "spin"]
      /\ n_barrier' = n_barrier + 1
  BY <1>1 DEF BarrierAdd, Types, To
<1>5. UNCHANGED <<graph, n_graph, n_barrier_passed, abort>>
  BY DEF BarrierAdd, pool
<1>6. Types'
  <2>1. thread' \in [Threads -> Record]
    BY <1>1 DEF BarrierAdd, To, Types, Record, Pcs, Meeting
  <2> QED  BY <1>1, <1>4, <1>5, <2>1 DEF BarrierAdd, Types, pool
<1>7. Here(t)' = thread'[t] /\ At(t, "pass")' = FALSE
  BY <1>1, <1>2, <1>4, <1>5 DEF Here, Gone, At, Record
<1>8. Control(t)'
  BY <1>1, <1>2, <1>3, <1>4, <1>5, <1>7 DEF Control, Record, Home, Pcs, Rest, Callers, Meeting, Calc, Due, New
<1>9. t = 0 => Caller'
  BY <1>1, <1>4, <1>5 DEF Inv, Caller, Record, Meeting, Calc
<1>10. ~Out(t)' /\ Key(t)' = Key(t)
  BY <1>1, <1>2, <1>4, <1>5, <1>7 DEF Out, Key, KeyOf, Record, Rest, Calc, Meeting
<1>11. (\A u \in Threads : Control(u))' /\ Caller' /\ Together' /\ Part' = Part
  BY <1>3, <1>4, <1>5, <1>8, <1>9, <1>10, KeysStay, OneKeeps
<1>12. \A u \in Threads \ {t} :
         /\ Wait(u)' <=> Wait(u)
         /\ Last(u)' <=> Last(u)
         /\ At(u, "reset")' <=> At(u, "reset")
         /\ At(u, "pass")' <=> At(u, "pass")
  BY <1>4, <1>5, Stays
<1>13. \A u \in Threads : ~Last(u)
  BY <1>2, <1>3 DEF Inv, Counted
<1>14. t \notin Arrived /\ n_barrier = Cardinality(Arrived)
  BY <1>2, <1>13 DEF Inv, Counted, Arrived, Last
<1>15. Arrived' = Arrived \cup {t}
  <2>1. Wait(t)' \/ At(t, "reset")'
    BY <1>1, <1>2, <1>4, <1>5 DEF Wait, At, Record
  <2> QED  BY <1>12, <2>1 DEF Arrived, Threads
<1>16. IsFiniteSet(Arrived) /\ Cardinality(Arrived') = n_barrier'
  <2>1. IsFiniteSet(Arrived)
    BY Parties, FS_Subset
  <2>2. Cardinality(Arrived \cup {t}) = Cardinality(Arrived) + 1
    BY <1>14, <2>1, FS_AddElement
  <2> QED  BY <1>4, <1>14, <1>15, <2>1, <2>2
<1>17. Counted'
  <2>1. \A u \in Threads : ~At(u, "pass")'
    BY <1>7, <1>12, <1>13 DEF Last
  <2>2. ASSUME NEW v \in Threads, Last(v)', NEW u \in Part \ {v}
        PROVE  Wait(u)'
    <3>1. v = t
      BY <1>12, <1>13, <2>2
    <3>2. n_barrier = nth - 1
      BY <1>1, <1>4, <2>2, <3>1 DEF Last, At, Record
    <3>3. IsFiniteSet(Part \ {t}) /\ Cardinality(Part \ {t}) = nth - 1
      BY <1>3, Parties, FS_RemoveElement
    <3>4. Arrived \in SUBSET (Part \ {t})
      BY <1>14, Parties
    <3>5. Arrived = Part \ {t}
      BY <1>14, <3>2, <3>3, <3>4, FS_Subset
    <3>6. u \in Arrived /\ u # t /\ u \in Threads
      BY <2>2, <3>1, <3>5 DEF Part
    <3>7. Wait(u)
      BY <1>13, <3>6 DEF Arrived, Last
    <3> QED  BY <1>12, <3>6, <3>7
  <2> QED  BY <1>11, <1>16, <2>1, <2>2 DEF Counted, Threads
<1> QED  BY <1>6, <1>11, <1>17 DEF Inv

LEMMA ResetInv == ASSUME Inv, NEW t \in Threads, BarrierReset(t) PROVE Inv'
<1>1. thread[t].pc = "reset" /\ thread[t] \in Record /\ Types /\ Control(t)
  BY DEF BarrierReset, Inv, Types, At
<1>2. Here(t) = thread[t] /\ Last(t)
  BY <1>1 DEF Here, Gone, Last, At
<1>3. t \in Part /\ ~Due(t) /\ ~Out(t)
  BY <1>1, <1>2, Takes DEF Rest
<1>4. /\ \A u \in Threads \ {t} : thread'[u] = thread[u]
      /\ thread'[t] = [thread[t] EXCEPT !.pc = "pass"]
  BY <1>1 DEF BarrierReset, Types, To
<1>5. UNCHANGED <<graph, n_graph, n_barrier_passed, abort>> /\ n_barrier' = 0
  BY DEF BarrierReset, pool
<1>6. Types'
  <2>1. thread' \in [Threads -> Record]
    BY <1>1 DEF BarrierReset, To, Types, Record, Pcs, Meeting
  <2> QED  BY <1>1, <1>5, <2>1 DEF BarrierReset, Types, pool
<1>7. Here(t)' = thread'[t] /\ At(t, "pass")'
  BY <1>1, <1>4 DEF Here, Gone, At, Record
<1>8. Control(t)'
  BY <1>1, <1>3, <1>4, <1>5, <1>7 DEF Control, Record, Home, Pcs, Rest, Callers, Meeting, Calc, Due, New
<1>9. t = 0 => Caller'
  BY <1>1, <1>4, <1>5 DEF Inv, Caller, Record, Meeting, Calc
<1>10. ~Out(t)' /\ Key(t)' = Key(t)
  BY <1>1, <1>2, <1>4, <1>5, <1>7 DEF Out, Key, KeyOf, Record, Rest, Calc, Meeting
<1>11. (\A u \in Threads : Control(u))' /\ Caller' /\ Together' /\ Part' = Part
  BY <1>3, <1>4, <1>5, <1>8, <1>9, <1>10, KeysStay, OneKeeps
<1>12. \A u \in Threads \ {t} : (Wait(u)' <=> Wait(u)) /\ (Last(u)' <=> Last(u))
  BY <1>4, <1>5, Stays
<1>13. Counted'
  <2>1. ASSUME NEW v \in Threads, Last(v)', NEW u \in Part \ {v}
        PROVE  Wait(u)'
    <3>1. Last(v) /\ Wait(u)
      BY <1>2, <1>12, <2>1 DEF Inv, Counted
    <3>2. u # t
      BY <1>1, <3>1 DEF Wait, At
    <3> QED  BY <1>12, <3>1, <3>2 DEF Part
  <2> QED  BY <1>5, <1>7, <1>11, <2>1 DEF Counted, Threads
<1> QED  BY <1>6, <1>11, <1>13 DEF Inv

LEMMA SpinInv == ASSUME Inv, NEW t \in Threads, BarrierSpin(t) PROVE Inv'
<1>1. thread[t].pc = "spin" /\ thread[t] \in Record /\ Types /\ Control(t) /\ Gone(t)
  BY DEF BarrierSpin, Inv, Types, At, Gone
<1>2. /\ \A u \in Threads \ {t} : thread'[u] = thread[u]
      /\ thread'[t] = Left(thread[t])
      /\ thread'[t].pc \in {"head", "work", Home(t)}
  BY <1>1 DEF BarrierSpin, Types, Control, Meeting, Left, Record
<1>3. UNCHANGED <<graph, n_graph, n_barrier, n_barrier_passed, abort>>
  BY DEF BarrierSpin, pool, barrier
<1>4. ~Wait(t) /\ ~Last(t) /\ Here(t) = thread'[t]
  BY <1>1, <1>2 DEF Here, Gone, Wait, Last, At
<1>5. Here(t)' = thread'[t] /\ ~Wait(t)' /\ ~Last(t)'
  BY <1>2 DEF Here, Gone, Wait, Last, At, Home
<1>6. Types'
  <2>1. thread' \in [Threads -> Record]
    BY <1>1, <1>2 DEF BarrierSpin, Types, Left, Record, Pcs, Rest, Calc, Home
  <2> QED  BY <1>1, <1>3, <2>1 DEF BarrierSpin, Types, pool
<1>7. Due(t)' <=> Due(t)
  BY <1>1, <1>2, <1>3 DEF Due, New, Left, Record
<1>8. Control(t)'
  <2>1. Here(t)'.pc \notin Rest => ~Due(t)'
    BY <1>1, <1>4, <1>5, <1>7 DEF Control
  <2> QED  BY <1>1, <1>2, <1>3, <2>1 DEF Control, Left, Record, Home, Pcs, Rest, Callers, Meeting, Calc
<1>9. t = 0 => Caller'
  BY <1>1, <1>2, <1>3 DEF Inv, Caller, Left, Record, Home, Meeting, Calc
<1>10. (Out(t)' <=> Out(t)) /\ Key(t)' = Key(t)
  BY <1>3, <1>4, <1>5, <1>7 DEF Out, Key
<1>11. t \notin Part => Here(t)'.pc \in Rest
  BY <1>4, <1>5 DEF Inv, Together
<1> QED  BY <1>2, <1>3, <1>4, <1>5, <1>6, <1>8, <1>9, <1>10, <1>11, KeysStay, OneMoves

(* The last thread opens the barrier: all that wait go where they and it   *)
(* have agreed to.                                                         *)
LEMMA PassInv == ASSUME Inv, NEW t \in Threads, BarrierPass(t) PROVE Inv'
<1>1. thread[t].pc = "pass" /\ thread[t] \in Record /\ Types /\ \A u \in Threads : Control(u)
  BY DEF BarrierPass, Inv, Types, At
<1>2. Here(t) = thread[t] /\ Last(t)
  BY <1>1 DEF Here, Gone, Last, At
<1>3. t \in Part /\ \A u \in Part \ {t} : Wait(u)
  BY <1>1, <1>2, Takes DEF Rest, Inv, Counted
<1>4. /\ \A u \in Threads \ {t} : thread'[u] = thread[u]
      /\ thread'[t] = Left(thread[t])
      /\ n_barrier_passed' = n_barrier_passed + 1
      /\ UNCHANGED <<graph, n_graph, n_barrier, abort>>
  BY <1>1 DEF BarrierPass, Types, pool
<1>5. Part' = Part /\ Part \subseteq Threads
  BY <1>4 DEF Part, Threads, nth
<1>6. \A u \in Part : /\ thread[u] \in Record /\ thread[u].pc \in Meeting
                     /\ Here(u) = thread[u] /\ ~Due(u) /\ ~Out(u)
                     /\ thread[u].then \in {"head", "work", Home(u)}
  <2> SUFFICES ASSUME NEW u \in Part
               PROVE  /\ thread[u] \in Record /\ thread[u].pc \in Meeting
                      /\ Here(u) = thread[u] /\ ~Due(u) /\ ~Out(u)
                      /\ thread[u].then \in {"head", "work", Home(u)}
    OBVIOUS
  <2>1. u \in Threads /\ thread[u] \in Record
    BY <1>1, <1>5 DEF Types
  <2>2. thread[u].pc \in Meeting /\ Here(u) = thread[u]
    BY <1>1, <1>2, <1>3 DEF Wait, At, Here, Gone, Meeting
  <2>3. Here(u).pc \notin Rest
    BY <2>2 DEF Meeting, Rest
  <2> QED  BY <1>1, <2>1, <2>2, <2>3, Takes DEF Control
<1>7. \A u \in Part : Here(u)' = Left(thread[u])
  <2> SUFFICES ASSUME NEW u \in Part PROVE Here(u)' = Left(thread[u])
    OBVIOUS
  <2>1. CASE u = t
    <3>1. thread'[t].pc \in {"head", "work", Home(t)}
      BY <1>1, <1>3, <1>4, <1>6 DEF Left, Record
    <3> QED  BY <1>4, <2>1, <3>1 DEF Here, Gone, At, Home
  <2>2. CASE u # t
    <3>1. thread[u].pc = "spin" /\ thread[u].seen = n_barrier_passed
      BY <1>3, <2>2 DEF Wait, At
    <3>2. Gone(u)' /\ thread'[u] = thread[u]
      BY <1>1, <1>4, <1>5, <2>2, <3>1 DEF Gone, At, Types
    <3> QED  BY <3>2 DEF Here, Left
  <2> QED  BY <2>1, <2>2
<1>8. \A u \in Threads \ Part : Here(u)' = Here(u)
  <2> SUFFICES ASSUME NEW u \in Threads \ Part PROVE Here(u)' = Here(u)
    OBVIOUS
  <2>1. thread'[u] = thread[u] /\ Here(u).pc \in Rest
    BY <1>3, <1>4 DEF Inv, Together
  <2>2. CASE Gone(u)
    <3>1. thread[u].seen < n_barrier_passed
      BY <1>1, <2>2 DEF Gone, At, Control, Types, Record
    <3>2. Gone(u)'
      BY <1>1, <1>4, <2>1, <2>2, <3>1 DEF Gone, At, Types, Record
    <3> QED  BY <2>1, <2>2, <3>2 DEF Here, Left
  <2>3. CASE ~Gone(u)
    <3>1. ~At(u, "spin")
      BY <2>1, <2>3 DEF Here, At, Rest
    <3> QED  BY <2>1, <2>3, <3>1 DEF Here, Gone, At
  <2> QED  BY <2>2, <2>3
<1>9. \A u \in Threads : Due(u)' <=> Due(u)
  <2> SUFFICES ASSUME NEW u \in Threads PROVE Due(u)' <=> Due(u)
    OBVIOUS
  <2>1. thread'[u].last = thread[u].last
    <3>1. thread[u] \in Record
      BY <1>1 DEF Types
    <3>2. Left(thread[u]).last = thread[u].last
      BY <3>1 DEF Left, Record
    <3> QED  BY <1>4, <3>2
  <2> QED  BY <1>4, <2>1 DEF Due, New
<1>10. Types'
  <2>1. thread' \in [Threads -> Record]
    <3>1. Left(thread[t]) \in Record
      BY <1>1, <1>3, <1>6 DEF Left, Record, Pcs, Rest, Calc, Home
    <3> QED  BY <1>1, <3>1 DEF BarrierPass, Types
  <2> QED  BY <1>1, <1>4, <2>1 DEF BarrierPass, Types, pool
<1>11. (\A u \in Threads : Control(u))'
  <2> SUFFICES ASSUME NEW u \in Threads PROVE Control(u)'
    BY DEF Threads
  <2>1. Here(u)'.pc \notin Rest => ~Due(u)'
    BY <1>1, <1>6, <1>8, <1>9 DEF Control
  <2>2. CASE u = t
    <3>1. thread'[t].pc \in {"head", "work", Home(t)}
      BY <1>1, <1>3, <1>4, <1>6 DEF Left, Record
    <3> QED  BY <1>1, <1>4, <2>1, <2>2, <3>1
               DEF Control, Left, Record, Home, Pcs, Rest, Callers, Meeting, Calc
  <2>3. CASE u # t
    <3>1. thread[u].pc # "add"
      BY <1>1, <1>3, <1>8, <2>3 DEF Wait, At, Inv, Together, Here, Gone, Rest
    <3> QED  BY <1>1, <1>4, <2>1, <2>3, <3>1 DEF Control, Types, Record
  <2> QED  BY <2>2, <2>3
<1>12. Caller'
  <2>1. 0 \in Threads
    BY Params DEF Threads
  <2>2. CASE t = 0
    <3>1. thread'[t].pc \in {"head", "work", Home(t)}
      BY <1>1, <1>3, <1>4, <1>6 DEF Left, Record
    <3> QED  BY <1>1, <1>4, <2>2, <3>1 DEF Inv, Caller, Left, Record, Home, Meeting, Calc
  <2>3. CASE t # 0
    BY <1>4, <2>1, <2>3 DEF Inv, Caller
  <2> QED  BY <2>2, <2>3
<1>13. Counted'
  <2>1. \A u \in Threads : ~Last(u)'
    <3> SUFFICES ASSUME NEW u \in Threads PROVE ~Last(u)'
      OBVIOUS
    <3>1. CASE u = t
      BY <1>1, <1>3, <1>4, <1>6, <3>1 DEF Left, Record, Last, At, Home
    <3>2. CASE u # t
      BY <1>3, <1>4, <3>2 DEF Last, At, Inv, Counted, Wait, Together, Here, Gone, Rest
    <3> QED  BY <3>1, <3>2
  <2>2. \A u \in Threads : ~Wait(u)'
    <3> SUFFICES ASSUME NEW u \in Threads PROVE ~Wait(u)'
      OBVIOUS
    <3>1. CASE u = t
      BY <1>1, <1>3, <1>4, <1>6, <3>1 DEF Left, Record, Wait, At, Home
    <3>2. CASE u # t
      BY <1>1, <1>4, <3>2 DEF Control, Wait, At, Types, Record
    <3> QED  BY <3>1, <3>2
  <2>3. Arrived' = {}
    BY <2>1, <2>2 DEF Arrived, Last, Threads
  <2>4. n_barrier' = 0
    BY <1>1, <1>4 DEF Inv, Counted, At
  <2> QED  BY <1>5, <2>1, <2>3, <2>4, FS_EmptySet DEF Counted, Threads, Last
<1>14. Together'
  <2>1. \A u \in Threads \ Part : Here(u)'.pc \in Rest
    BY <1>8 DEF Inv, Together
  <2>2. \A u, v \in Part : Key(u) = Key(v)
    BY <1>6 DEF Inv, Together
  <2>3. \A u \in Part : Key(u) = IF thread[u].then \in {"head", "work"}
                                 THEN <<thread[u].then, thread[u].node>> ELSE End
    BY <1>6 DEF Key, KeyOf, Meeting, Rest, Calc
  <2>4. \A u \in Part : Out(u)' <=> Key(u) = End
    <3> SUFFICES ASSUME NEW u \in Part PROVE Out(u)' <=> Key(u) = End
      OBVIOUS
    <3>1. Here(u)'.pc = thread[u].then
      BY <1>6, <1>7 DEF Left, Record
    <3>2. thread[u].then \in Rest <=> Key(u) = End
      BY <1>6, <2>3 DEF Rest, End, Home
    <3> QED  BY <1>5, <1>6, <1>9, <3>1, <3>2 DEF Out
  <2>5. \A u \in Part : Key(u) # End =>
          Key(u)' = IF Key(u)[1] = "head" THEN KeyFrom(graph, abort, Key(u)[2]) ELSE After(graph, Key(u)[2])
    <3> SUFFICES ASSUME NEW u \in Part, Key(u) # End
                 PROVE  Key(u)' = IF Key(u)[1] = "head" THEN KeyFrom(graph, abort, Key(u)[2])
                                                       ELSE After(graph, Key(u)[2])
      OBVIOUS
    <3>1. thread[u].then \in {"head", "work"} /\ Key(u) = <<thread[u].then, thread[u].node>>
      BY <2>3
    <3>2. Here(u)'.pc = thread[u].then /\ Here(u)'.node = thread[u].node
      BY <1>6, <1>7 DEF Left, Record
    <3>3. Key(u)' = KeyOf(graph, abort, Here(u)')
      BY <1>4 DEF Key
    <3> QED  BY <3>1, <3>2, <3>3 DEF KeyOf, Rest, Calc, Meeting
  <2>6. \A u, v \in Part : Out(u)' => Out(v)'
    BY <2>2, <2>4
  <2>7. \A u, v \in Part : ~Out(u)' /\ ~Out(v)' => Key(u)' = Key(v)'
    <3> SUFFICES ASSUME NEW u \in Part, NEW v \in Part, ~Out(u)', ~Out(v)' PROVE Key(u)' = Key(v)'
      OBVIOUS
    <3>1. Key(u) = Key(v) /\ Key(u) # End
      BY <2>2, <2>4
    <3> QED  BY <2>5, <3>1
  <2> QED  BY <1>5, <2>1, <2>6, <2>7 DEF Together, Threads
<1> QED  BY <1>10, <1>11, <1>12, <1>13, <1>14 DEF Inv
-----------------------------------------------------------------------------
(* A thread at a node, and where a step within the graph may take it.      *)
LEMMA AtNode ==
    ASSUME Inv, NEW t \in Threads, thread[t].pc \in Calc \cup {"head"}
    PROVE  /\ thread[t] \in Record /\ Types /\ Control(t) /\ IsGraph(graph)
           /\ Here(t) = thread[t] /\ ~Wait(t) /\ ~Last(t)
           /\ t \in Part /\ ~Due(t) /\ ~Out(t)
<1>1. thread[t] \in Record /\ Types /\ Control(t)
  BY DEF Inv, Types
<1>2. Here(t) = thread[t] /\ ~Wait(t) /\ ~Last(t)
  BY DEF Here, Gone, Wait, Last, At, Calc
<1>3. IsGraph(graph)
  BY <1>1, GraphIs DEF Types
<1> QED  BY <1>1, <1>2, <1>3, Takes DEF Rest, Calc

LEMMA ToNode ==
    ASSUME NEW t \in Threads, thread'[t].pc \in Calc \cup {"head", "enter"}
    PROVE  /\ Here(t)' = thread'[t] /\ ~Wait(t)' /\ ~Last(t)'
           /\ ~Out(t)'
BY DEF Here, Gone, Wait, Last, At, Calc, Out, Rest

(* What a thread does at the head of the loop.                             *)
LEMMA NextNodeIs ==
    ASSUME Inv, NEW t \in Threads, NextNode(t), NEW k, k = thread[t].node
    PROVE  \/ /\ Ends(graph, abort, k)
              /\ thread'[t] = [thread[t] EXCEPT !.pc = "enter", !.then = Home(t), !.node = 0]
              /\ current_chunk' = current_chunk
           \/ /\ ~Ends(graph, abort, k) /\ graph[k].kind = "empty"
              /\ thread'[t] = [thread[t] EXCEPT !.node = k + 1]
              /\ current_chunk' = current_chunk
           \/ /\ ~Ends(graph, abort, k) /\ graph[k].kind = "split"
              /\ thread'[t] = [thread[t] EXCEPT !.pc = "work", !.part = t]
              /\ current_chunk' = current_chunk
           \/ /\ ~Ends(graph, abort, k) /\ graph[k].kind = "chunks"
              /\ thread'[t] = [thread[t] EXCEPT !.pc = "enter", !.then = "work", !.part = t]
              /\ current_chunk' = IF t = 0 THEN nth ELSE current_chunk
<1>1. thread[t].pc = "head"
  BY DEF NextNode, At
<1>2. thread[t] \in Record /\ Types /\ Control(t) /\ IsGraph(graph) /\ thread[t].then = "none"
  BY <1>1, AtNode DEF Control, Meeting
<1>3. k \in 1..Len(graph) + 1 /\ Len(graph) \in Nat
  BY <1>1, <1>2 DEF Control, IsGraph
<1>4. current_chunk' = IF t = 0 /\ thread'[t].then = "work" THEN nth ELSE current_chunk
  BY DEF NextNode
<1>5. CASE Ends(graph, abort, k)
  <2>1. thread'[t] = [Enter(thread[t], Home(t)) EXCEPT !.node = 0]
    BY <1>2, <1>5 DEF NextNode, Types, Ends, Home
  <2>2. thread'[t].then # "work"
    BY <1>2, <2>1 DEF Enter, Record, Home
  <2> QED  BY <1>2, <1>4, <1>5, <2>1, <2>2 DEF Enter, Record
<1>6. CASE ~Ends(graph, abort, k)
  <2>1. k \in 1..Len(graph)
    BY <1>3, <1>6 DEF Ends
  <2>2. graph[k].kind \in {"split", "empty", "chunks"}
    BY <1>2, <2>1 DEF IsGraph
  <2>3. CASE graph[k].kind = "empty"
    <3>1. thread'[t] = [thread[t] EXCEPT !.node = k + 1]
      BY <1>2, <1>6, <2>3 DEF NextNode, Types, Ends
    <3>2. thread'[t].then = "none"
      BY <1>2, <3>1 DEF Record
    <3> QED  BY <1>4, <1>6, <2>3, <3>1, <3>2
  <2>4. CASE graph[k].kind = "split"
    <3>1. thread'[t] = [thread[t] EXCEPT !.pc = "work", !.part = t]
      BY <1>2, <1>6, <2>4 DEF NextNode, Types, Ends
    <3>2. thread'[t].then = "none"
      BY <1>2, <3>1 DEF Record
    <3> QED  BY <1>4, <1>6, <2>4, <3>1, <3>2
  <2>5. CASE graph[k].kind = "chunks"
    <3>1. thread'[t] = [Enter(thread[t], "work") EXCEPT !.part = t]
      BY <1>2, <1>6, <2>5 DEF NextNode, Types, Ends
    <3>2. thread'[t].then = "work"
      BY <1>2, <3>1 DEF Enter, Record
    <3> QED  BY <1>2, <1>4, <1>6, <2>5, <3>1, <3>2 DEF Enter, Record
  <2> QED  BY <2>2, <2>3, <2>4, <2>5
<1> QED  BY <1>5, <1>6

LEMMA NextNodeInv == ASSUME Inv, NEW t \in Threads, NextNode(t) PROVE Inv'
<1> DEFINE k == thread[t].node
<1>1. thread[t].pc = "head"
  BY DEF NextNode, At
<1>2. /\ thread[t] \in Record /\ Types /\ Control(t) /\ IsGraph(graph)
      /\ Here(t) = thread[t] /\ ~Wait(t) /\ ~Last(t)
      /\ t \in Part /\ ~Due(t) /\ ~Out(t)
  BY <1>1, AtNode
<1>3. k \in 1..Len(graph) + 1 /\ Len(graph) \in Nat
  BY <1>1, <1>2 DEF Control, IsGraph
<1>4. \A u \in Threads \ {t} : thread'[u] = thread[u]
  BY <1>2 DEF NextNode, Types
<1>5. UNCHANGED <<graph, n_graph, n_barrier, n_barrier_passed, abort, stop, pause>>
  BY DEF NextNode, pool, barrier
<1>6. \/ /\ Ends(graph, abort, k)
         /\ thread'[t] = [thread[t] EXCEPT !.pc = "enter", !.then = Home(t), !.node = 0]
      \/ /\ ~Ends(graph, abort, k) /\ graph[k].kind = "empty"
         /\ thread'[t] = [thread[t] EXCEPT !.node = k + 1]
      \/ /\ ~Ends(graph, abort, k) /\ graph[k].kind = "split"
         /\ thread'[t] = [thread[t] EXCEPT !.pc = "work", !.part = t]
      \/ /\ ~Ends(graph, abort, k) /\ graph[k].kind = "chunks"
         /\ thread'[t] = [thread[t] EXCEPT !.pc = "enter", !.then = "work", !.part = t]
  BY NextNodeIs
<1>7. thread'[t].pc \in Calc \cup {"head", "enter"}
  BY <1>1, <1>2, <1>6 DEF Record, Calc
<1>8. /\ Here(t)' = thread'[t] /\ ~Wait(t)' /\ ~Last(t)'
      /\ ~Out(t)'
  BY <1>7, ToNode
<1>9. thread'[t] \in Record
  <2>1. t \in Nat
    BY Params DEF Threads
  <2>2. /\ thread[t] \in Record /\ k + 1 \in Nat /\ 0 \in Nat
        /\ {"enter", "work"} \subseteq Pcs /\ Home(t) \in {"idle", "loop"}
    BY <1>2, <1>3 DEF Pcs, Meeting, Calc, Home
  <2> HIDE DEF k
  <2> QED  BY <1>6, <2>1, <2>2 DEF Record
<1>10. Types'
  <2>1. thread' \in [Threads -> Record]
    BY <1>2, <1>4, <1>9 DEF NextNode, Types
  <2>2. current_chunk' \in Nat
    BY <1>2 DEF NextNode, Types, nth
  <2> QED  BY <1>2, <1>5, <2>1, <2>2 DEF Types
<1>11. ~Ends(graph, abort, k) => k \in 1..Len(graph)
  BY <1>3 DEF Ends
<1>12. Due(t)' <=> Due(t)
  BY <1>2, <1>5, <1>6 DEF Due, New, Record
<1>13. Control(t)'
  <2>1. /\ thread'[t].pc \in {"head", "work", "enter"} /\ thread'[t].last = thread[t].last
        /\ thread'[t].pc \in {"head", "work"} => thread'[t].then = "none"
        /\ thread'[t].pc \in {"head", "work"} => thread'[t].node \in 1..Len(graph) + 1
        /\ thread'[t].pc = "work" => thread'[t].node \in 1..Len(graph)
        /\ thread'[t].pc = "enter" => thread'[t].then \in {Home(t), "work"}
        /\ thread'[t].pc = "enter" /\ thread'[t].then = "work" => thread'[t].node \in 1..Len(graph)
        /\ thread'[t].pc = "enter" /\ thread'[t].then = Home(t) => thread'[t].node = 0
    <3>1. /\ thread[t] \in Record /\ thread[t].pc = "head" /\ thread[t].then = "none"
          /\ k + 1 \in 1..Len(graph) + 1 \/ Ends(graph, abort, k)
          /\ k = thread[t].node
      BY <1>1, <1>2, <1>3, <1>11 DEF Control, Meeting
    <3> HIDE DEF k
    <3>2. CASE Ends(graph, abort, k)
      BY <1>6, <3>1, <3>2 DEF Record, Home
    <3>3. CASE ~Ends(graph, abort, k)
      <4>1. k \in 1..Len(graph)
        BY <1>11, <3>3
      <4>2. CASE graph[k].kind = "empty"
        BY <1>6, <3>1, <3>3, <4>1, <4>2 DEF Record
      <4>3. CASE graph[k].kind # "empty"
        BY <1>3, <1>6, <3>1, <3>3, <4>1, <4>3 DEF Record, Home
      <4> QED  BY <4>2, <4>3
    <3> QED  BY <3>2, <3>3
  <2>2. thread[t].last <= n_graph.count
    BY <1>2 DEF Control
  <2> QED  BY <1>2, <1>5, <1>12, <2>1, <2>2 DEF Control, Home, Pcs, Rest, Callers, Meeting, Calc
<1>14. t = 0 => Caller'
  BY <1>1, <1>2, <1>5, <1>6 DEF Inv, Caller, Record, Home, Meeting, Calc, Ends
<1>15. Key(t)' = Key(t)
  <2>1. Key(t) = KeyFrom(graph, abort, k) /\ abort \in Nat
    <3>1. Key(t) = KeyFrom(graph, abort, k)
      BY <1>1, <1>2 DEF Key, KeyOf, Rest, Calc, Meeting
    <3> QED  BY <1>2, <1>3, <3>1 DEF Types
  <2>2. Key(t)' = KeyOf(graph, abort, thread'[t])
    BY <1>5, <1>8 DEF Key
  <2>3. CASE Ends(graph, abort, k)
    <3>1. thread'[t].pc = "enter" /\ thread'[t].then \notin {"head", "work"}
      BY <1>2, <1>6, <2>3 DEF Record, Home
    <3>2. KeyFrom(graph, abort, k) = End
      BY <1>2, <1>3, <2>1, <2>3, KeyEnds
    <3> QED  BY <2>1, <2>2, <3>1, <3>2 DEF KeyOf, Rest, Calc, Meeting
  <2>4. CASE ~Ends(graph, abort, k) /\ graph[k].kind = "empty"
    <3>1. thread'[t].pc = "head" /\ thread'[t].node = k + 1
      BY <1>1, <1>2, <1>6, <2>4 DEF Record
    <3>2. KeyFrom(graph, abort, k) = KeyFrom(graph, abort, k + 1)
      BY <1>2, <1>11, <2>1, <2>4, KeyPasses
    <3> QED  BY <2>1, <2>2, <3>1, <3>2 DEF KeyOf, Rest, Calc, Meeting
  <2>5. CASE ~Ends(graph, abort, k) /\ graph[k].kind = "split"
    <3>1. thread'[t].pc = "work" /\ thread'[t].node = k
      BY <1>1, <1>2, <1>6, <2>5 DEF Record
    <3>2. KeyFrom(graph, abort, k) = After(graph, k)
      BY <1>2, <1>11, <2>1, <2>5, KeyComputes
    <3> QED  BY <2>1, <2>2, <3>1, <3>2 DEF KeyOf, Rest, Calc, Meeting
  <2>6. CASE ~Ends(graph, abort, k) /\ graph[k].kind = "chunks"
    <3>1. thread'[t].pc = "enter" /\ thread'[t].node = k /\ thread'[t].then = "work"
      BY <1>1, <1>2, <1>6, <2>6 DEF Record
    <3>2. KeyFrom(graph, abort, k) = <<"work", k>>
      BY <1>2, <1>11, <2>1, <2>6, KeyComputes
    <3> QED  BY <2>1, <2>2, <3>1, <3>2 DEF KeyOf, Rest, Calc, Meeting
  <2> QED  BY <1>6, <2>3, <2>4, <2>5, <2>6
<1> QED  BY <1>2, <1>4, <1>5, <1>8, <1>10, <1>13, <1>14, <1>15, KeysStay, OneMoves

(* The steps within a node.                                                *)
LEMMA WorkInv ==
    ASSUME Inv, NEW t \in Threads, Work(t) \/ TakeChunk(t) \/ NoMoreWork(t)
    PROVE  Inv'
<1>1. /\ thread[t].pc \in Calc
      /\ UNCHANGED <<graph, n_graph, n_barrier, n_barrier_passed, abort, stop, pause>>
  BY DEF Work, TakeChunk, NoMoreWork, At, Calc, pool, barrier
<1>2. /\ thread[t] \in Record /\ Types /\ Control(t) /\ IsGraph(graph)
      /\ Here(t) = thread[t] /\ ~Wait(t) /\ ~Last(t)
      /\ t \in Part /\ ~Due(t) /\ ~Out(t)
  BY <1>1, AtNode
<1>3. \E pc \in Calc, part \in Nat : thread' = [thread EXCEPT ![t].pc = pc, ![t].part = part]
  <2>1. thread[t].part \in Nat /\ current_chunk \in Nat
    BY <1>2 DEF Record, Types
  <2>2. CASE Work(t)
    <3> DEFINE pc == IF nth >= Count(thread[t].node) THEN "done" ELSE "take"
    <3>1. thread' = [thread EXCEPT ![t].pc = pc] /\ pc \in Calc
      BY <2>2 DEF Work, To, Calc
    <3>2. thread' = [thread EXCEPT ![t].pc = pc, ![t].part = thread[t].part]
      BY <1>2, <3>1 DEF Types, Record
    <3> QED  BY <2>1, <3>1, <3>2
  <2>3. CASE TakeChunk(t)
    BY <2>1, <2>3 DEF TakeChunk, Calc
  <2>4. CASE NoMoreWork(t)
    <3>1. thread' = [thread EXCEPT ![t].pc = "done"]
      BY <2>4 DEF NoMoreWork, To
    <3>2. thread' = [thread EXCEPT ![t].pc = "done", ![t].part = thread[t].part]
      BY <1>2, <3>1 DEF Types, Record
    <3> QED  BY <2>1, <3>2 DEF Calc
  <2> QED  BY <2>2, <2>3, <2>4
<1>4. PICK pc \in Calc, part \in Nat : thread' = [thread EXCEPT ![t].pc = pc, ![t].part = part]
  BY <1>3
<1>5. /\ \A u \in Threads \ {t} : thread'[u] = thread[u]
      /\ thread'[t] = [thread[t] EXCEPT !.pc = pc, !.part = part]
  BY <1>2, <1>4 DEF Types
<1>6. /\ thread'[t] \in Record /\ thread'[t].pc \in Calc
      /\ thread'[t].node = thread[t].node /\ thread'[t].last = thread[t].last
      /\ thread'[t].then = thread[t].then
  BY <1>2, <1>5 DEF Record, Pcs
<1>7. /\ Here(t)' = thread'[t] /\ ~Wait(t)' /\ ~Last(t)'
      /\ ~Out(t)'
  BY <1>6, ToNode
<1>8. Types'
  <2>1. thread' \in [Threads -> Record]
    BY <1>2, <1>4, <1>6 DEF Types
  <2>2. current_chunk' \in Nat
    BY <1>2 DEF Work, TakeChunk, NoMoreWork, Types
  <2> QED  BY <1>1, <1>2, <2>1, <2>2 DEF Types
<1>9. Due(t)' <=> Due(t)
  BY <1>1, <1>6 DEF Due, New
<1>10. Control(t)'
  BY <1>1, <1>2, <1>6, <1>9 DEF Control, Pcs, Rest, Callers, Meeting, Calc
<1>11. t = 0 => Caller'
  BY <1>1, <1>6 DEF Inv, Caller, Calc, Meeting
<1>12. Key(t)' = Key(t)
  BY <1>1, <1>2, <1>6, <1>7 DEF Key, KeyOf, Rest, Calc, Meeting
<1> QED  BY <1>1, <1>2, <1>5, <1>7, <1>8, <1>10, <1>11, <1>12, KeysStay, OneMoves

LEMMA NodeSet ==
    ASSUME NEW r \in Record, NEW n \in Nat
    PROVE  [r EXCEPT !.node = n, !.part = 0] \in Record
BY DEF Record

(* The node is done; thread 0 may abort the graph after it.  The others    *)
(* have not gone past the barrier after the node: for them nothing changes.*)
LEMMA NodeDoneInv == ASSUME Inv, NEW t \in Threads, NodeDone(t) PROVE Inv'
<1> DEFINE k == thread[t].node
<1>1. /\ thread[t].pc = "done"
      /\ UNCHANGED <<graph, n_graph, n_barrier, n_barrier_passed, current_chunk, stop, pause>>
      /\ abort' = abort \/ (t = 0 /\ abort' = k + 1)
  BY DEF NodeDone, At, pool, barrier
<1>2. /\ thread[t] \in Record /\ Types /\ Control(t) /\ IsGraph(graph)
      /\ Here(t) = thread[t] /\ ~Wait(t) /\ ~Last(t)
      /\ t \in Part /\ ~Due(t) /\ ~Out(t)
  BY <1>1, AtNode DEF Calc
<1>3. k \in 1..Len(graph) /\ Len(graph) \in Nat
  BY <1>1, <1>2 DEF Control, IsGraph, Calc
<1>4. \A u \in Threads \ {t} : thread'[u] = thread[u]
  BY <1>2 DEF NodeDone, Types
<1>5. /\ thread'[t] \in Record
      /\ thread'[t].node = k + 1 /\ thread'[t].last = thread[t].last
      /\ IF k < Len(graph) THEN thread'[t].pc = "enter" /\ thread'[t].then = "head"
                           ELSE thread'[t].pc = "head" /\ thread'[t].then = "none"
  <2>1. thread[t] \in Record /\ k + 1 \in Nat /\ thread[t].then = "none"
    BY <1>1, <1>2, <1>3 DEF Control, Meeting
  <2>2. CASE k < Len(graph)
    <3> DEFINE r == Enter(thread[t], "head")
               n == k + 1
    <3>1. thread'[t] = [r EXCEPT !.node = n, !.part = 0]
      BY <1>2, <2>2 DEF NodeDone, Types
    <3>2. r \in Record /\ n \in Nat
      BY <2>1 DEF Enter, Record, Pcs, Meeting
    <3>3. thread'[t] \in Record
      <4> HIDE DEF r, n
      <4> QED  BY <3>1, <3>2, NodeSet
    <3>4. thread'[t].node = n /\ thread'[t].last = thread[t].last
      <4> HIDE DEF n
      <4> QED  BY <2>1, <3>1, <3>2 DEF Enter, Record
    <3>5. thread'[t].pc = "enter" /\ thread'[t].then = "head"
      <4> HIDE DEF n
      <4> QED  BY <2>1, <3>1, <3>2 DEF Enter, Record
    <3> QED  BY <2>2, <3>3, <3>4, <3>5
  <2>3. CASE ~(k < Len(graph))
    <3> DEFINE r == [thread[t] EXCEPT !.pc = "head"]
               n == k + 1
    <3>1. thread'[t] = [r EXCEPT !.node = n, !.part = 0]
      BY <1>2, <2>3 DEF NodeDone, Types
    <3>2. r \in Record /\ n \in Nat
      BY <2>1 DEF Record, Pcs
    <3>3. thread'[t] \in Record
      <4> HIDE DEF r, n
      <4> QED  BY <3>1, <3>2, NodeSet
    <3>4. thread'[t].node = n /\ thread'[t].last = thread[t].last
      <4> HIDE DEF n
      <4> QED  BY <2>1, <3>1, <3>2 DEF Record
    <3>5. thread'[t].pc = "head" /\ thread'[t].then = "none"
      <4> HIDE DEF n
      <4> QED  BY <2>1, <3>1, <3>2 DEF Record
    <3> QED  BY <2>3, <3>3, <3>4, <3>5
  <2> QED  BY <2>2, <2>3
<1>6. /\ Here(t)' = thread'[t] /\ ~Wait(t)' /\ ~Last(t)'
      /\ ~Out(t)'
  BY <1>5, ToNode
<1>7. Types'
  <2>1. thread' \in [Threads -> Record]
    BY <1>2, <1>4, <1>5 DEF NodeDone, Types
  <2>2. abort' \in 0..Len(graph) + 1
    BY <1>1, <1>2, <1>3 DEF Types
  <2> QED  BY <1>1, <1>2, <2>1, <2>2 DEF Types
<1>8. Due(t)' <=> Due(t)
  BY <1>1, <1>5 DEF Due, New
<1>9. Control(t)'
  BY <1>1, <1>2, <1>3, <1>5, <1>8 DEF Control, Home, Pcs, Rest, Callers, Meeting, Calc
<1>10. t = 0 => abort = 0
  BY <1>1 DEF Inv, Caller, Calc
<1>11. t = 0 => Caller'
  BY <1>1, <1>3, <1>5, <1>10 DEF Caller, Calc, Meeting
<1>12. Key(t) = After(graph, k)
  BY <1>1, <1>2 DEF Key, KeyOf, Rest, Calc, Meeting
<1>13. Key(t)' = Key(t)
  <2>1. Key(t)' = KeyOf(graph, abort', thread'[t])
    BY <1>1, <1>6 DEF Key
  <2>2. CASE k < Len(graph)
    BY <1>5, <1>12, <2>1, <2>2 DEF KeyOf, Rest, Calc, Meeting, After
  <2>3. CASE ~(k < Len(graph))
    <3>1. k + 1 \in 1..Len(graph) + 1 /\ Ends(graph, abort', k + 1) /\ abort' \in Nat
      BY <1>1, <1>2, <1>3, <2>3 DEF Ends, Types
    <3>2. KeyFrom(graph, abort', k + 1) = End
      BY <1>2, <3>1, KeyEnds
    <3> QED  BY <1>5, <1>12, <2>1, <2>3, <3>2 DEF KeyOf, Rest, Calc, Meeting, After
  <2> QED  BY <2>2, <2>3
<1>14. \A u \in Part \ {t} : Key(u)' = Key(u)
  <2>1. CASE abort' = abort
    BY <1>1, <1>4, <2>1, KeysStay
  <2>2. CASE t = 0 /\ abort' = k + 1
    <3> SUFFICES ASSUME NEW u \in Part \ {t} PROVE Key(u)' = Key(u)
      OBVIOUS
    <3>1. u \in Threads /\ Here(u)' = Here(u)
      BY <1>1, <1>4, Stays DEF Part
    <3>2. ~Out(u) /\ Key(u) = After(graph, k)
      BY <1>2, <1>12 DEF Inv, Together
    <3>3. Key(u)' = KeyOf(graph, k + 1, Here(u)) /\ Key(u) = KeyOf(graph, 0, Here(u))
      BY <1>1, <1>10, <2>2, <3>1 DEF Key
    <3>4. CASE Here(u).pc \in Rest
      <4>1. Key(u)' = KeyFrom(graph, k + 1, 1) /\ Key(u) = KeyFrom(graph, 0, 1)
        BY <3>3, <3>4 DEF KeyOf, Rest, Calc, Meeting
      <4>2. 1 \in 1..Len(graph) + 1
        BY <1>3
      <4> QED  BY <1>2, <1>3, <3>2, <4>1, <4>2, KeyAborts
    <3>5. CASE Here(u).pc = "head"
      <4>1. Key(u)' = KeyFrom(graph, k + 1, Here(u).node) /\ Key(u) = KeyFrom(graph, 0, Here(u).node)
        BY <3>3, <3>5 DEF KeyOf, Rest, Calc, Meeting
      <4>2. Here(u).node \in 1..Len(graph) + 1
        BY <3>1, <3>5 DEF Inv, Control, Here, Gone, At, Left, Types, Record, Meeting
      <4> QED  BY <1>2, <1>3, <3>2, <4>1, <4>2, KeyAborts
    <3>6. CASE Here(u).pc \in Calc \cup Meeting
      BY <3>3, <3>6 DEF KeyOf, Rest, Calc, Meeting
    <3>7. Here(u).pc \in Pcs
      BY <3>1 DEF Inv, Control, Here, Gone, At, Left, Types, Record, Meeting, Pcs, Rest, Calc, Home
    <3> QED  BY <3>4, <3>5, <3>6, <3>7 DEF Pcs
  <2> QED  BY <1>1, <2>1, <2>2
<1> QED  BY <1>1, <1>2, <1>4, <1>6, <1>7, <1>9, <1>11, <1>13, <1>14, OneMoves
-----------------------------------------------------------------------------
(* A thread that is in no graph goes on.                                   *)
LEMMA RestInv ==
    ASSUME Inv, NEW t \in Threads, thread[t].pc \in Rest,
           NEW pc \in IF t = 0 THEN {"exited"} ELSE Rest \ Callers,
           thread' = To(t, pc),
           UNCHANGED <<graph, n_graph, n_barrier, n_barrier_passed, current_chunk, stop, pause, abort>>
    PROVE  Inv'
<1>1. thread[t] \in Record /\ Types /\ Control(t) /\ pc \in Rest
  BY DEF Inv, Types, Rest
<1>2. /\ \A u \in Threads \ {t} : thread'[u] = thread[u]
      /\ thread'[t] = [thread[t] EXCEPT !.pc = pc]
  BY <1>1 DEF Types, To
<1>3. /\ Here(t) = thread[t] /\ ~Wait(t) /\ ~Last(t)
      /\ thread'[t].pc = pc /\ thread'[t].last = thread[t].last /\ thread'[t].node = thread[t].node
      /\ thread'[t].then = thread[t].then
  BY <1>1, <1>2 DEF Here, Gone, Wait, Last, At, Rest, Record
<1>4. Here(t)' = thread'[t] /\ ~Wait(t)' /\ ~Last(t)'
  BY <1>1, <1>3 DEF Here, Gone, Wait, Last, At, Rest
<1>5. Types'
  <2>1. thread' \in [Threads -> Record]
    BY <1>1 DEF To, Types, Record, Pcs
  <2> QED  BY <1>1, <2>1 DEF Types
<1>6. Due(t)' <=> Due(t)
  BY <1>3 DEF Due, New
<1>7. Control(t)'
  BY <1>1, <1>3, <1>4 DEF Control, Pcs, Rest, Callers, Meeting, Calc
<1>8. t = 0 => Caller'
  BY <1>3 DEF Inv, Caller, Calc, Meeting
<1>9. (Out(t)' <=> Out(t)) /\ Key(t)' = Key(t)
  <2>1. Key(t) = KeyFrom(graph, abort, 1) /\ Key(t)' = KeyFrom(graph, abort, 1)
    BY <1>1, <1>3, <1>4 DEF Key, KeyOf, Rest, Calc, Meeting
  <2> QED  BY <1>1, <1>3, <1>4, <1>6, <2>1 DEF Out
<1>10. Here(t)'.pc \in Rest
  BY <1>1, <1>3, <1>4
<1> QED  BY <1>2, <1>3, <1>4, <1>5, <1>7, <1>8, <1>9, <1>10, KeysStay, OneMoves

LEMMA ObservedSet ==
    ASSUME NEW r \in Record, NEW c \in Nat, NEW pc \in Pcs
    PROVE  /\ [r EXCEPT !.last = c, !.pc = "head", !.node = 1] \in Record
           /\ [r EXCEPT !.last = c, !.pc = pc] \in Record
BY DEF Record, Pcs

(* A worker sees that there is a new graph.                                *)
LEMMA ObservedInv ==
    ASSUME Inv, NEW t \in Workers, thread[t].pc \in Rest, New(t),
           NEW pc \in Rest \ Callers, thread' = Observed(t, pc),
           UNCHANGED <<graph, n_graph, n_barrier, n_barrier_passed, current_chunk, stop, pause, abort>>
    PROVE  Inv'
<1>1. t \in Threads /\ t # 0
  BY Params DEF Workers, Threads
<1>2. thread[t] \in Record /\ Types /\ Control(t) /\ n_graph.count \in Nat
  BY <1>1, Params DEF Inv, Types
<1>3. /\ \A u \in Threads \ {t} : thread'[u] = thread[u]
      /\ thread'[t] = IF t < nth THEN [thread[t] EXCEPT !.last = n_graph.count, !.pc = "head", !.node = 1]
                                 ELSE [thread[t] EXCEPT !.last = n_graph.count, !.pc = pc]
  BY <1>1, <1>2 DEF Types, Observed
<1>4. Here(t) = thread[t] /\ ~Wait(t) /\ ~Last(t)
  BY DEF Here, Gone, Wait, Last, At, Rest
<1>5. /\ thread'[t].last = n_graph.count /\ thread'[t].then = thread[t].then
      /\ thread'[t].pc = IF t < nth THEN "head" ELSE pc
      /\ thread'[t].node = IF t < nth THEN 1 ELSE thread[t].node
  BY <1>2, <1>3 DEF Record
<1>6. Here(t)' = thread'[t] /\ ~Wait(t)' /\ ~Last(t)'
  BY <1>5 DEF Here, Gone, Wait, Last, At, Rest
<1>7. thread'[t] \in Record
  <2>1. pc \in Pcs
    BY DEF Pcs
  <2>2. /\ [thread[t] EXCEPT !.last = n_graph.count, !.pc = "head", !.node = 1] \in Record
        /\ [thread[t] EXCEPT !.last = n_graph.count, !.pc = pc] \in Record
    BY <1>2, <2>1, ObservedSet
  <2> QED  BY <1>3, <2>2
<1>8. Types'
  <2>1. thread' \in [Threads -> Record]
    BY <1>2, <1>3, <1>7 DEF Types, Observed
  <2> QED  BY <1>2, <2>1 DEF Types
<1>9. ~Due(t)'
  BY <1>5 DEF Due, New
<1>10. Len(graph) \in Nat /\ IsGraph(graph)
  BY <1>2, GraphIs DEF Types, IsGraph
<1>11. Control(t)'
  <2>1. thread[t].node = 0 /\ thread[t].then = "none"
    BY <1>2 DEF Control, Rest, Meeting
  <2> QED  BY <1>1, <1>2, <1>5, <1>9, <1>10, <2>1 DEF Control, Pcs, Rest, Callers, Meeting, Calc
<1>12. t \notin Part => Here(t)'.pc \in Rest
  BY <1>1, <1>5, <1>6 DEF Part
<1>13. t \in Part => ~Out(t) /\ ~Out(t)' /\ Key(t)' = Key(t)
  <2> SUFFICES ASSUME t \in Part PROVE ~Out(t) /\ ~Out(t)' /\ Key(t)' = Key(t)
    OBVIOUS
  <2>1. thread'[t].pc = "head" /\ thread'[t].node = 1
    BY <1>5 DEF Part
  <2>2. ~Out(t) /\ ~Out(t)'
    BY <1>1, <1>6, <2>1 DEF Out, Due, Rest
  <2>3. Key(t)' = KeyOf(graph, abort, thread'[t])
    BY <1>6 DEF Key
  <2> QED  BY <1>4, <2>1, <2>2, <2>3 DEF Key, KeyOf, Rest, Calc, Meeting
<1> QED  BY <1>1, <1>3, <1>4, <1>6, <1>8, <1>11, <1>12, <1>13, KeysStay, OneMoves

LEMMA WorkerInv == ASSUME Inv, NEW t \in Threads, Worker(t) PROVE Inv'
<1>1. thread[t].pc \in {"loop", "go", "paused", "poll", "look", "check"}
  BY DEF Worker, Loop, Go, Paused, Poll, Look, CheckForWork, At
<1>2. thread[t].pc \in Rest /\ t \in Workers /\ t # 0
  <2>1. t # 0
    BY <1>1 DEF Inv, Control, Callers, Meeting, Calc
  <2> QED  BY <1>1, <2>1, Params DEF Rest, Workers, Threads
<1>3. UNCHANGED <<graph, n_graph, n_barrier, n_barrier_passed, current_chunk, stop, pause, abort>>
  BY DEF Worker, Loop, Go, Paused, Poll, Look, CheckForWork, pool, barrier
<1>4. \/ \E pc \in Rest \ Callers : thread' = To(t, pc)
      \/ New(t) /\ \E pc \in Rest \ Callers : thread' = Observed(t, pc)
  <2>1. {"paused", "go", "exited", "poll", "sleep", "loop", "look", "check", "wait"} \subseteq Rest \ Callers
    BY DEF Rest, Callers
  <2>2. CASE Loop(t) \/ Go(t) \/ Paused(t) \/ Poll(t)
    <3>1. \E pc \in {"paused", "go", "exited", "poll", "sleep", "loop", "look", "check"} : thread' = To(t, pc)
      BY <2>2 DEF Loop, Go, Paused, Poll
    <3> QED  BY <2>1, <3>1
  <2>3. CASE Look(t)
    BY <2>1, <2>3 DEF Look
  <2>4. CASE CheckForWork(t)
    <3>1. \/ thread' = To(t, "loop") \/ thread' = To(t, "wait")
          \/ New(t) /\ thread' = Observed(t, "loop")
      BY <2>4 DEF CheckForWork
    <3> QED  BY <2>1, <3>1
  <2> QED  BY <2>2, <2>3, <2>4 DEF Worker
<1> QED  BY <1>2, <1>3, <1>4, RestInv, ObservedInv
-----------------------------------------------------------------------------
(* Thread 0 is out of the graph: so is everybody.                          *)
LEMMA Quiet ==
    ASSUME Inv, thread[0].pc \in {"idle", "kickoff"}
    PROVE  /\ 0 \in Threads /\ n_barrier = 0
           /\ \A u \in Threads : Here(u).pc \in Rest /\ ~Wait(u) /\ ~Last(u)
           /\ \A u \in Part : Out(u)
<1>1. 0 \in Threads
  BY Params DEF Threads
<1>2. Here(0) = thread[0] /\ Out(0)
  BY DEF Here, Gone, At, Out, Due, Rest
<1>3. \A u \in Part : Out(u)
  <2>1. Part # {} => 0 \in Part
    BY Params DEF Part, Threads, Inv, Types, nth
  <2> QED  BY <1>2, <2>1 DEF Inv, Together
<1>4. \A u \in Threads : Here(u).pc \in Rest
  BY <1>3 DEF Inv, Together, Out
<1>5. \A u \in Threads : ~Wait(u) /\ ~Last(u)
  BY <1>4 DEF Wait, Last, Here, Gone, At, Rest
<1>6. n_barrier = 0
  <2>1. Arrived = {}
    BY <1>5 DEF Arrived, Last
  <2> QED  BY <1>5, <2>1, FS_EmptySet DEF Inv, Counted, Last
<1> QED  BY <1>1, <1>3, <1>4, <1>5, <1>6

LEMMA QuietCounted ==
    ASSUME n_barrier' = 0, \A u \in Threads : ~Wait(u)' /\ ~Last(u)'
    PROVE  Counted'
<1>1. Arrived' = {}
  BY DEF Arrived, Last, Threads
<1> QED  BY <1>1, FS_EmptySet DEF Counted, Last, Threads

(* A thread that a broadcast may wake.                                     *)
LEMMA Wakes ==
    ASSUME Inv, NEW u \in Threads, Here(u).pc \in Rest,
           NEW th, th[u] = thread[u], thread'[u] = Awake(th)[u],
           UNCHANGED n_barrier_passed
    PROVE  /\ thread'[u] \in Record
           /\ thread'[u].last = thread[u].last /\ thread'[u].node = thread[u].node
           /\ thread'[u].then = thread[u].then
           /\ thread'[u].pc \in Rest <=> thread[u].pc \in Rest
           /\ thread'[u] # thread[u] => thread'[u].pc \in {"loop", "check"}
           /\ Here(u)'.pc \in Rest /\ ~Wait(u)' /\ ~Last(u)'
<1>1. thread[u] \in Record
  BY DEF Inv, Types
<1>2. thread'[u] = CASE thread[u].pc = "sleep" -> [thread[u] EXCEPT !.pc = "loop"]
                     [] thread[u].pc = "wait"  -> [thread[u] EXCEPT !.pc = "check"]
                     [] OTHER                  -> thread[u]
  BY DEF Awake
<1>3. CASE thread[u].pc \in {"sleep", "wait"}
  <2>1. PICK pc \in {"loop", "check"} : thread'[u] = [thread[u] EXCEPT !.pc = pc]
    BY <1>2, <1>3
  <2>2. /\ thread'[u].pc = pc /\ thread'[u].last = thread[u].last
        /\ thread'[u].node = thread[u].node /\ thread'[u].then = thread[u].then
    BY <1>1, <2>1 DEF Record
  <2>3. thread'[u] \in Record
    BY <1>1, <2>1 DEF Record, Pcs, Rest
  <2>4. Here(u)' = thread'[u] /\ ~Wait(u)' /\ ~Last(u)'
    BY <2>2 DEF Here, Gone, Wait, Last, At
  <2> QED  BY <1>3, <2>2, <2>3, <2>4 DEF Rest
<1>4. CASE thread[u].pc \notin {"sleep", "wait"}
  <2>1. thread'[u] = thread[u]
    BY <1>2, <1>4
  <2>2. Here(u)' = Here(u)
    BY <2>1 DEF Here, Gone, Left, At
  <2>3. ~Wait(u)' /\ ~Last(u)'
    BY <2>1, <2>2 DEF Wait, Last, Here, Gone, At, Rest
  <2> QED  BY <1>1, <2>1, <2>2, <2>3
<1> QED  BY <1>3, <1>4

(* So woken, it is under control, also if there is a new graph.            *)
LEMMA WokenControl ==
    ASSUME Inv, NEW u \in Workers, Here(u).pc \in Rest,
           NEW th, th[u] = thread[u], thread'[u] = Awake(th)[u],
           UNCHANGED n_barrier_passed,
           n_graph'.count \in Nat, n_graph'.count >= n_graph.count, graph' = graph
    PROVE  Control(u)'
<1>1. u \in Threads /\ u # 0
  BY Params DEF Workers, Threads
<1>2. thread[u] \in Record /\ Control(u) /\ n_graph.count \in Nat
  BY <1>1, Params DEF Inv, Types
<1>3. /\ thread'[u].last = thread[u].last /\ thread'[u].node = thread[u].node
      /\ thread'[u].then = thread[u].then
      /\ thread'[u].pc \in Rest <=> thread[u].pc \in Rest
      /\ thread'[u] # thread[u] => thread'[u].pc \in {"loop", "check"}
      /\ Here(u)'.pc \in Rest
  BY <1>1, Wakes
<1>4. thread'[u].last <= n_graph'.count
  BY <1>2, <1>3 DEF Control, Record
<1>5. CASE thread'[u] = thread[u]
  BY <1>2, <1>3, <1>4, <1>5 DEF Control
<1>6. CASE thread'[u] # thread[u]
  <2>1. thread'[u].pc \in {"loop", "check"} /\ thread[u].pc \in Rest
    BY <1>3, <1>6 DEF Rest
  <2> QED  BY <1>1, <1>2, <1>3, <1>4, <2>1 DEF Control, Pcs, Rest, Callers, Meeting, Calc
<1> QED  BY <1>5, <1>6

(* The parameters of a graph are set when nobody is in the last one.       *)
LEMMA GraphComputeInv ==
    ASSUME Inv, NEW g \in Graphs, NEW n \in 1..N, GraphCompute(g, n)
    PROVE  Inv'
<1>1. thread[0].pc = "idle" /\ n_graph.count < MaxGraphs /\ Types
  BY DEF GraphCompute, At, Inv
<1>2. /\ 0 \in Threads /\ n_barrier = 0
      /\ \A u \in Threads : Here(u).pc \in Rest /\ ~Wait(u) /\ ~Last(u)
      /\ \A u \in Part : Out(u)
  BY <1>1, Quiet
<1>3. /\ thread[0] \in Record /\ n \in Nat /\ thread[0].last <= n_graph.count
      /\ thread[0].node = 0 /\ thread[0].then = "none"
  BY <1>1, <1>2, Params DEF Inv, Types, Control, Rest, Meeting
<1>4. /\ \A u \in Threads \ {0} : thread'[u] = thread[u]
      /\ thread'[0] = [thread[0] EXCEPT !.pc = "kickoff", !.part = n]
  BY <1>1, <1>2 DEF GraphCompute, Types
<1>5. /\ UNCHANGED <<n_graph, n_barrier, n_barrier_passed, stop, pause>>
      /\ graph' = g /\ abort' = 0 /\ current_chunk' = 0
  BY DEF GraphCompute, barrier
<1>6. /\ thread'[0] \in Record /\ thread'[0].pc = "kickoff" /\ thread'[0].part = n
      /\ thread'[0].last = thread[0].last /\ thread'[0].node = 0 /\ thread'[0].then = "none"
  BY <1>3, <1>4 DEF Record, Pcs, Rest
<1>7. Types'
  <2>1. thread' \in [Threads -> Record]
    BY <1>1, <1>3, <1>6, <1>4 DEF GraphCompute, Types
  <2>2. Len(g) \in Nat
    BY GraphIs DEF IsGraph
  <2> QED  BY <1>1, <1>5, <2>1, <2>2 DEF Types
<1>8. \A u \in Threads : /\ Here(u)'.pc \in Rest /\ ~Wait(u)' /\ ~Last(u)'
                         /\ Out(u) => Out(u)'
  <2> SUFFICES ASSUME NEW u \in Threads
               PROVE  Here(u)'.pc \in Rest /\ ~Wait(u)' /\ ~Last(u)' /\ (Out(u) => Out(u)')
    OBVIOUS
  <2>1. CASE u = 0
    BY <1>6, <2>1 DEF Here, Gone, Wait, Last, At, Rest, Out, Due
  <2>2. CASE u # 0
    BY <1>2, <1>4, <1>5, <2>2, Stays
  <2> QED  BY <2>1, <2>2
<1>9. (\A u \in Threads : Control(u))'
  <2> SUFFICES ASSUME NEW u \in Threads PROVE Control(u)'
    BY DEF Threads
  <2>1. CASE u = 0
    BY <1>3, <1>5, <1>6, <1>8, <2>1 DEF Control, Callers, Rest, Meeting, Calc
  <2>2. CASE u # 0
    <3>1. thread'[u] = thread[u] /\ Control(u) /\ thread[u] \in Record
      BY <1>4, <2>2 DEF Inv, Types
    <3>2. thread[u].pc \notin Calc \cup {"head"}
      BY <1>2 DEF Here, Gone, At, Rest, Calc
    <3>3. thread[u].pc \in Meeting => thread[u].pc = "spin" /\ thread[u].then \notin {"head", "work"}
      BY <1>2, <3>1 DEF Here, Gone, Left, At, Rest, Meeting, Record
    <3> QED  BY <1>5, <1>8, <3>1, <3>2, <3>3 DEF Control, Meeting
  <2> QED  BY <2>1, <2>2
<1>10. Caller'
  BY <1>1, <1>5, <1>6 DEF Caller
<1>11. Counted'
  BY <1>2, <1>5, <1>8, QuietCounted
<1>12. Together'
  <2>1. Part' = Part /\ \A u \in Part : u \in Threads
    BY <1>5 DEF Part, Threads, nth
  <2> QED  BY <1>2, <1>8, <2>1 DEF Together, Threads
<1> QED  BY <1>7, <1>9, <1>10, <1>11, <1>12 DEF Inv

LEMMA HeadSet ==
    ASSUME NEW r \in Record
    PROVE  [r EXCEPT !.pc = "head", !.node = 1, !.part = 0] \in Record
BY DEF Record, Pcs

(* Everybody begins the new graph at its first node, or has not seen it.   *)
LEMMA KickoffInv == ASSUME Inv, Kickoff PROVE Inv'
<1> DEFINE th == [thread EXCEPT ![0].pc = "head", ![0].node = 1, ![0].part = 0]
<1>1. thread[0].pc = "kickoff" /\ Types /\ thread' = Awake(th)
  BY DEF Kickoff, At, Inv
<1>2. /\ 0 \in Threads /\ n_barrier = 0
      /\ \A u \in Threads : Here(u).pc \in Rest /\ ~Wait(u) /\ ~Last(u)
  BY <1>1, Quiet
<1>3. /\ thread[0] \in Record /\ abort = 0 /\ n_graph.count < MaxGraphs /\ thread[0].part \in 1..N
      /\ thread[0].last <= n_graph.count /\ n_graph.count \in Nat /\ thread[0].then = "none"
  BY <1>1, <1>2, Params DEF Inv, Types, Caller, Control, Meeting
<1>4. /\ UNCHANGED <<graph, n_barrier, n_barrier_passed, current_chunk, abort, stop>>
      /\ n_graph' = [count |-> n_graph.count + 1, threads |-> thread[0].part] /\ pause' = FALSE
  BY DEF Kickoff, barrier
<1>5. th[0] = [thread[0] EXCEPT !.pc = "head", !.node = 1, !.part = 0] /\ \A u \in Workers : th[u] = thread[u]
  BY <1>1, <1>2, Params DEF Types, Workers, Threads
<1> HIDE DEF th
<1>6. /\ thread'[0] \in Record /\ thread'[0].pc = "head" /\ thread'[0].node = 1
      /\ thread'[0].last = thread[0].last /\ thread'[0].then = "none"
  <2>1. th[0] \in Record
    BY <1>3, <1>5, HeadSet
  <2>2. th[0].pc = "head" /\ th[0].node = 1 /\ th[0].last = thread[0].last /\ th[0].then = "none"
    BY <1>3, <1>5 DEF Record
  <2>3. thread'[0] = th[0]
    BY <1>1, <1>2, <2>2 DEF Awake
  <2> QED  BY <2>1, <2>2, <2>3
<1>7. /\ Workers = Threads \ {0}
      /\ \A u \in Workers : thread'[u] = Awake(th)[u]
  BY <1>1, Params DEF Workers, Threads
<1>8. \A u \in Workers :
        /\ thread'[u] \in Record /\ thread'[u].last = thread[u].last
        /\ Here(u)'.pc \in Rest /\ ~Wait(u)' /\ ~Last(u)'
  BY <1>2, <1>4, <1>5, <1>7, Wakes
<1>9. Types'
  <2>1. thread' \in [Threads -> Record]
    <3>1. thread' = [u \in Threads |-> thread'[u]]
      BY <1>1 DEF Awake
    <3> QED  BY <1>6, <1>7, <1>8, <3>1
  <2>2. n_graph' \in [count : 0..MaxGraphs, threads : 0..N]
    BY <1>3, <1>4, Params
  <2> QED  BY <1>1, <1>4, <2>1, <2>2 DEF Types
<1>10. Here(0)' = thread'[0] /\ ~Wait(0)' /\ ~Last(0)'
  BY <1>6 DEF Here, Gone, Wait, Last, At
<1>11. (\A u \in Threads : Control(u))'
  <2> SUFFICES ASSUME NEW u \in Threads PROVE Control(u)'
    BY DEF Threads
  <2>1. CASE u = 0
    <3>1. Len(graph) \in Nat /\ n_graph'.count = n_graph.count + 1
      BY <1>1, <1>4, GraphIs DEF Types, IsGraph
    <3>2. thread'[0].last <= n_graph'.count
      BY <1>3, <1>6, <3>1 DEF Record
    <3> QED  BY <1>4, <1>6, <2>1, <3>1, <3>2 DEF Control, Callers, Rest, Meeting, Calc, Due
  <2>2. CASE u # 0
    <3>1. n_graph'.count \in Nat /\ n_graph'.count >= n_graph.count
      BY <1>3, <1>4
    <3> QED  BY <1>2, <1>4, <1>5, <1>7, <2>2, <3>1, WokenControl
  <2> QED  BY <2>1, <2>2
<1>12. Caller'
  BY <1>3, <1>4, <1>6 DEF Caller
<1>13. Counted'
  BY <1>2, <1>4, <1>7, <1>8, <1>10, QuietCounted
<1>14. Together'
  <2>1. 0 \in Part' /\ Part' \subseteq Threads
    BY <1>2, <1>3, <1>4 DEF Part, Threads, nth
  <2>2. \A u \in Threads : ~Out(u)' /\ Key(u)' = KeyFrom(graph, abort, 1)
    <3> SUFFICES ASSUME NEW u \in Threads PROVE ~Out(u)' /\ Key(u)' = KeyFrom(graph, abort, 1)
      OBVIOUS
    <3>1. Key(u)' = KeyOf(graph, abort, Here(u)')
      BY <1>4 DEF Key
    <3>2. CASE u = 0
      BY <1>6, <1>10, <3>1, <3>2 DEF Out, KeyOf, Rest, Calc, Meeting
    <3>3. CASE u # 0
      <4>1. thread[u].last <= n_graph.count /\ thread[u] \in Record
        BY <1>1 DEF Inv, Control, Types
      <4>2. Due(u)'
        BY <1>3, <1>4, <1>7, <1>8, <3>3, <4>1 DEF Due, New, Record
      <4> QED  BY <1>7, <1>8, <3>1, <3>3, <4>2 DEF Out, KeyOf, Rest, Calc, Meeting
    <3> QED  BY <3>2, <3>3
  <2> QED  BY <1>7, <1>8, <2>1, <2>2 DEF Together, Threads
<1> QED  BY <1>9, <1>11, <1>12, <1>13, <1>14 DEF Inv

(* Pause, resume and free: thread 0 goes to pc, and there is no new graph. *)
Broadcast(pc) ==
    /\ thread[0].pc = "idle"
    /\ thread' = Awake([thread EXCEPT ![0].pc = pc])
    /\ UNCHANGED <<graph, n_graph, n_barrier, n_barrier_passed, current_chunk, abort>>
    /\ stop' \in BOOLEAN /\ pause' \in BOOLEAN

LEMMA BroadcastInv == ASSUME Inv, NEW pc \in {"idle", "join"}, Broadcast(pc) PROVE Inv'
<1> DEFINE th == [thread EXCEPT ![0].pc = pc]
<1>1. /\ 0 \in Threads /\ n_barrier = 0
      /\ \A u \in Threads : Here(u).pc \in Rest
      /\ \A u \in Part : Out(u)
  BY Quiet DEF Broadcast
<1>2. /\ thread[0] \in Record /\ Types /\ n_graph.count \in Nat
      /\ thread[0].last <= n_graph.count /\ thread[0].node = 0 /\ thread[0].then = "none"
  BY <1>1, Params DEF Broadcast, Inv, Types, Control, Rest, Meeting
<1>3. th[0] = [thread[0] EXCEPT !.pc = pc] /\ \A u \in Workers : th[u] = thread[u]
  BY <1>1, <1>2, Params DEF Types, Workers, Threads
<1>4. /\ thread' = Awake(th) /\ stop' \in BOOLEAN /\ pause' \in BOOLEAN
      /\ UNCHANGED <<graph, n_graph, n_barrier, n_barrier_passed, current_chunk, abort>>
  BY DEF Broadcast
<1> HIDE DEF th
<1>5. /\ thread'[0] \in Record /\ thread'[0].pc = pc /\ thread'[0].node = 0
      /\ thread'[0].last = thread[0].last /\ thread'[0].then = "none"
  <2>1. /\ th[0] \in Record /\ th[0].pc = pc /\ th[0].node = 0
        /\ th[0].last = thread[0].last /\ th[0].then = "none"
    BY <1>2, <1>3 DEF Record, Pcs, Rest
  <2>2. thread'[0] = th[0]
    BY <1>1, <1>4, <2>1 DEF Awake
  <2> QED  BY <2>1, <2>2
<1>6. /\ Workers = Threads \ {0}
      /\ \A u \in Workers : thread'[u] = Awake(th)[u]
  BY <1>4, Params DEF Workers, Threads
<1>7. \A u \in Workers :
        /\ thread'[u] \in Record /\ thread'[u].last = thread[u].last
        /\ Here(u)'.pc \in Rest /\ ~Wait(u)' /\ ~Last(u)'
  BY <1>1, <1>3, <1>4, <1>6, Wakes
<1>8. Here(0)'.pc \in Rest /\ ~Wait(0)' /\ ~Last(0)'
  BY <1>5 DEF Here, Gone, Wait, Last, At, Rest
<1>9. Types'
  <2>1. thread' = [u \in Threads |-> thread'[u]]
    BY <1>4 DEF Awake
  <2>2. thread' \in [Threads -> Record]
    BY <1>5, <1>6, <1>7, <2>1
  <2> QED  BY <1>2, <1>4, <2>2 DEF Types
<1>10. (\A u \in Threads : Control(u))'
  <2> SUFFICES ASSUME NEW u \in Threads PROVE Control(u)'
    BY DEF Threads
  <2>1. CASE u = 0
    BY <1>2, <1>4, <1>5, <1>8, <2>1 DEF Control, Callers, Rest, Meeting, Calc
  <2>2. CASE u # 0
    <3>1. n_graph'.count \in Nat /\ n_graph'.count >= n_graph.count
      BY <1>2, <1>4
    <3> QED  BY <1>1, <1>3, <1>4, <1>6, <2>2, <3>1, WokenControl
  <2> QED  BY <2>1, <2>2
<1>11. Caller'
  BY <1>4, <1>5 DEF Broadcast, Inv, Caller, Calc, Meeting
<1>12. Counted'
  BY <1>1, <1>4, <1>6, <1>7, <1>8, QuietCounted
<1>13. Together'
  <2>1. Part' = Part /\ \A u \in Part : u \in Threads
    BY <1>4 DEF Part, Threads, nth
  <2>2. \A u \in Part : Out(u)'
    BY <1>1, <1>4, <1>6, <1>7, <1>8, <2>1 DEF Out, Due, New
  <2> QED  BY <1>6, <1>7, <1>8, <2>1, <2>2 DEF Together, Threads
<1> QED  BY <1>9, <1>10, <1>11, <1>12, <1>13 DEF Inv

LEMMA CallerInv == ASSUME Inv, Kickoff \/ PauseOrResume \/ Free \/ Join PROVE Inv'
<1>1. 0 \in Threads /\ thread \in [Threads -> Record] /\ stop \in BOOLEAN /\ pause \in BOOLEAN
  BY Params DEF Threads, Inv, Types
<1>2. CASE PauseOrResume
  <2>1. thread[0].pc = "idle" /\ UNCHANGED <<graph, n_graph, n_barrier, n_barrier_passed, current_chunk, abort>>
    BY <1>2 DEF PauseOrResume, At, barrier
  <2>2. thread = [thread EXCEPT ![0].pc = "idle"]
    BY <1>1, <2>1 DEF Record
  <2>3. thread' = Awake([thread EXCEPT ![0].pc = "idle"])
    BY <1>2, <2>2 DEF PauseOrResume
  <2>4. stop' \in BOOLEAN /\ pause' \in BOOLEAN
    BY <1>1, <1>2 DEF PauseOrResume
  <2> QED  BY <2>1, <2>3, <2>4, BroadcastInv DEF Broadcast
<1>3. CASE Free
  <2>1. /\ thread[0].pc = "idle" /\ stop' \in BOOLEAN /\ pause' \in BOOLEAN
        /\ thread' = Awake([thread EXCEPT ![0].pc = "join"])
        /\ UNCHANGED <<graph, n_graph, n_barrier, n_barrier_passed, current_chunk, abort>>
    BY <1>3 DEF Free, At, barrier
  <2> QED  BY <2>1, BroadcastInv DEF Broadcast
<1>4. CASE Join
  <2>1. /\ thread[0].pc \in Rest /\ thread' = To(0, "exited")
        /\ UNCHANGED <<graph, n_graph, n_barrier, n_barrier_passed, current_chunk, stop, pause, abort>>
    BY <1>4 DEF Join, At, Rest, pool, barrier
  <2> QED  BY <1>1, <2>1, RestInv
<1> QED  BY <1>2, <1>3, <1>4, KickoffInv

LEMMA NextInv == Inv /\ [Next]_vars => Inv'
<1> SUFFICES ASSUME Inv, [Next]_vars PROVE Inv'
  OBVIOUS
<1>1. ASSUME NEW t \in Threads, Barrier(t) PROVE Inv'
  BY <1>1, EnterInv, AddInv, ResetInv, PassInv, SpinInv DEF Barrier
<1>2. ASSUME NEW t \in Threads, Compute(t) PROVE Inv'
  BY <1>2, NextNodeInv, WorkInv, NodeDoneInv DEF Compute
<1>3. ASSUME NEW t \in Threads, Worker(t) PROVE Inv'
  BY <1>3, WorkerInv
<1>4. ASSUME NEW g \in Graphs, NEW n \in 1..N, GraphCompute(g, n) PROVE Inv'
  BY <1>4, GraphComputeInv
<1>5. ASSUME Kickoff \/ PauseOrResume \/ Free \/ Join PROVE Inv'
  BY <1>5, CallerInv
<1>6. CASE UNCHANGED vars
  <2>1. UNCHANGED <<graph, n_graph, n_barrier, n_barrier_passed, current_chunk, stop, pause, abort, thread>>
    BY <1>6 DEF vars
  <2>2. Types' /\ Caller'
    BY <2>1 DEF Inv, Types, Caller
  <2>3. \A t \in Threads : /\ Here(t)' = Here(t) /\ (Due(t)' <=> Due(t)) /\ (Out(t)' <=> Out(t))
                           /\ (Wait(t)' <=> Wait(t)) /\ (Last(t)' <=> Last(t))
                           /\ (At(t, "reset")' <=> At(t, "reset")) /\ (At(t, "pass")' <=> At(t, "pass"))
    BY <2>1, Stays
  <2>4. (\A t \in Threads : Control(t))'
    BY <2>1, <2>3 DEF Inv, Control, Threads
  <2>5. Arrived' = Arrived /\ Part' = Part /\ \A t \in Part : t \in Threads
    BY <2>1, <2>3 DEF Arrived, Part, Threads, nth
  <2>6. Counted'
    BY <2>1, <2>3, <2>5 DEF Inv, Counted, Threads
  <2>7. \A t \in Threads : Key(t)' = Key(t)
    BY <2>1, <2>3 DEF Key
  <2>8. Together'
    BY <2>3, <2>5, <2>7 DEF Inv, Together, Threads
  <2> QED  BY <2>2, <2>4, <2>6, <2>8 DEF Inv
<1> QED  BY <1>1, <1>2, <1>3, <1>4, <1>5, <1>6 DEF Next

(* What the barrier keeps, in every behaviour.                             *)
THEOREM Invariance == Spec => []Inv
BY InitInv, NextInv, PTL DEF Spec

(* All variables have their types; n_barrier counts no more threads than   *)
(* the pool has, and node_n does not leave the graph.                      *)
THEOREM TypeCorrect == Spec => []TypeOK
<1>1. Inv => TypeOK
  <2> SUFFICES ASSUME Inv PROVE TypeOK
    OBVIOUS
  <2>1. n_barrier \in 0..N
    <3>1. IsFiniteSet(Part) /\ Arrived \subseteq Part /\ Cardinality(Part) = nth
      BY Parties
    <3>2. Cardinality(Arrived) \in Nat /\ Cardinality(Arrived) <= nth
      BY <3>1, FS_Subset, FS_CardinalityType
    <3>3. nth \in 0..N
      BY DEF nth, Inv, Types
    <3> QED  BY <3>2, <3>3, Params DEF Inv, Counted
  <2>2. Len(graph) \in Nat
    BY GraphIs DEF Inv, Types, IsGraph
  <2>3. \A t \in Threads : thread[t].last \in 0..n_graph.count /\ thread[t].node \in 0..Len(graph) + 1
    <3> SUFFICES ASSUME NEW t \in Threads
                 PROVE  thread[t].last \in 0..n_graph.count /\ thread[t].node \in 0..Len(graph) + 1
      OBVIOUS
    <3>1. thread[t] \in Record /\ Control(t) /\ n_graph.count \in Nat
      BY Params DEF Inv, Types
    <3>2. thread[t].last \in 0..n_graph.count
      BY <3>1 DEF Record, Control
    <3>3. thread[t].pc \in Pcs
      BY <3>1 DEF Record
    <3>4. thread[t].node \in 0..Len(graph) + 1
      BY <2>2, <3>1, <3>3 DEF Control, Pcs
    <3> QED  BY <3>2, <3>4
  <2> QED  BY <2>1, <2>3 DEF Inv, Types, TypeOK
<1> QED  BY <1>1, Invariance, PTL

(* While a graph is set up (ggml_graph_compute), no worker is in the last. *)
THEOREM ParametersKept == Spec => []ParametersQuiet
<1>1. Inv => ParametersQuiet
  <2> SUFFICES ASSUME Inv, thread[0].pc \in {"idle", "kickoff"}, NEW t \in Workers
               PROVE  thread[t].pc \in (Rest \ Callers) \cup {"spin"}
    BY DEF ParametersQuiet, At, Rest, Callers
  <2>1. t \in Threads /\ t # 0
    BY Params DEF Workers, Threads
  <2>2. Here(t).pc \in Rest
    BY <2>1, Quiet
  <2>3. thread[t].pc \in Rest \cup {"spin"}
    BY <2>2 DEF Here, Gone, At
  <2> QED  BY <2>1, <2>3 DEF Inv, Control, Callers, Pcs
<1> QED  BY <1>1, Invariance, PTL
-----------------------------------------------------------------------------
(* ThreadPool implements GraphCompute.  The barrier keeps the threads at   *)
(* one node, and there every part is computed, in the hands of one thread, *)
(* or an open chunk (WorkInvariant).                                       *)

(* The node at which the threads stop, and the one t has still to do.      *)
Stop == IF abort = 0 THEN Len(graph) + 1 ELSE abort

Pos(t) ==
    LET r == Here(t)
    IN  CASE r.pc \in Rest    -> IF Due(t) THEN 1 ELSE Stop
          [] r.pc \in Meeting -> IF r.then = Home(t) THEN Stop ELSE r.node
          [] r.pc = "done"    -> r.node + 1
          [] r.pc \in {"head", "work", "take"} -> r.node

(* t has begun a node: it goes to work on its first part, or has.          *)
On(t) == Here(t).pc \in {"work", "take"} \/ (Here(t).pc \in Meeting /\ Here(t).then = "work")

Begun(k) == On(0) /\ Here(0).node = k

Computed   == {k \in 1..Len(graph) : graph[k].kind # "empty"}
Chunked(k) == k \in Computed /\ graph[k].kind = "chunks"
PartsOf(k) == {p \in Nat : p < Count(k)}

(* A part belongs to a thread: its own first part, or a chunk it has taken.*)
(* Chunks that nobody has taken are open until thread 0 finds none.        *)
Holds(t, k, p) ==
    IF On(t) /\ Here(t).node = k THEN Here(t).pc # "take" /\ Here(t).part = p
                                 ELSE Pos(t) <= k /\ p = t

Open(k, p) ==
    /\ Chunked(k) /\ p >= nth /\ p < Count(k)
    /\ Pos(0) <= k
    /\ Begun(k) => p >= current_chunk

(* A part is computed, open, or in one hand.                               *)
Tallied(k, p) ==
    /\ <<k, p>> \in work \/ Open(k, p) \/ \E t \in Part : Holds(t, k, p)
    /\ <<k, p>> \in work => ~Open(k, p) /\ \A t \in Part : ~Holds(t, k, p)
    /\ \A t \in Part : Holds(t, k, p) =>
        /\ ~Open(k, p)
        /\ \A u \in Part : Holds(u, k, p) => u = t

Share(t) ==
    LET r == Here(t)
        k == r.node
    IN  /\ Pos(t) <= Stop
        /\ On(t) =>
            /\ k \in Computed /\ k < Stop
            /\ IF r.pc = "take" THEN Chunked(k) /\ Count(k) > nth
                                ELSE r.part = t \/ (r.pc = "work" /\ Chunked(k) /\ r.part \in nth..current_chunk - 1)
            /\ Chunked(k) =>
                /\ r.pc \in {"work", "take"} \/ t = 0 => current_chunk >= nth
                /\ r.pc \in {"work", "take"} /\ Count(k) > nth /\ Pos(0) > k => current_chunk >= Count(k)

Tally ==
    /\ work \subseteq {w \in Computed \X Nat : w[2] \in PartsOf(w[1])}
    /\ \A k \in Computed : \A p \in PartsOf(k) : Tallied(k, p)
    /\ \A t \in Part : Share(t)

WorkInvariant ==
    IF At(0, "kickoff") \/ nth = 0 THEN work = {} /\ thread[0].pc \in Rest ELSE Tally
-----------------------------------------------------------------------------
LEMMA Facts ==
    ASSUME Inv
    PROVE  /\ Types /\ IsGraph(graph) /\ Len(graph) \in Nat
           /\ abort \in Nat /\ nth \in Nat /\ n_graph.count \in Nat
           /\ Stop \in 1..Len(graph) + 1
           /\ 0 \in Threads /\ Part = 0..nth - 1 /\ Part \subseteq Threads
<1>1. Types /\ IsGraph(graph) /\ Len(graph) \in Nat
  BY GraphIs DEF Inv, Types, IsGraph
<1>2. abort \in 0..Len(graph) + 1 /\ nth \in 0..N /\ n_graph.count \in Nat
  BY <1>1, Params DEF Types, nth
<1> QED  BY <1>1, <1>2, Params DEF Stop, Part, Threads

(* What Control says of a thread also holds of where it goes.              *)
LEMMA HereIs ==
    ASSUME Inv, NEW t \in Threads
    PROVE  /\ Here(t) \in Record
           /\ Here(t).pc \in Calc => Here(t).node \in 1..Len(graph) /\ ~Due(t)
           /\ Here(t).pc = "head" => Here(t).node \in 1..Len(graph) + 1 /\ ~Due(t)
           /\ Here(t).pc \in Meeting =>
                /\ ~Due(t) /\ Here(t).then \in {"head", "work", Home(t)}
                /\ Here(t).then = "work" => Here(t).node \in 1..Len(graph)
                /\ Here(t).then = "head" => Here(t).node \in 1..Len(graph) + 1
<1>1. thread[t] \in Record /\ Control(t)
  BY DEF Inv, Types
<1>2. CASE Gone(t)
  <2>1. thread[t].pc = "spin" /\ thread[t].then \in {"head", "work", Home(t)}
    BY <1>1, <1>2 DEF Gone, At, Control, Meeting
  <2>2. Here(t) = Left(thread[t]) /\ Here(t) \in Record
    BY <1>1, <1>2, <2>1 DEF Here, Left, Record, Home, Pcs, Rest, Calc
  <2>3. Here(t).pc = thread[t].then /\ Here(t).node = thread[t].node
    BY <1>1, <2>2 DEF Left, Record
  <2> QED  BY <1>1, <2>1, <2>2, <2>3 DEF Control, Home, Rest, Calc, Meeting
<1>3. CASE ~Gone(t)
  BY <1>1, <1>3 DEF Here, Control, Rest, Calc, Meeting
<1> QED  BY <1>2, <1>3

LEMMA PosIs ==
    ASSUME NEW t
    PROVE  /\ Here(t).pc \in Rest => Pos(t) = IF Due(t) THEN 1 ELSE Stop
           /\ Here(t).pc \in Meeting => Pos(t) = IF Here(t).then = Home(t) THEN Stop ELSE Here(t).node
           /\ Here(t).pc = "done" => Pos(t) = Here(t).node + 1
           /\ Here(t).pc \in {"head", "work", "take"} => Pos(t) = Here(t).node
           /\ On(t) => Pos(t) = Here(t).node
BY DEF Pos, On, Home, Rest, Meeting

LEMMA PosType ==
    ASSUME Inv, NEW t \in Threads
    PROVE  Pos(t) \in Nat /\ Here(t).node \in Nat /\ Here(t).part \in Nat
<1>1. Here(t) \in Record /\ Here(t).pc \in Rest \cup Meeting \cup Calc \cup {"head"}
  BY HereIs DEF Record, Pcs
<1>2. Here(t).node \in Nat /\ Here(t).part \in Nat /\ Stop \in Nat
  BY <1>1, Facts DEF Record
<1> QED  BY <1>1, <1>2, PosIs DEF Calc
-----------------------------------------------------------------------------
(* Where a thread is that goes to the barrier after node k.                *)
LEMMA KeyBehind ==
    ASSUME NEW g, IsGraph(g), NEW a \in Nat, NEW n \in 1..Len(g) + 1, NEW k \in 1..Len(g),
           a = 0 \/ k < a, KeyFrom(g, a, n) = After(g, k),
           NEW j \in n..k, g[j].kind # "empty"
    PROVE  j = k /\ g[k].kind # "chunks"
<1> DEFINE f == First(g, a, n)
<1>1. Len(g) \in Nat
  BY DEF IsGraph
<1>2. f \in Stops(g, a, n) /\ \A i \in Stops(g, a, n) : f <= i
  BY FirstIs
<1> HIDE DEF f
<1>3. j \in Stops(g, a, n)
  BY <1>1 DEF Stops
<1>4. f \in n..Len(g) + 1 /\ f <= j
  BY <1>2, <1>3 DEF Stops
<1>5. ~Ends(g, a, f)
  BY <1>1, <1>4 DEF Ends
<1>6. KeyAt(g, a, f) = After(g, k)
  BY DEF KeyFrom, f
<1>7. g[f].kind # "chunks" /\ After(g, f) = After(g, k)
  BY <1>5, <1>6 DEF KeyAt, After, End
<1>8. f = k
  BY <1>1, <1>4, <1>7 DEF After, End
<1> QED  BY <1>4, <1>7, <1>8

LEMMA KeyNotWork ==
    ASSUME NEW g, IsGraph(g), NEW k \in 1..Len(g), NEW m
    PROVE  After(g, k) # <<"work", m>> /\ (m \in 1..Len(g) /\ After(g, m) = After(g, k) => m = k)
<1>1. Len(g) \in Nat
  BY DEF IsGraph
<1> QED  BY <1>1 DEF After, End

(* While a thread computes a node, the others have done all nodes before   *)
(* it; those with chunks they have also begun.                             *)
LEMMA Behind ==
    ASSUME Inv, Tally, NEW t \in Part, Here(t).pc \in Calc, NEW u \in Part
    PROVE  LET k == Here(t).node
           IN  /\ k \in 1..Len(graph) /\ Key(u) = After(graph, k) /\ ~Out(u)
               /\ \A j \in Computed : j < k => Pos(u) > j
               /\ Chunked(k) => Pos(u) > k \/ On(u)
               /\ On(u) => Here(u).node = k
<1> DEFINE k == Here(t).node
<1>1. /\ IsGraph(graph) /\ Len(graph) \in Nat /\ abort \in Nat /\ Stop \in 1..Len(graph) + 1
      /\ t \in Threads /\ u \in Threads
  BY Facts
<1>2. k \in 1..Len(graph) /\ Key(t) = After(graph, k) /\ ~Out(t)
  BY <1>1, HereIs DEF Key, KeyOf, Rest, Meeting, Calc, Out
<1>3. Key(u) = After(graph, k) /\ ~Out(u)
  BY <1>2 DEF Inv, Together
<1>4. k < Stop
  BY <1>1, <1>2, PosIs, HereIs DEF Tally, Share, On, Calc
<1>5. abort = 0 \/ k < abort
  BY <1>4 DEF Stop
<1>6. Here(u) \in Record /\ Here(u).pc \in Pcs
  BY <1>1, HereIs DEF Record
<1> SUFFICES /\ \A j \in Computed : j < k => Pos(u) > j
             /\ Chunked(k) => Pos(u) > k \/ On(u)
             /\ On(u) => Here(u).node = k
  BY <1>2, <1>3
<1> HIDE DEF k
<1>7. CASE Here(u).pc \in Calc
  <2>1. Key(u) = After(graph, Here(u).node) /\ Here(u).node \in 1..Len(graph)
    BY <1>1, <1>7, HereIs DEF Key, KeyOf, Rest, Meeting, Calc
  <2>2. Here(u).node = k
    BY <1>1, <1>2, <1>3, <2>1, KeyNotWork
  <2> QED  BY <1>2, <1>7, <2>2, PosIs DEF On, Calc, Computed, Meeting
<1>8. CASE Here(u).pc \in Meeting
  <2>1. Key(u) = IF Here(u).then \in {"head", "work"} THEN <<Here(u).then, Here(u).node>> ELSE End
    BY <1>8 DEF Key, KeyOf, Rest, Meeting, Calc
  <2>2. Here(u).then \in {"head", "work", Home(u)}
    BY <1>1, <1>8, HereIs
  <2>3. Pos(u) > k
    <3>1. CASE Here(u).then = Home(u)
      <4>1. k = Len(graph) /\ Pos(u) = Stop
        BY <1>2, <1>3, <1>8, <2>1, <3>1, PosIs DEF After, Home, End
      <4> QED  BY <1>4, <4>1
    <3>2. CASE Here(u).then = "head"
      BY <1>2, <1>3, <1>8, <2>1, <3>2, PosIs DEF After, Home, End
    <3>3. CASE Here(u).then = "work"
      BY <1>1, <1>2, <1>3, <2>1, <3>3, KeyNotWork
    <3> QED  BY <2>2, <3>1, <3>2, <3>3
  <2>4. Here(u).then # "work"
    BY <1>1, <1>2, <1>3, <2>1, KeyNotWork
  <2> QED  BY <1>1, <1>2, <1>8, <2>3, <2>4, PosType DEF Computed, On, Meeting
<1>9. ASSUME NEW n \in 1..Len(graph) + 1, Pos(u) = n, Key(u) = KeyFrom(graph, abort, n)
      PROVE  /\ \A j \in Computed : j < k => Pos(u) > j
             /\ Chunked(k) => Pos(u) > k
  <2>1. ASSUME NEW j \in Computed, j <= k, n <= j
        PROVE  j = k /\ ~Chunked(k)
    <3>1. j \in n..k /\ graph[j].kind # "empty"
      BY <1>1, <1>2, <2>1 DEF Computed
    <3>2. KeyFrom(graph, abort, n) = After(graph, k) /\ n \in 1..Len(graph) + 1
      BY <1>3, <1>9
    <3>3. j = k /\ graph[k].kind # "chunks"
      BY <1>1, <1>2, <1>5, <3>1, <3>2, KeyBehind
    <3> QED  BY <3>3 DEF Chunked
  <2> QED  BY <1>2, <1>9, <2>1 DEF Computed, Chunked
<1>10. CASE Here(u).pc = "head"
  <2>1. Key(u) = KeyFrom(graph, abort, Here(u).node) /\ Pos(u) = Here(u).node
    BY <1>10, PosIs DEF Key, KeyOf, Rest, Meeting, Calc
  <2> QED  BY <1>1, <1>9, <1>10, <2>1, HereIs DEF On, Meeting
<1>11. CASE Here(u).pc \in Rest
  <2>1. Key(u) = KeyFrom(graph, abort, 1) /\ Pos(u) = 1
    BY <1>3, <1>11, PosIs DEF Key, KeyOf, Rest, Meeting, Calc, Out
  <2> QED  BY <1>1, <1>9, <1>11, <2>1 DEF On, Rest, Meeting
<1> QED  BY <1>6, <1>7, <1>8, <1>10, <1>11 DEF Pcs

LEMMA Counts ==
    ASSUME Inv, NEW k \in Computed
    PROVE  Count(k) \in Nat /\ PartsOf(k) = 0..Count(k) - 1 /\ k \in 1..Len(graph)
<1>1. IsGraph(graph) /\ Len(graph) \in Nat /\ nth \in Nat /\ k \in 1..Len(graph)
  BY Facts DEF Computed
<1>2. graph[k] \in [kind : {"split", "empty"}] \cup [kind : {"chunks"}, n : Nat]
  BY <1>1 DEF IsGraph
<1>3. graph[k].kind = "chunks" => graph[k].n \in Nat
  BY <1>2
<1>4. Count(k) \in Nat
  BY <1>1, <1>3 DEF Count
<1> QED  BY <1>1, <1>4 DEF PartsOf

(* A node that all threads have done is complete.                          *)
LEMMA Finished ==
    ASSUME Inv, Tally, 0 \in Part, NEW k \in Computed, \A u \in Part : Pos(u) > k,
           NEW p \in PartsOf(k)
    PROVE  <<k, p>> \in work
<1>1. k \in Nat /\ \A u \in Part : u \in Threads
  BY Facts DEF Computed
<1>2. ~Open(k, p)
  BY <1>1, PosType DEF Open
<1>3. \A u \in Part : ~Holds(u, k, p)
  BY <1>1, PosType, PosIs DEF Holds
<1>4. Tallied(k, p)
  BY DEF Tally
<1> QED  BY <1>2, <1>3, <1>4 DEF Tallied

(* No part is computed of a node that nobody has begun.                    *)
LEMMA NotBegun ==
    ASSUME Inv, Tally, 0 \in Part, NEW k \in Computed, NEW p \in PartsOf(k),
           \A u \in Part : Pos(u) <= k /\ ~(On(u) /\ Here(u).node = k)
    PROVE  <<k, p>> \notin work
<1>1. Part = 0..nth - 1 /\ nth \in Nat /\ Count(k) \in Nat /\ p \in Nat /\ p < Count(k)
  BY Facts, Counts DEF PartsOf
<1>2. Tallied(k, p)
  BY DEF Tally
<1>3. CASE p < nth
  <2>1. p \in Part /\ Holds(p, k, p)
    BY <1>1, <1>3 DEF Holds
  <2> QED  BY <1>2, <2>1 DEF Tallied
<1>4. CASE p >= nth
  <2>1. Chunked(k)
    BY <1>1, <1>4 DEF Chunked, Computed, Count
  <2>2. Open(k, p)
    BY <1>1, <1>4, <2>1 DEF Open, Begun
  <2> QED  BY <1>2, <2>2 DEF Tallied
<1> QED  BY <1>1, <1>3, <1>4

(* After a node that thread 0 has just done, nobody is further than it.    *)
LEMMA NotAhead ==
    ASSUME Inv, Tally, 0 \in Part, Here(0).pc = "done", abort = 0, NEW u \in Part
    PROVE  LET k == Here(0).node
           IN  /\ Pos(u) <= k + 1
               /\ On(u) => Here(u).node = k
               /\ Here(u).pc \in Rest => Due(u)
               /\ Here(u).pc \in Meeting /\ Here(u).then = Home(u) => k = Len(graph)
<1> DEFINE k == Here(0).node
<1>1. /\ IsGraph(graph) /\ Len(graph) \in Nat /\ u \in Threads /\ Stop = Len(graph) + 1
      /\ k \in 1..Len(graph) /\ Key(u) = After(graph, k) /\ ~Out(u)
  BY Behind, Facts DEF Calc, Stop
<1>2. Here(u) \in Record /\ Here(u).pc \in Pcs
  BY <1>1, HereIs DEF Record
<1> SUFFICES /\ Pos(u) <= k + 1
             /\ On(u) => Here(u).node = k
             /\ Here(u).pc \in Rest => Due(u)
             /\ Here(u).pc \in Meeting /\ Here(u).then = Home(u) => k = Len(graph)
  OBVIOUS
<1> HIDE DEF k
<1>3. Pos(u) <= Stop /\ Pos(u) \in Nat
  BY <1>1, PosType DEF Tally, Share
<1>4. CASE Here(u).pc \in Calc
  <2>1. Key(u) = After(graph, Here(u).node) /\ Here(u).node \in 1..Len(graph)
    BY <1>1, <1>4, HereIs DEF Key, KeyOf, Rest, Meeting, Calc
  <2>2. Here(u).node = k
    BY <1>1, <2>1, KeyNotWork
  <2> QED  BY <1>1, <1>4, <2>2, PosIs DEF Rest, Meeting, Calc
<1>5. CASE Here(u).pc \in Meeting
  <2>1. Key(u) = IF Here(u).then \in {"head", "work"} THEN <<Here(u).then, Here(u).node>> ELSE End
    BY <1>5 DEF Key, KeyOf, Rest, Meeting, Calc
  <2>2. Here(u).then # "work"
    BY <1>1, <2>1, KeyNotWork
  <2>3. CASE Here(u).then = "head"
    BY <1>1, <1>5, <2>1, <2>3, PosIs DEF After, Home, End, On, Rest, Meeting
  <2>4. CASE Here(u).then = Home(u)
    <3>1. k = Len(graph)
      BY <1>1, <2>1, <2>4 DEF After, Home, End
    <3> QED  BY <1>1, <1>3, <1>5, <2>2, <3>1 DEF On, Rest, Meeting
  <2> QED  BY <1>1, <1>5, <2>2, <2>3, <2>4, HereIs
<1>6. ASSUME NEW n \in 1..Len(graph) + 1, Pos(u) = n, Key(u) = KeyFrom(graph, abort, n)
      PROVE  Pos(u) <= k + 1
  <2>1. CASE k = Len(graph)
    BY <1>1, <1>3, <2>1
  <2>2. CASE k < Len(graph)
    <3> DEFINE f == First(graph, 0, n)
    <3>1. f \in Stops(graph, 0, n)
      BY <1>1, FirstIs
    <3>2. KeyAt(graph, 0, f) = <<"head", k + 1>>
      BY <1>1, <1>6, <2>2 DEF KeyFrom, After
    <3> HIDE DEF f
    <3>3. f \in n..Len(graph) + 1
      BY <3>1 DEF Stops
    <3>4. f = k
      BY <1>1, <3>2, <3>3 DEF KeyAt, After, End
    <3> QED  BY <1>1, <1>6, <3>3, <3>4
  <2> QED  BY <1>1, <2>1, <2>2
<1>7. CASE Here(u).pc = "head"
  <2>1. Key(u) = KeyFrom(graph, abort, Here(u).node) /\ Pos(u) = Here(u).node
    BY <1>7, PosIs DEF Key, KeyOf, Rest, Meeting, Calc
  <2>2. Pos(u) <= k + 1
    BY <1>1, <1>6, <1>7, <2>1, HereIs
  <2> QED  BY <1>7, <2>2 DEF On, Rest, Meeting
<1>8. CASE Here(u).pc \in Rest
  <2>1. Key(u) = KeyFrom(graph, abort, 1) /\ Pos(u) = 1 /\ Due(u)
    BY <1>1, <1>8, PosIs DEF Key, KeyOf, Rest, Meeting, Calc, Out
  <2> QED  BY <1>1, <1>6, <1>8, <2>1 DEF On, Rest, Meeting
<1> QED  BY <1>2, <1>4, <1>5, <1>7, <1>8 DEF Pcs
-----------------------------------------------------------------------------
(* Steps that do not compute, and do not change what is left to compute.   *)
Same(u) ==
    /\ Pos(u)' = Pos(u)
    /\ On(u)' <=> On(u)
    /\ On(u) => /\ Here(u)'.node = Here(u).node /\ Here(u)'.part = Here(u).part
                /\ Here(u)'.pc = "take" <=> Here(u).pc = "take"

Goes(u) ==
    \/ Here(u)' = Here(u) /\ (Due(u)' <=> Due(u))
    \/ /\ Here(u).pc \in Meeting /\ Here(u)'.pc \in Meeting
       /\ Here(u)'.then = Here(u).then
       /\ Here(u)'.node = Here(u).node /\ Here(u)'.part = Here(u).part
    \/ /\ \A v \in Part : Here(v).pc \in Meeting
       /\ Here(u)' = Left(Here(u)) /\ ~Due(u)'
    \/ Here(u).pc \in Rest /\ Here(u)'.pc \in Rest /\ (Due(u)' <=> Due(u))
    \/ Here(u).pc \in Rest /\ Due(u) /\ Here(u)'.pc = "head" /\ Here(u)'.node = 1

LEMMA GoesSame ==
    ASSUME Inv, NEW u \in Part, Goes(u), UNCHANGED <<graph, n_graph, abort>>
    PROVE  Same(u)
<1>1. u \in Threads /\ Stop' = Stop
  BY Facts DEF Stop
<1>2. CASE Here(u)' = Here(u) /\ (Due(u)' <=> Due(u))
  BY <1>1, <1>2 DEF Same, Pos, On
<1>3. CASE /\ Here(u).pc \in Meeting /\ Here(u)'.pc \in Meeting
           /\ Here(u)'.then = Here(u).then
           /\ Here(u)'.node = Here(u).node /\ Here(u)'.part = Here(u).part
  <2>1. Pos(u)' = Pos(u)
    BY <1>1, <1>3 DEF Pos, Rest, Meeting
  <2> QED  BY <1>3, <2>1 DEF Same, On, Meeting
<1>4. CASE /\ \A v \in Part : Here(v).pc \in Meeting
           /\ Here(u)' = Left(Here(u)) /\ ~Due(u)'
  <2>1. Here(u) \in Record /\ Here(u).pc \in Meeting /\ Here(u).then \in {"head", "work", Home(u)}
    BY <1>1, <1>4, HereIs
  <2>2. Here(u)'.pc = Here(u).then /\ Here(u)'.node = Here(u).node /\ Here(u)'.part = Here(u).part
    BY <1>4, <2>1 DEF Left, Record
  <2>3. Pos(u)' = Pos(u)
    BY <1>1, <1>4, <2>1, <2>2 DEF Pos, Home, Rest, Meeting
  <2>4. On(u)' <=> On(u)
    BY <2>1, <2>2 DEF On, Home, Meeting
  <2> QED  BY <2>1, <2>2, <2>3, <2>4 DEF Same, Home, Meeting
<1>5. CASE Here(u).pc \in Rest /\ Here(u)'.pc \in Rest /\ (Due(u)' <=> Due(u))
  <2>1. Pos(u)' = Pos(u)
    BY <1>1, <1>5 DEF Pos, Rest, Meeting
  <2> QED  BY <1>5, <2>1 DEF Same, On, Rest, Meeting
<1>6. CASE Here(u).pc \in Rest /\ Due(u) /\ Here(u)'.pc = "head" /\ Here(u)'.node = 1
  <2>1. Pos(u)' = Pos(u)
    BY <1>6 DEF Pos, Rest, Meeting
  <2> QED  BY <1>6, <2>1 DEF Same, On, Rest, Meeting
<1> QED  BY <1>2, <1>3, <1>4, <1>5, <1>6 DEF Goes

LEMMA GoesShare ==
    ASSUME Inv, Tally, 0 \in Part, NEW u \in Part, Goes(u), Same(u), Same(0),
           UNCHANGED <<graph, n_graph, abort, current_chunk>>
    PROVE  Share(u)'
<1> DEFINE k == Here(u).node
<1>1. u \in Threads /\ Stop' = Stop /\ Share(u) /\ Share(0) /\ nth' = nth
  BY Facts DEF Stop, Tally, nth
<1>2. Pos(u)' = Pos(u) /\ Pos(0)' = Pos(0) /\ (On(u)' <=> On(u))
  BY DEF Same
<1>3. Computed' = Computed /\ (\A j : (Chunked(j)' <=> Chunked(j)) /\ Count(j)' = Count(j))
  BY <1>1 DEF Computed, Chunked, Count
<1>4. CASE ~On(u)
  BY <1>1, <1>2, <1>4 DEF Share
<1>5. CASE On(u)
  <2>1. Here(u)'.node = k /\ Here(u)'.part = Here(u).part /\ (Here(u)'.pc = "take" <=> Here(u).pc = "take")
    BY <1>5 DEF Same
  <2>2. CASE Here(u)' = Here(u)
    BY <1>1, <1>2, <1>3, <1>5, <2>2 DEF Share
  <2>3. CASE Here(u).pc \in Meeting
    <3>1. Here(u).part = u /\ k \in Computed /\ k < Stop
      BY <1>1, <1>5, <2>3 DEF Share, Meeting
    <3>2. CASE Here(u)'.pc \in Meeting
      BY <1>1, <1>2, <1>3, <1>5, <2>1, <3>1, <3>2 DEF Share, Meeting
    <3>3. CASE Here(u)'.pc \notin Meeting
      <4>1. Here(0).pc \in Meeting
        BY <2>2, <2>3, <3>3 DEF Goes, Rest, Meeting
      <4>2. Key(u) = <<"work", k>> /\ ~Out(u) /\ ~Out(0)
        BY <1>5, <2>3, <4>1 DEF Key, KeyOf, On, Out, Rest, Calc, Meeting
      <4>3. Key(0) = Key(u)
        BY <4>2 DEF Inv, Together
      <4>4. On(0) /\ Here(0).node = k
        <5>1. Key(0) = IF Here(0).then \in {"head", "work"} THEN <<Here(0).then, Here(0).node>> ELSE End
          BY <4>1 DEF Key, KeyOf, Rest, Calc, Meeting
        <5> HIDE DEF k
        <5>2. Here(0).then = "work" /\ Here(0).node = k
          BY <4>2, <4>3, <5>1 DEF End
        <5> QED  BY <4>1, <5>2 DEF On
      <4>5. Pos(0) = k /\ (Chunked(k) => current_chunk >= nth)
        BY <1>1, <4>4, PosIs DEF Share
      <4>6. k \in Nat
        BY <3>1, Facts DEF Computed
      <4> QED  BY <1>1, <1>2, <1>3, <1>5, <2>1, <3>1, <4>5, <4>6 DEF Share
    <3> QED  BY <3>2, <3>3
  <2>4. Here(u).pc \notin Rest
    BY <1>5 DEF On, Rest, Meeting
  <2>5. Here(u)' = Here(u) \/ Here(u).pc \in Meeting
    BY <2>4 DEF Goes
  <2> QED  BY <2>2, <2>3, <2>5
<1> QED  BY <1>4, <1>5

(* Who holds which part does not change, and no part is computed.          *)
LEMMA TallyStays ==
    ASSUME Inv, Tally, UNCHANGED <<graph, n_graph, work>>,
           \A k \in Computed : \A p \in PartsOf(k) :
               (Open(k, p)' <=> Open(k, p)) /\ \A u \in Part : Holds(u, k, p)' <=> Holds(u, k, p),
           \A u \in Part : Share(u)'
    PROVE  Tally'
<1>1. Computed' = Computed /\ (\A k : PartsOf(k)' = PartsOf(k)) /\ Part' = Part
  BY DEF Computed, PartsOf, Count, Part, Threads, nth
<1>2. \A k \in Computed : \A p \in PartsOf(k) : Tallied(k, p)'
  <2> SUFFICES ASSUME NEW k \in Computed, NEW p \in PartsOf(k) PROVE Tallied(k, p)'
    OBVIOUS
  <2>1. Tallied(k, p)
    BY DEF Tally
  <2> QED  BY <1>1, <2>1 DEF Tallied
<1> QED  BY <1>1, <1>2 DEF Tally

LEMMA StillTally ==
    ASSUME Inv, Tally, 0 \in Part, \A u \in Part : Goes(u),
           UNCHANGED <<graph, n_graph, abort, current_chunk, work>>
    PROVE  Tally'
<1>1. \A u \in Part : Same(u)
  BY GoesSame
<1>2. \A u \in Part : Share(u)'
  BY <1>1, GoesShare
<1>3. \A u \in Part : \A k, p : Holds(u, k, p)' <=> Holds(u, k, p)
  BY <1>1 DEF Same, Holds
<1>4. \A k, p : Open(k, p)' <=> Open(k, p)
  BY <1>1 DEF Same, Open, Chunked, Computed, Count, Begun, nth
<1> QED  BY <1>2, <1>3, <1>4, TallyStays
-----------------------------------------------------------------------------
(* A step of thread t alone that does not open a barrier.                  *)
LEMMA OneGoes ==
    ASSUME NEW t \in Threads, \A u \in Threads \ {t} : thread'[u] = thread[u],
           UNCHANGED <<n_graph, n_barrier_passed>>,
           t \in Part => Goes(t)
    PROVE  \A u \in Part : Goes(u)
<1> SUFFICES ASSUME NEW u \in Part, u # t PROVE Goes(u)
  OBVIOUS
<1>1. Here(u)' = Here(u) /\ (Due(u)' <=> Due(u))
  BY Stays DEF Part
<1> QED  BY <1>1 DEF Goes

LEMMA BarrierGoes ==
    ASSUME Inv, NEW t \in Threads, Barrier(t)
    PROVE  /\ \A u \in Part : Goes(u)
           /\ UNCHANGED <<graph, n_graph, abort, current_chunk, work, stop, pause>>
           /\ \A u \in Threads \ {t} : thread'[u] = thread[u]
<1>1. thread[t] \in Record /\ Types /\ Control(t) /\ thread[t].pc \in Meeting
  BY DEF Inv, Types, Barrier, BarrierEnter, BarrierAdd, BarrierReset, BarrierPass, BarrierSpin, At, Meeting
<1>2. UNCHANGED <<graph, n_graph, abort, current_chunk, work, stop, pause>>
  BY DEF Barrier, BarrierEnter, BarrierAdd, BarrierReset, BarrierPass, BarrierSpin, pool, barrier
<1>3. \A u \in Threads \ {t} : thread'[u] = thread[u]
  BY <1>1 DEF Types, Barrier, BarrierEnter, BarrierAdd, BarrierReset, BarrierPass, BarrierSpin, To
<1>4. thread[t].then \in {"head", "work", Home(t)}
  BY <1>1 DEF Control
<1>5. Left(thread[t]).pc = thread[t].then /\ Left(thread[t]).last = thread[t].last
  BY <1>1 DEF Left, Record
<1>6. CASE BarrierEnter(t) \/ BarrierAdd(t) \/ BarrierReset(t)
  <2>1. thread[t].pc \in {"enter", "add", "reset"} /\ n_barrier_passed' = n_barrier_passed
    BY <1>6 DEF BarrierEnter, BarrierAdd, BarrierReset, At, barrier
  <2>2. Here(t) = thread[t]
    BY <2>1 DEF Here, Gone, At
  <2>3. t \in Part /\ ~Due(t)
    BY <2>1, <2>2, Takes DEF Rest
  <2>4. CASE thread'[t] = Left(thread[t]) /\ nth = 1
    <3>1. Part = {t}
      BY <2>3, <2>4, Facts
    <3>2. Here(t)' = thread'[t]
      BY <1>4, <1>5, <2>4 DEF Here, Gone, At, Home
    <3>3. ~Due(t)'
      BY <1>2, <1>5, <2>3, <2>4 DEF Due, New
    <3>4. Here(t).pc \in Meeting
      BY <1>1, <2>2
    <3> QED  BY <1>2, <1>3, <2>2, <2>4, <3>1, <3>2, <3>3, <3>4 DEF Goes
  <2>5. CASE /\ thread'[t].pc \in {"add", "reset", "spin", "pass"} /\ thread'[t].then = thread[t].then
             /\ thread'[t].node = thread[t].node /\ thread'[t].part = thread[t].part
             /\ thread'[t].pc = "spin" => thread'[t].seen = n_barrier_passed
    <3>1. Here(t)' = thread'[t]
      BY <2>1, <2>5 DEF Here, Gone, At
    <3>2. Goes(t)
      BY <1>1, <2>2, <2>5, <3>1 DEF Goes, Meeting
    <3> QED  BY <1>2, <1>3, <2>1, <3>2, OneGoes
  <2>6. CASE BarrierEnter(t)
    <3>1. CASE nth = 1
      BY <1>1, <1>2, <1>3, <2>4, <2>6, <3>1 DEF BarrierEnter, Types
    <3>2. CASE nth # 1
      <4>1. thread'[t] = [thread[t] EXCEPT !.pc = "add", !.seen = n_barrier_passed]
        BY <1>1, <2>6, <3>2 DEF BarrierEnter, Types
      <4> QED  BY <1>1, <1>2, <1>3, <2>5, <4>1 DEF Record
    <3> QED  BY <3>1, <3>2
  <2>7. CASE BarrierAdd(t)
    <3>1. PICK pc \in {"reset", "spin"} : thread'[t] = [thread[t] EXCEPT !.pc = pc]
      BY <1>1, <2>7 DEF BarrierAdd, Types, To
    <3>2. thread[t].seen = n_barrier_passed
      BY <1>1, <2>7 DEF BarrierAdd, At, Control
    <3> QED  BY <1>1, <1>2, <1>3, <2>5, <3>1, <3>2 DEF Record
  <2>8. CASE BarrierReset(t)
    <3>1. thread'[t] = [thread[t] EXCEPT !.pc = "pass"]
      BY <1>1, <2>8 DEF BarrierReset, Types, To
    <3> QED  BY <1>1, <1>2, <1>3, <2>5, <3>1 DEF Record
  <2> QED  BY <1>2, <1>3, <1>6, <2>6, <2>7, <2>8
<1>7. CASE BarrierSpin(t)
  <2>1. Gone(t) /\ thread'[t] = Left(thread[t]) /\ n_barrier_passed' = n_barrier_passed
    BY <1>1, <1>7 DEF BarrierSpin, Types, At, Gone, barrier
  <2>2. Here(t) = Left(thread[t])
    BY <2>1 DEF Here
  <2>3. Here(t)' = thread'[t]
    BY <1>4, <1>5, <2>1 DEF Here, Gone, At, Home
  <2>4. Due(t)' <=> Due(t)
    BY <1>2, <1>5, <2>1 DEF Due, New
  <2>5. Goes(t)
    BY <2>1, <2>2, <2>3, <2>4 DEF Goes
  <2> QED  BY <1>2, <1>3, <2>1, <2>5, OneGoes
<1>8. CASE BarrierPass(t)
  <2>1. thread[t].pc = "pass" /\ thread'[t] = Left(thread[t]) /\ n_barrier_passed' = n_barrier_passed + 1
    BY <1>1, <1>8 DEF BarrierPass, Types, At
  <2>2. Here(t) = thread[t] /\ Last(t)
    BY <2>1 DEF Here, Gone, Last, At
  <2>3. t \in Part /\ \A u \in Part \ {t} : Wait(u)
    BY <2>1, <2>2, Takes DEF Rest, Inv, Counted
  <2>4. \A u \in Part : Here(u) = thread[u] /\ Here(u).pc \in Meeting /\ ~Due(u)
    <3>1. \A u \in Part : Here(u) = thread[u] /\ Here(u).pc \in Meeting
      BY <1>1, <2>2, <2>3 DEF Wait, Here, Gone, At, Meeting
    <3> QED  BY <3>1, HereIs, Facts
  <2>5. \A u \in Part : Here(u)' = Left(thread[u]) /\ ~Due(u)'
    <3> SUFFICES ASSUME NEW u \in Part PROVE Here(u)' = Left(thread[u]) /\ ~Due(u)'
      OBVIOUS
    <3>1. CASE u = t
      <4>1. Here(t)' = thread'[t]
        BY <1>4, <1>5, <2>1 DEF Here, Gone, At, Home
      <4> QED  BY <1>2, <1>5, <2>1, <2>4, <3>1, <4>1 DEF Due, New
    <3>2. CASE u # t
      <4>1. thread[u].pc = "spin" /\ thread[u].seen = n_barrier_passed /\ thread'[u] = thread[u]
        BY <1>3, <2>3, <3>2, Facts DEF Wait, At
      <4>2. Gone(u)'
        BY <1>1, <2>1, <4>1 DEF Gone, At, Types
      <4> QED  BY <1>2, <2>4, <4>1, <4>2 DEF Here, Left, Due, New
    <3> QED  BY <3>1, <3>2
  <2> QED  BY <1>2, <1>3, <2>4, <2>5 DEF Goes
<1> QED  BY <1>6, <1>7, <1>8 DEF Barrier

LEMMA WorkerGoes ==
    ASSUME Inv, NEW t \in Threads, Worker(t)
    PROVE  /\ \A u \in Part : Goes(u)
           /\ UNCHANGED <<graph, n_graph, abort, current_chunk, work, stop, pause>>
           /\ \A u \in Threads \ {t} : thread'[u] = thread[u]
           /\ t # 0
<1>1. thread[t].pc \in {"loop", "go", "paused", "poll", "look", "check"}
  BY DEF Worker, Loop, Go, Paused, Poll, Look, CheckForWork, At
<1>2. t # 0 /\ thread[t] \in Record /\ Types
  BY <1>1 DEF Inv, Types, Control, Callers, Meeting, Calc
<1>3. UNCHANGED <<graph, n_graph, n_barrier_passed, abort, current_chunk, work, stop, pause>>
  BY DEF Worker, Loop, Go, Paused, Poll, Look, CheckForWork, pool, barrier
<1>4. \/ \E pc \in {"paused", "go", "exited", "poll", "sleep", "loop", "look", "check", "wait"} :
            thread' = To(t, pc)
      \/ New(t) /\ \E pc \in {"loop", "check"} : thread' = Observed(t, pc)
  <2>1. CASE Loop(t) \/ Go(t) \/ Paused(t) \/ Poll(t)
    BY <2>1 DEF Loop, Go, Paused, Poll
  <2>2. CASE Look(t)
    BY <2>2 DEF Look
  <2>3. CASE CheckForWork(t)
    <3>1. \/ thread' = To(t, "loop") \/ thread' = To(t, "wait")
          \/ New(t) /\ thread' = Observed(t, "loop")
      BY <2>3 DEF CheckForWork
    <3> QED  BY <3>1
  <2> QED  BY <2>1, <2>2, <2>3 DEF Worker
<1>5. \A u \in Threads \ {t} : thread'[u] = thread[u]
  BY <1>2, <1>4 DEF Types, To, Observed
<1>6. Here(t).pc \in Rest
  BY <1>1 DEF Here, Gone, At, Rest
<1>7. t \in Part => Goes(t)
  <2>1. ASSUME NEW pc \in {"paused", "go", "exited", "poll", "sleep", "loop", "look", "check", "wait"},
               thread' = To(t, pc)
        PROVE  Goes(t)
    <3>1. thread'[t].pc = pc /\ thread'[t].last = thread[t].last
      BY <1>2, <2>1 DEF Types, To, Record
    <3>2. Here(t)'.pc \in Rest
      BY <3>1 DEF Here, Gone, At, Rest
    <3>3. Due(t)' <=> Due(t)
      BY <1>3, <3>1 DEF Due, New
    <3> QED  BY <1>6, <3>2, <3>3 DEF Goes
  <2>2. ASSUME t \in Part, New(t), NEW pc \in {"loop", "check"}, thread' = Observed(t, pc)
        PROVE  Goes(t)
    <3>1. thread'[t] = [thread[t] EXCEPT !.last = n_graph.count, !.pc = "head", !.node = 1]
      BY <1>2, <2>2 DEF Types, Observed, Part
    <3>2. thread'[t].pc = "head" /\ thread'[t].node = 1
      BY <1>2, <3>1 DEF Record
    <3>3. Here(t)' = thread'[t]
      BY <3>2 DEF Here, Gone, At
    <3> QED  BY <1>2, <1>6, <2>2, <3>2, <3>3 DEF Goes, Due
  <2> QED  BY <1>4, <2>1, <2>2
<1> QED  BY <1>2, <1>3, <1>5, <1>7, OneGoes

LEMMA CallerGoes ==
    ASSUME Inv, PauseOrResume \/ Free \/ Join
    PROVE  /\ \A u \in Part : Goes(u)
           /\ UNCHANGED <<graph, n_graph, abort, current_chunk, work>>
           /\ thread[0].pc \in {"idle", "join"} /\ thread'[0].pc \in {"idle", "join", "exited"}
<1>1. 0 \in Threads /\ Types /\ thread[0] \in Record
  BY Facts DEF Types
<1>2. CASE Join
  <2>1. /\ \A u \in Threads \ {0} : thread'[u] = thread[u]
        /\ thread[0].pc = "join" /\ thread'[0].pc = "exited"
        /\ UNCHANGED <<graph, n_graph, n_barrier_passed, abort, current_chunk, work>>
    BY <1>1, <1>2 DEF Join, At, Types, To, Record, pool, barrier
  <2>2. Goes(0)
    BY <2>1 DEF Goes, Here, Gone, At, Rest, Due
  <2> QED  BY <1>1, <2>1, <2>2, OneGoes
<1>3. CASE PauseOrResume \/ Free
  <2>1. PICK pc \in {"idle", "join"} : thread' = Awake([thread EXCEPT ![0].pc = pc])
    <3>1. thread = [thread EXCEPT ![0].pc = "idle"] \/ ~PauseOrResume
      BY <1>1 DEF PauseOrResume, At, Types, Record
    <3> QED  BY <1>3, <3>1 DEF PauseOrResume, Free
  <2>2. thread[0].pc = "idle" /\ UNCHANGED <<graph, n_graph, n_barrier_passed, abort, current_chunk, work>>
    BY <1>3 DEF PauseOrResume, Free, At, barrier
  <2> DEFINE th == [thread EXCEPT ![0].pc = pc]
  <2>3. th[0].pc = pc /\ th[0].last = thread[0].last /\ \A u \in Threads \ {0} : th[u] = thread[u]
    BY <1>1 DEF Types, Record
  <2>4. thread' = Awake(th)
    BY <2>1
  <2> HIDE DEF th
  <2>5. thread'[0] = th[0] /\ \A u \in Threads \ {0} : thread'[u] = Awake(th)[u]
    BY <1>1, <2>3, <2>4 DEF Awake
  <2>6. \A u \in Threads : Here(u).pc \in Rest
    BY <2>2, Quiet
  <2>7. \A u \in Threads : Here(u)'.pc \in Rest /\ (Due(u)' <=> Due(u))
    <3> SUFFICES ASSUME NEW u \in Threads PROVE Here(u)'.pc \in Rest /\ (Due(u)' <=> Due(u))
      OBVIOUS
    <3>1. CASE u = 0
      BY <2>3, <2>5, <3>1 DEF Here, Gone, At, Rest, Due
    <3>2. CASE u # 0
      <4>1. Here(u)'.pc \in Rest /\ thread'[u].last = thread[u].last
        BY <2>2, <2>3, <2>5, <2>6, <3>2, Wakes
      <4> QED  BY <2>2, <4>1 DEF Due, New
    <3> QED  BY <3>1, <3>2
  <2>8. \A u \in Part : Goes(u)
    BY <2>6, <2>7, Facts DEF Goes
  <2> QED  BY <2>2, <2>3, <2>5, <2>8
<1> QED  BY <1>2, <1>3
-----------------------------------------------------------------------------
(* A thread that does not move, and a step of thread t alone.              *)
LEMMA Unmoved ==
    ASSUME NEW u \in Threads, thread'[u] = thread[u], UNCHANGED <<graph, n_graph, n_barrier_passed, abort>>
    PROVE  /\ Here(u)' = Here(u) /\ Pos(u)' = Pos(u) /\ (On(u)' <=> On(u))
           /\ \A k, p : Holds(u, k, p)' <=> Holds(u, k, p)
<1>1. Here(u)' = Here(u) /\ (Due(u)' <=> Due(u)) /\ Stop' = Stop
  BY Stays DEF Stop
<1>2. Pos(u)' = Pos(u) /\ (On(u)' <=> On(u))
  BY <1>1 DEF Pos, On
<1> QED  BY <1>1, <1>2 DEF Holds

LEMMA NextNodeTally ==
    ASSUME Inv, Tally, 0 \in Part, NEW t \in Threads, NextNode(t)
    PROVE  Tally'
<1> DEFINE k == thread[t].node
<1>1. thread[t].pc = "head"
  BY DEF NextNode, At
<1>2. /\ thread[t] \in Record /\ Types /\ Control(t) /\ IsGraph(graph) /\ Len(graph) \in Nat
      /\ Here(t) = thread[t] /\ t \in Part /\ ~Due(t) /\ ~Out(t) /\ Share(t)
      /\ k \in 1..Len(graph) + 1 /\ Stop \in 1..Len(graph) + 1 /\ k <= Stop
  BY <1>1, AtNode, Facts, PosIs DEF Control, Tally, Share
<1>3. Pos(t) = k /\ ~On(t)
  BY <1>1, <1>2, PosIs DEF On, Meeting
<1>4. /\ \A u \in Threads \ {t} : thread'[u] = thread[u]
      /\ UNCHANGED <<graph, n_graph, n_barrier_passed, abort, work>> /\ Stop' = Stop /\ nth' = nth
  BY <1>2 DEF NextNode, Types, pool, barrier, Stop, nth
<1>5. \/ /\ Ends(graph, abort, k)
         /\ thread'[t] = [thread[t] EXCEPT !.pc = "enter", !.then = Home(t), !.node = 0]
         /\ current_chunk' = current_chunk
      \/ /\ ~Ends(graph, abort, k) /\ graph[k].kind = "empty"
         /\ thread'[t] = [thread[t] EXCEPT !.node = k + 1]
         /\ current_chunk' = current_chunk
      \/ /\ ~Ends(graph, abort, k) /\ graph[k].kind = "split"
         /\ thread'[t] = [thread[t] EXCEPT !.pc = "work", !.part = t]
         /\ current_chunk' = current_chunk
      \/ /\ ~Ends(graph, abort, k) /\ graph[k].kind = "chunks"
         /\ thread'[t] = [thread[t] EXCEPT !.pc = "enter", !.then = "work", !.part = t]
         /\ current_chunk' = IF t = 0 THEN nth ELSE current_chunk
  BY NextNodeIs
<1>6. thread'[t].pc \in Calc \cup {"head", "enter"}
  BY <1>1, <1>2, <1>5 DEF Record, Calc
<1>7. Here(t)' = thread'[t]
  BY <1>6, ToNode
<1>8. ~Ends(graph, abort, k) => k < Stop /\ k \in 1..Len(graph)
  BY <1>2 DEF Ends, Stop
<1>9. Ends(graph, abort, k) => k = Stop
  BY <1>2 DEF Ends, Stop, Types
<1>10. /\ Pos(t)' \in Nat /\ Pos(t)' <= Stop
       /\ \A j \in Computed : Pos(t)' <= j <=> k <= j
       /\ On(t)' => /\ Here(t)'.node = k /\ Here(t)'.part = t /\ Here(t)'.pc \in {"work", "enter"}
                    /\ Pos(t)' = k /\ k \in Computed /\ k < Stop
                    /\ Chunked(k) => Here(t)'.pc = "enter" /\ (t = 0 => current_chunk' = nth)
       /\ current_chunk' = current_chunk \/ (t = 0 /\ Chunked(k) /\ k < Stop /\ current_chunk' = nth)
  <2>1. CASE Ends(graph, abort, k)
    <3>1. thread'[t].pc = "enter" /\ thread'[t].then = Home(t) /\ current_chunk' = current_chunk
      BY <1>2, <1>5, <2>1 DEF Record
    <3>2. Pos(t)' = Stop /\ ~On(t)'
      BY <1>4, <1>7, <3>1 DEF Pos, On, Home, Rest, Meeting
    <3> QED  BY <1>2, <1>9, <2>1, <3>1, <3>2
  <2>2. CASE ~Ends(graph, abort, k) /\ graph[k].kind = "empty"
    <3>1. thread'[t].pc = "head" /\ thread'[t].node = k + 1 /\ current_chunk' = current_chunk
      BY <1>1, <1>2, <1>5, <2>2 DEF Record
    <3>2. Pos(t)' = k + 1 /\ ~On(t)'
      BY <1>7, <3>1 DEF Pos, On, Rest, Meeting
    <3>3. \A j \in Computed : k + 1 <= j <=> k <= j
      BY <1>2, <2>2 DEF Computed
    <3> QED  BY <1>2, <1>8, <2>2, <3>1, <3>2, <3>3
  <2>3. CASE ~Ends(graph, abort, k) /\ graph[k].kind = "split"
    <3>1. /\ thread'[t].pc = "work" /\ thread'[t].node = k /\ thread'[t].part = t
          /\ current_chunk' = current_chunk
      BY <1>2, <1>5, <2>3 DEF Record
    <3>2. Pos(t)' = k
      BY <1>7, <3>1 DEF Pos, Rest, Meeting
    <3>3. k \in Computed /\ ~Chunked(k)
      BY <1>8, <2>3 DEF Computed, Chunked
    <3> QED  BY <1>2, <1>7, <1>8, <2>3, <3>1, <3>2, <3>3
  <2>4. CASE ~Ends(graph, abort, k) /\ graph[k].kind = "chunks"
    <3>1. /\ thread'[t].pc = "enter" /\ thread'[t].then = "work"
          /\ thread'[t].node = k /\ thread'[t].part = t
          /\ current_chunk' = IF t = 0 THEN nth ELSE current_chunk
      BY <1>2, <1>5, <2>4 DEF Record
    <3>2. Pos(t)' = k
      BY <1>7, <3>1 DEF Pos, Home, Rest, Meeting
    <3>3. Chunked(k) /\ k \in Computed
      BY <1>8, <2>4 DEF Computed, Chunked
    <3> QED  BY <1>2, <1>7, <1>8, <2>4, <3>1, <3>2, <3>3
  <2> QED  BY <1>5, <2>1, <2>2, <2>3, <2>4
<1>11. /\ Part' = Part /\ Computed' = Computed
       /\ \A j : (Chunked(j)' <=> Chunked(j)) /\ Count(j)' = Count(j)
  BY <1>4 DEF Part, Threads, Computed, Chunked, Count, nth
<1>12. \A u \in Part \ {t} : /\ Here(u)' = Here(u) /\ Pos(u)' = Pos(u) /\ (On(u)' <=> On(u))
                             /\ \A j, p : Holds(u, j, p)' <=> Holds(u, j, p)
  BY <1>4, Unmoved, Facts
<1>13. \A j \in Computed : \A p : Holds(t, j, p)' <=> Holds(t, j, p)
  <2> HIDE DEF k
  <2> QED  BY <1>2, <1>3, <1>10 DEF Holds
<1>14. \A j \in Computed : Pos(0)' <= j <=> Pos(0) <= j
  BY <1>3, <1>10, <1>12
<1>15. \A j \in Computed : \A p : Open(j, p)' <=> Open(j, p)
  <2>1. CASE t = 0
    <3>1. \A j : ~Begun(j)
      BY <1>3, <2>1 DEF Begun
    <3>2. \A j \in Computed : Begun(j)' /\ Chunked(j) => current_chunk' = nth
      <4> HIDE DEF k
      <4> QED  BY <1>10, <2>1 DEF Begun
    <3> QED  BY <1>4, <1>11, <1>14, <2>1, <3>1, <3>2 DEF Open
  <2>2. CASE t # 0
    <3>1. Here(0)' = Here(0) /\ (On(0)' <=> On(0)) /\ current_chunk' = current_chunk
      BY <1>10, <1>12, <2>2
    <3> QED  BY <1>4, <1>11, <1>14, <3>1 DEF Open, Begun
  <2> QED  BY <2>1, <2>2
<1>16. \A u \in Part : Share(u)'
  <2> SUFFICES ASSUME NEW u \in Part PROVE Share(u)'
    OBVIOUS
  <2>1. CASE u = t
    <3> HIDE DEF k
    <3> QED  BY <1>4, <1>10, <1>11, <2>1, Facts DEF Share
  <2>2. CASE u # t
    <3>1. Here(u)' = Here(u) /\ Pos(u)' = Pos(u) /\ (On(u)' <=> On(u)) /\ Share(u)
      BY <1>12, <2>2 DEF Tally
    <3>2. Here(u).node \in Computed /\ Pos(0)' > Here(u).node => Pos(0) > Here(u).node
      <4>1. Pos(0) \in Nat /\ Pos(0)' \in Nat /\ \A j \in Computed : j \in Nat
        BY <1>10, <1>12, PosType, Facts DEF Computed
      <4> QED  BY <1>14, <4>1
    <3>3. CASE current_chunk' = current_chunk
      BY <1>4, <1>11, <3>1, <3>2, <3>3 DEF Share
    <3>4. CASE t = 0 /\ Chunked(k) /\ k < Stop /\ current_chunk' = nth
      <4>1. Key(0) = <<"work", k>>
        <5>1. Key(0) = KeyFrom(graph, abort, k)
          BY <1>1, <1>2, <3>4 DEF Key, KeyOf, Rest, Calc, Meeting
        <5>2. ~Ends(graph, abort, k) /\ graph[k].kind = "chunks" /\ k \in 1..Len(graph) /\ abort \in Nat
          BY <1>2, <1>9, <3>4, Facts DEF Chunked, Computed
        <5> QED  BY <1>2, <5>1, <5>2, KeyComputes
      <4>2. Here(u).pc \notin Calc
        BY <1>2, <4>1, Behind, KeyNotWork
      <4> QED  BY <1>4, <1>11, <2>2, <3>1, <3>4, <4>2 DEF Share, Calc
    <3> QED  BY <1>10, <3>3, <3>4
  <2> QED  BY <2>1, <2>2
<1> QED  BY <1>4, <1>12, <1>13, <1>15, <1>16, TallyStays
-----------------------------------------------------------------------------
(* What stays when only where t is, the parts and the chunks change.       *)
LEMMA WithinNode ==
    ASSUME NEW t \in Threads, \A u \in Threads \ {t} : thread'[u] = thread[u],
           UNCHANGED <<graph, n_graph, n_barrier_passed, abort>>
    PROVE  /\ Stop' = Stop /\ nth' = nth /\ Part' = Part /\ Computed' = Computed
           /\ \A j : (Chunked(j)' <=> Chunked(j)) /\ Count(j)' = Count(j) /\ PartsOf(j)' = PartsOf(j)
           /\ \A u \in Part \ {t} :
                /\ Here(u)' = Here(u) /\ Pos(u)' = Pos(u) /\ (On(u)' <=> On(u))
                /\ \A j, p : Holds(u, j, p)' <=> Holds(u, j, p)
<1>1. /\ Stop' = Stop /\ nth' = nth /\ Part' = Part /\ Computed' = Computed
      /\ \A j : (Chunked(j)' <=> Chunked(j)) /\ Count(j)' = Count(j) /\ PartsOf(j)' = PartsOf(j)
  BY DEF Stop, nth, Part, Threads, Computed, Chunked, Count, PartsOf
<1>2. \A u \in Part \ {t} : u \in Threads
  BY DEF Part
<1> QED  BY <1>1, <1>2, Unmoved

(* A thread in the middle of a node.                                       *)
LEMMA AtWork ==
    ASSUME Inv, Tally, NEW t \in Threads, thread[t].pc \in Calc
    PROVE  LET k == thread[t].node
           IN  /\ Here(t) = thread[t] /\ t \in Part /\ thread[t] \in Record /\ Types
               /\ k \in 1..Len(graph) /\ Len(graph) \in Nat /\ nth \in Nat /\ Stop \in Nat
               /\ Share(t)
               /\ thread[t].pc \in {"work", "take"} =>
                    /\ On(t) /\ Pos(t) = k /\ k \in Computed /\ k < Stop
                    /\ Count(k) \in Nat /\ PartsOf(k) = 0..Count(k) - 1
               /\ thread[t].pc = "done" => ~On(t) /\ Pos(t) = k + 1
<1>1. /\ Here(t) = thread[t] /\ t \in Part /\ thread[t] \in Record /\ Types
      /\ Control(t) /\ Share(t)
  BY AtNode DEF Tally
<1>2. Len(graph) \in Nat /\ nth \in Nat /\ Stop \in Nat /\ thread[t].node \in 1..Len(graph)
  BY <1>1, Facts DEF Control
<1>3. CASE thread[t].pc \in {"work", "take"}
  <2>1. On(t) /\ Pos(t) = thread[t].node
    BY <1>1, <1>3, PosIs DEF On
  <2>2. thread[t].node \in Computed /\ thread[t].node < Stop
    BY <1>1, <2>1 DEF Share
  <2> QED  BY <1>1, <1>2, <1>3, <2>1, <2>2, Counts
<1>4. CASE thread[t].pc = "done"
  BY <1>1, <1>2, <1>4, PosIs DEF On, Meeting
<1> QED  BY <1>1, <1>2, <1>3, <1>4 DEF Calc

(* After a step within the node.                                           *)
LEMMA NowAt ==
    ASSUME NEW t \in Threads, NEW k, thread'[t].node = k
    PROVE  /\ thread'[t].pc \in {"work", "take"} => Here(t)' = thread'[t] /\ On(t)' /\ Pos(t)' = k
           /\ thread'[t].pc = "done" => Here(t)' = thread'[t] /\ ~On(t)' /\ Pos(t)' = k + 1
<1>1. thread'[t].pc \in {"work", "take", "done"} => Here(t)' = thread'[t]
  BY DEF Here, Gone, At
<1> QED  BY <1>1 DEF On, Pos, Rest, Meeting

LEMMA WorkTally ==
    ASSUME Inv, Tally, 0 \in Part, NEW t \in Threads, Work(t)
    PROVE  Tally'
<1>0. PICK k, p : k = thread[t].node /\ p = thread[t].part
  OBVIOUS
<1>1. thread[t].pc = "work" /\ p < Count(k) /\ work' = work \cup {<<k, p>>}
  BY <1>0 DEF Work, At
<1>2. /\ Here(t) = thread[t] /\ t \in Part /\ thread[t] \in Record /\ Types
      /\ k \in 1..Len(graph) /\ Len(graph) \in Nat /\ nth \in Nat /\ Stop \in Nat
      /\ Share(t) /\ On(t) /\ Pos(t) = k /\ k \in Computed /\ k < Stop
      /\ Count(k) \in Nat /\ PartsOf(k) = 0..Count(k) - 1
  BY <1>0, <1>1, AtWork DEF Calc
<1>3. p \in PartsOf(k)
  BY <1>0, <1>1, <1>2 DEF Record
<1>4. /\ \A u \in Threads \ {t} : thread'[u] = thread[u]
      /\ UNCHANGED <<graph, n_graph, n_barrier_passed, abort, current_chunk>>
  BY <1>0, <1>2 DEF Work, To, Types, pool, barrier
<1>5. /\ thread'[t].pc = IF nth >= Count(k) THEN "done" ELSE "take"
      /\ thread'[t].node = k /\ thread'[t].part = p
  <2>1. thread'[t] = [thread[t] EXCEPT !.pc = IF nth >= Count(k) THEN "done" ELSE "take"]
    BY <1>0, <1>2 DEF Work, To, Types
  <2> QED  BY <1>0, <1>2, <2>1 DEF Record
<1>6. /\ Stop' = Stop /\ nth' = nth /\ Part' = Part /\ Computed' = Computed
      /\ \A j : (Chunked(j)' <=> Chunked(j)) /\ Count(j)' = Count(j) /\ PartsOf(j)' = PartsOf(j)
      /\ \A u \in Part \ {t} :
            /\ Here(u)' = Here(u) /\ Pos(u)' = Pos(u) /\ (On(u)' <=> On(u))
            /\ \A j, q : Holds(u, j, q)' <=> Holds(u, j, q)
  BY <1>4, WithinNode
<1>7. /\ Here(t)' = thread'[t]
      /\ IF nth >= Count(k) THEN ~On(t)' /\ Pos(t)' = k + 1 ELSE On(t)' /\ Pos(t)' = k
  BY <1>0, <1>5, NowAt
<1>8. Holds(t, k, p) /\ \A q : Holds(t, k, q) => q = p
  BY <1>0, <1>1, <1>2 DEF Holds
<1>9. /\ <<k, p>> \notin work /\ ~Open(k, p)
      /\ \A u \in Part : Holds(u, k, p) => u = t
  BY <1>0, <1>2, <1>3, <1>8 DEF Tally, Tallied
<1>10. \A q : ~Holds(t, k, q)'
  BY <1>0, <1>2, <1>5, <1>7 DEF Holds
<1>11. \A j \in Computed : j \in Nat /\ (j # k => (Pos(t)' <= j <=> Pos(t) <= j))
  BY <1>0, <1>2, <1>7 DEF Computed
<1>12. \A j \in Computed : j # k => \A q : Holds(t, j, q)' <=> Holds(t, j, q)
  BY <1>0, <1>2, <1>5, <1>7, <1>11 DEF Holds
<1>13. \A j \in Computed : \A q \in PartsOf(j) : Open(j, q)' <=> Open(j, q)
  <2> SUFFICES ASSUME NEW j \in Computed, NEW q \in PartsOf(j) PROVE Open(j, q)' <=> Open(j, q)
    OBVIOUS
  <2>1. CASE t # 0
    BY <1>4, <1>6, <2>1 DEF Open, Begun
  <2>2. CASE t = 0 /\ j # k
    <3>1. ~Begun(j) /\ ~Begun(j)'
      BY <1>0, <1>2, <1>5, <1>7, <2>2 DEF Begun
    <3> QED  BY <1>6, <1>11, <2>2, <3>1 DEF Open
  <2>3. CASE t = 0 /\ j = k /\ nth >= Count(k)
    BY <1>0, <1>2, <1>6, <2>3 DEF Open
  <2>4. CASE t = 0 /\ j = k /\ ~(nth >= Count(k))
    <3>1. Begun(k) /\ Begun(k)'
      BY <1>0, <1>2, <1>5, <1>7, <2>4 DEF Begun
    <3>2. Pos(0)' = Pos(0)
      BY <1>2, <1>7, <2>4
    <3> QED  BY <1>4, <1>6, <2>4, <3>1, <3>2 DEF Open
  <2> QED  BY <2>1, <2>2, <2>3, <2>4
<1>14. \A j \in Computed : \A q \in PartsOf(j) : Tallied(j, q)'
  <2> SUFFICES ASSUME NEW j \in Computed, NEW q \in PartsOf(j) PROVE Tallied(j, q)'
    OBVIOUS
  <2>1. Tallied(j, q)
    BY DEF Tally
  <2>2. CASE j = k /\ q = p
    <3>1. ~Open(k, p)' /\ <<k, p>> \in work'
      BY <1>0, <1>1, <1>2, <1>3, <1>9, <1>13
    <3>2. \A u \in Part : ~Holds(u, k, p)'
      BY <1>6, <1>9, <1>10
    <3> QED  BY <1>6, <2>2, <3>1, <3>2 DEF Tallied
  <2>3. CASE ~(j = k /\ q = p)
    <3>1. \A u \in Part : Holds(u, j, q)' <=> Holds(u, j, q)
      BY <1>6, <1>8, <1>10, <1>12, <2>3
    <3>2. <<j, q>> \in work' <=> <<j, q>> \in work
      BY <1>0, <1>1, <2>3
    <3> QED  BY <1>6, <1>13, <2>1, <3>1, <3>2 DEF Tallied
  <2> QED  BY <2>2, <2>3
<1>15. \A u \in Part : Share(u)'
  <2> SUFFICES ASSUME NEW u \in Part PROVE Share(u)'
    OBVIOUS
  <2>1. CASE u = t
    <3>1. Pos(t)' <= Stop /\ Here(t)'.node = k /\ Here(t)'.pc # "work"
      BY <1>0, <1>2, <1>5, <1>7
    <3>2. CASE nth >= Count(k)
      BY <1>0, <1>6, <1>7, <2>1, <3>1, <3>2 DEF Share
    <3>3. CASE ~(nth >= Count(k))
      <4>1. Here(t)'.pc = "take" /\ Chunked(k) /\ Count(k) > nth
        BY <1>0, <1>2, <1>5, <1>7, <3>3 DEF Chunked, Computed, Count
      <4>2. current_chunk >= nth /\ (Pos(0) > k => current_chunk >= Count(k))
        BY <1>0, <1>1, <1>2, <4>1 DEF Share
      <4>3. Pos(0)' = Pos(0)
        BY <1>0, <1>2, <1>6, <1>7, <3>3
      <4> QED  BY <1>0, <1>2, <1>4, <1>6, <2>1, <3>1, <4>1, <4>2, <4>3 DEF Share
    <3> QED  BY <3>2, <3>3
  <2>2. CASE u # t
    <3>1. Here(u)' = Here(u) /\ Pos(u)' = Pos(u) /\ (On(u)' <=> On(u)) /\ Share(u)
      BY <1>6, <2>2 DEF Tally
    <3>2. ASSUME On(u), Count(Here(u).node) > nth, Pos(0)' > Here(u).node
          PROVE  Pos(0) > Here(u).node
      <4> DEFINE m == Here(u).node
      <4>1. m \in Computed /\ m \in Nat
        BY <1>11, <3>1, <3>2 DEF Share
      <4>2. CASE t # 0
        BY <1>6, <3>2, <4>2
      <4>3. CASE t = 0
        <5>1. nth >= Count(k) => m # k
          BY <1>0, <1>2, <3>2
        <5> HIDE DEF m
        <5> QED  BY <1>0, <1>2, <1>7, <1>11, <3>2, <4>1, <4>3, <5>1 DEF m
      <4> QED  BY <4>2, <4>3
    <3> QED  BY <1>4, <1>6, <3>1, <3>2 DEF Share
  <2> QED  BY <2>1, <2>2
<1>16. work' \subseteq {w \in Computed' \X Nat : w[2] \in PartsOf(w[1])'}
  <2>1. <<k, p>> \in {w \in Computed \X Nat : w[2] \in PartsOf(w[1])}
    BY <1>0, <1>2, <1>3
  <2> QED  BY <1>0, <1>1, <1>6, <2>1 DEF Tally
<1> QED  BY <1>6, <1>14, <1>15, <1>16 DEF Tally

LEMMA TakeTally ==
    ASSUME Inv, Tally, 0 \in Part, NEW t \in Threads, TakeChunk(t)
    PROVE  Tally'
<1>0. PICK k, c : k = thread[t].node /\ c = current_chunk
  OBVIOUS
<1>1. thread[t].pc = "take" /\ current_chunk' = c + 1 /\ work' = work
  BY <1>0 DEF TakeChunk, At
<1>2. /\ Here(t) = thread[t] /\ t \in Part /\ thread[t] \in Record /\ Types
      /\ k \in 1..Len(graph) /\ Len(graph) \in Nat /\ nth \in Nat /\ Stop \in Nat
      /\ Share(t) /\ On(t) /\ Pos(t) = k /\ k \in Computed /\ k < Stop
      /\ Count(k) \in Nat /\ PartsOf(k) = 0..Count(k) - 1
  BY <1>0, <1>1, AtWork DEF Calc
<1>3. /\ Chunked(k) /\ Count(k) > nth /\ c >= nth /\ c \in Nat
      /\ Pos(0) > k => c >= Count(k)
  BY <1>0, <1>1, <1>2 DEF Share, Types
<1>4. /\ \A u \in Threads \ {t} : thread'[u] = thread[u]
      /\ UNCHANGED <<graph, n_graph, n_barrier_passed, abort>>
  BY <1>2 DEF TakeChunk, Types, pool, barrier
<1>5. thread'[t].pc = "work" /\ thread'[t].node = k /\ thread'[t].part = c
  <2>1. thread'[t] = [thread[t] EXCEPT !.pc = "work", !.part = c]
    BY <1>0, <1>2 DEF TakeChunk, Types
  <2> QED  BY <1>0, <1>2, <2>1 DEF Record
<1>6. /\ Stop' = Stop /\ nth' = nth /\ Part' = Part /\ Computed' = Computed
      /\ \A j : (Chunked(j)' <=> Chunked(j)) /\ Count(j)' = Count(j) /\ PartsOf(j)' = PartsOf(j)
      /\ \A u \in Part \ {t} :
            /\ Here(u)' = Here(u) /\ Pos(u)' = Pos(u) /\ (On(u)' <=> On(u))
            /\ \A j, q : Holds(u, j, q)' <=> Holds(u, j, q)
  BY <1>4, WithinNode
<1>7. Here(t)' = thread'[t] /\ On(t)' /\ Pos(t)' = k
  BY <1>5, NowAt
<1>8. /\ \A q : ~Holds(t, k, q) /\ (Holds(t, k, q)' <=> q = c)
      /\ \A j : j # k => \A q : Holds(t, j, q)' <=> Holds(t, j, q)
  BY <1>0, <1>1, <1>2, <1>5, <1>7 DEF Holds
<1>9. Pos(0) > k \/ Begun(k)
  BY <1>0, <1>1, <1>2, <1>3, Behind DEF Begun, Calc
<1>10. \A j : j # k => ~Begun(j)
  <2>1. On(0) => Here(0).node = k
    BY <1>0, <1>1, <1>2, Behind DEF Calc
  <2> QED  BY <2>1 DEF Begun
<1>11. Pos(0)' = Pos(0) /\ \A j : Begun(j)' <=> Begun(j)
  BY <1>0, <1>2, <1>5, <1>6, <1>7 DEF Begun
<1>12. \A j \in Computed : j # k => \A q : Open(j, q)' <=> Open(j, q)
  BY <1>6, <1>10, <1>11 DEF Open
<1>13. \A q \in PartsOf(k) : q # c => (Open(k, q)' <=> Open(k, q))
  <2>1. CASE Pos(0) > k
    <3>1. Pos(0) \in Nat /\ k \in Nat
      BY <1>2, Facts, PosType
    <3> QED  BY <1>11, <2>1, <3>1 DEF Open
  <2>2. CASE Begun(k)
    <3>1. \A q \in PartsOf(k) : q # c => (q >= c + 1 <=> q >= c)
      BY <1>2, <1>3
    <3> QED  BY <1>0, <1>1, <1>6, <1>11, <2>2, <3>1 DEF Open
  <2> QED  BY <1>9, <2>1, <2>2
<1>14. c \in PartsOf(k) => Open(k, c) /\ ~Open(k, c)'
  <2> SUFFICES ASSUME c \in PartsOf(k) PROVE Open(k, c) /\ ~Open(k, c)'
    OBVIOUS
  <2>1. c < Count(k) /\ Begun(k)
    BY <1>2, <1>3, <1>9
  <2>2. Pos(0) = k
    BY <2>1, PosIs DEF Begun
  <2> QED  BY <1>0, <1>1, <1>2, <1>3, <1>11, <2>1, <2>2 DEF Open
<1>15. \A j \in Computed : \A q \in PartsOf(j) : Tallied(j, q)'
  <2> SUFFICES ASSUME NEW j \in Computed, NEW q \in PartsOf(j) PROVE Tallied(j, q)'
    OBVIOUS
  <2>1. Tallied(j, q)
    BY DEF Tally
  <2>2. CASE j = k /\ q = c
    <3>1. <<k, c>> \notin work /\ \A u \in Part : ~Holds(u, k, c)
      BY <1>14, <2>1, <2>2 DEF Tallied
    <3>2. Holds(t, k, c)' /\ \A u \in Part : Holds(u, k, c)' => u = t
      BY <1>6, <1>8, <3>1
    <3> QED  BY <1>1, <1>2, <1>6, <1>14, <2>2, <3>1, <3>2 DEF Tallied
  <2>3. CASE ~(j = k /\ q = c)
    <3>1. \A u \in Part : Holds(u, j, q)' <=> Holds(u, j, q)
      BY <1>6, <1>8, <2>3
    <3>2. Open(j, q)' <=> Open(j, q)
      BY <1>12, <1>13, <2>3
    <3> QED  BY <1>1, <1>6, <2>1, <3>1, <3>2 DEF Tallied
  <2> QED  BY <2>2, <2>3
<1>16. \A u \in Part : Share(u)'
  <2> SUFFICES ASSUME NEW u \in Part PROVE Share(u)'
    OBVIOUS
  <2>1. CASE u = t
    <3>1. c \in nth..c + 1 - 1 /\ c + 1 >= nth /\ (Pos(0) > k => c + 1 >= Count(k))
      BY <1>2, <1>3
    <3> QED  BY <1>1, <1>2, <1>3, <1>5, <1>6, <1>7, <1>11, <2>1, <3>1 DEF Share
  <2>2. CASE u # t
    <3>1. Here(u)' = Here(u) /\ Pos(u)' = Pos(u) /\ (On(u)' <=> On(u)) /\ Share(u)
      BY <1>6, <2>2 DEF Tally
    <3>2. /\ \A i \in Nat : c >= i => c + 1 >= i
          /\ \A i : i \in nth..c - 1 => i \in nth..c + 1 - 1
      BY <1>2, <1>3
    <3>3. On(u) => Count(Here(u).node) \in Nat
      BY <3>1, Counts DEF Share
    <3>4. /\ Here(u).part \in nth..c - 1 => Here(u).part \in nth'..current_chunk' - 1
          /\ current_chunk >= nth => current_chunk' >= nth'
          /\ On(u) /\ current_chunk >= Count(Here(u).node) => current_chunk' >= Count(Here(u).node)
      <4>1. current_chunk = c /\ current_chunk' = c + 1 /\ nth' = nth
        BY <1>0, <1>1, <1>6
      <4>2. Here(u).part \in nth..c - 1 => Here(u).part \in nth..c + 1 - 1
        BY <3>2
      <4>3. c >= nth => c + 1 >= nth
        BY <1>2, <3>2
      <4>4. On(u) /\ c >= Count(Here(u).node) => c + 1 >= Count(Here(u).node)
        BY <3>2, <3>3
      <4>5. Here(u).part \in nth..current_chunk - 1 => Here(u).part \in nth'..current_chunk' - 1
        BY <1>2, <1>3, <4>1, <4>2
      <4>6. current_chunk >= nth => current_chunk' >= nth'
        BY <4>1, <4>3
      <4>7. On(u) /\ current_chunk >= Count(Here(u).node) => current_chunk' >= Count(Here(u).node)
        BY <4>1, <4>4
      <4> QED  BY <1>0, <4>5, <4>6, <4>7
    <3> QED  BY <1>0, <1>6, <1>11, <3>1, <3>4 DEF Share
  <2> QED  BY <2>1, <2>2
<1> QED  BY <1>1, <1>6, <1>15, <1>16 DEF Tally

LEMMA NoMoreWorkTally ==
    ASSUME Inv, Tally, 0 \in Part, NEW t \in Threads, NoMoreWork(t)
    PROVE  Tally'
<1>0. PICK k, p : k = thread[t].node /\ p = thread[t].part
  OBVIOUS
<1>1. thread[t].pc = "work" /\ p >= Count(k)
  BY <1>0 DEF NoMoreWork, At
<1>2. /\ Here(t) = thread[t] /\ t \in Part /\ thread[t] \in Record /\ Types
      /\ k \in 1..Len(graph) /\ Len(graph) \in Nat /\ nth \in Nat /\ Stop \in Nat
      /\ Share(t) /\ On(t) /\ Pos(t) = k /\ k \in Computed /\ k < Stop
      /\ Count(k) \in Nat /\ PartsOf(k) = 0..Count(k) - 1
  BY <1>0, <1>1, AtWork DEF Calc
<1>3. t = 0 => Count(k) = 0 \/ (current_chunk >= Count(k) /\ current_chunk \in Nat)
  BY <1>0, <1>1, <1>2 DEF Share, Types
<1>4. /\ \A u \in Threads \ {t} : thread'[u] = thread[u]
      /\ UNCHANGED <<graph, n_graph, n_barrier_passed, abort, current_chunk, work>>
  BY <1>2 DEF NoMoreWork, To, Types, pool, barrier
<1>5. thread'[t].pc = "done" /\ thread'[t].node = k
  <2>1. thread'[t] = [thread[t] EXCEPT !.pc = "done"]
    BY <1>2 DEF NoMoreWork, To, Types
  <2> QED  BY <1>0, <1>2, <2>1 DEF Record
<1>6. /\ Stop' = Stop /\ nth' = nth /\ Part' = Part /\ Computed' = Computed
      /\ \A j : (Chunked(j)' <=> Chunked(j)) /\ Count(j)' = Count(j) /\ PartsOf(j)' = PartsOf(j)
      /\ \A u \in Part \ {t} :
            /\ Here(u)' = Here(u) /\ Pos(u)' = Pos(u) /\ (On(u)' <=> On(u))
            /\ \A j, q : Holds(u, j, q)' <=> Holds(u, j, q)
  BY <1>4, WithinNode
<1>7. Here(t)' = thread'[t] /\ ~On(t)' /\ Pos(t)' = k + 1
  BY <1>5, NowAt
<1>8. \A j \in Computed : j \in Nat /\ (j # k => (Pos(t)' <= j <=> Pos(t) <= j))
  BY <1>2, <1>7 DEF Computed
<1>9. \A j \in Computed : \A q \in PartsOf(j) : Holds(t, j, q)' <=> Holds(t, j, q)
  <2> SUFFICES ASSUME NEW j \in Computed, NEW q \in PartsOf(j) PROVE Holds(t, j, q)' <=> Holds(t, j, q)
    OBVIOUS
  <2>1. CASE j = k
    <3>1. ~Holds(t, k, q)
      BY <1>0, <1>1, <1>2, <2>1 DEF Holds, Record
    <3> QED  BY <1>2, <1>7, <2>1, <3>1 DEF Holds
  <2>2. CASE j # k
    BY <1>0, <1>2, <1>7, <1>8, <2>2 DEF Holds
  <2> QED  BY <2>1, <2>2
<1>10. \A j \in Computed : \A q \in PartsOf(j) : Open(j, q)' <=> Open(j, q)
  <2> SUFFICES ASSUME NEW j \in Computed, NEW q \in PartsOf(j) PROVE Open(j, q)' <=> Open(j, q)
    OBVIOUS
  <2>1. CASE t # 0
    BY <1>4, <1>6, <2>1 DEF Open, Begun
  <2>2. CASE t = 0 /\ j # k
    <3>1. ~Begun(j) /\ ~Begun(j)'
      BY <1>0, <1>2, <1>5, <1>7, <2>2 DEF Begun
    <3> QED  BY <1>6, <1>8, <2>2, <3>1 DEF Open
  <2>3. CASE t = 0 /\ j = k
    <3>1. Begun(k)
      BY <1>0, <1>2, <2>3 DEF Begun
    <3>2. ~Open(k, q)
      BY <1>2, <1>3, <2>3, <3>1 DEF Open
    <3>3. ~Open(k, q)'
      BY <1>2, <1>7, <2>3 DEF Open
    <3> QED  BY <2>3, <3>2, <3>3
  <2> QED  BY <2>1, <2>2, <2>3
<1>11. \A u \in Part : Share(u)'
  <2> SUFFICES ASSUME NEW u \in Part PROVE Share(u)'
    OBVIOUS
  <2>1. CASE u = t
    BY <1>2, <1>6, <1>7, <2>1 DEF Share
  <2>2. CASE u # t
    <3>1. Here(u)' = Here(u) /\ Pos(u)' = Pos(u) /\ (On(u)' <=> On(u)) /\ Share(u)
      BY <1>6, <2>2 DEF Tally
    <3>2. ASSUME On(u), NEW m, m = Here(u).node, Count(m) > nth, Pos(0)' > m, ~(Pos(0) > m)
          PROVE  current_chunk >= Count(m)
      <4>1. m \in Computed /\ m \in Nat
        BY <1>8, <3>1, <3>2 DEF Share
      <4>2. t = 0
        BY <1>6, <3>2
      <4>3. m = k
        BY <1>2, <1>7, <1>8, <3>2, <4>1, <4>2
      <4> QED  BY <1>2, <1>3, <3>2, <4>2, <4>3
    <3> QED  BY <1>4, <1>6, <3>1, <3>2 DEF Share
  <2> QED  BY <2>1, <2>2
<1> QED  BY <1>4, <1>6, <1>9, <1>10, <1>11, TallyStays

(* After a node: when thread 0 aborts, the others are not ahead of it.     *)
LEMMA NodeDoneTally ==
    ASSUME Inv, Tally, 0 \in Part, NEW t \in Threads, NodeDone(t)
    PROVE  Tally'
<1>0. PICK k : k = thread[t].node
  OBVIOUS
<1>1. /\ thread[t].pc = "done" /\ work' = work
      /\ UNCHANGED <<graph, n_graph, n_barrier_passed, current_chunk>>
      /\ abort' = abort \/ (t = 0 /\ abort' = k + 1)
  BY <1>0 DEF NodeDone, At, pool, barrier
<1>2. /\ Here(t) = thread[t] /\ t \in Part /\ thread[t] \in Record /\ Types
      /\ k \in 1..Len(graph) /\ Len(graph) \in Nat /\ Stop \in Nat
      /\ Share(t) /\ ~On(t) /\ Pos(t) = k + 1
  BY <1>0, <1>1, AtWork DEF Calc
<1>3. \A u \in Threads \ {t} : thread'[u] = thread[u]
  BY <1>2 DEF NodeDone, Types
<1>4. /\ thread'[t].node = k + 1
      /\ thread'[t].pc = "head" \/ (thread'[t].pc = "enter" /\ thread'[t].then = "head")
  <2>1. thread'[t] = [(IF k < Len(graph) THEN Enter(thread[t], "head") ELSE [thread[t] EXCEPT !.pc = "head"])
                        EXCEPT !.node = k + 1, !.part = 0]
    BY <1>0, <1>2 DEF NodeDone, Types
  <2> QED  BY <1>2, <2>1 DEF Enter, Record
<1>5. Here(t)' = thread'[t] /\ ~On(t)' /\ Pos(t)' = k + 1
  <2>1. Here(t)' = thread'[t]
    BY <1>4 DEF Here, Gone, At
  <2> QED  BY <1>4, <2>1 DEF On, Pos, Home, Rest, Meeting
<1>6. /\ Part' = Part /\ Computed' = Computed /\ nth' = nth
      /\ \A j : (Chunked(j)' <=> Chunked(j)) /\ Count(j)' = Count(j)
  BY <1>1 DEF nth, Part, Threads, Computed, Chunked, Count
<1>7. \A u \in Part \ {t} : u \in Threads /\ Here(u)' = Here(u) /\ (Due(u)' <=> Due(u))
  BY <1>1, <1>3, Stays DEF Part
<1>8. \A u \in Part : /\ Pos(u)' = Pos(u) /\ (On(u)' <=> On(u)) /\ (On(u) => Here(u)' = Here(u))
                      /\ Pos(u) <= Stop' /\ (On(u) => Here(u).node < Stop')
  <2> SUFFICES ASSUME NEW u \in Part
               PROVE  /\ Pos(u)' = Pos(u) /\ (On(u)' <=> On(u)) /\ (On(u) => Here(u)' = Here(u))
                      /\ Pos(u) <= Stop' /\ (On(u) => Here(u).node < Stop')
    OBVIOUS
  <2>1. Share(u)
    BY DEF Tally
  <2>2. CASE abort' = abort
    <3>1. Stop' = Stop
      BY <1>1, <2>2 DEF Stop
    <3>2. CASE u = t
      BY <1>2, <1>5, <2>1, <3>1, <3>2 DEF Share
    <3>3. CASE u # t
      BY <1>7, <2>1, <3>1, <3>3 DEF Share, Pos, On
    <3> QED  BY <3>2, <3>3
  <2>3. CASE t = 0 /\ abort' = k + 1
    <3>1. abort = 0 /\ Stop' = k + 1 /\ Stop = Len(graph) + 1
      BY <1>1, <1>2, <2>3 DEF Inv, Caller, Calc, Stop
    <3>2. CASE u = t
      BY <1>2, <1>5, <3>1, <3>2
    <3>3. CASE u # t
      <4>1. /\ Pos(u) <= k + 1
            /\ On(u) => Here(u).node = k
            /\ Here(u).pc \in Rest => Due(u)
            /\ Here(u).pc \in Meeting /\ Here(u).then = Home(u) => k = Len(graph)
        BY <1>0, <1>1, <1>2, <2>3, <3>1, NotAhead
      <4>2. Pos(u)' = Pos(u) /\ (On(u)' <=> On(u))
        <5>1. CASE Here(u).pc \in Rest
          BY <1>7, <3>3, <4>1, <5>1 DEF Pos, On, Rest, Meeting
        <5>2. CASE Here(u).pc \in Meeting /\ Here(u).then = Home(u)
          <6>1. Stop' = Stop
            BY <3>1, <4>1, <5>2
          <6> QED  BY <1>7, <3>3, <6>1 DEF Pos, On
        <5>3. CASE Here(u).pc \notin Rest /\ ~(Here(u).pc \in Meeting /\ Here(u).then = Home(u))
          <6>1. Here(u).pc \in Meeting \cup Calc \cup {"head"}
            BY <1>7, <5>3, HereIs DEF Record, Pcs
          <6>2. Pos(u)' = Pos(u)
            BY <1>7, <3>3, <5>3, <6>1 DEF Pos, Home, Rest, Meeting, Calc
          <6> QED  BY <1>7, <3>3, <6>2 DEF On
        <5> QED  BY <5>1, <5>2, <5>3
      <4> QED  BY <1>2, <1>7, <3>1, <3>3, <4>1, <4>2
    <3> QED  BY <3>2, <3>3
  <2> QED  BY <1>1, <2>2, <2>3
<1>9. \A j, p : Open(j, p)' <=> Open(j, p)
  BY <1>1, <1>6, <1>8 DEF Open, Begun
<1>10. \A u \in Part : \A j, p : Holds(u, j, p)' <=> Holds(u, j, p)
  BY <1>8 DEF Holds
<1>11. \A u \in Part : Share(u)'
  BY <1>1, <1>6, <1>8 DEF Tally, Share
<1> QED  BY <1>1, <1>9, <1>10, <1>11, TallyStays

(* A new graph: every thread has its own part of every node before it.     *)
LEMMA KickoffTally ==
    ASSUME Inv, Inv', Kickoff, work = {}
    PROVE  Tally' /\ ~At(0, "kickoff")' /\ nth' # 0
<1>1. /\ thread[0].pc = "kickoff" /\ work' = {}
      /\ UNCHANGED <<graph, abort, n_barrier_passed>>
      /\ n_graph' = [count |-> n_graph.count + 1, threads |-> thread[0].part]
  BY DEF Kickoff, At, barrier
<1>2. /\ 0 \in Threads /\ Types /\ thread[0] \in Record /\ thread[0].part \in 1..N /\ abort = 0
      /\ n_graph.count \in Nat /\ Len(graph) \in Nat
      /\ \A u \in Threads : Here(u).pc \in Rest /\ Control(u)
  BY <1>1, Quiet, Facts DEF Inv, Types, Caller
<1>3. nth' = thread[0].part /\ Part' = 0..nth' - 1 /\ 0 \in Part' /\ nth' \in Nat
  BY <1>1, <1>2, Params DEF nth, Part, Threads
<1>4. Stop' = Len(graph) + 1
  BY <1>1, <1>2 DEF Stop
<1> DEFINE th == [thread EXCEPT ![0].pc = "head", ![0].node = 1, ![0].part = 0]
<1>5. /\ th[0].pc = "head" /\ th[0].node = 1
      /\ \A u \in Threads \ {0} : th[u] = thread[u]
  BY <1>2 DEF Types, Record
<1>6. thread' = Awake(th)
  BY DEF Kickoff
<1> HIDE DEF th
<1>7. thread'[0] = th[0] /\ \A u \in Threads \ {0} : thread'[u] = Awake(th)[u]
  BY <1>2, <1>5, <1>6 DEF Awake
<1>8. \A u \in Part' : Pos(u)' = 1 /\ ~On(u)'
  <2> SUFFICES ASSUME NEW u \in Part' PROVE Pos(u)' = 1 /\ ~On(u)'
    OBVIOUS
  <2>1. CASE u = 0
    <3>1. Here(0)' = thread'[0]
      BY <1>5, <1>7 DEF Here, Gone, At
    <3> QED  BY <1>5, <1>7, <2>1, <3>1 DEF Pos, On, Rest, Meeting
  <2>2. CASE u # 0
    <3>1. u \in Threads
      BY DEF Part, Threads
    <3>2. Here(u)'.pc \in Rest /\ thread'[u].last = thread[u].last
      BY <1>1, <1>2, <1>5, <1>7, <2>2, <3>1, Wakes
    <3>3. thread[u].last <= n_graph.count /\ thread[u].last \in Nat
      BY <1>2, <3>1 DEF Control, Types, Record
    <3>4. Due(u)'
      BY <1>1, <1>2, <2>2, <3>2, <3>3 DEF Due, New
    <3> QED  BY <3>2, <3>4 DEF Pos, On, Rest, Meeting
  <2> QED  BY <2>1, <2>2
<1>9. \A k \in Computed' : k \in Nat /\ 1 <= k
  BY <1>1, <1>2 DEF Computed
<1>10. \A u \in Part' : \A k \in Computed' : \A p : Holds(u, k, p)' <=> p = u
  BY <1>8, <1>9 DEF Holds
<1>11. \A k \in Computed' : \A p \in PartsOf(k)' : Tallied(k, p)'
  <2> SUFFICES ASSUME NEW k \in Computed', NEW p \in PartsOf(k)' PROVE Tallied(k, p)'
    OBVIOUS
  <2>1. Open(k, p)' <=> Chunked(k)' /\ p >= nth'
    BY <1>3, <1>8, <1>9 DEF Open, Begun, PartsOf
  <2>2. p \in Nat /\ p < Count(k)'
    BY DEF PartsOf
  <2>3. p >= nth' => Chunked(k)'
    BY <1>3, <2>2 DEF Chunked, Computed, Count
  <2>4. p \in Part' <=> ~(p >= nth')
    BY <1>3, <2>2
  <2>5. Open(k, p)' \/ \E u \in Part' : Holds(u, k, p)'
    BY <1>10, <2>1, <2>3, <2>4
  <2>6. \A u \in Part' : Holds(u, k, p)' =>
            ~Open(k, p)' /\ \A v \in Part' : Holds(v, k, p)' => v = u
    BY <1>10, <2>1, <2>4
  <2> QED  BY <1>1, <2>5, <2>6 DEF Tallied
<1>12. \A u \in Part' : Share(u)'
  BY <1>2, <1>4, <1>8 DEF Share
<1>13. nth' # 0 /\ ~At(0, "kickoff")'
  BY <1>2, <1>3, <1>5, <1>7 DEF At
<1> QED  BY <1>1, <1>11, <1>12, <1>13 DEF Tally
-----------------------------------------------------------------------------
(* What thread 0 does in a graph: it leaves it from the last barrier.      *)
LEMMA CallerSteps ==
    ASSUME Inv, NEW t \in Threads, Barrier(t) \/ Compute(t) \/ Worker(t)
    PROVE  \/ thread'[0] = thread[0]
           \/ /\ t = 0 /\ thread[0].pc \notin Rest
              /\ thread'[0].pc \notin Rest \/ (Barrier(0) /\ thread'[0].pc = "idle")
<1>1. 0 \in Threads /\ Types
  BY Facts
<1>2. CASE Worker(t)
  BY <1>1, <1>2, WorkerGoes
<1>3. CASE Barrier(t)
  <2>1. CASE t # 0
    BY <1>1, <1>3, <2>1, BarrierGoes
  <2>2. CASE t = 0
    <3>1. thread[0] \in Record /\ Control(0) /\ thread[0].pc \in Meeting
      BY <1>1, <1>3, <2>2 DEF Inv, Types, Barrier, BarrierEnter, BarrierAdd, BarrierReset, BarrierPass, BarrierSpin, At, Meeting
    <3>2. thread[0].then \in {"head", "work", "idle"} /\ Left(thread[0]).pc = thread[0].then
      BY <3>1 DEF Control, Home, Left, Record
    <3>3. \/ thread'[0] = Left(thread[0])
          \/ thread'[0] = [thread[0] EXCEPT !.pc = "add", !.seen = n_barrier_passed]
          \/ \E pc \in Meeting : thread'[0] = [thread[0] EXCEPT !.pc = pc]
      BY <1>1, <1>3, <2>2 DEF Types, Barrier, BarrierEnter, BarrierAdd, BarrierReset, BarrierPass, BarrierSpin, To, Meeting
    <3>4. thread'[0].pc \in Meeting \cup {"head", "work", "idle"}
      BY <3>1, <3>2, <3>3 DEF Record, Meeting
    <3> QED  BY <1>3, <2>2, <3>1, <3>4 DEF Rest, Meeting
  <2> QED  BY <2>1, <2>2
<1>4. CASE Compute(t)
  <2>1. thread[t].pc \in Calc \cup {"head"} /\ thread[t] \in Record
    BY <1>1, <1>4 DEF Compute, NextNode, Work, TakeChunk, NoMoreWork, NodeDone, At, Calc, Types
  <2>2. CASE t # 0
    BY <1>1, <1>4, <2>2 DEF Types, Compute, NextNode, Work, TakeChunk, NoMoreWork, NodeDone, To
  <2>3. CASE t = 0
    <3>1. thread'[0].pc \in Calc \cup {"head", "enter"}
      <4>1. CASE NextNode(0)
        <5>1. PICK k : k = thread[0].node
          OBVIOUS
        <5> QED  BY <1>1, <2>1, <2>3, <4>1, <5>1, NextNodeIs DEF Record, Calc
      <4>2. CASE Work(0)
        BY <1>1, <2>1, <2>3, <4>2 DEF Work, To, Types, Record, Calc
      <4>3. CASE TakeChunk(0)
        BY <1>1, <2>1, <2>3, <4>3 DEF TakeChunk, Types, Record, Calc
      <4>4. CASE NoMoreWork(0)
        BY <1>1, <2>1, <2>3, <4>4 DEF NoMoreWork, To, Types, Record, Calc
      <4>5. CASE NodeDone(0)
        <5>1. thread'[0] = [(IF thread[0].node < Len(graph) THEN Enter(thread[0], "head")
                                                            ELSE [thread[0] EXCEPT !.pc = "head"])
                              EXCEPT !.node = thread[0].node + 1, !.part = 0]
          BY <1>1, <4>5 DEF NodeDone, Types
        <5> QED  BY <2>1, <2>3, <5>1 DEF Enter, Record, Calc
      <4> QED  BY <1>4, <2>3, <4>1, <4>2, <4>3, <4>4, <4>5 DEF Compute
    <3> QED  BY <2>1, <2>3, <3>1 DEF Rest, Calc
  <2> QED  BY <2>2, <2>3
<1> QED  BY <1>2, <1>3, <1>4

(* Only the threads of a graph compute, and thread 0 is one of them.       *)
LEMMA Computing ==
    ASSUME Inv, NEW t \in Threads, Compute(t)
    PROVE  0 \in Part /\ nth # 0 /\ thread[0].pc \notin Rest
<1>1. thread[t].pc \in Calc \cup {"head"}
  BY DEF Compute, NextNode, Work, TakeChunk, NoMoreWork, NodeDone, At, Calc
<1>2. t \in Part /\ ~Out(t)
  BY <1>1, AtNode
<1>3. 0 \in Part /\ nth # 0
  BY <1>2, Facts
<1>4. ~Out(0)
  BY <1>2, <1>3 DEF Inv, Together
<1>5. Here(0).pc \notin Rest
  BY <1>4 DEF Out, Due
<1> QED  BY <1>3, <1>5 DEF Here, Gone, At, Rest

LEMMA WorkInit == Init => WorkInvariant
<1> SUFFICES ASSUME Init PROVE WorkInvariant
  OBVIOUS
<1>1. 0 \in Threads
  BY Params DEF Threads
<1> QED  BY <1>1 DEF Init, WorkInvariant, Rest, nth

LEMMA WorkNext == Inv /\ WorkInvariant /\ [Next]_vars => WorkInvariant'
<1> SUFFICES ASSUME Inv, WorkInvariant, [Next]_vars PROVE WorkInvariant'
  OBVIOUS
<1>1. Inv' /\ 0 \in Threads /\ Types
  BY NextInv, Facts
<1>2. CASE At(0, "kickoff") \/ nth = 0
  <2>1. work = {} /\ thread[0].pc \in Rest
    BY <1>2 DEF WorkInvariant
  <2>2. ASSUME NEW t \in Threads, Barrier(t) \/ Worker(t)
        PROVE  WorkInvariant'
    <3>1. UNCHANGED <<n_graph, work>>
      BY <2>2, BarrierGoes, WorkerGoes
    <3>2. thread'[0] = thread[0]
      BY <2>1, <2>2, CallerSteps
    <3> QED  BY <1>2, <2>1, <3>1, <3>2 DEF WorkInvariant, At, nth
  <2>3. ASSUME NEW t \in Threads, Compute(t)
        PROVE  FALSE
    BY <1>2, <2>3, Computing DEF At, Rest
  <2>4. ASSUME NEW g \in Graphs, NEW n \in 1..N, GraphCompute(g, n)
        PROVE  WorkInvariant'
    <3>1. work' = {} /\ n_graph' = n_graph /\ thread' = [thread EXCEPT ![0].pc = "kickoff", ![0].part = n]
      BY <2>4 DEF GraphCompute
    <3>2. thread'[0].pc = "kickoff"
      BY <1>1, <3>1 DEF Types, Record
    <3> QED  BY <3>1, <3>2 DEF WorkInvariant, At, Rest
  <2>5. CASE Kickoff
    BY <1>1, <2>1, <2>5, KickoffTally DEF WorkInvariant
  <2>6. CASE PauseOrResume \/ Free \/ Join
    <3>1. /\ thread[0].pc # "kickoff" /\ UNCHANGED <<n_graph, work>>
          /\ thread'[0].pc \in Rest
      BY <2>6, CallerGoes DEF Rest
    <3> QED  BY <1>2, <2>1, <3>1 DEF WorkInvariant, At, nth
  <2>7. CASE UNCHANGED vars
    BY <1>2, <2>1, <2>7 DEF vars, WorkInvariant, At, nth
  <2> QED  BY <2>2, <2>3, <2>4, <2>5, <2>6, <2>7 DEF Next
<1>3. CASE ~(At(0, "kickoff") \/ nth = 0)
  <2>1. Tally /\ thread[0].pc # "kickoff"
    BY <1>3 DEF WorkInvariant, At
  <2>2. 0 \in Part
    BY <1>3, Facts
  <2>3. ASSUME Tally', thread'[0].pc # "kickoff", n_graph' = n_graph
        PROVE  WorkInvariant'
    BY <1>3, <2>3 DEF WorkInvariant, At, nth
  <2>4. ASSUME NEW t \in Threads, Barrier(t) \/ Compute(t) \/ Worker(t)
        PROVE  WorkInvariant'
    <3>1. thread'[0].pc # "kickoff"
      BY <2>1, <2>4, CallerSteps DEF Rest
    <3>2. CASE Barrier(t) \/ Worker(t)
      <4>1. (\A u \in Part : Goes(u)) /\ UNCHANGED <<graph, n_graph, abort, current_chunk, work>>
        BY <3>2, BarrierGoes, WorkerGoes
      <4> QED  BY <2>1, <2>2, <2>3, <3>1, <4>1, StillTally
    <3>3. CASE Compute(t)
      <4>1. n_graph' = n_graph
        BY <3>3 DEF Compute, NextNode, Work, TakeChunk, NoMoreWork, NodeDone, pool
      <4>2. Tally'
        BY <2>1, <2>2, <3>3, NextNodeTally, WorkTally, TakeTally, NoMoreWorkTally, NodeDoneTally DEF Compute
      <4> QED  BY <2>3, <3>1, <4>1, <4>2
    <3> QED  BY <2>4, <3>2, <3>3
  <2>5. ASSUME NEW g \in Graphs, NEW n \in 1..N, GraphCompute(g, n)
        PROVE  WorkInvariant'
    <3>1. work' = {} /\ thread' = [thread EXCEPT ![0].pc = "kickoff", ![0].part = n]
      BY <2>5 DEF GraphCompute
    <3>2. thread'[0].pc = "kickoff"
      BY <1>1, <3>1 DEF Types, Record
    <3> QED  BY <3>1, <3>2 DEF WorkInvariant, At, Rest
  <2>6. ~Kickoff
    BY <2>1 DEF Kickoff, At
  <2>7. CASE PauseOrResume \/ Free \/ Join
    <3>1. /\ \A u \in Part : Goes(u)
          /\ UNCHANGED <<graph, n_graph, abort, current_chunk, work>>
          /\ thread'[0].pc # "kickoff"
      BY <2>7, CallerGoes
    <3> QED  BY <2>1, <2>2, <2>3, <3>1, StillTally
  <2>8. CASE UNCHANGED vars
    <3>1. UNCHANGED <<graph, n_graph, n_barrier_passed, abort, current_chunk, work, thread>>
      BY <2>8 DEF vars
    <3>2. \A u \in Part : Goes(u)
      BY <1>1, <3>1, OneGoes, Stays DEF Goes
    <3> QED  BY <2>1, <2>2, <2>3, <3>1, <3>2, StillTally
  <2> QED  BY <2>4, <2>5, <2>6, <2>7, <2>8 DEF Next
<1> QED  BY <1>2, <1>3
-----------------------------------------------------------------------------
(* GraphCompute's words for ThreadPool's.                                  *)
LEMMA PartsAre ==
    ASSUME Inv, ~At(0, "kickoff"), NEW k \in 1..Len(graph)
    PROVE  /\ k \in Computed => Promise!Parts(k) = PartsOf(k)
           /\ k \notin Computed => Promise!Parts(k) = {}
<1>1. IsGraph(graph) /\ graph[k].kind \in {"split", "empty", "chunks"}
  BY Facts DEF IsGraph
<1>2. CASE k \in Computed
  BY <1>1, <1>2, Counts DEF Promise!Parts, Computed, Count
<1>3. CASE k \notin Computed
  BY <1>1, <1>3 DEF Promise!Parts, Computed
<1> QED  BY <1>2, <1>3

(* When thread 0 is back, what was to be computed is.                      *)
AllDone == \A k \in 1..Len(graph) : (abort = 0 \/ k < abort) => Promise!Complete(k)

LEMMA DoneAtEnd == Inv /\ WorkInvariant /\ At(0, "idle") /\ nth # 0 => AllDone
<1> SUFFICES ASSUME Inv, WorkInvariant, At(0, "idle"), nth # 0,
                    NEW k \in 1..Len(graph), abort = 0 \/ k < abort
             PROVE  Promise!Complete(k)
  BY DEF AllDone
<1>1. Tally /\ ~At(0, "kickoff")
  BY DEF WorkInvariant, At
<1>2. 0 \in Part /\ Len(graph) \in Nat
  BY Facts
<1>3. k < Stop
  BY <1>2 DEF Stop
<1>4. \A u \in Part : Out(u)
  BY Quiet DEF At
<1>5. \A u \in Part : Pos(u) > k
  BY <1>2, <1>3, <1>4, PosIs, Facts DEF Out
<1>6. ASSUME NEW p \in Promise!Parts(k)
      PROVE  <<k, p>> \in work
  <2>1. k \in Computed /\ p \in PartsOf(k)
    BY <1>1, <1>6, PartsAre
  <2> QED  BY <1>1, <1>2, <1>5, <2>1, Finished
<1> QED  BY <1>6 DEF Promise!Complete

LEMMA WorkSteps ==
    ASSUME Inv, WorkInvariant, NEW t \in Threads, Work(t)
    PROVE  Promise!Next
<1>0. PICK k, p : k = thread[t].node /\ p = thread[t].part
  OBVIOUS
<1>1. thread[t].pc = "work" /\ p < Count(k) /\ work' = work \cup {<<k, p>>}
  BY <1>0 DEF Work, At
<1>2. 0 \in Part /\ nth # 0 /\ thread[0].pc \notin Rest
  BY Computing DEF Compute
<1>3. Tally /\ ~At(0, "kickoff")
  BY <1>2 DEF WorkInvariant, At, Rest
<1>4. /\ Here(t) = thread[t] /\ t \in Part /\ thread[t] \in Record /\ Types
      /\ k \in 1..Len(graph) /\ Len(graph) \in Nat /\ nth \in Nat /\ Stop \in Nat
      /\ Share(t) /\ On(t) /\ Pos(t) = k /\ k \in Computed /\ k < Stop
      /\ Count(k) \in Nat /\ PartsOf(k) = 0..Count(k) - 1
  BY <1>0, <1>1, <1>3, AtWork DEF Calc
<1>5. p \in Promise!Parts(k) /\ k \in DOMAIN graph
  <2>1. p \in PartsOf(k)
    BY <1>0, <1>1, <1>4 DEF Record
  <2>2. IsGraph(graph)
    BY Facts
  <2> QED  BY <1>3, <1>4, <2>1, <2>2, PartsAre DEF IsGraph
<1>6. <<k, p>> \notin work
  <2>1. Holds(t, k, p)
    BY <1>0, <1>1, <1>4 DEF Holds
  <2>2. Tallied(k, p)
    BY <1>3, <1>4, <1>5, PartsAre DEF Tally
  <2> QED  BY <1>4, <2>1, <2>2 DEF Tallied
<1>7. abort = 0 \/ k < abort
  BY <1>4 DEF Stop
<1>8. \A j \in 1..k - 1 : Promise!Complete(j)
  <2> SUFFICES ASSUME NEW j \in 1..k - 1, NEW q \in Promise!Parts(j) PROVE <<j, q>> \in work
    BY DEF Promise!Complete
  <2>1. j \in 1..Len(graph) /\ j < k
    BY <1>4
  <2>2. j \in Computed /\ q \in PartsOf(j)
    BY <1>3, <2>1, PartsAre
  <2>3. \A u \in Part : Pos(u) > j
    BY <1>0, <1>1, <1>3, <1>4, <2>1, <2>2, Behind DEF Calc
  <2> QED  BY <1>2, <1>3, <2>2, <2>3, Finished
<1>9. /\ UNCHANGED <<graph, nth, abort>>
      /\ ~At(0, "kickoff")' /\ Running /\ Running'
  <2>1. ~(t = 0 /\ Barrier(0))
    BY <1>1 DEF Barrier, BarrierEnter, BarrierAdd, BarrierReset, BarrierPass, BarrierSpin, At
  <2>2. thread'[0].pc \notin Rest
    BY <1>2, <2>1, CallerSteps DEF Compute
  <2> QED  BY <1>2, <2>2 DEF Work, pool, nth, At, Running, Rest
<1>10. Promise!ComputePart(k, p)
  BY <1>1, <1>3, <1>6, <1>7, <1>8, <1>9 DEF Promise!ComputePart
<1> QED  BY <1>5, <1>10 DEF Promise!Next

(* Thread 0 aborts after node k: nobody has begun the next one.            *)
LEMMA AbortSteps ==
    ASSUME Inv, WorkInvariant, NodeDone(0), abort' # abort
    PROVE  Promise!Next
<1>0. PICK k : k = thread[0].node
  OBVIOUS
<1>1. thread[0].pc = "done" /\ work' = work /\ abort' = k + 1 /\ 0 \in Threads
  BY <1>0, Facts DEF NodeDone, At
<1>2. Tally /\ ~At(0, "kickoff") /\ 0 \in Part
  BY <1>1, Computing DEF Compute, WorkInvariant, At
<1>3. Here(0) = thread[0] /\ k \in 1..Len(graph) /\ Len(graph) \in Nat /\ abort = 0
  BY <1>0, <1>1, <1>2, AtWork DEF Calc, Inv, Caller
<1>4. \A u \in Part : Pos(u) <= k + 1 /\ (On(u) => Here(u).node = k)
  BY <1>0, <1>1, <1>2, <1>3, NotAhead
<1>5. \A w \in work : w[1] < k + 1
  <2> SUFFICES ASSUME NEW j \in Computed, NEW p \in PartsOf(j), <<j, p>> \in work PROVE j < k + 1
    BY <1>2 DEF Tally
  <2>1. SUFFICES ASSUME k + 1 <= j PROVE FALSE
    BY <1>3 DEF Computed
  <2>2. \A u \in Part : Pos(u) <= j /\ ~(On(u) /\ Here(u).node = j)
    BY <1>3, <1>4, <2>1, PosType, Facts DEF Computed
  <2> QED  BY <1>2, <2>2, NotBegun
<1>6. k \in DOMAIN graph
  BY <1>3, Facts DEF IsGraph
<1>7. UNCHANGED <<graph, nth>> /\ ~At(0, "kickoff")' /\ Running /\ Running'
  <2>1. thread'[0].pc \notin Rest
    <3>1. thread'[0] = thread[0] \/ thread'[0].pc \notin Rest \/ Barrier(0)
      BY <1>1, CallerSteps DEF Compute
    <3>2. ~Barrier(0)
      BY <1>1 DEF Barrier, BarrierEnter, BarrierAdd, BarrierReset, BarrierPass, BarrierSpin, At
    <3> QED  BY <1>1, <3>1, <3>2 DEF Rest
  <2> QED  BY <1>1, <2>1 DEF NodeDone, pool, nth, At, Running, Rest
<1>8. Promise!Abort(k + 1)
  BY <1>1, <1>2, <1>3, <1>5, <1>7 DEF Promise!Abort
<1> QED  BY <1>6, <1>8 DEF Promise!Next

(* The other steps within a graph change nothing, but for the last one.    *)
LEMMA OtherSteps ==
    ASSUME Inv, WorkInvariant, At(0, "idle")' /\ nth' # 0 => AllDone',
           NEW t \in Threads, Barrier(t) \/ Compute(t) \/ Worker(t), ~Work(t), abort' = abort
    PROVE  [Promise!Next]_Promise!vars
<1>1. UNCHANGED <<graph, n_graph, work>>
  <2>1. CASE Barrier(t) \/ Worker(t)
    BY <2>1, BarrierGoes, WorkerGoes
  <2>2. CASE Compute(t)
    BY <2>2 DEF Compute, NextNode, TakeChunk, NoMoreWork, NodeDone, pool
  <2> QED  BY <2>1, <2>2
<1>2. CASE thread'[0] = thread[0]
  BY <1>1, <1>2 DEF Promise!vars, Running, At, nth
<1>3. CASE thread[0].pc \notin Rest /\ thread'[0].pc \notin Rest
  BY <1>1, <1>3 DEF Promise!vars, Running, At, nth, Rest
<1>4. CASE t = 0 /\ thread[0].pc \notin Rest /\ Barrier(0) /\ thread'[0].pc = "idle"
  <2>1. nth # 0
    BY <1>4 DEF WorkInvariant, At, Rest
  <2>2. AllDone'
    BY <1>1, <1>4, <2>1 DEF At, nth
  <2>3. /\ UNCHANGED <<graph, nth, work>> /\ Running /\ ~Running'
        /\ ~At(0, "kickoff") /\ ~At(0, "kickoff")'
    BY <1>1, <1>4 DEF Running, At, nth, Rest
  <2>4. \A k \in 1..Len(graph) : (abort = 0 \/ k < abort) => Promise!Complete(k)
    BY <1>1, <2>2, <2>3 DEF AllDone, Promise!Complete, Promise!Parts
  <2>5. Promise!Return
    BY <2>3, <2>4, Facts DEF Promise!Return, IsGraph
  <2> QED  BY <2>5 DEF Promise!Next
<1> QED  BY <1>2, <1>3, <1>4, CallerSteps

GraphComputes == \E g \in Graphs, n \in 1..N : GraphCompute(g, n)

LEMMA CallSteps ==
    ASSUME Inv, GraphComputes \/ Kickoff \/ PauseOrResume \/ Free \/ Join
    PROVE  [Promise!Next]_Promise!vars
<1>1. 0 \in Threads /\ Types /\ thread[0] \in Record
  BY Facts DEF Types
<1>2. ASSUME NEW g \in Graphs, NEW n \in 1..N, GraphCompute(g, n)
      PROVE  Promise!Next
  <2>1. thread[0].pc = "idle" /\ graph' = g /\ work' = {} /\ abort' = 0
    BY <1>2 DEF GraphCompute, At
  <2>2. thread'[0].pc = "kickoff" /\ thread'[0].part = n
    BY <1>1, <1>2 DEF GraphCompute, Types, Record
  <2>3. Promise!Begin(g, n)
    BY <2>1, <2>2 DEF Promise!Begin, Running, At
  <2> QED  BY <2>3 DEF Promise!Next
<1>3. CASE Kickoff
  <2>1. thread[0].pc = "kickoff" /\ nth' = thread[0].part /\ UNCHANGED <<graph, work, abort>>
    BY <1>3 DEF Kickoff, At, nth
  <2> DEFINE th == [thread EXCEPT ![0].pc = "head", ![0].node = 1, ![0].part = 0]
  <2>2. th[0].pc = "head" /\ thread' = Awake(th)
    BY <1>1, <1>3 DEF Types, Record, Kickoff
  <2> HIDE DEF th
  <2>3. thread'[0].pc = "head"
    BY <1>1, <2>2 DEF Awake
  <2> QED  BY <2>1, <2>3 DEF Promise!vars, Running, At
<1>4. CASE PauseOrResume \/ Free \/ Join
  BY <1>4, CallerGoes DEF Promise!vars, Running, At, nth
<1> QED  BY <1>2, <1>3, <1>4 DEF GraphComputes

LEMMA InitImplements == Init => Promise!Init
<1>1. 0 \in Threads
  BY Params DEF Threads
<1> QED  BY <1>1 DEF Init, Promise!Init, Running, At, nth

LEMMA NextImplements ==
    Inv /\ WorkInvariant /\ (At(0, "idle")' /\ nth' # 0 => AllDone') /\ [Next]_vars
        => [Promise!Next]_Promise!vars
<1> SUFFICES ASSUME Inv, WorkInvariant, At(0, "idle")' /\ nth' # 0 => AllDone', [Next]_vars
             PROVE  [Promise!Next]_Promise!vars
  OBVIOUS
<1>1. ASSUME NEW t \in Threads, Barrier(t) \/ Compute(t) \/ Worker(t)
      PROVE  [Promise!Next]_Promise!vars
  <2>1. CASE Work(t)
    BY <2>1, WorkSteps
  <2>2. CASE ~Work(t) /\ abort' = abort
    BY <1>1, <2>2, OtherSteps
  <2>3. CASE ~Work(t) /\ abort' # abort
    <3>1. CASE Compute(t)
      <4>1. t = 0 /\ NodeDone(t)
        BY <2>3, <3>1 DEF Compute, NextNode, TakeChunk, NoMoreWork, NodeDone
      <4> QED  BY <2>3, <4>1, AbortSteps
    <3>2. CASE Barrier(t) \/ Worker(t)
      BY <2>3, <3>2, BarrierGoes, WorkerGoes
    <3> QED  BY <1>1, <3>1, <3>2
  <2> QED  BY <2>1, <2>2, <2>3
<1>2. CASE UNCHANGED vars
  BY <1>2 DEF vars, Promise!vars, Running, At, nth
<1> QED  BY <1>1, <1>2, CallSteps DEF Next, GraphComputes
-----------------------------------------------------------------------------
(* Every part is computed, in one hand, or open: in every behaviour.       *)
THEOREM WorkTallied == Spec => []WorkInvariant
BY InitInv, NextInv, WorkInit, WorkNext, PTL DEF Spec

(* ThreadPool implements GraphCompute: what ggml_graph_compute promises    *)
(* holds of its threads, whatever the order of their steps.                *)
THEOREM ImplementsGraphCompute == Spec => Implements
<1>1. Spec => [](Inv /\ WorkInvariant)
  BY Invariance, WorkTallied, PTL
<1>2. Inv /\ WorkInvariant => (At(0, "idle") /\ nth # 0 => AllDone)
  BY DoneAtEnd
<1>3. Init => Promise!Init
  BY InitImplements
<1>4. Inv /\ WorkInvariant /\ (At(0, "idle") /\ nth # 0 => AllDone)' /\ [Next]_vars
        => [Promise!Next]_Promise!vars
  BY NextImplements
<1> QED  BY <1>1, <1>2, <1>3, <1>4, PTL DEF Spec, Implements, Promise!Spec
=============================================================================
