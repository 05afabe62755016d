------------------------- MODULE ServerModelsProofs -------------------------
(***************************************************************************)
(* Proofs about two parts of the server, ServerModels and KvStrategy.      *)
(*                                                                         *)
(* ServerModels first, for every set of models and clients, every limit,   *)
(* and children that crash or do not: a model without a monitor has no     *)
(* process, and an unloaded one has no monitor.                            *)
(*                                                                         *)
(* Neither property is inductive: that a monitor which has ended leaves no *)
(* process depends on what it waited for before, and that nobody changes   *)
(* the status behind its back on the ready line having been read by then.  *)
(* Monitored says how the threads of one instance depend on each other; no *)
(* step changes more than one instance.                                    *)
(***************************************************************************)
EXTENDS ServerModels, KvStrategy, SequenceLemmas, TLAPS

Instances ==
    [status  : {"unloaded", "loading", "loaded"},
     child   : {"none", "starting", "ready", "exited"},
     unread  : BOOLEAN,
     monitor : {"none", "reading", "joining"},
     stopper : {"none", "waiting", "grace", "done"}]

(* The status says that an instance is gone exactly if its monitor is; the *)
(* monitor is the last of its threads to end, and joins after the child.   *)
Monitored(m) ==
    /\ m.status = "unloaded" <=> m.monitor = "none"
    /\ m.monitor = "none" => m.child = "none" /\ m.stopper = "none" /\ ~m.unread
    /\ m.monitor = "joining" => m.child = "exited" /\ ~m.unread

IInv == model \in [Models -> {m \in Instances : Monitored(m)}]

(* A step of one instance that leaves it consistent.                       *)
LEMMA OneInstance ==
    ASSUME IInv, NEW n, NEW m \in Instances, Monitored(m),
           model' = [model EXCEPT ![n] = m]
    PROVE  IInv'
BY DEF IInv

(* Everything that is no step of an instance.                              *)
LEMMA NoInstance == ASSUME IInv, UNCHANGED model PROVE IInv'
BY DEF IInv

(* Every model starts without an instance.                                 *)
LEMMA InitConsistent == Init => IInv
BY DEF Init, IInv, Instances, Monitored, NotLoaded

(* load() starts an instance, whatever was there; the other steps of a     *)
(* client leave the instances alone.                                       *)
LEMMA ClientConsistent ==
    ASSUME IInv, NEW c \in Clients, Client(c)
    PROVE  IInv'
<1> DEFINE n == client[c].name
           m == [NotLoaded EXCEPT !.status = "loading", !.child = "starting",
                                  !.monitor = "reading", !.stopper = "waiting"]
<1>1. CASE model' = [model EXCEPT ![n] = m]
  <2>1. m \in Instances /\ Monitored(m)
    BY DEF Instances, Monitored, NotLoaded
  <2> QED  BY <1>1, <2>1, OneInstance
<1>2. CASE UNCHANGED model
  BY <1>2, NoInstance
<1> QED  BY <1>1, <1>2 DEF Client, UnloadLru, Evict, Evicted, Load, Waited, Proxy

(* The threads of the router and the child process.                        *)
LEMMA InstanceConsistent ==
    ASSUME IInv, NEW n \in Models, Threads(n) \/ Child(n)
    PROVE  IInv'
<1> DEFINE m == model[n]
<1>1. m \in Instances /\ Monitored(m)
  BY DEF IInv
<1>2. CASE NoteReady(n)
  <2> DEFINE r == [m EXCEPT !.status = "loaded", !.unread = FALSE]
  <2>1. r \in Instances /\ Monitored(r)
    BY <1>1, <1>2 DEF NoteReady, Instances, Monitored
  <2>2. model' = [model EXCEPT ![n] = r]
    BY <1>2 DEF NoteReady
  <2> QED  BY <2>1, <2>2, OneInstance
<1>3. CASE Tell(n)
  <2> DEFINE r == [m EXCEPT !.stopper = "grace"]
  <2>1. r \in Instances /\ Monitored(r)
    BY <1>1, <1>3 DEF Tell, Instances, Monitored
  <2>2. model' = [model EXCEPT ![n] = r]
    BY <1>3 DEF Tell
  <2> QED  BY <2>1, <2>2, OneInstance
<1>4. CASE Stopped(n)
  <2> DEFINE r == [m EXCEPT !.stopper = "done"]
  <2>1. r \in Instances /\ Monitored(r)
    BY <1>1, <1>4 DEF Stopped, Instances, Monitored
  <2>2. model' = [model EXCEPT ![n] = r]
    BY <1>4 DEF Stopped
  <2> QED  BY <2>1, <2>2, OneInstance
<1>5. CASE ForceKill(n)
  <2> DEFINE r == [m EXCEPT !.stopper = "done", !.child = "exited"]
  <2>1. r \in Instances /\ Monitored(r)
    BY <1>1, <1>5 DEF ForceKill, Instances, Monitored
  <2>2. model' = [model EXCEPT ![n] = r]
    BY <1>5 DEF ForceKill
  <2> QED  BY <2>1, <2>2, OneInstance
<1>6. CASE EraseStop(n)
  <2> DEFINE r == [m EXCEPT !.monitor = "joining"]
  <2>1. r \in Instances /\ Monitored(r)
    BY <1>1, <1>6 DEF EraseStop, Instances, Monitored
  <2>2. model' = [model EXCEPT ![n] = r]
    BY <1>6 DEF EraseStop
  <2> QED  BY <2>1, <2>2, OneInstance
<1>7. CASE EndInstance(n)
  <2>1. NotLoaded \in Instances /\ Monitored(NotLoaded)
    BY DEF NotLoaded, Instances, Monitored
  <2>2. model' = [model EXCEPT ![n] = NotLoaded]
    BY <1>7 DEF EndInstance
  <2> QED  BY <2>1, <2>2, OneInstance
<1>8. CASE ChildReady(n)
  <2> DEFINE r == [m EXCEPT !.child = "ready", !.unread = TRUE]
  <2>1. r \in Instances /\ Monitored(r)
    BY <1>1, <1>8 DEF ChildReady, Instances, Monitored
  <2>2. model' = [model EXCEPT ![n] = r]
    BY <1>8 DEF ChildReady
  <2> QED  BY <2>1, <2>2, OneInstance
<1>9. CASE ChildExit(n) \/ ChildCrash(n)
  <2> DEFINE r == [m EXCEPT !.child = "exited"]
  <2>1. r \in Instances /\ Monitored(r)
    BY <1>1, <1>9 DEF ChildExit, ChildCrash, Alive, Instances, Monitored
  <2>2. model' = [model EXCEPT ![n] = r]
    BY <1>9 DEF ChildExit, ChildCrash
  <2> QED  BY <2>1, <2>2, OneInstance
<1> QED
  BY <1>2, <1>3, <1>4, <1>5, <1>6, <1>7, <1>8, <1>9 DEF Threads, Child

(* Every step leaves the instances consistent.                             *)
LEMMA StepConsistent == ASSUME IInv, [Next]_vars PROVE IInv'
<1>1. CASE \E c \in Clients : Client(c)
  BY <1>1, ClientConsistent
<1>2. CASE \E n \in Models : Threads(n) \/ Child(n)
  BY <1>2, InstanceConsistent
<1>3. CASE UNCHANGED model
  BY <1>3, NoInstance
<1>4. UNCHANGED model
      \/ (\E c \in Clients : Client(c))
      \/ (\E n \in Models : Threads(n) \/ Child(n))
  BY DEF Next, vars, Begin, Unload, UnloadAll, Close
<1> QED  BY <1>1, <1>2, <1>3, <1>4

(* IInv is an invariant: the monitor is the last thread of its instance.   *)
THEOREM MonitorIsLast == Spec => []IInv
BY InitConsistent, StepConsistent, PTL DEF Spec

(* Nothing the router takes for unloaded has a process: it never starts a  *)
(* second one beside it.                                                   *)
THEOREM OneProcess == Spec => []NoOrphan
<1>1. IInv => NoOrphan
  BY DEF IInv, Monitored, NoOrphan, Alive
<1> QED  BY <1>1, MonitorIsLast, PTL

(* load() never waits, with the mutex held, for a monitor that needs it.   *)
THEOREM LoadDoesNotWait == Spec => []JoinNeverWaits
<1>1. IInv => JoinNeverWaits
  BY DEF IInv, Monitored, JoinNeverWaits
<1> QED  BY <1>1, MonitorIsLast, PTL
-----------------------------------------------------------------------------
(* What an HTTP thread that is not idle knows, and that the list of used   *)
(* models has every active one, once.                                      *)
Works ==
    [name : Models, what : {"request", "load"}, victim : Models,
     pc : {"lru", "evict", "waitLru", "load", "wait", "proxy"}]

Listed ==
    /\ recent \in Seq(Models)
    /\ \A n \in Models : Once(recent, n) /\ (Holds(recent, n) <=> Active(n))

Inv ==
    /\ IInv
    /\ client \in [Clients -> {Idle} \cup Works]
    /\ stopping \subseteq Models
    /\ Listed
    /\ closing \in {"no", "joining", "closed"}

(* Forget takes one model out of the list, and Used moves it to the end.   *)
LEMMA ForgetListed ==
    ASSUME recent \in Seq(Models), NEW n, NEW k, Once(recent, k)
    PROVE  /\ Forget(n) \in Seq(Models) /\ Once(Forget(n), k)
           /\ Holds(Forget(n), k) <=> Holds(recent, k) /\ k # n
BY HeldRemoveIf DEF Forget

LEMMA UsedListed ==
    ASSUME recent \in Seq(Models), NEW n \in Models, NEW k, Once(recent, k)
    PROVE  /\ Used(n) \in Seq(Models) /\ Once(Used(n), k)
           /\ Holds(Used(n), k) <=> Holds(recent, k) \/ k = n
<1>1. PICK q : q = Forget(n)
  OBVIOUS
<1>2. q \in Seq(Models) /\ Once(q, k) /\ (Holds(q, k) <=> Holds(recent, k) /\ k # n)
  BY <1>1, ForgetListed
<1>3. /\ Append(q, n) \in Seq(Models)
      /\ Holds(Append(q, n), k) <=> Holds(q, k) \/ k = n
      /\ Once(q, k) /\ (k = n => ~Holds(q, k)) => Once(Append(q, n), k)
  BY <1>2, HeldAppend
<1> QED  BY <1>1, <1>2, <1>3 DEF Used

(* A step of one instance that does not change whether it is active.       *)
LEMMA SameActive ==
    ASSUME Inv, UNCHANGED recent, NEW n, NEW m,
           model' = [model EXCEPT ![n] = m],
           (m.status \in {"loading", "loaded"}) <=> Active(n)
    PROVE  Listed'
<1>1. \A k \in Models : Active(k)' <=> Active(k)
  BY DEF Inv, IInv, Active
<1> QED  BY <1>1 DEF Inv, Listed

LEMMA SameListed == ASSUME Inv, UNCHANGED <<model, recent>> PROVE Listed'
BY DEF Inv, Listed, Active

(* At first no model is active and the list is empty.                      *)
LEMMA InitListed == Init => Inv
<1> SUFFICES ASSUME Init PROVE Inv
  OBVIOUS
<1>1. Listed
  <2>1. recent \in Seq(Models) /\ Len(recent) = 0
    BY EmptySeq DEF Init
  <2>2. \A n \in Models : ~Active(n)
    BY DEF Init, NotLoaded, Active
  <2> QED  BY <2>1, <2>2 DEF Listed, Once, Holds
<1> QED  BY <1>1, InitConsistent DEF Init, Inv

(* A client: load() puts its model at the end of the list when it starts   *)
(* it, and a request when it is passed on.                                 *)
LEMMA ClientTyped ==
    ASSUME Inv, NEW c \in Clients, Client(c)
    PROVE  /\ client' \in [Clients -> {Idle} \cup Works]
           /\ stopping' \subseteq Models
           /\ Listed'
<1>1. client[c] \in Works
  BY DEF Inv, Client, UnloadLru, Evict, Evicted, Load, Waited, Proxy, Idle
<1>2. /\ \A pc \in {"lru", "evict", "waitLru", "load", "wait", "proxy"} :
            Goto(c, pc) => client' \in [Clients -> {Idle} \cup Works]
      /\ Return(c) => client' \in [Clients -> {Idle} \cup Works]
  BY <1>1 DEF Inv, Goto, Return, Works
<1> DEFINE n == client[c].name
<1>3. n \in Models /\ client[c].victim \in Models
  BY <1>1 DEF Works
<1>4. CASE UnloadLru(c)
  <2>1. CASE MaxLoaded > 0 /\ Len(recent) >= MaxLoaded
    <3>1. recent # <<>>
      <4>1. MaxLoaded \in Nat /\ Len(recent) \in Nat /\ Len(recent) # 0
        BY <2>1, ServerModelsAssumption, LenProperties DEF Inv, Listed
      <4> QED  BY <4>1
    <3>2. Head(recent) \in Models
      BY <3>1, HeadTailProperties DEF Inv, Listed
    <3>3. client' \in [Clients -> {Idle} \cup Works]
      BY <1>1, <1>4, <2>1, <3>2 DEF UnloadLru, Inv, Works
    <3> QED  BY <1>4, <3>3, SameListed DEF UnloadLru, Inv
  <2>2. CASE Goto(c, "load")
    BY <1>2, <1>4, <2>2, SameListed DEF UnloadLru, Inv
  <2> QED  BY <1>4, <2>1, <2>2 DEF UnloadLru
<1>5. CASE Evict(c)
  <2>1. client' \in [Clients -> {Idle} \cup Works]
    BY <1>2, <1>5 DEF Evict
  <2> QED  BY <1>3, <1>5, <2>1, SameListed DEF Evict, Inv
<1>6. CASE Evicted(c)
  <2>1. client' \in [Clients -> {Idle} \cup Works]
    BY <1>1, <1>6 DEF Evicted, Inv, Works
  <2> QED  BY <1>6, <2>1, SameListed DEF Evicted, Inv
<1>7. CASE Load(c)
  <2>1. client' \in [Clients -> {Idle} \cup Works]
    BY <1>2, <1>7 DEF Load
  <2>2. CASE UNCHANGED <<model, recent>>
    BY <1>7, <2>1, <2>2, SameListed DEF Load, Inv
  <2> DEFINE m == [NotLoaded EXCEPT !.status = "loading", !.child = "starting",
                                    !.monitor = "reading", !.stopper = "waiting"]
  <2>3. CASE model' = [model EXCEPT ![n] = m] /\ recent' = Used(n)
    <3>1. \A k \in Models : Active(k)' <=> (Active(k) \/ k = n)
      BY <1>3, <2>3 DEF Inv, IInv, Active, NotLoaded
    <3>2. recent' \in Seq(Models)
      BY <1>3, <2>3, UsedListed DEF Inv, Listed
    <3>3. ASSUME NEW k \in Models
          PROVE  Once(recent, k)' /\ (Holds(recent, k)' <=> Active(k)')
      <4>1. recent \in Seq(Models) /\ Once(recent, k) /\ (Holds(recent, k) <=> Active(k))
        BY DEF Inv, Listed
      <4>2. /\ Once(Used(n), k)
            /\ Holds(Used(n), k) <=> Holds(recent, k) \/ k = n
        BY <1>3, <4>1, UsedListed
      <4> QED  BY <2>3, <3>1, <4>1, <4>2 DEF Once, Holds
    <3>4. Listed'
      BY <3>2, <3>3 DEF Listed
    <3> QED  BY <1>7, <2>1, <3>4 DEF Load, Inv
  <2> QED  BY <1>7, <2>2, <2>3 DEF Load
<1>8. CASE Waited(c)
  BY <1>2, <1>8, SameListed DEF Waited, Inv
<1>9. CASE Proxy(c)
  <2>1. client' \in [Clients -> {Idle} \cup Works] /\ stopping' \subseteq Models
    BY <1>2, <1>9 DEF Proxy, Inv
  <2>2. CASE recent' = recent
    BY <1>9, <2>1, <2>2, SameListed DEF Proxy
  <2>3. CASE recent' = Used(n) /\ model[n].status = "loaded"
    <3>1. Active(n) /\ \A k \in Models : Active(k)' <=> Active(k)
      BY <1>9, <2>3 DEF Proxy, Active
    <3>2. recent' \in Seq(Models)
      BY <1>3, <2>3, UsedListed DEF Inv, Listed
    <3>3. ASSUME NEW k \in Models
          PROVE  Once(recent, k)' /\ (Holds(recent, k)' <=> Active(k)')
      <4>1. recent \in Seq(Models) /\ Once(recent, k) /\ (Holds(recent, k) <=> Active(k))
        BY DEF Inv, Listed
      <4>2. /\ Once(Used(n), k)
            /\ Holds(Used(n), k) <=> Holds(recent, k) \/ k = n
        BY <1>3, <4>1, UsedListed
      <4> QED  BY <2>3, <3>1, <4>1, <4>2 DEF Once, Holds
    <3> QED  BY <2>1, <3>2, <3>3 DEF Listed
  <2> QED  BY <1>9, <2>2, <2>3 DEF Proxy
<1> QED  BY <1>4, <1>5, <1>6, <1>7, <1>8, <1>9 DEF Client

(* An instance stays active until its monitor ends it and takes it off the *)
(* list; NoteReady finds it active, as the ready line is read before that. *)
LEMMA InstanceTyped ==
    ASSUME Inv, NEW n \in Models, Threads(n) \/ Child(n)
    PROVE  stopping' \subseteq Models /\ Listed'
<1> DEFINE m == model[n]
<1>1. m \in Instances /\ Monitored(m)
  BY DEF Inv, IInv
<1>2. CASE EndInstance(n)
  <2>1. \A k \in Models : Active(k)' <=> Active(k) /\ k # n
    BY <1>2 DEF EndInstance, Inv, IInv, Active, NotLoaded
  <2>2. recent' = Forget(n) /\ stopping' = stopping
    BY <1>2 DEF EndInstance
  <2>3. recent' \in Seq(Models)
    BY <2>2, HeldRemoveIf DEF Inv, Listed, Forget
  <2>4. ASSUME NEW k \in Models
        PROVE  Once(recent, k)' /\ (Holds(recent, k)' <=> Active(k)')
    <3>1. recent \in Seq(Models) /\ Once(recent, k) /\ (Holds(recent, k) <=> Active(k))
      BY DEF Inv, Listed
    <3>2. /\ Once(Forget(n), k)
          /\ Holds(Forget(n), k) <=> Holds(recent, k) /\ k # n
      BY <3>1, ForgetListed
    <3> QED  BY <2>1, <2>2, <3>1, <3>2 DEF Once, Holds
  <2> QED  BY <2>2, <2>3, <2>4 DEF Listed, Inv
<1>3. CASE NoteReady(n)
  <2> DEFINE r == [m EXCEPT !.status = "loaded", !.unread = FALSE]
  <2>1. /\ model' = [model EXCEPT ![n] = r] /\ UNCHANGED <<recent, stopping>>
        /\ (r.status \in {"loading", "loaded"}) <=> Active(n)
    BY <1>1, <1>3 DEF NoteReady, Instances, Monitored, Active
  <2> QED  BY <2>1, SameActive DEF Inv
<1>4. CASE EraseStop(n)
  <2> DEFINE r == [m EXCEPT !.monitor = "joining"]
  <2>1. /\ model' = [model EXCEPT ![n] = r] /\ UNCHANGED recent /\ stopping' \subseteq stopping
        /\ (r.status \in {"loading", "loaded"}) <=> Active(n)
    BY <1>1, <1>4 DEF EraseStop, Instances, Active
  <2> QED  BY <2>1, SameActive DEF Inv
<1>5. ASSUME NEW r, model' = [model EXCEPT ![n] = r], r.status = m.status,
             UNCHANGED <<recent, stopping>>
      PROVE  stopping' \subseteq Models /\ Listed'
  BY <1>5, SameActive DEF Inv, Active
<1>6. CASE Tell(n)
  <2> DEFINE r == [m EXCEPT !.stopper = "grace"]
  <2>1. model' = [model EXCEPT ![n] = r] /\ r.status = m.status /\ UNCHANGED <<recent, stopping>>
    BY <1>1, <1>6 DEF Tell, Instances
  <2> QED  BY <1>5, <2>1
<1>7. CASE Stopped(n)
  <2> DEFINE r == [m EXCEPT !.stopper = "done"]
  <2>1. model' = [model EXCEPT ![n] = r] /\ r.status = m.status /\ UNCHANGED <<recent, stopping>>
    BY <1>1, <1>7 DEF Stopped, Instances
  <2> QED  BY <1>5, <2>1
<1>8. CASE ForceKill(n)
  <2> DEFINE r == [m EXCEPT !.stopper = "done", !.child = "exited"]
  <2>1. model' = [model EXCEPT ![n] = r] /\ r.status = m.status /\ UNCHANGED <<recent, stopping>>
    BY <1>1, <1>8 DEF ForceKill, Instances
  <2> QED  BY <1>5, <2>1
<1>9. CASE ChildReady(n)
  <2> DEFINE r == [m EXCEPT !.child = "ready", !.unread = TRUE]
  <2>1. model' = [model EXCEPT ![n] = r] /\ r.status = m.status /\ UNCHANGED <<recent, stopping>>
    BY <1>1, <1>9 DEF ChildReady, Instances
  <2> QED  BY <1>5, <2>1
<1>10. CASE ChildExit(n) \/ ChildCrash(n)
  <2> DEFINE r == [m EXCEPT !.child = "exited"]
  <2>1. model' = [model EXCEPT ![n] = r] /\ r.status = m.status /\ UNCHANGED <<recent, stopping>>
    BY <1>1, <1>10 DEF ChildExit, ChildCrash, Instances
  <2> QED  BY <1>5, <2>1
<1> QED
  BY <1>2, <1>3, <1>4, <1>6, <1>7, <1>8, <1>9, <1>10 DEF Threads, Child

(* What a new request notes.                                               *)
LEMMA BeginTyped ==
    ASSUME Inv, NEW c \in Clients, NEW n \in Models, NEW what \in {"request", "load"},
           Begin(c, n, what)
    PROVE  client' \in [Clients -> {Idle} \cup Works]
<1> DEFINE w == [name |-> n, what |-> what, victim |-> n,
                 pc |-> IF what = "load" \/ model[n].status = "unloaded" THEN "lru"
                        ELSE IF model[n].status = "loading" THEN "wait" ELSE "proxy"]
<1>1. w \in Works
  BY DEF Works
<1>2. client' = [client EXCEPT ![c] = w]
  BY DEF Begin
<1> QED  BY <1>1, <1>2 DEF Inv

(* Inv is an invariant, and TypeOK follows: the list of used models, which *)
(* unload_lru searches, is a permutation of the active ones.               *)
THEOREM TypeCorrect == Spec => []TypeOK
<1>1. ASSUME Inv, [Next]_vars PROVE Inv'
  <2>1. IInv'
    BY <1>1, StepConsistent DEF Inv
  <2>2. CASE \E c \in Clients : Client(c)
    <3>1. closing' = closing
      BY <2>2 DEF Client, UnloadLru, Evict, Evicted, Load, Waited, Proxy
    <3> QED  BY <1>1, <2>1, <2>2, <3>1, ClientTyped DEF Inv
  <2>3. CASE \E c \in Clients, n \in Models, what \in {"request", "load"} : Begin(c, n, what)
    <3>1. client' \in [Clients -> {Idle} \cup Works]
      BY <1>1, <2>3, BeginTyped
    <3> QED  BY <1>1, <2>1, <2>3, <3>1, SameListed DEF Begin, Inv
  <2>4. CASE \E n \in Models : Threads(n) \/ Child(n)
    <3>1. UNCHANGED <<client, closing>>
      BY <2>4 DEF Threads, Child, NoteReady, Tell, Stopped, ForceKill, EraseStop, EndInstance,
                  ChildReady, ChildExit, ChildCrash
    <3> QED  BY <1>1, <2>1, <2>4, <3>1, InstanceTyped DEF Inv
  <2>5. CASE (\E n \in Models : Unload(n)) \/ UnloadAll \/ Close
    <3>1. /\ UNCHANGED <<model, recent, client>>
          /\ stopping' \subseteq Models
          /\ closing' \in {"no", "joining", "closed"}
      BY <1>1, <2>5 DEF Unload, UnloadAll, Close, Inv
    <3> QED  BY <1>1, <2>1, <3>1, SameListed DEF Inv
  <2>6. CASE UNCHANGED vars
    BY <1>1, <2>1, <2>6, SameListed DEF vars, Inv
  <2> QED  BY <1>1, <2>2, <2>3, <2>4, <2>5, <2>6 DEF Next
<1>2. ASSUME Inv PROVE TypeOK
  <2>1. IsInjective(recent)
    <3>1. recent \in Seq(Models) /\ \A k \in Models : Once(recent, k)
      BY <1>2 DEF Inv, Listed
    <3>2. \A i \in 1 .. Len(recent) : recent[i] \in Models
      BY <3>1, ElementOfSeq
    <3>3. DOMAIN recent = 1 .. Len(recent)
      BY <3>1, LenProperties
    <3> QED  BY <3>1, <3>2, <3>3 DEF IsInjective, Once
  <2>2. Range(recent) = {n \in Models : Active(n)}
    <3>1. recent \in Seq(Models) /\ \A k \in Models : Holds(recent, k) <=> Active(k)
      BY <1>2 DEF Inv, Listed
    <3>2. \A i \in 1 .. Len(recent) : recent[i] \in Models
      BY <3>1, ElementOfSeq
    <3>3. DOMAIN recent = 1 .. Len(recent)
      BY <3>1, LenProperties
    <3> QED  BY <3>1, <3>2, <3>3 DEF Range, Holds
  <2>3. \A n \in Models : model[n] \in Instances
    BY <1>2 DEF Inv, IInv
  <2> QED  BY <1>2, <2>1, <2>2, <2>3 DEF TypeOK, Inv, Instances
<1> QED  BY <1>1, <1>2, InitListed, PTL DEF Spec
-----------------------------------------------------------------------------
(***************************************************************************)
(* The KV strategies, which share nothing with the router.                 *)
(*                                                                         *)
(* What the cooldown is measured from is last_rebuild_us_, which only      *)
(* apply_decision sets; that it is the time of the last rebuild (Cooldown) *)
(* is the strengthening RebuildsApart needs.                               *)
(*                                                                         *)
(* ContextOutlivesTasks needs two: that the loop does not wait while a     *)
(* task has a slot unless update_slots has posted its NEXT_RESPONSE        *)
(* (Driven), and that no task has a slot while there is no context         *)
(* (Quiet).                                                                *)
(***************************************************************************)
USE KvStrategyAssumption

Cooldown == rebuilt # -1 => last = rebuilt

Driven ==
    /\ main = "slots" => posted
    /\ main = "wait" => posted \/ AllIdle

Quiet ==
    /\ server # "up" => AllIdle
    /\ server = "asleep" => main = "wait" /\ ~posted

StrategyInv == StrategyTypeOK /\ Cooldown /\ Driven /\ Quiet

(* No strategy decides for anything but a level.                           *)
LEMMA TargetsAreLevels ==
    ASSUME NEW source, NEW config \in Strategies(source)
    PROVE  Targets(config) \subseteq Levels
BY DEF Strategies, Targets, ThresholdLevel, AdaptiveLevel, Levels

(* The server starts with the type it was given.                           *)
LEMMA InitStrategy == StrategyInit => StrategyInv
<1> SUFFICES ASSUME StrategyInit PROVE StrategyInv
  OBVIOUS
<1>1. posted \in BOOLEAN
  BY Zenon DEF StrategyInit
<1>2. Driven /\ Quiet
  BY DEF StrategyInit, Driven, Quiet
<1>3. {last, evaluated, now} \subseteq 0..MaxTime /\ rebuilt \in -1..MaxTime
  BY DEF StrategyInit, MinRebuildInterval
<1> QED  BY <1>1, <1>2, <1>3 DEF StrategyInit, StrategyInv, StrategyTypeOK, Cooldown, Levels

(* A rebuild, done, refused or failed, keeps the types and what the        *)
(* cooldown is measured from, and touches nothing while a task has a slot. *)
LEMMA RebuildKeeps ==
    ASSUME StrategyInv, NEW config \in {startup} \cup Strategies("api"), NEW t \in Levels,
           Rebuild(config, t), server \in {"up", "lost"}
    PROVE  /\ server' \in {"up", "lost", "aborted"}
           /\ level' \in Levels /\ type' \in Levels \cup {"other"}
           /\ strategy' \in {startup} \cup Strategies("api")
           /\ last' \in 0..MaxTime /\ rebuilt' \in -1..MaxTime
           /\ rebuilt' # -1 => last' = rebuilt'
           /\ ~AllIdle => UNCHANGED <<type, server>>
BY DEF StrategyInv, StrategyTypeOK, Cooldown, Rebuild

(* The SET task, also when the cooldown suppresses the rebuild.            *)
LEMMA SetInv ==
    ASSUME StrategyInv, NEW config \in Strategies("api"), Set(config)
    PROVE  StrategyInv' /\ (~AllIdle => UNCHANGED <<type, server>>)
<1>1. PICK t \in Targets(config) :
        IF RequiresRebuild(t)
        THEN Rebuild(config, t)
        ELSE strategy' = config /\ level' = t /\ UNCHANGED <<type, server, last, rebuilt>>
  BY DEF Set
<1>2. t \in Levels
  BY TargetsAreLevels
<1>3. /\ UNCHANGED <<used, main, posted, startup, evaluated, now>>
      /\ main = "tasks" /\ server \in {"up", "lost"}
  BY DEF Set, Taking
<1>4. /\ server' \in {"up", "lost", "aborted"}
      /\ level' \in Levels /\ type' \in Levels \cup {"other"}
      /\ strategy' \in {startup} \cup Strategies("api")
      /\ last' \in 0..MaxTime /\ rebuilt' \in -1..MaxTime
      /\ rebuilt' # -1 => last' = rebuilt'
      /\ ~AllIdle => UNCHANGED <<type, server>>
  <2>1. CASE Rebuild(config, t)
    BY <1>2, <1>3, <2>1, RebuildKeeps
  <2>2. CASE strategy' = config /\ level' = t /\ UNCHANGED <<type, server, last, rebuilt>>
    BY <1>2, <1>3, <2>2 DEF StrategyInv, StrategyTypeOK, Cooldown
  <2> QED  BY <1>1, <2>1, <2>2
<1> QED  BY <1>3, <1>4 DEF StrategyInv, StrategyTypeOK, Cooldown, Driven, Quiet, AllIdle, Busy

(* update_slots begins, with the periodic evaluation.                      *)
LEMMA UpdateInv ==
    ASSUME StrategyInv, Update
    PROVE  StrategyInv' /\ (~AllIdle => UNCHANGED <<type, server>>)
<1>1. /\ UNCHANGED <<used, startup, now>>
      /\ main = "tasks" /\ server \in {"up", "lost"}
  BY DEF Update, Taking
<1>2. CASE AllIdle /\ main' = "wait" /\ UNCHANGED <<posted, evaluated, cacheVars>>
  BY <1>1, <1>2
     DEF StrategyInv, StrategyTypeOK, Cooldown, Driven, Quiet, AllIdle, Busy, cacheVars
<1>3. CASE ~AllIdle /\ main' = "slots" /\ posted' = TRUE /\ Evaluate
  <2>1. evaluated' \in 0..MaxTime
    BY <1>3 DEF Evaluate, StrategyInv, StrategyTypeOK
  <2> DEFINE Kept ==
        /\ level' \in Levels /\ type' \in Levels \cup {"other"}
        /\ strategy' \in {startup} \cup Strategies("api")
        /\ last' \in 0..MaxTime /\ rebuilt' \in -1..MaxTime
        /\ rebuilt' # -1 => last' = rebuilt'
        /\ UNCHANGED <<type, server>>
  <2>2. Kept
    <3>1. CASE UNCHANGED cacheVars
      BY <3>1 DEF cacheVars, StrategyInv, StrategyTypeOK, Cooldown
    <3>2. ASSUME NEW t \in Targets(strategy), Rebuild(strategy, t)
          PROVE  Kept
      <4>1. t \in Levels /\ strategy \in {startup} \cup Strategies("api")
        BY TargetsAreLevels DEF StrategyInv, StrategyTypeOK, Default, Strategies
      <4> QED  BY <1>1, <1>3, <3>2, <4>1, RebuildKeeps
    <3> QED  BY <1>3, <3>1, <3>2 DEF Evaluate, cacheVars
  <2>3. server = "up" /\ server' = "up"
    BY <1>3, <2>2 DEF StrategyInv, Quiet
  <2>4. posted' \in BOOLEAN
    BY <1>3, Zenon
  <2>5. Driven' /\ Quiet'
    BY <1>3, <2>3 DEF Driven, Quiet
  <2> QED  BY <1>1, <1>3, <2>1, <2>2, <2>3, <2>4, <2>5
           DEF StrategyInv, StrategyTypeOK, Cooldown
<1>4. CASE AllIdle
  BY <1>2, <1>4 DEF Update
<1>5. CASE ~AllIdle
  BY <1>3, <1>5, Zenon DEF Update
<1> QED  BY <1>4, <1>5

(* The steps that set no strategy.                                         *)
LEMMA WorkInv ==
    ASSUME StrategyInv,
           \/ \E s \in Slots, n \in Fills : Launch(s, n)
           \/ \E s \in Slots, n \in Fills \cup {NoTask} : Progress(s, n)
           \/ \E s \in Slots : Cancel(s)
           \/ TakeNext \/ Computed \/ HasTasks \/ Sleep \/ Wake \/ Advance
    PROVE  StrategyInv' /\ (~AllIdle => UNCHANGED <<type, server>>)
<1>1. ASSUME NEW s \in Slots, NEW n \in Fills, Launch(s, n)
      PROVE  StrategyInv' /\ (~AllIdle => UNCHANGED <<type, server>>)
  BY <1>1 DEF StrategyInv, StrategyTypeOK, Cooldown, Driven, Quiet, AllIdle, Busy, Launch, Taking
<1>2. ASSUME NEW s \in Slots, NEW n \in Fills \cup {NoTask}, Progress(s, n)
      PROVE  StrategyInv' /\ (~AllIdle => UNCHANGED <<type, server>>)
  BY <1>2
     DEF StrategyInv, StrategyTypeOK, Cooldown, Driven, Quiet, AllIdle, Busy, Progress, cacheVars
<1>3. ASSUME NEW s \in Slots, Cancel(s)
      PROVE  StrategyInv' /\ (~AllIdle => UNCHANGED <<type, server>>)
  BY <1>3
     DEF StrategyInv, StrategyTypeOK, Cooldown, Driven, Quiet, AllIdle, Busy, Cancel, Taking,
         cacheVars
<1>4. CASE TakeNext \/ Computed \/ HasTasks
  <2>1. posted' \in BOOLEAN
    <3>1. posted' = posted \/ posted' = FALSE
      BY <1>4, Zenon DEF TakeNext, Computed, HasTasks
    <3>2. posted \in BOOLEAN
      BY DEF StrategyInv, StrategyTypeOK
    <3> QED  BY <3>1, <3>2, Zenon
  <2>2. /\ main' \in {"tasks", "slots", "wait"}
        /\ UNCHANGED <<used, startup, evaluated, now, cacheVars>>
    BY <1>4 DEF StrategyInv, StrategyTypeOK, TakeNext, Taking, Computed, HasTasks, cacheVars
  <2>3. Driven' /\ Quiet'
    BY <1>4, <2>2
       DEF StrategyInv, Driven, Quiet, AllIdle, Busy, TakeNext, Taking, Computed, HasTasks,
           cacheVars
  <2> QED  BY <2>1, <2>2, <2>3 DEF StrategyInv, StrategyTypeOK, Cooldown, cacheVars
<1>5. CASE Sleep \/ Wake
  BY <1>5 DEF StrategyInv, StrategyTypeOK, Cooldown, Driven, Quiet, AllIdle, Busy, Sleep, Wake
<1>6. CASE Advance
  BY <1>6
     DEF StrategyInv, StrategyTypeOK, Cooldown, Driven, Quiet, AllIdle, Busy, Advance, cacheVars
<1> QED  BY <1>1, <1>2, <1>3, <1>4, <1>5, <1>6

(* Every step keeps the invariant, and the context of the tasks.           *)
LEMMA NextStrategy ==
    StrategyInv /\ [StrategyNext]_strategyVars =>
        StrategyInv' /\ (~AllIdle => UNCHANGED <<type, server>>)
<1>1. CASE UNCHANGED strategyVars
  BY <1>1
     DEF StrategyInv, StrategyTypeOK, Cooldown, Driven, Quiet, AllIdle, Busy, strategyVars,
         cacheVars
<1> QED  BY <1>1, SetInv, UpdateInv, WorkInv DEF StrategyNext

(* The state keeps its type.                                               *)
THEOREM StrategyTypeCorrect == StrategySpec => []StrategyTypeOK
<1>1. StrategyInv => StrategyTypeOK
  BY DEF StrategyInv
<1> QED  BY <1>1, InitStrategy, NextStrategy, PTL DEF StrategySpec

(* Two rebuilds are at least the cooldown apart, whatever strategies are   *)
(* set in between, by whom, and however long the server slept.             *)
THEOREM CooldownHolds == StrategySpec => RebuildsApart
<1>1. StrategyInv /\ [StrategyNext]_strategyVars =>
        [rebuilt' # rebuilt /\ rebuilt # -1 => rebuilt' - rebuilt >= MinRebuildInterval]_strategyVars
  <2> SUFFICES ASSUME StrategyInv, StrategyNext, rebuilt' # rebuilt, rebuilt # -1
               PROVE  rebuilt' - rebuilt >= MinRebuildInterval
    OBVIOUS
  <2>1. \E t : RequiresRebuild(t) /\ rebuilt' = now
    BY DEF StrategyNext, Set, Update, Evaluate, Rebuild, Launch, Progress, Cancel, TakeNext,
           Computed, HasTasks, Sleep, Wake, Advance, cacheVars
  <2>2. now - last >= MinRebuildInterval /\ last = rebuilt
    BY <2>1 DEF RequiresRebuild, StrategyInv, Cooldown
  <2> QED  BY <2>1, <2>2
<1> QED  BY <1>1, InitStrategy, NextStrategy, PTL DEF StrategySpec, RebuildsApart

(* As long as a task has a slot the context and the type of its cache      *)
(* stay, though the sleep does not look at the slots: the loop sleeps only *)
(* with an empty queue, and then no slot has a task (Driven).              *)
THEOREM TasksKeepTheirContext == StrategySpec => ContextOutlivesTasks
<1>1. StrategyInv /\ [StrategyNext]_strategyVars =>
        [~AllIdle => UNCHANGED <<type, server>>]_strategyVars
  BY NextStrategy
<1>2. StrategyInv /\ [StrategyNext]_strategyVars => StrategyInv'
  BY NextStrategy
<1> QED  BY <1>1, <1>2, InitStrategy, PTL DEF StrategySpec, ContextOutlivesTasks

(* The threshold strategy settles at any utilization, from any level.      *)
THEOREM ThresholdLevelSettles ==
    ASSUME level \in Levels, Utilization \in Int
    PROVE  ThresholdSettles
BY DEF Levels, ThresholdSettles, ThresholdLevel, Raised, Hysteresis
=============================================================================
