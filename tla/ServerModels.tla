---------------------------- MODULE ServerModels ----------------------------
(***************************************************************************)
(* The router of llama-server: server_models                               *)
(* (src/tools/server/server-models.cpp) and what its routes and the main   *)
(* function call of it.                                                    *)
(*                                                                         *)
(* A model is served by a child process.  Every instance has a monitor     *)
(* thread, which starts two more: one reads the child's output and notes   *)
(* that it is ready, the other waits for the request to stop it.  HTTP     *)
(* threads load, wait for, use and unload models, and before a load remove *)
(* the least recently used one if there are as many as allowed.  All share *)
(* one mutex; a step below is one section under it, or one action of a     *)
(* process.  The condition variables are notified whenever what is waited  *)
(* for changes, so a wait is a guard; a waiter that does not run in time   *)
(* may miss a state that passes.                                           *)
(***************************************************************************)
EXTENDS Naturals, Sequences, FiniteSets, SequencesExt, RemoveIf

CONSTANTS
    Models,     (* the names in mapping                                    *)
    Clients,    (* HTTP threads                                            *)
    MaxLoaded,  (* models_max; 0: no limit                                 *)
    Crashes     (* whether children may end by themselves                  *)

ASSUME ServerModelsAssumption == MaxLoaded \in Nat /\ Crashes \in BOOLEAN

VARIABLES
    model,      (* mapping: the status, the child and the threads of the   *)
                (* instance; all but the status are "none" without one     *)
    stopping,   (* stopping_models                                         *)
    recent,     (* last_used: the active models, least recently used first *)
    client,     (* what each HTTP thread is doing                          *)
    closing     (* the shutdown of the router                              *)

vars == <<model, stopping, recent, client, closing>>

NotLoaded ==
    [status  |-> "unloaded",
     child   |-> "none",    (* none, starting, ready, exited               *)
     unread  |-> FALSE,     (* its ready line is still in the pipe         *)
     monitor |-> "none",    (* none, reading, joining                      *)
     stopper |-> "none"]    (* none, waiting, grace (the exit command is   *)
                            (* written to the child's stdin), done         *)

Idle == [pc |-> "idle"]

Init ==
    /\ model = [n \in Models |-> NotLoaded]
    /\ stopping = {}
    /\ recent = <<>>
    /\ client = [c \in Clients |-> Idle]
    /\ closing = "no"

Active(n) == model[n].status \in {"loading", "loaded"}
Alive(n)  == model[n].child \in {"starting", "ready"}
Forget(n) == RemoveIf(recent, {n})

WrongUsed(n) == Append(recent, n)

Used(n) == Append(Forget(n), n)

Goto(c, pc) == client' = [client EXCEPT ![c].pc = pc]
Return(c)   == client' = [client EXCEPT ![c] = Idle]
-----------------------------------------------------------------------------
(* The HTTP threads.  A request to be proxied loads its model first        *)
(* (ensure_model_loaded); /models/load only starts to (load).              *)
Begin(c, n, what) ==
    /\ client[c].pc = "idle" /\ closing = "no"
    /\ what = "load" => model[n].status # "loaded"
    /\ client' = [client EXCEPT ![c] =
            [name |-> n, what |-> what, victim |-> n,
             pc |-> IF what = "load" \/ model[n].status = "unloaded" THEN "lru"
                    ELSE IF model[n].status = "loading" THEN "wait" ELSE "proxy"]]
    /\ UNCHANGED <<model, stopping, recent, closing>>

(* unload_lru: the choice of a victim, and its unload in another section. *)
UnloadLru(c) ==
    /\ client[c].pc = "lru"
    /\ IF MaxLoaded > 0 /\ Len(recent) >= MaxLoaded
       THEN client' = [client EXCEPT ![c].pc = "evict", ![c].victim = Head(recent)]
       ELSE Goto(c, "load")
    /\ UNCHANGED <<model, stopping, recent, closing>>

Evict(c) ==
    /\ client[c].pc = "evict"
    /\ stopping' = IF Active(client[c].victim) THEN stopping \cup {client[c].victim} ELSE stopping
    /\ Goto(c, "waitLru")
    /\ UNCHANGED <<model, recent, closing>>

Evicted(c) ==
    /\ client[c].pc = "waitLru"
    /\ model[client[c].victim].status = "unloaded"
    /\ client' = [client EXCEPT ![c].pc = "load", ![c].victim = client[c].name]
    /\ UNCHANGED <<model, stopping, recent, closing>>

(* load: a new instance, or an exception if the process cannot be started. *)
Load(c) ==
    LET n    == client[c].name
        Next == IF client[c].what = "load" THEN Return(c) ELSE Goto(c, "wait")
    IN  /\ client[c].pc = "load"
        /\ \/ /\ model[n].status # "unloaded"
              /\ Next
              /\ UNCHANGED <<model, recent>>
           \/ /\ model[n].status = "unloaded"
              /\ model' = [model EXCEPT ![n] =
                    [NotLoaded EXCEPT !.status = "loading", !.child = "starting",
                                      !.monitor = "reading", !.stopper = "waiting"]]
              /\ recent' = Used(n)
              /\ Next
           \/ /\ model[n].status = "unloaded"
              /\ Return(c)
              /\ UNCHANGED <<model, recent>>
        /\ UNCHANGED <<stopping, closing>>

(* wait_until_loaded. *)
Waited(c) ==
    /\ client[c].pc = "wait"
    /\ model[client[c].name].status # "loading"
    /\ Goto(c, "proxy")
    /\ UNCHANGED <<model, stopping, recent, closing>>

(* The last check of ensure_model_loaded, and proxy_request: both answer   *)
(* with an error if the model is not there.  A POST counts as a use.       *)
Proxy(c) ==
    LET n == client[c].name
    IN  /\ client[c].pc = "proxy"
        /\ recent' \in IF model[n].status = "loaded" THEN {recent, Used(n)} ELSE {recent}
        /\ Return(c)
        /\ UNCHANGED <<model, stopping, closing>>

WrongUnload(n) ==
    /\ closing = "no"
    /\ Active(n)
    /\ stopping' = stopping \cup {n}
    /\ model' = [model EXCEPT ![n].status = "unloaded"]
    /\ recent' = Forget(n)
    /\ UNCHANGED <<client, closing>>

Unload(n) ==
    /\ closing = "no"
    /\ Active(n)
    /\ stopping' = stopping \cup {n}
    /\ UNCHANGED <<model, recent, client, closing>>
-----------------------------------------------------------------------------
(* The threads of an instance. *)

(* The log thread reads the line that says that the child is ready. *)
NoteReady(n) ==
    /\ model[n].unread
    /\ model' = [model EXCEPT ![n].status = "loaded", ![n].unread = FALSE]
    /\ UNCHANGED <<stopping, recent, client, closing>>

Tell(n) ==
    /\ model[n].stopper = "waiting"
    /\ n \in stopping
    /\ model' = [model EXCEPT ![n].stopper = "grace"]
    /\ UNCHANGED <<stopping, recent, client, closing>>

Stopped(n) ==
    /\ model[n].stopper = "grace"
    /\ n \notin stopping
    /\ model' = [model EXCEPT ![n].stopper = "done"]
    /\ UNCHANGED <<stopping, recent, client, closing>>

(* The stop timeout is over. *)
WrongForceKill(n) ==
    /\ model[n].stopper = "grace"
    /\ n \in stopping
    /\ model' = [model EXCEPT ![n].stopper = "done"]
    /\ UNCHANGED <<stopping, recent, client, closing>>

ForceKill(n) ==
    /\ model[n].stopper = "grace"
    /\ n \in stopping
    /\ model' = [model EXCEPT ![n].stopper = "done", ![n].child = "exited"]
    /\ UNCHANGED <<stopping, recent, client, closing>>

(* The monitor thread, when the child's output has ended.  Its last        *)
(* section is the last thing it does.                                      *)
WrongEraseStop(n) ==
    /\ model[n].monitor = "reading"
    /\ model[n].child = "exited" /\ ~model[n].unread
    /\ stopping' = stopping \ {n}
    /\ model' = [model EXCEPT ![n].monitor = "joining", ![n].status = "unloaded"]
    /\ recent' = Forget(n)
    /\ UNCHANGED <<client, closing>>

EraseStop(n) ==
    /\ model[n].monitor = "reading"
    /\ model[n].child = "exited" /\ ~model[n].unread
    /\ stopping' = stopping \ {n}
    /\ model' = [model EXCEPT ![n].monitor = "joining"]
    /\ UNCHANGED <<recent, client, closing>>

EndInstance(n) ==
    /\ model[n].monitor = "joining"
    /\ model[n].stopper = "done"
    /\ model[n].child = "exited"
    /\ model' = [model EXCEPT ![n] = NotLoaded]
    /\ recent' = Forget(n)
    /\ UNCHANGED <<stopping, client, closing>>

(* The child process: it says that it is ready when its model is loaded,   *)
(* reads the exit command after that, and may end by itself at any time.   *)
ChildReady(n) ==
    /\ model[n].child = "starting"
    /\ model' = [model EXCEPT ![n].child = "ready", ![n].unread = TRUE]
    /\ UNCHANGED <<stopping, recent, client, closing>>

ChildExit(n) ==
    /\ model[n].child = "ready" /\ model[n].stopper \in {"grace", "done"}
    /\ model' = [model EXCEPT ![n].child = "exited"]
    /\ UNCHANGED <<stopping, recent, client, closing>>

ChildCrash(n) ==
    /\ Crashes
    /\ Alive(n)
    /\ model' = [model EXCEPT ![n].child = "exited"]
    /\ UNCHANGED <<stopping, recent, client, closing>>
-----------------------------------------------------------------------------
(* The end of the router: the HTTP server has joined its threads, and      *)
(* unload_all stops all models and joins their monitors.                   *)
UnloadAll ==
    /\ closing = "no"
    /\ \A c \in Clients : client[c].pc = "idle"
    /\ closing' = "joining"
    /\ stopping' = stopping \cup {n \in Models : Active(n)}
    /\ UNCHANGED <<model, recent, client>>

Close ==
    /\ closing = "joining"
    /\ \A n \in Models : model[n].monitor = "none"
    /\ closing' = "closed"
    /\ UNCHANGED <<model, stopping, recent, client>>

Client(c) ==
    \/ UnloadLru(c) \/ Evict(c) \/ Evicted(c) \/ Load(c)
    \/ Waited(c) \/ Proxy(c)

Threads(n) == NoteReady(n) \/ Tell(n) \/ Stopped(n) \/ ForceKill(n) \/ EraseStop(n) \/ EndInstance(n)
Child(n)   == ChildReady(n) \/ ChildExit(n) \/ ChildCrash(n)

Next ==
    \/ \E c \in Clients :
        \/ Client(c)
        \/ \E n \in Models, what \in {"request", "load"} : Begin(c, n, what)
    \/ \E n \in Models : Threads(n) \/ Child(n) \/ Unload(n)
    \/ UnloadAll \/ Close
    \/ closing = "closed" /\ UNCHANGED vars

(* Threads go on when they can, and a child that does not crash loads its  *)
(* model.  Nothing is assumed of a child that is told to exit.             *)
Spec ==
    /\ Init /\ [][Next]_vars
    /\ \A c \in Clients : WF_vars(Client(c))
    /\ \A n \in Models : WF_vars(Threads(n)) /\ WF_vars(ChildReady(n))
    /\ WF_vars(Close)
-----------------------------------------------------------------------------
TypeOK ==
    /\ \A n \in Models :
        /\ model[n].status \in {"unloaded", "loading", "loaded"}
        /\ model[n].child \in {"none", "starting", "ready", "exited"}
        /\ model[n].monitor \in {"none", "reading", "joining"}
        /\ model[n].stopper \in {"none", "waiting", "grace", "done"}
        /\ model[n].unread \in BOOLEAN
    /\ stopping \subseteq Models
    /\ IsInjective(recent) /\ Range(recent) = {n \in Models : Active(n)}
    /\ closing \in {"no", "joining", "closed"}

(* load() of server-models.cpp: "old process should have exited already".  *)
(* A model that the router takes for unloaded has no process, whatever the *)
(* order of crashes, kills and reports was, so there are never two.        *)
NoOrphan == \A n \in Models : model[n].status = "unloaded" => ~Alive(n)

(* load() joins the monitor of the old instance with the mutex held, which *)
(* that monitor needs: it has to be past its last section.                 *)
JoinNeverWaits ==
    \A n \in Models : model[n].status = "unloaded" => model[n].monitor = "none"

(* Once the stop thread of an instance has passed the request on, the      *)
(* model is unloaded in the end: its child exits or is killed, or has      *)
(* crashed before or after that, whatever else is asked of the router.     *)
StopEnds == \A n \in Models : model[n].stopper = "grace" ~> model[n].status = "unloaded"

(* Shutting down does not hang on the threads of an instance.  It does, if *)
(* a child has ended by itself and EraseStop took the stop away before the *)
(* stop thread saw it: that thread waits for ever, and its monitor for it. *)
ShutdownEnds == closing = "joining" ~> closing = "closed"

(* server-models.h of wait_until_loaded: "return when the model is loaded  *)
(* or failed to load".  A child that ends by itself is never reported.     *)
LoadingEnds == \A n \in Models : model[n].status = "loading" ~> model[n].status # "loading"

(* README.md of the server, --models-max: "maximum number of models to     *)
(* load simultaneously".  Two threads may pass unload_lru before either    *)
(* loads.                                                                  *)
LimitHolds == MaxLoaded > 0 => Cardinality({n \in Models : Active(n)}) <= MaxLoaded

(* A stop is for the instance that was running when it was asked for.  One *)
(* that comes after EraseStop stays and stops the next instance.           *)
StopIsForCurrent == \A n \in stopping : Active(n)

(* A thread that loads a model does not evict that model: it does, if the  *)
(* model was loaded by another one meanwhile and is the least recent.      *)
NeverEvictsItself == \A c \in Clients : client[c].pc = "evict" => client[c].victim # client[c].name

(* unload_lru waits for its victim only: it may wait again and again, if   *)
(* others load the victim before it runs.                                  *)
EvictionEnds == \A c \in Clients : client[c].pc = "waitLru" ~> client[c].pc # "waitLru"
=============================================================================
