---------------------------- MODULE ServerQueue ----------------------------
(***************************************************************************)
(* The HTTP server's task queue (src/tools/server/server-queue.cpp) with   *)
(* the parts of server_context_impl that feed it: one main thread runs     *)
(* start_loop(), takes tasks, puts them on slots and computes; HTTP        *)
(* threads post tasks and wait for results.                                *)
(*                                                                         *)
(* A critical section of mutex_tasks or of mutex_results is one step, as   *)
(* is what the main thread does between two of them.  condition_tasks is   *)
(* the set of the threads parked on it; notify_one takes any of them out.  *)
(* Waiting for a result polls (HTTP_POLLING_SECONDS), so condition_results *)
(* needs no such set.  A client sends one request of one task; requests of *)
(* several tasks (n_cmpl, batches of prompts) are not modelled.            *)
(*                                                                         *)
(* An operator named Wrong... is no part of the model: it is the operator  *)
(* that follows it with a plausible mistake, which a property must notice  *)
(* when it takes that operator's place.                                    *)
(***************************************************************************)
EXTENDS Integers, Sequences, FiniteSets, SequencesExt, RemoveIf

CONSTANTS
    Clients,    (* HTTP threads; also the id of the task each one posts    *)
    Slots,      (* server_slots                                            *)
    None,       (* no client, no slot                                      *)
    Requests,   (* what clients may ask for                                *)
    MaxTokens,  (* bound on the rounds of update_slots a task may need     *)
    Sleeps,     (* TRUE: --sleep-idle-seconds is given                     *)
    Failures,   (* TRUE: a task may end with an error                      *)
    Hangups,    (* TRUE: a client may close its connection                 *)
    Signals     (* TRUE: SIGINT or SIGTERM may arrive                      *)

(* A completion goes to any slot (None) or asks for one: by its number     *)
(* (id_slot), or by a larger one that get_slot_by_id wraps around.  A slot *)
(* action (save, restore, erase) names its slot.                           *)
Request == [type: {"completion"}, slot: {None}, wraps: {FALSE}]
           \cup [type: {"completion"}, slot: Slots, wraps: BOOLEAN]
           \cup [type: {"action"}, slot: Slots, wraps: BOOLEAN]

ASSUME QueueAssumption ==
    /\ None \notin Clients /\ None \notin Slots
    /\ Slots # {} /\ IsFiniteSet(Slots)
    /\ IsFiniteSet(Clients)
    /\ Requests \subseteq Request
    /\ MaxTokens \in Nat
    /\ {Sleeps, Failures, Hangups, Signals} \subseteq BOOLEAN

Main == "main"
Task == [kind: {"request", "cancel"}, id: Clients] \cup [kind: {"next"}, id: {None}]
Result == [id: Clients, kind: {"partial", "final", "error"}]
ASSUME NamesAssumption == Main \notin Clients /\ None \notin Task

VARIABLES
    tasks,      (* queue_tasks                                             *)
    deferred,   (* queue_tasks_deferred                                    *)
    running,    (* server_queue::running                                   *)
    sleeping,   (* server_queue::sleeping                                  *)
    req,        (* req_stop_sleeping                                       *)
    parked,     (* threads that wait on condition_tasks, not yet notified  *)
    waiting,    (* waiting_task_ids                                        *)
    results,    (* queue_results                                           *)
    slot,       (* the task of each slot, None when it is idle             *)
    tokens,     (* rounds each slot has left before its final result       *)
    main,       (* what the main thread does                               *)
    hand,       (* the task it took from the queue; None                   *)
    todo,       (* slots update_slots has still to go over                 *)
    released,   (* the slot whose callback_on_release is due; None         *)
    client,     (* what each client does                                   *)
    request,    (* what it asks for                                        *)
    answer,     (* history: the result that ended the request              *)
    cancelled,  (* history: clients whose cancel task has been processed   *)
    stopped     (* history: a signal has called terminate()                *)

queues  == <<tasks, deferred>>
loop    == <<running, sleeping, req>>
output  == <<waiting, results>>
slots   == <<slot, tokens>>
mainpc  == <<main, hand, todo, released>>
clients == <<client, request, answer>>
history == <<cancelled, stopped>>
vars    == <<queues, loop, parked, output, slots, mainpc, clients, history>>

Init ==
    /\ tasks = <<>> /\ deferred = <<>>
    /\ running = FALSE /\ sleeping = FALSE /\ req = FALSE
    /\ parked = {}
    /\ waiting = {} /\ results = <<>>
    /\ slot = [s \in Slots |-> None]
    /\ tokens = [s \in Slots |-> 0]
    /\ main = "boot" /\ hand = None /\ todo = {} /\ released = None
    /\ client = [c \in Clients |-> "start"]
    /\ request \in [Clients -> Requests]
    /\ answer = [c \in Clients |-> "none"]
    /\ cancelled = {} /\ stopped = FALSE

NotifyOne ==
    IF parked = {} THEN UNCHANGED parked
    ELSE \E t \in parked : parked' = parked \ {t}
NotifyAll == parked' = {}

ReqTask(c) == [kind |-> "request", id |-> c]
Cancel(c)  == [kind |-> "cancel", id |-> c]
NextTask   == [kind |-> "next", id |-> None]
Without(queue, c) == RemoveIf(queue, {ReqTask(c)})
Busy == {s \in Slots : slot[s] # None}
-----------------------------------------------------------------------------
(* The HTTP threads.                                                       *)
Goto(c, from, to) ==
    /\ client[c] = from
    /\ client' = [client EXCEPT ![c] = to]
    /\ UNCHANGED request

(* The server_res_generator is constructed: wait_until_no_sleep().         *)
Begin(c) ==
    /\ Goto(c, "start", "ready")
    /\ ~Sleeps \/ ~sleeping
    /\ UNCHANGED <<queues, loop, parked, output, slots, mainpc, answer, history>>

(* The model is unloaded: ask the main thread to load it, unless somebody  *)
(* has asked already, and wait.                                            *)
BeginAsleep(c) ==
    /\ Goto(c, "start", "nosleep")
    /\ Sleeps /\ sleeping
    /\ req' = TRUE
    /\ IF req
       THEN parked' = parked \cup {c}
       ELSE \/ parked = {} /\ parked' = {c}
            \/ \E t \in parked : parked' = (parked \ {t}) \cup {c}
    /\ UNCHANGED <<queues, running, sleeping, output, slots, mainpc, answer, history>>

(* It is notified and checks sleeping again.                               *)
WakeClient(c) ==
    /\ c \notin parked
    /\ ~sleeping
    /\ Goto(c, "nosleep", "ready")
    /\ UNCHANGED <<queues, loop, parked, output, slots, mainpc, answer, history>>

ParkAgain(c) ==
    /\ client[c] = "nosleep"
    /\ c \notin parked
    /\ sleeping
    /\ parked' = parked \cup {c}
    /\ UNCHANGED <<queues, loop, output, slots, mainpc, clients, history>>

(* post_task(): first the id is waited for, then the task is queued.       *)
WrongExpect(c) ==
    /\ Goto(c, "ready", "expected")
    /\ UNCHANGED <<queues, loop, parked, output, slots, mainpc, answer, history>>

Expect(c) ==
    /\ Goto(c, "ready", "expected")
    /\ waiting' = waiting \cup {c}
    /\ UNCHANGED <<queues, loop, parked, results, slots, mainpc, answer, history>>

Post(c) ==
    /\ Goto(c, "expected", "receive")
    /\ tasks' = Append(tasks, ReqTask(c))
    /\ NotifyOne
    /\ UNCHANGED <<deferred, loop, output, slots, mainpc, answer, history>>

(* recv_with_timeout() finds the first result of the task.  A partial one  *)
(* is streamed, and next() is called again; an error makes next() call     *)
(* stop(); a final one ends the request.                                   *)
Receive(c) ==
    /\ client[c] = "receive"
    /\ \E i \in DOMAIN results :
          /\ results[i].id = c
          /\ \A j \in 1 .. i - 1 : results[j].id # c
          /\ results' = RemoveAt(results, i)
          /\ LET kind == results[i].kind
             IN  /\ client' = [client EXCEPT ![c] =
                                  CASE kind = "partial" -> "receive"
                                    [] kind = "final"   -> "finish"
                                    [] kind = "error"   -> "stop"]
                 /\ answer' = [answer EXCEPT ![c] = IF kind = "partial" THEN @ ELSE kind]
    /\ UNCHANGED <<queues, loop, parked, waiting, slots, mainpc, request, history>>

(* It times out and the connection is closed (should_stop): the reader is  *)
(* destroyed.  A result that came meanwhile does not matter.               *)
Hangup(c) ==
    /\ Hangups
    /\ Goto(c, "receive", "stop")
    /\ answer' = [answer EXCEPT ![c] = "gone"]
    /\ UNCHANGED <<queues, loop, parked, output, slots, mainpc, history>>

(* stop() of a reader that has all its results.                            *)
Finish(c) ==
    /\ Goto(c, "finish", "done")
    /\ waiting' = waiting \ {c}
    /\ UNCHANGED <<queues, loop, parked, results, slots, mainpc, answer, history>>

(* stop() of one that has not: the id is not waited for any more, then its *)
(* results are dropped, then a cancel task is put in front of the queue.   *)
StopWaiting(c) ==
    /\ Goto(c, "stop", "drop")
    /\ waiting' = waiting \ {c}
    /\ UNCHANGED <<queues, loop, parked, results, slots, mainpc, answer, history>>

WrongDropResults(c) ==
    /\ Goto(c, "drop", "cancel")
    /\ waiting' = waiting \ {c}
    /\ UNCHANGED <<queues, loop, parked, results, slots, mainpc, answer, history>>

DropResults(c) ==
    /\ Goto(c, "drop", "cancel")
    /\ waiting' = waiting \ {c}
    /\ results' = RemoveIf(results, {r \in Result : r.id = c})
    /\ UNCHANGED <<queues, loop, parked, slots, mainpc, answer, history>>

PostCancel(c) ==
    /\ Goto(c, "cancel", "done")
    /\ tasks' = <<Cancel(c)>> \o Without(tasks, c)
    /\ deferred' = Without(deferred, c)
    /\ NotifyOne
    /\ UNCHANGED <<loop, output, slots, mainpc, answer, history>>
-----------------------------------------------------------------------------
(* The main thread: start_loop().                                          *)
StartLoop ==
    /\ main = "boot"
    /\ main' = "tasks"
    /\ running' = TRUE
    /\ UNCHANGED <<queues, sleeping, req, parked, output, slots, hand, todo, released, clients, history>>

Return ==
    /\ main = "tasks"
    /\ ~running
    /\ main' = "down"
    /\ UNCHANGED <<queues, loop, parked, output, slots, hand, todo, released, clients, history>>

TakeTask ==
    /\ main = "tasks"
    /\ running
    /\ tasks # <<>>
    /\ hand' = Head(tasks)
    /\ tasks' = Tail(tasks)
    /\ main' = "process"
    /\ UNCHANGED <<deferred, loop, parked, output, slots, todo, released, clients, history>>

NoMoreTasks ==
    /\ main = "tasks"
    /\ running
    /\ tasks = <<>>
    /\ main' = "update"
    /\ UNCHANGED <<queues, loop, parked, output, slots, hand, todo, released, clients, history>>

(* server_response::send: a result nobody waits for is dropped.            *)
Send(c, kind) ==
    results' = IF c \in waiting THEN Append(results, [id |-> c, kind |-> kind]) ELSE results

(* process_single_task: the slots a completion or an action may run on.    *)
Wanted(c) == IF request[c].slot = None THEN Slots ELSE {request[c].slot}
Processing(type) ==
    /\ main = "process"
    /\ hand.kind = "request"
    /\ request[hand.id].type = type

Done(task) ==
    /\ hand' = None
    /\ main' = "tasks"
    /\ UNCHANGED <<todo, released>>

(* get_available_slot (similarity, then least recent) is any idle slot.    *)
Launch ==
    /\ Processing("completion")
    /\ \E s \in Wanted(hand.id) \ Busy :
          /\ slot' = [slot EXCEPT ![s] = hand.id]
          /\ \E n \in 0 .. MaxTokens : tokens' = [tokens EXCEPT ![s] = n]
    /\ Done(hand)
    /\ UNCHANGED <<queues, loop, parked, output, clients, history>>

(* tokenize_cli_input fails, before a slot is looked for, or               *)
(* launch_slot_with_task (grammar, tokens): the task is dropped.           *)
LaunchFails ==
    /\ Failures
    /\ Processing("completion")
    /\ Send(hand.id, "error")
    /\ Done(hand)
    /\ UNCHANGED <<queues, loop, parked, waiting, slots, clients, history>>

(* The action is done, or fails: check_no_mtmd does so whether the slot is *)
(* busy or not.                                                            *)
Act ==
    /\ Processing("action")
    /\ \/ Wanted(hand.id) \cap Busy = {} /\ Send(hand.id, "final")
       \/ Failures /\ Send(hand.id, "error")
    /\ Done(hand)
    /\ UNCHANGED <<queues, loop, parked, waiting, slots, clients, history>>

(* No slot, or not the one it asks for: defer().                           *)
Defer ==
    /\ main = "process"
    /\ hand.kind = "request"
    /\ Wanted(hand.id) \subseteq Busy
    /\ deferred' = Append(deferred, hand)
    /\ NotifyOne
    /\ Done(hand)
    /\ UNCHANGED <<tasks, loop, output, slots, clients, history>>

(* slot.release(); main goes on to its callback if there is a slot.        *)
Release(s) ==
    /\ slot' = [slot EXCEPT ![s] = None]
    /\ tokens' = [tokens EXCEPT ![s] = 0]
    /\ released' = s
    /\ main' = "release"

ProcessCancel ==
    /\ main = "process"
    /\ hand.kind = "cancel"
    /\ cancelled' = cancelled \cup {hand.id}
    /\ hand' = None
    /\ \/ \E s \in Slots : slot[s] = hand.id /\ Release(s)
       \/ /\ \A s \in Slots : slot[s] # hand.id
          /\ main' = "tasks"
          /\ UNCHANGED <<slots, released>>
    /\ UNCHANGED <<queues, loop, parked, output, todo, clients, stopped>>

ProcessNext ==
    /\ main = "process"
    /\ hand.kind = "next"
    /\ Done(hand)
    /\ UNCHANGED <<queues, loop, parked, output, slots, clients, history>>

(* callback_on_release is pop_deferred_task(id_slot): the first task that  *)
(* asks for the slot, or else the first one, goes to the front.  Only a    *)
(* completion asks for a slot in id_slot, where a number that wraps around *)
(* is no slot's; an action has its slot elsewhere and -1 there.            *)
AsksFor(task, s) == request[task.id] = [type |-> "completion", slot |-> s, wraps |-> FALSE]
Asking(s) == {i \in DOMAIN deferred : AsksFor(deferred[i], s)}

WrongPopped(s) == IF Asking(s) = {} THEN {} ELSE {Min(Asking(s))}

Popped(s) == IF Asking(s) = {} THEN {1} \cap DOMAIN deferred ELSE {Min(Asking(s))}

WrongRemoved(queue, i) == queue

Removed(queue, i) == RemoveAt(queue, i)

PopDeferred ==
    /\ main = "release"
    /\ \/ Popped(released) = {} /\ UNCHANGED queues
       \/ \E i \in Popped(released) :
             /\ tasks' = <<deferred[i]>> \o tasks
             /\ deferred' = Removed(deferred, i)
    /\ NotifyOne
    /\ main' = IF todo = {} THEN "tasks" ELSE "slots"
    /\ todo' = todo \ {released}
    /\ released' = None
    /\ UNCHANGED <<loop, output, slots, hand, clients, history>>

(* update_slots().  Nothing to do when all slots are idle; otherwise a     *)
(* NEXT_RESPONSE task makes the main loop come back, and the slots are     *)
(* gone over, each with its result and its release.  The code does so in   *)
(* several loops by slot number: any order is allowed here.                *)
UpdateIdle ==
    /\ main = "update"
    /\ Busy = {}
    /\ main' = "wait"
    /\ UNCHANGED <<queues, loop, parked, output, slots, hand, todo, released, clients, history>>

WrongPostNext == UNCHANGED <<tasks, parked>>

PostNext ==
    /\ tasks' = Append(tasks, NextTask)
    /\ NotifyOne

UpdateSlots ==
    /\ main = "update"
    /\ Busy # {}
    /\ PostNext
    /\ todo' = Busy
    /\ main' = "slots"
    /\ UNCHANGED <<deferred, loop, output, slots, hand, released, clients, history>>

WrongGoesOn(s) == tokens[s] >= 0

GoesOn(s) == tokens[s] > 0

(* A token, streamed or not; or a part of the prompt.                      *)
Generate(s) ==
    /\ main = "slots"
    /\ s \in todo
    /\ GoesOn(s)
    /\ tokens' = [tokens EXCEPT ![s] = @ - 1]
    /\ Send(slot[s], "partial") \/ UNCHANGED results
    /\ todo' = todo \ {s}
    /\ UNCHANGED <<queues, loop, parked, waiting, slot, main, hand, released, clients, history>>

(* The stop condition, or an error: the slot stays in todo until its       *)
(* callback has run.                                                       *)
Complete(s) ==
    /\ main = "slots"
    /\ s \in todo
    /\ \/ ~GoesOn(s) /\ Send(slot[s], "final")
       \/ Failures /\ Send(slot[s], "error")
    /\ Release(s)
    /\ UNCHANGED <<queues, loop, parked, waiting, hand, todo, clients, history>>

Updated ==
    /\ main = "slots"
    /\ todo = {}
    /\ main' = "wait"
    /\ UNCHANGED <<queues, loop, parked, output, slots, hand, todo, released, clients, history>>

(* The wait for new tasks: at most a second, then sleeping is considered.  *)
HasTasks ==
    /\ main = "wait"
    /\ ~running \/ tasks # <<>>
    /\ main' = "tasks"
    /\ UNCHANGED <<queues, loop, parked, output, slots, hand, todo, released, clients, history>>

Park ==
    /\ main = "wait"
    /\ running /\ tasks = <<>>
    /\ main' = "parked"
    /\ parked' = parked \cup {Main}
    /\ UNCHANGED <<queues, loop, output, slots, hand, todo, released, clients, history>>

WakeUp ==
    /\ main = "parked"
    /\ Main \notin parked
    /\ IF ~running \/ tasks # <<>>
       THEN main' = "tasks" /\ UNCHANGED parked
       ELSE parked' = parked \cup {Main} /\ UNCHANGED main
    /\ UNCHANGED <<queues, loop, output, slots, hand, todo, released, clients, history>>

TimeOut ==
    /\ main = "parked"
    /\ main' = "wait"
    /\ parked' = parked \ {Main}
    /\ UNCHANGED <<queues, loop, output, slots, hand, todo, released, clients, history>>

(* The idle time is over: the model is freed under the lock, and the wait  *)
(* that follows has no limit.  It ends for a request, or terminate().      *)
FallAsleep ==
    /\ Sleeps
    /\ main = "wait"
    /\ running /\ tasks = <<>>
    /\ sleeping' = TRUE
    /\ req' = FALSE
    /\ parked' = parked \cup {Main}
    /\ main' = "asleep"
    /\ UNCHANGED <<queues, running, output, slots, hand, todo, released, clients, history>>

SleepOn ==
    /\ main = "asleep"
    /\ Main \notin parked
    /\ running /\ ~req
    /\ parked' = parked \cup {Main}
    /\ UNCHANGED <<queues, loop, output, slots, mainpc, clients, history>>

LeaveSleep ==
    /\ main = "asleep"
    /\ Main \notin parked
    /\ main' = "tasks"
    /\ \/ ~running /\ UNCHANGED <<sleeping, req, parked>>
       \/ running /\ req /\ sleeping' = FALSE /\ req' = FALSE /\ NotifyAll
    /\ UNCHANGED <<queues, running, output, slots, hand, todo, released, clients, history>>

(* SIGINT or SIGTERM: the handler calls terminate().  It is installed      *)
(* before start_loop() is called.                                          *)
Terminate ==
    /\ Signals
    /\ ~stopped
    /\ stopped' = TRUE
    /\ running' = FALSE
    /\ NotifyAll
    /\ UNCHANGED <<queues, sleeping, req, output, slots, mainpc, clients, cancelled>>
-----------------------------------------------------------------------------
ClientRuns(c) ==
    \/ WakeClient(c) \/ ParkAgain(c)
    \/ Expect(c) \/ Post(c) \/ Receive(c) \/ Finish(c)
    \/ StopWaiting(c) \/ DropResults(c) \/ PostCancel(c)

MainRuns ==
    \/ StartLoop \/ Return \/ TakeTask \/ NoMoreTasks
    \/ Launch \/ LaunchFails \/ Act \/ Defer \/ ProcessCancel \/ ProcessNext
    \/ PopDeferred
    \/ UpdateIdle \/ UpdateSlots \/ Updated
    \/ \E s \in Slots : Generate(s) \/ Complete(s)
    \/ HasTasks \/ Park \/ WakeUp \/ TimeOut
    \/ FallAsleep \/ SleepOn \/ LeaveSleep

Next ==
    \/ MainRuns
    \/ \E c \in Clients : Begin(c) \/ BeginAsleep(c) \/ ClientRuns(c) \/ Hangup(c)
    \/ Terminate

Spec == Init /\ [][Next]_vars

(* The threads are scheduled; nobody has to send a request, to hang up or  *)
(* to send a signal.  Between its waits, which have a time limit unless it *)
(* sleeps, the main thread always has something to do.                     *)
FairSpec ==
    /\ Spec
    /\ WF_vars(MainRuns)
    /\ \A c \in Clients : WF_vars(ClientRuns(c))
-----------------------------------------------------------------------------
Queued(c)   == {i \in DOMAIN tasks : tasks[i] = ReqTask(c)}
Deferred(c) == {i \in DOMAIN deferred : deferred[i] = ReqTask(c)}
OnSlot(c)   == {s \in Slots : slot[s] = c}
InHand(c)   == hand = ReqTask(c)
Places(c)   == Cardinality(Queued(c)) + Cardinality(Deferred(c))
               + Cardinality(OnSlot(c)) + (IF InHand(c) THEN 1 ELSE 0)

(* Every variable has its type, and the main thread holds a task, a        *)
(* released slot or slots to go over only where the code has them.         *)
TypeOK ==
    /\ tasks \in Seq(Task) /\ deferred \in Seq(Task)
    /\ {running, sleeping, req, stopped} \subseteq BOOLEAN
    /\ parked \subseteq Clients \cup {Main}
    /\ waiting \subseteq Clients /\ results \in Seq(Result)
    /\ slot \in [Slots -> Clients \cup {None}]
    /\ tokens \in [Slots -> 0 .. MaxTokens]
    /\ main \in {"boot", "tasks", "process", "release", "update", "slots", "wait",
                 "parked", "asleep", "down"}
    /\ IF main = "process" THEN hand \in Task ELSE hand = None
    /\ IF main = "release" THEN released \in Slots ELSE released = None
    /\ IF main \in {"slots", "release"} THEN todo \subseteq Slots ELSE todo = {}
    /\ client \in [Clients -> {"start", "nosleep", "ready", "expected", "receive", "finish",
                              "stop", "drop", "cancel", "done"}]
    /\ request \in [Clients -> Requests]
    /\ answer \in [Clients -> {"none", "final", "error", "gone"}]
    /\ cancelled \subseteq Clients

(* A task is in one place: the queue, the deferred queue, the main         *)
(* thread's hands or a slot.  In two, it would be computed twice.          *)
OnePlace == \A c \in Clients : Places(c) <= 1

(* While a client waits for a result its task is somewhere, or a result of *)
(* it is in the queue: no interleaving of post, defer, pop, cancel and     *)
(* send loses the one or the other (server-queue.cpp, recv_with_timeout).  *)
NotLost ==
    \A c \in Clients :
        client[c] = "receive" => Places(c) > 0 \/ \E i \in DOMAIN results : results[i].id = c

(* A result in the queue is for somebody who waits for it, or is in the    *)
(* middle of stop(): results do not pile up for readers that are gone.     *)
NoStray ==
    \A i \in DOMAIN results : results[i].id \in waiting \/ client[results[i].id] = "drop"

(* The main thread does not wait, nor free the model, while a slot has     *)
(* work: the NEXT_RESPONSE task it posts to itself brings it back.         *)
Driven ==
    main \in {"wait", "parked", "asleep"} /\ Busy # {} => tasks # <<>> /\ ~sleeping

(* A client that waits for a result gets it (completions, on any slot or   *)
(* on the one they ask for; no sleep, no errors, nobody hangs up).         *)
Answered == \A c \in Clients : client[c] = "receive" ~> client[c] = "done"

-----------------------------------------------------------------------------
(* What the comments and the documentation say and the code does not do.   *)

(* server-queue.h:40: a task is deferred "until one slot is available".    *)
DeferredUntilAvailable == \A c \in Clients : Deferred(c) # {} ~> Deferred(c) = {}

(* tools/server/README.md:1697: "Any new incoming task will automatically  *)
(* trigger the model to reload."                                           *)
TaskReloads == sleeping /\ tasks # <<>> ~> ~sleeping

(* server-queue.cpp:25: "if this is cancel task make sure to clean up      *)
(* pending tasks": once the cancel task is done, the task is nowhere.      *)
CancelEnds == \A c \in cancelled : Places(c) = 0

(* server.cpp:299: terminate() "will unblock start_loop()".                *)
TerminateUnblocks == stopped ~> main = "down"
=============================================================================
