------------------------- MODULE ServerQueueProofs -------------------------
(***************************************************************************)
(* The safety of the queue of tasks and of the results, for every number   *)
(* of HTTP threads and slots.  Inv says where the task of each client is   *)
(* (Alone), what that means for the client (Requested), what is in the     *)
(* queue of results (Ordered), and when the main thread may rest (Loop).   *)
(* The four hang together: Requested says that a task in hand or on a slot *)
(* belongs to a client that has posted it and has no final result yet;     *)
(* only with that does a result find a reader, and a task that ends leave  *)
(* nothing behind.                                                         *)
(***************************************************************************)
EXTENDS ServerQueue, SequenceLemmas, FiniteSetTheorems, TLAPS

(* Where the task of a client is, and whether its cancel is under way.     *)
Working(c)    == \E s \in Slots : slot[s] = c
Somewhere(c)  == Holds(tasks, ReqTask(c)) \/ Holds(deferred, ReqTask(c)) \/ InHand(c) \/ Working(c)
Cancelling(c) == Holds(tasks, Cancel(c)) \/ Holds(deferred, Cancel(c)) \/ hand = Cancel(c)

(* It is in one place at most, and there once.                             *)
Alone(c) ==
    /\ Once(tasks, ReqTask(c)) /\ Once(deferred, ReqTask(c))
    /\ \A s, t \in Slots : slot[s] = c /\ slot[t] = c => s = t
    /\ Holds(tasks, ReqTask(c)) => ~Holds(deferred, ReqTask(c)) /\ ~InHand(c) /\ ~Working(c)
    /\ Holds(deferred, ReqTask(c)) => ~InHand(c) /\ ~Working(c)
    /\ InHand(c) => ~Working(c)

(* The states of a client before it posts its task, while its task counts  *)
(* as waiting, and while a result of it may be in the queue.               *)
Before     == {"start", "nosleep", "ready", "expected"}
Expecting  == {"expected", "receive", "finish", "stop"}
Answerable == {"receive", "stop", "drop"}
Ended(c)   == \E i \in 1 .. Len(results) : results[i].id = c /\ results[i].kind # "partial"

(* What a client may rely on.                                              *)
Requested(c) ==
    /\ client[c] \in Before \cup {"finish"} => ~Somewhere(c)
    /\ c \in waiting <=> client[c] \in Expecting
    /\ client[c] = "receive" => Somewhere(c) \/ Ended(c)
    /\ Ended(c) => ~Somewhere(c)
    /\ Cancelling(c) => client[c] = "done"

(* Results have readers, and the last result of a task comes last.         *)
Ordered ==
    /\ \A i \in 1 .. Len(results) : client[results[i].id] \in Answerable
    /\ \A i, j \in 1 .. Len(results) :
          i < j /\ results[i].id = results[j].id => results[i].kind = "partial"

(* With work on a slot the main thread finds a task when it comes to wait. *)
Loop ==
    /\ main = "slots" \/ (main = "release" /\ todo # {}) => tasks # <<>>
    /\ main \in {"wait", "parked", "asleep"} /\ Busy # {} => tasks # <<>>
    /\ sleeping => (main = "asleep" /\ Busy = {}) \/ (main \in {"tasks", "down"} /\ ~running)
    /\ todo \subseteq Busy \cup {released}

Inv == TypeOK /\ (\A c \in Clients : Alone(c) /\ Requested(c)) /\ Ordered /\ Loop
-----------------------------------------------------------------------------
LEMMA NoneIs ==
    /\ None \notin Clients /\ None \notin Slots /\ Main \notin Clients /\ None \notin Task
    /\ MaxTokens \in Nat /\ Requests \subseteq Request
    /\ IsFiniteSet(Slots) /\ IsFiniteSet(Clients)
BY QueueAssumption, NamesAssumption

(* The task that pop_deferred_task takes is one of the deferred ones.      *)
LEMMA PoppedIsDeferred ==
    ASSUME deferred \in Seq(Task), NEW s, NEW i \in Popped(s)
    PROVE  i \in 1 .. Len(deferred)
<1>1. DOMAIN deferred = 1 .. Len(deferred) /\ Len(deferred) \in Nat
  BY LenProperties
<1>2. CASE Asking(s) = {}
  BY <1>1, <1>2 DEF Popped
<1>3. CASE Asking(s) # {}
  <2>1. Asking(s) \in SUBSET Nat
    BY <1>1 DEF Asking
  <2>2. \E m \in Asking(s) : \A k \in Asking(s) : m <= k
    BY <1>3, <2>1, LeastOf
  <2>3. i = Min(Asking(s))
    BY <1>3 DEF Popped
  <2>4. Min(Asking(s)) \in Asking(s)
    BY <2>2 DEF Min
  <2> QED  BY <1>1, <2>3, <2>4 DEF Asking
<1> QED  BY <1>2, <1>3

LEMMA TaskIs ==
    /\ \A c \in Clients : ReqTask(c) \in Task /\ Cancel(c) \in Task
    /\ NextTask \in Task
    /\ \A t \in Task : /\ t.kind = "request" => t.id \in Clients /\ t = ReqTask(t.id)
                       /\ t.kind = "cancel" => t.id \in Clients /\ t = Cancel(t.id)
                       /\ t.kind = "next" => t = NextTask
                       /\ t.kind \in {"request", "cancel", "next"}
BY DEF Task, ReqTask, Cancel, NextTask

LEMMA TasksDiffer ==
    /\ \A c, d : ReqTask(c) # Cancel(d) /\ ReqTask(c) # NextTask /\ Cancel(c) # NextTask
    /\ \A c, d : ReqTask(c) = ReqTask(d) => c = d
    /\ \A c, d : Cancel(c) = Cancel(d) => c = d
    /\ \A c \in Clients : ReqTask(c) # None /\ Cancel(c) # None
    /\ \A c : ReqTask(c).kind = "request" /\ ReqTask(c).id = c
    /\ \A c : Cancel(c).kind = "cancel" /\ Cancel(c).id = c
BY NoneIs, TaskIs DEF ReqTask, Cancel, NextTask
-----------------------------------------------------------------------------
LEMMA InitHolds == Init => Inv
<1> SUFFICES ASSUME Init PROVE Inv
  OBVIOUS
<1> USE DEF Init
<1>1. TypeOK
  <2>1. tasks \in Seq(Task) /\ deferred \in Seq(Task) /\ results \in Seq(Result)
    BY EmptySeq
  <2>2. /\ slot \in [Slots -> Clients \cup {None}]
        /\ tokens \in [Slots -> 0 .. MaxTokens]
        /\ request \in [Clients -> Requests]
    BY NoneIs
  <2>3. /\ client \in [Clients -> {"start", "nosleep", "ready", "expected", "receive", "finish",
                                   "stop", "drop", "cancel", "done"}]
        /\ answer \in [Clients -> {"none", "final", "error", "gone"}]
    OBVIOUS
  <2> QED  BY <2>1, <2>2, <2>3, NoneIs DEF TypeOK
<1>2. \A x : ~Holds(<<>>, x) /\ Once(<<>>, x)
  BY EmptySeq DEF Holds, Once
<1>3. ASSUME NEW c \in Clients PROVE Alone(c) /\ Requested(c)
  <2>1. ~Somewhere(c) /\ ~Cancelling(c) /\ ~InHand(c) /\ ~Working(c)
    BY <1>2, NoneIs, TasksDiffer DEF Somewhere, Cancelling, InHand, Working
  <2>2. ~Ended(c)
    BY EmptySeq DEF Ended
  <2> QED  BY <1>2, <2>1, <2>2, NoneIs DEF Alone, Requested, Before, Expecting, Working
<1>4. Ordered
  BY EmptySeq DEF Ordered
<1>5. Loop
  BY NoneIs DEF Loop, Busy
<1> QED  BY <1>1, <1>3, <1>4, <1>5 DEF Inv

(* Appending a result keeps its type.                                      *)
LEMMA SendTyped ==
    ASSUME TypeOK, NEW c \in Clients, NEW kind \in {"partial", "final", "error"}, Send(c, kind)
    PROVE  results' \in Seq(Result)
<1>1. [id |-> c, kind |-> kind] \in Result
  BY DEF Result
<1> QED  BY <1>1, HeldAppend DEF TypeOK, Send

LEMMA ClientsKeepTypes ==
    ASSUME Inv, NEW c \in Clients,
           Begin(c) \/ BeginAsleep(c) \/ ClientRuns(c) \/ Hangup(c)
    PROVE  TypeOK'
<1> USE NoneIs DEF TypeOK, vars, queues, loop, output, slots, mainpc, clients, history, Goto
<1>0. TypeOK
  BY DEF Inv
<1>1. CASE Begin(c)
  BY <1>0, <1>1 DEF Begin
<1>2. CASE BeginAsleep(c)
  BY <1>0, <1>2 DEF BeginAsleep
<1>3. CASE WakeClient(c)
  BY <1>0, <1>3 DEF WakeClient
<1>4. CASE ParkAgain(c)
  BY <1>0, <1>4 DEF ParkAgain
<1>5. CASE Expect(c)
  BY <1>0, <1>5 DEF Expect
<1>6. CASE Post(c)
  <2>1. tasks' \in Seq(Task)
    BY <1>0, <1>6, TaskIs, HeldAppend DEF Post
  <2> QED  BY <1>0, <1>6, <2>1 DEF Post, NotifyOne
<1>7. CASE Receive(c)
  <2>1. PICK i \in DOMAIN results :
          /\ results' = RemoveAt(results, i)
          /\ client' = [client EXCEPT ![c] =
                            CASE results[i].kind = "partial" -> "receive"
                              [] results[i].kind = "final"   -> "finish"
                              [] results[i].kind = "error"   -> "stop"]
          /\ answer' = [answer EXCEPT ![c] = IF results[i].kind = "partial" THEN @ ELSE results[i].kind]
    BY <1>7 DEF Receive
  <2>2. i \in 1 .. Len(results)
    BY <1>0, <2>1, LenProperties
  <2>3. results' \in Seq(Result) /\ results[i] \in Result
    BY <1>0, <2>1, <2>2, HeldRemoveAt
  <2>4. results[i].kind \in {"partial", "final", "error"}
    BY <2>3 DEF Result
  <2>5. client' \in [Clients -> {"start", "nosleep", "ready", "expected", "receive", "finish",
                                "stop", "drop", "cancel", "done"}]
    BY <1>0, <2>1, <2>4
  <2>6. answer' \in [Clients -> {"none", "final", "error", "gone"}]
    BY <1>0, <2>1, <2>4
  <2> QED  BY <1>0, <1>7, <2>3, <2>5, <2>6 DEF Receive
<1>8. CASE Finish(c)
  BY <1>0, <1>8 DEF Finish
<1>9. CASE StopWaiting(c)
  BY <1>0, <1>9 DEF StopWaiting
<1>10. CASE DropResults(c)
  <2>1. results' \in Seq(Result)
    BY <1>0, <1>10, RemoveIfPicks DEF DropResults
  <2> QED  BY <1>0, <1>10, <2>1 DEF DropResults
<1>11. CASE PostCancel(c)
  <2>1. Without(tasks, c) \in Seq(Task) /\ Without(deferred, c) \in Seq(Task)
    BY <1>0, RemoveIfPicks DEF Without
  <2>2. tasks' \in Seq(Task) /\ deferred' \in Seq(Task)
    BY <1>11, <2>1, TaskIs, HeldCons DEF PostCancel
  <2> QED  BY <1>0, <1>11, <2>2 DEF PostCancel, NotifyOne
<1>12. CASE Hangup(c)
  BY <1>0, <1>12 DEF Hangup
<1> QED  BY <1>1, <1>2, <1>3, <1>4, <1>5, <1>6, <1>7, <1>8, <1>9, <1>10, <1>11, <1>12 DEF ClientRuns

(* What the main thread holds while it processes a task.                   *)
LEMMA HandIs ==
    ASSUME TypeOK, main = "process"
    PROVE  /\ hand \in Task
           /\ hand.kind = "request" => hand.id \in Clients /\ hand = ReqTask(hand.id)
           /\ hand.kind = "cancel" => hand.id \in Clients /\ hand = Cancel(hand.id)
BY TaskIs DEF TypeOK

LEMMA ProcessKeepsTypes ==
    ASSUME Inv, StartLoop \/ Return \/ TakeTask \/ NoMoreTasks \/ Launch \/ LaunchFails \/ Act
                \/ Defer \/ ProcessCancel \/ ProcessNext \/ PopDeferred
    PROVE  TypeOK'
<1> USE NoneIs DEF queues, loop, output, slots, mainpc, clients, history
<1>0. TypeOK
  BY DEF Inv
<1>1. CASE StartLoop
  BY <1>0, <1>1 DEF StartLoop, TypeOK
<1>2. CASE Return
  BY <1>0, <1>2 DEF Return, TypeOK
<1>3. CASE TakeTask
  <2>1. tasks' \in Seq(Task) /\ hand' \in Task
    BY <1>0, <1>3, HeldTail DEF TakeTask, TypeOK
  <2> QED  BY <1>0, <1>3, <2>1 DEF TakeTask, TypeOK
<1>4. CASE NoMoreTasks
  BY <1>0, <1>4 DEF NoMoreTasks, TypeOK
<1>5. CASE Launch
  <2>1. hand.id \in Clients
    BY <1>0, <1>5, HandIs DEF Launch, Processing
  <2>2. slot' \in [Slots -> Clients \cup {None}] /\ tokens' \in [Slots -> 0 .. MaxTokens]
    <3>1. PICK s \in Wanted(hand.id) \ Busy :
            /\ slot' = [slot EXCEPT ![s] = hand.id]
            /\ \E n \in 0 .. MaxTokens : tokens' = [tokens EXCEPT ![s] = n]
      BY <1>5 DEF Launch
    <3>2. PICK n \in 0 .. MaxTokens : tokens' = [tokens EXCEPT ![s] = n]
      BY <3>1
    <3>3. slot' \in [Slots -> Clients \cup {None}]
      BY <1>0, <2>1, <3>1 DEF TypeOK
    <3>4. tokens' \in [Slots -> 0 .. MaxTokens]
      BY <1>0, <3>2 DEF TypeOK
    <3> QED  BY <3>3, <3>4
  <2> QED  BY <1>0, <1>5, <2>2 DEF Launch, Processing, Done, TypeOK
<1>6. CASE LaunchFails
  <2>1. hand.id \in Clients
    BY <1>0, <1>6, HandIs DEF LaunchFails, Processing
  <2>2. results' \in Seq(Result)
    BY <1>0, <1>6, <2>1, SendTyped DEF LaunchFails
  <2> QED  BY <1>0, <1>6, <2>2 DEF LaunchFails, Processing, Done, TypeOK
<1>7. CASE Act
  <2>1. hand.id \in Clients
    BY <1>0, <1>7, HandIs DEF Act, Processing
  <2>2. results' \in Seq(Result)
    BY <1>0, <1>7, <2>1, SendTyped DEF Act
  <2> QED  BY <1>0, <1>7, <2>2 DEF Act, Processing, Done, TypeOK
<1>8. CASE Defer
  <2>1. deferred' \in Seq(Task)
    BY <1>0, <1>8, HandIs, HeldAppend DEF Defer, TypeOK
  <2> QED  BY <1>0, <1>8, <2>1 DEF Defer, NotifyOne, Done, TypeOK
<1>9. CASE ProcessCancel
  <2>1. hand.id \in Clients
    BY <1>0, <1>9, HandIs DEF ProcessCancel
  <2>2. CASE \E s \in Slots : slot[s] = hand.id /\ Release(s)
    BY <1>0, <1>9, <2>1, <2>2 DEF ProcessCancel, Release, TypeOK
  <2>3. CASE main' = "tasks" /\ UNCHANGED <<slots, released>>
    BY <1>0, <1>9, <2>1, <2>3 DEF ProcessCancel, TypeOK
  <2> QED  BY <1>9, <2>2, <2>3 DEF ProcessCancel
<1>10. CASE ProcessNext
  BY <1>0, <1>10 DEF ProcessNext, Done, TypeOK
<1>11. CASE PopDeferred
  <2>1. tasks' \in Seq(Task) /\ deferred' \in Seq(Task)
    <3>1. CASE UNCHANGED queues
      BY <1>0, <3>1 DEF TypeOK
    <3>2. ASSUME NEW i \in Popped(released),
                 tasks' = <<deferred[i]>> \o tasks, deferred' = Removed(deferred, i)
          PROVE  tasks' \in Seq(Task) /\ deferred' \in Seq(Task)
      <4>1. i \in 1 .. Len(deferred)
        BY <1>0, PoppedIsDeferred DEF TypeOK
      <4>2. deferred[i] \in Task /\ deferred' \in Seq(Task)
        BY <1>0, <3>2, <4>1, HeldRemoveAt DEF Removed, TypeOK
      <4> QED  BY <1>0, <3>2, <4>2, HeldCons DEF TypeOK
    <3> QED  BY <1>11, <3>1, <3>2 DEF PopDeferred
  <2>2. main' = (IF todo = {} THEN "tasks" ELSE "slots") /\ todo \subseteq Slots
    BY <1>0, <1>11 DEF PopDeferred, TypeOK
  <2> QED  BY <1>0, <1>11, <2>1, <2>2 DEF PopDeferred, NotifyOne, TypeOK
<1> QED  BY <1>1, <1>2, <1>3, <1>4, <1>5, <1>6, <1>7, <1>8, <1>9, <1>10, <1>11

LEMMA UpdateKeepsTypes ==
    ASSUME Inv, UpdateIdle \/ UpdateSlots \/ Updated \/ HasTasks \/ Park \/ WakeUp \/ TimeOut
                \/ FallAsleep \/ SleepOn \/ LeaveSleep \/ Terminate
                \/ \E s \in Slots : Generate(s) \/ Complete(s)
    PROVE  TypeOK'
<1> USE NoneIs DEF queues, loop, output, slots, mainpc, clients, history
<1>0. TypeOK
  BY DEF Inv
<1>1. CASE UpdateIdle
  BY <1>0, <1>1 DEF UpdateIdle, TypeOK
<1>2. CASE UpdateSlots
  <2>1. tasks' \in Seq(Task)
    BY <1>0, <1>2, TaskIs, HeldAppend DEF UpdateSlots, PostNext, TypeOK
  <2>2. Busy \subseteq Slots
    BY DEF Busy
  <2> QED  BY <1>0, <1>2, <2>1, <2>2 DEF UpdateSlots, PostNext, NotifyOne, TypeOK
<1>3. CASE Updated
  BY <1>0, <1>3 DEF Updated, TypeOK
<1>4. CASE HasTasks
  BY <1>0, <1>4 DEF HasTasks, TypeOK
<1>5. CASE Park
  BY <1>0, <1>5 DEF Park, TypeOK
<1>6. CASE WakeUp
  BY <1>0, <1>6 DEF WakeUp, TypeOK
<1>7. CASE TimeOut
  BY <1>0, <1>7 DEF TimeOut, TypeOK
<1>8. CASE FallAsleep
  BY <1>0, <1>8 DEF FallAsleep, TypeOK
<1>9. CASE SleepOn
  BY <1>0, <1>9 DEF SleepOn, TypeOK
<1>10. CASE LeaveSleep
  BY <1>0, <1>10 DEF LeaveSleep, NotifyAll, TypeOK
<1>11. CASE Terminate
  BY <1>0, <1>11 DEF Terminate, NotifyAll, TypeOK
<1>12. ASSUME NEW s \in Slots, Generate(s) PROVE TypeOK'
  <2>1. slot[s] \in Clients /\ tokens[s] - 1 \in 0 .. MaxTokens
    <3>1. s \in Busy
      BY <1>0, <1>12 DEF Inv, Loop, Generate, TypeOK
    <3>2. slot[s] \in Clients
      BY <1>0, <3>1 DEF Busy, TypeOK
    <3>3. tokens[s] \in 0 .. MaxTokens /\ tokens[s] > 0
      BY <1>0, <1>12 DEF Generate, GoesOn, TypeOK
    <3> QED  BY <3>2, <3>3
  <2>2. results' \in Seq(Result)
    <3>1. CASE Send(slot[s], "partial")
      BY <1>0, <2>1, <3>1, SendTyped
    <3>2. CASE UNCHANGED results
      BY <1>0, <3>2 DEF TypeOK
    <3> QED  BY <1>12, <3>1, <3>2 DEF Generate
  <2>3. tokens' \in [Slots -> 0 .. MaxTokens]
    BY <1>0, <1>12, <2>1 DEF Generate, TypeOK
  <2> QED  BY <1>0, <1>12, <2>2, <2>3 DEF Generate, TypeOK
<1>13. ASSUME NEW s \in Slots, Complete(s) PROVE TypeOK'
  <2>1. slot[s] \in Clients
    <3>1. s \in Busy
      BY <1>0, <1>13 DEF Inv, Loop, Complete, TypeOK
    <3> QED  BY <1>0, <3>1 DEF Busy, TypeOK
  <2>2. results' \in Seq(Result)
    BY <1>0, <1>13, <2>1, SendTyped DEF Complete
  <2>3. slot' \in [Slots -> Clients \cup {None}] /\ tokens' \in [Slots -> 0 .. MaxTokens]
    BY <1>0, <1>13 DEF Complete, Release, TypeOK
  <2> QED  BY <1>0, <1>13, <2>2, <2>3 DEF Complete, Release, TypeOK
<1> QED  BY <1>1, <1>2, <1>3, <1>4, <1>5, <1>6, <1>7, <1>8, <1>9, <1>10, <1>11, <1>12, <1>13
-----------------------------------------------------------------------------
(* Where the tasks are.  A step leaves the task of c alone, moves it from  *)
(* one place to another, or takes it away.                                 *)
Still(c) ==
    /\ Alone(c)'
    /\ Somewhere(c)' <=> Somewhere(c)
    /\ Cancelling(c)' => Cancelling(c)
Ends(c) ==
    /\ Alone(c)'
    /\ ~Somewhere(c)'
    /\ Cancelling(c)' => Cancelling(c)

LEMMA Unmoved ==
    ASSUME Inv, UNCHANGED <<tasks, deferred, slot, hand>>, NEW c \in Clients
    PROVE  Still(c)
BY DEF Inv, Still, Alone, Somewhere, Cancelling, InHand, Working

(* The main thread carries tasks from place to place.                      *)
LEMMA TakeTaskMoves ==
    ASSUME Inv, TakeTask, NEW c \in Clients
    PROVE  Still(c)
<1>1. /\ tasks \in Seq(Task) /\ tasks # <<>> /\ tasks' = Tail(tasks) /\ hand' = Head(tasks)
      /\ hand = None /\ UNCHANGED <<deferred, slot>>
  BY DEF Inv, TypeOK, TakeTask, slots
<1>2. ~InHand(c) /\ hand # Cancel(c)
  BY <1>1, TasksDiffer DEF InHand
<1>3. /\ Holds(tasks, ReqTask(c)) <=> Holds(tasks', ReqTask(c)) \/ ReqTask(c) = hand'
      /\ Once(tasks, ReqTask(c)) => Once(tasks', ReqTask(c)) /\ (ReqTask(c) = hand' => ~Holds(tasks', ReqTask(c)))
      /\ Holds(tasks, Cancel(c)) <=> Holds(tasks', Cancel(c)) \/ Cancel(c) = hand'
  BY <1>1, HeldTail
<1>4. Alone(c)
  BY DEF Inv
<1>5. Working(c)' <=> Working(c)
  BY <1>1 DEF Working
<1>6. InHand(c)' <=> hand' = ReqTask(c)
  BY DEF InHand
<1> QED  BY <1>1, <1>2, <1>3, <1>4, <1>5, <1>6 DEF Still, Alone, Somewhere, Cancelling

LEMMA LaunchMoves ==
    ASSUME Inv, Launch, NEW c \in Clients
    PROVE  Still(c)
<1>1. PICK s \in Wanted(hand.id) \ Busy : slot' = [slot EXCEPT ![s] = hand.id]
  BY DEF Launch
<1>2. /\ hand.id \in Clients /\ hand = ReqTask(hand.id)
      /\ hand' = None /\ UNCHANGED queues /\ slot \in [Slots -> Clients \cup {None}]
  BY HandIs DEF Inv, TypeOK, Launch, Processing, Done
<1>3. s \in Slots /\ slot[s] = None
  <2>1. request[hand.id].slot \in Slots \cup {None}
    <3>1. request[hand.id] \in Request
      BY <1>2, NoneIs DEF Inv, TypeOK
    <3>2. \A r \in Request : r.slot \in Slots \cup {None}
      BY DEF Request
    <3> QED  BY <3>1, <3>2
  <2>2. s \in Slots
    BY <1>1, <2>1 DEF Wanted
  <2> QED  BY <1>1, <2>2 DEF Busy
<1>4. slot'[s] = hand.id /\ \A t \in Slots \ {s} : slot'[t] = slot[t]
  BY <1>1, <1>2, <1>3
<1>5. InHand(c) <=> c = hand.id
  BY <1>2, TasksDiffer DEF InHand
<1>6. ~InHand(c)' /\ hand' # Cancel(c)
  BY <1>2, TasksDiffer DEF InHand
<1>7. Alone(c)
  BY DEF Inv
<1>8. Working(c)' <=> Working(c) \/ c = hand.id
  BY <1>3, <1>4, NoneIs DEF Working
<1>9. \A t, u \in Slots : slot'[t] = c /\ slot'[u] = c => t = u
  BY <1>3, <1>4, <1>5, <1>7, NoneIs DEF Alone, Working
<1> QED  BY <1>2, <1>5, <1>6, <1>7, <1>8, <1>9 DEF Still, Alone, Somewhere, Cancelling, queues

LEMMA DeferMoves ==
    ASSUME Inv, Defer, NEW c \in Clients
    PROVE  Still(c)
<1>1. /\ hand.id \in Clients /\ hand = ReqTask(hand.id) /\ hand \in Task
      /\ hand' = None /\ deferred' = Append(deferred, hand)
      /\ deferred \in Seq(Task) /\ UNCHANGED <<tasks, slot>>
  BY HandIs DEF Inv, TypeOK, Defer, Done, slots
<1>2. /\ Holds(deferred', ReqTask(c)) <=> Holds(deferred, ReqTask(c)) \/ ReqTask(c) = hand
      /\ Once(deferred, ReqTask(c)) /\ (ReqTask(c) = hand => ~Holds(deferred, ReqTask(c)))
            => Once(deferred', ReqTask(c))
      /\ Holds(deferred', Cancel(c)) <=> Holds(deferred, Cancel(c)) \/ Cancel(c) = hand
  BY <1>1, HeldAppend
<1>3. InHand(c) <=> ReqTask(c) = hand
  BY DEF InHand
<1>4. ~InHand(c)' /\ hand' # Cancel(c)
  BY <1>1, TasksDiffer DEF InHand
<1>5. Alone(c)
  BY DEF Inv
<1>6. Working(c)' <=> Working(c)
  BY <1>1 DEF Working
<1> QED  BY <1>1, <1>2, <1>3, <1>4, <1>5, <1>6 DEF Still, Alone, Somewhere, Cancelling

LEMMA ProcessNextMoves ==
    ASSUME Inv, ProcessNext, NEW c \in Clients
    PROVE  Still(c)
<1>1. hand.kind = "next" /\ hand' = None /\ UNCHANGED <<tasks, deferred, slot>>
  BY DEF ProcessNext, Done, queues, slots
<1>2. ~InHand(c) /\ ~InHand(c)' /\ hand' # Cancel(c)
  BY <1>1, TasksDiffer DEF InHand
<1>3. Alone(c)
  BY DEF Inv
<1>4. Working(c)' <=> Working(c)
  BY <1>1 DEF Working
<1> QED  BY <1>1, <1>2, <1>3, <1>4 DEF Still, Alone, Somewhere, Cancelling

LEMMA PopDeferredMoves ==
    ASSUME Inv, PopDeferred, NEW c \in Clients
    PROVE  Still(c)
<1>1. CASE UNCHANGED queues
  BY <1>1, Unmoved DEF PopDeferred, queues, slots
<1>2. ASSUME NEW i \in Popped(released),
             tasks' = <<deferred[i]>> \o tasks, deferred' = Removed(deferred, i)
      PROVE  Still(c)
  <2>1. /\ tasks \in Seq(Task) /\ deferred \in Seq(Task) /\ i \in 1 .. Len(deferred)
        /\ UNCHANGED <<slot, hand>>
    BY PoppedIsDeferred DEF Inv, TypeOK, PopDeferred, slots
  <2>2. PICK t : t = deferred[i]
    OBVIOUS
  <2>3. t \in Task /\ deferred' \in Seq(Task)
    BY <1>2, <2>1, <2>2, HeldRemoveAt DEF Removed
  <2>4. /\ Holds(deferred, ReqTask(c)) <=> Holds(deferred', ReqTask(c)) \/ ReqTask(c) = t
        /\ Once(deferred, ReqTask(c)) =>
              Once(deferred', ReqTask(c)) /\ (ReqTask(c) = t => ~Holds(deferred', ReqTask(c)))
        /\ Holds(deferred, Cancel(c)) <=> Holds(deferred', Cancel(c)) \/ Cancel(c) = t
    BY <1>2, <2>1, <2>2, HeldRemoveAt DEF Removed
  <2>5. /\ Holds(tasks', ReqTask(c)) <=> Holds(tasks, ReqTask(c)) \/ ReqTask(c) = t
        /\ Once(tasks, ReqTask(c)) /\ (ReqTask(c) = t => ~Holds(tasks, ReqTask(c)))
              => Once(tasks', ReqTask(c))
        /\ Holds(tasks', Cancel(c)) <=> Holds(tasks, Cancel(c)) \/ Cancel(c) = t
    BY <1>2, <2>1, <2>2, <2>3, HeldCons
  <2>6. Alone(c)
    BY DEF Inv
  <2>7. (Working(c)' <=> Working(c)) /\ (InHand(c)' <=> InHand(c))
    BY <2>1 DEF Working, InHand
  <2> QED  BY <2>1, <2>4, <2>5, <2>6, <2>7 DEF Still, Alone, Somewhere, Cancelling
<1> QED  BY <1>1, <1>2 DEF PopDeferred

LEMMA UpdateSlotsMoves ==
    ASSUME Inv, UpdateSlots, NEW c \in Clients
    PROVE  Still(c)
<1>1. /\ tasks \in Seq(Task) /\ tasks' = Append(tasks, NextTask)
      /\ UNCHANGED <<deferred, slot, hand>>
  BY DEF Inv, TypeOK, UpdateSlots, PostNext, slots
<1>2. /\ Holds(tasks', ReqTask(c)) <=> Holds(tasks, ReqTask(c))
      /\ Once(tasks, ReqTask(c)) => Once(tasks', ReqTask(c))
      /\ Holds(tasks', Cancel(c)) <=> Holds(tasks, Cancel(c))
  BY <1>1, TaskIs, TasksDiffer, HeldAppend
<1>3. Alone(c)
  BY DEF Inv
<1>4. (Working(c)' <=> Working(c)) /\ (InHand(c)' <=> InHand(c))
  BY <1>1 DEF Working, InHand
<1> QED  BY <1>1, <1>2, <1>3, <1>4 DEF Still, Alone, Somewhere, Cancelling

(* An action and a completion that is not launched end in the hand.        *)
LEMMA HandEnds ==
    ASSUME Inv, LaunchFails \/ Act, NEW c \in Clients
    PROVE  /\ hand.id \in Clients /\ Somewhere(hand.id)
           /\ IF c = hand.id THEN Ends(c) ELSE Still(c)
<1>1. /\ hand.id \in Clients /\ hand = ReqTask(hand.id)
      /\ hand' = None /\ UNCHANGED <<tasks, deferred, slot>>
  BY HandIs DEF Inv, LaunchFails, Act, Processing, Done, queues, slots
<1>2. InHand(c) <=> c = hand.id
  BY <1>1, TasksDiffer DEF InHand
<1>3. ~InHand(c)' /\ hand' # Cancel(c)
  BY <1>1, TasksDiffer DEF InHand
<1>4. Alone(c)
  BY DEF Inv
<1>5. Working(c)' <=> Working(c)
  BY <1>1 DEF Working
<1>6. Somewhere(hand.id)
  BY <1>1 DEF Somewhere, InHand
<1> QED  BY <1>1, <1>2, <1>3, <1>4, <1>5, <1>6 DEF Still, Ends, Alone, Somewhere, Cancelling

(* A slot is released: by a cancel task, or when its task has ended.       *)
LEMMA ReleaseEnds ==
    ASSUME Inv, NEW s \in Slots, slot[s] \in Clients, Release(s),
           UNCHANGED queues, hand' = hand \/ hand' = None, NEW c \in Clients
    PROVE  /\ c # slot[s] /\ hand' = hand => Still(c)
           /\ c # slot[s] /\ hand.kind = "cancel" /\ main = "process" => Still(c)
           /\ c = slot[s] => Ends(c) /\ Somewhere(c)
<1>1. slot' = [slot EXCEPT ![s] = None] /\ slot \in [Slots -> Clients \cup {None}]
  BY DEF Inv, TypeOK, Release
<1>2. slot'[s] = None /\ \A t \in Slots \ {s} : slot'[t] = slot[t]
  BY <1>1
<1>3. Alone(c)
  BY DEF Inv
<1>4. hand' = None => ~InHand(c)' /\ hand' # Cancel(c)
  BY TasksDiffer DEF InHand
<1>5. hand' = hand => (InHand(c)' <=> InHand(c))
  BY DEF InHand
<1>6. main = "process" /\ hand.kind = "cancel" => ~InHand(c)
  BY TasksDiffer DEF InHand
<1>7. CASE c = slot[s]
  <2>1. Working(c)
    BY <1>7 DEF Working
  <2>2. ~Working(c)'
    BY <1>2, <1>3, <1>7, NoneIs DEF Alone, Working
  <2>3. ~InHand(c)'
    BY <1>3, <1>4, <1>5, <2>1 DEF Alone
  <2>4. \A t, u \in Slots : slot'[t] = c /\ slot'[u] = c => t = u
    BY <2>2 DEF Working
  <2> QED  BY <1>3, <1>4, <1>7, <2>1, <2>2, <2>3, <2>4
              DEF Ends, Alone, Somewhere, Cancelling, queues
<1>8. CASE c # slot[s]
  <2>1. Working(c)' <=> Working(c)
    BY <1>2, <1>8, NoneIs DEF Working
  <2>2. \A t, u \in Slots : slot'[t] = c /\ slot'[u] = c => t = u
    BY <1>2, <1>3, <1>8, NoneIs DEF Alone
  <2> QED  BY <1>3, <1>4, <1>5, <1>6, <1>8, <2>1, <2>2
              DEF Still, Alone, Somewhere, Cancelling, queues
<1> QED  BY <1>7, <1>8

LEMMA PostMoves ==
    ASSUME Inv, NEW d \in Clients, Post(d), NEW c \in Clients
    PROVE  /\ c # d => Still(c)
           /\ c = d => Alone(c)' /\ Somewhere(c)' /\ (Cancelling(c)' => Cancelling(c))
<1>1. /\ tasks \in Seq(Task) /\ tasks' = Append(tasks, ReqTask(d))
      /\ UNCHANGED <<deferred, slot, hand>> /\ client[d] = "expected"
  BY DEF Inv, TypeOK, Post, Goto, slots, mainpc
<1>2. ~Somewhere(d)
  BY <1>1 DEF Inv, Requested, Before
<1>3. /\ Holds(tasks', ReqTask(c)) <=> Holds(tasks, ReqTask(c)) \/ c = d
      /\ Once(tasks, ReqTask(c)) /\ (c = d => ~Holds(tasks, ReqTask(c)))
            => Once(tasks', ReqTask(c))
      /\ Holds(tasks', Cancel(c)) <=> Holds(tasks, Cancel(c))
  BY <1>1, TaskIs, TasksDiffer, HeldAppend
<1>4. Alone(c)
  BY DEF Inv
<1>5. (Working(c)' <=> Working(c)) /\ (InHand(c)' <=> InHand(c))
  BY <1>1 DEF Working, InHand
<1> QED  BY <1>1, <1>2, <1>3, <1>4, <1>5 DEF Still, Alone, Somewhere, Cancelling

LEMMA PostCancelMoves ==
    ASSUME Inv, NEW d \in Clients, PostCancel(d), NEW c \in Clients
    PROVE  /\ c # d => Still(c)
           /\ c = d => Alone(c)' /\ (Somewhere(c)' => Somewhere(c))
<1>1. /\ tasks \in Seq(Task) /\ deferred \in Seq(Task)
      /\ tasks' = <<Cancel(d)>> \o Without(tasks, d)
      /\ deferred' = Without(deferred, d)
      /\ UNCHANGED <<slot, hand>>
  BY DEF Inv, TypeOK, PostCancel, slots, mainpc
<1>2. PICK w : w = Without(tasks, d)
  OBVIOUS
<1>8. ASSUME NEW q \in Seq(Task), NEW x
      PROVE  /\ Without(q, d) \in Seq(Task)
             /\ Holds(Without(q, d), x) <=> Holds(q, x) /\ x # ReqTask(d)
             /\ Once(q, x) => Once(Without(q, d), x)
  <2>1. x \notin {ReqTask(d)} <=> x # ReqTask(d)
    OBVIOUS
  <2> QED  BY <2>1, HeldRemoveIf DEF Without
<1>3. /\ w \in Seq(Task)
      /\ Holds(w, ReqTask(c)) <=> Holds(tasks, ReqTask(c)) /\ c # d
      /\ Once(tasks, ReqTask(c)) => Once(w, ReqTask(c))
      /\ Holds(w, Cancel(c)) <=> Holds(tasks, Cancel(c))
  BY <1>1, <1>2, <1>8, TasksDiffer
<1>4. /\ Holds(deferred', ReqTask(c)) <=> Holds(deferred, ReqTask(c)) /\ c # d
      /\ Once(deferred, ReqTask(c)) => Once(deferred', ReqTask(c))
      /\ Holds(deferred', Cancel(c)) <=> Holds(deferred, Cancel(c))
  BY <1>1, <1>8, TasksDiffer
<1>5. /\ Holds(tasks', ReqTask(c)) <=> Holds(w, ReqTask(c))
      /\ Once(w, ReqTask(c)) => Once(tasks', ReqTask(c))
      /\ Holds(tasks', Cancel(c)) <=> Holds(w, Cancel(c)) \/ c = d
  BY <1>1, <1>2, <1>3, TaskIs, TasksDiffer, HeldCons
<1>6. Alone(c)
  BY DEF Inv
<1>7. (Working(c)' <=> Working(c)) /\ (InHand(c)' <=> InHand(c))
  BY <1>1 DEF Working, InHand
<1> QED  BY <1>1, <1>3, <1>4, <1>5, <1>6, <1>7 DEF Still, Alone, Somewhere, Cancelling
-----------------------------------------------------------------------------
(* What clients wait for.  Steps without a result first.                   *)
Answers == (\A c \in Clients : Requested(c)) /\ Ordered

LEMMA QuietStep ==
    ASSUME Inv, UNCHANGED <<client, waiting, results>>,
           \A c \in Clients : Still(c) \/ (Ends(c) /\ client[c] # "receive")
    PROVE  Answers'
<1>1. Ordered'
  BY DEF Inv, Ordered
<1>2. ASSUME NEW c \in Clients PROVE Requested(c)'
  <2>1. Requested(c) /\ (Ended(c)' <=> Ended(c))
    BY DEF Inv, Ended
  <2>2. Somewhere(c)' => Somewhere(c)
    BY DEF Still, Ends
  <2>3. client[c] = "receive" /\ Somewhere(c) => Somewhere(c)'
    BY DEF Still
  <2>4. Cancelling(c)' => Cancelling(c)
    BY DEF Still, Ends
  <2> QED  BY <2>1, <2>2, <2>3, <2>4 DEF Requested
<1> QED  BY <1>1, <1>2 DEF Answers

(* A result is sent while its task is on a slot or in the main thread's    *)
(* hand: so it has not ended before.                                       *)
LEMMA SendStep ==
    ASSUME Inv, NEW c \in Clients, NEW kind \in {"partial", "final", "error"},
           Somewhere(c), Send(c, kind), UNCHANGED <<client, waiting>>,
           \A d \in Clients \ {c} : Still(d),
           IF kind = "partial" THEN Still(c) ELSE Ends(c)
    PROVE  Answers'
<1>1. Requested(c) /\ ~Ended(c) /\ Ordered
  BY DEF Inv, Requested
<1>2. CASE c \notin waiting
  <2>1. results' = results /\ client[c] # "receive"
    BY <1>1, <1>2 DEF Send, Requested, Expecting
  <2>2. \A d \in Clients : Still(d) \/ (Ends(d) /\ client[d] # "receive")
    BY <2>1
  <2> QED  BY <2>1, <2>2, QuietStep
<1>3. CASE c \in waiting
  <2>1. client[c] \in {"receive", "stop"}
    BY <1>1, <1>3 DEF Requested, Expecting, Before
  <2>2. PICK r : r = [id |-> c, kind |-> kind]
    OBVIOUS
  <2>3. r \in Result /\ r.id = c /\ r.kind = kind
    BY <2>2 DEF Result
  <2>4. PICK n : n = Len(results)
    OBVIOUS
  <2>5. /\ n \in Nat /\ Len(results') = n + 1
        /\ \A i \in 1 .. n : results'[i] = results[i]
        /\ results'[n + 1] = r
    <3>1. results \in Seq(Result) /\ results' = Append(results, r)
      BY <1>3, <2>2 DEF Inv, TypeOK, Send
    <3> QED  BY <2>3, <2>4, <3>1, AppendProperties, LenProperties
  <2>6. \A i \in 1 .. n + 1 : i \in 1 .. n \/ i = n + 1
    BY <2>5
  <2>7. \A i \in 1 .. n : i \in 1 .. n + 1
    BY <2>5
  <2>8. n + 1 \in 1 .. n + 1
    BY <2>5
  <2>9. \A d \in Clients : Ended(d)' <=> Ended(d) \/ (d = c /\ kind # "partial")
    BY <2>3, <2>4, <2>5, <2>6, <2>7, <2>8 DEF Ended
  <2>10. Ordered'
    <3>1. \A i \in 1 .. n + 1 : client[results'[i].id] \in Answerable
      BY <1>1, <2>1, <2>3, <2>4, <2>5, <2>6 DEF Ordered, Answerable
    <3>2. ASSUME NEW i \in 1 .. n + 1, NEW j \in 1 .. n + 1, i < j,
                 results'[i].id = results'[j].id
          PROVE  results'[i].kind = "partial"
      <4>1. i \in 1 .. n
        BY <2>5, <3>2
      <4>2. CASE j \in 1 .. n
        BY <1>1, <2>4, <2>5, <3>2, <4>1, <4>2 DEF Ordered
      <4>3. CASE j = n + 1
        BY <1>1, <2>3, <2>4, <2>5, <3>2, <4>1, <4>3 DEF Ended
      <4> QED  BY <2>6, <4>2, <4>3
    <3> QED  BY <2>5, <3>1, <3>2 DEF Ordered
  <2>11. ASSUME NEW d \in Clients PROVE Requested(d)'
    <3>1. Requested(d)
      BY DEF Inv
    <3>2. CASE d # c
      BY <2>9, <3>1, <3>2 DEF Requested, Still
    <3>3. CASE d = c /\ kind = "partial"
      BY <1>1, <2>9, <3>1, <3>3 DEF Requested, Still
    <3>4. CASE d = c /\ kind # "partial"
      BY <2>1, <2>9, <3>1, <3>4 DEF Requested, Ends
    <3> QED  BY <3>2, <3>3, <3>4
  <2> QED  BY <2>10, <2>11 DEF Answers
<1> QED  BY <1>2, <1>3

(* The steps of a client that move no task and take no result.             *)
LEMMA ClientGoes ==
    ASSUME Inv, NEW c \in Clients,
           Begin(c) \/ BeginAsleep(c) \/ WakeClient(c) \/ ParkAgain(c) \/ Expect(c)
           \/ Finish(c) \/ StopWaiting(c) \/ Hangup(c)
    PROVE  /\ \A d \in Clients : Still(d)
           /\ Answers'
<1>1. UNCHANGED <<tasks, deferred, slot, hand, results>>
  BY DEF Begin, BeginAsleep, WakeClient, ParkAgain, Expect, Finish, StopWaiting, Hangup,
         queues, output, slots, mainpc
<1>2. \A d \in Clients : Still(d)
  BY <1>1, Unmoved
<1>3. \A d \in Clients : Ended(d)' <=> Ended(d)
  BY <1>1 DEF Ended
<1>4. client \in [Clients -> {"start", "nosleep", "ready", "expected", "receive", "finish",
                              "stop", "drop", "cancel", "done"}]
      /\ waiting \subseteq Clients /\ results \in Seq(Result)
  BY DEF Inv, TypeOK
<1>5. /\ \A d \in Clients \ {c} : client'[d] = client[d] /\ (d \in waiting' <=> d \in waiting)
      /\ \/ /\ client[c] \in {"start", "nosleep"} /\ client'[c] \in {"start", "nosleep", "ready"}
            /\ waiting' = waiting
         \/ client[c] = "ready" /\ client'[c] = "expected" /\ c \in waiting'
         \/ client[c] = "finish" /\ client'[c] = "done" /\ c \notin waiting'
         \/ client[c] = "stop" /\ client'[c] = "drop" /\ c \notin waiting'
         \/ client[c] = "receive" /\ client'[c] = "stop" /\ waiting' = waiting
  BY <1>4 DEF Begin, BeginAsleep, WakeClient, ParkAgain, Expect, Finish, StopWaiting, Hangup, Goto,
         output, clients
<1>6. ASSUME NEW d \in Clients PROVE Requested(d)'
  <2>1. Requested(d)
    BY DEF Inv
  <2> QED  BY <1>2, <1>3, <1>5, <2>1 DEF Requested, Still, Before, Expecting
<1>7. Ordered'
  <2>1. Ordered
    BY DEF Inv
  <2>2. ASSUME NEW i \in 1 .. Len(results) PROVE client'[results[i].id] \in Answerable
    <3>1. results[i].id \in Clients /\ client[results[i].id] \in Answerable
      <4>1. results[i] \in Result
        BY <1>4, ElementOfSeq
      <4> QED  BY <2>1, <4>1 DEF Ordered, Result
    <3> QED  BY <1>5, <3>1 DEF Answerable
  <2> QED  BY <1>1, <2>1, <2>2 DEF Ordered
<1> QED  BY <1>2, <1>6, <1>7 DEF Answers

LEMMA PostAnswers ==
    ASSUME Inv, NEW c \in Clients, Post(c)
    PROVE  Answers'
<1>1. /\ client[c] = "expected" /\ client' = [client EXCEPT ![c] = "receive"]
      /\ UNCHANGED <<results, waiting>>
  BY DEF Post, Goto, output
<1>2. /\ client \in [Clients -> {"start", "nosleep", "ready", "expected", "receive", "finish",
                                 "stop", "drop", "cancel", "done"}]
      /\ results \in Seq(Result)
  BY DEF Inv, TypeOK
<1>3. client'[c] = "receive" /\ \A d \in Clients \ {c} : client'[d] = client[d]
  BY <1>1, <1>2
<1>4. \A i \in 1 .. Len(results) : results[i].id \in Clients
  <2>1. \A i \in 1 .. Len(results) : results[i] \in Result
    BY <1>2, ElementOfSeq
  <2> QED  BY <2>1 DEF Result
<1>5. Ordered
  BY DEF Inv
<1>6. \A d \in Clients : Ended(d)' <=> Ended(d)
  BY <1>1 DEF Ended
<1>7. ~Ended(c)
  BY <1>1, <1>5 DEF Ended, Ordered, Answerable
<1>8. ASSUME NEW d \in Clients PROVE Requested(d)'
  <2>1. Requested(d)
    BY DEF Inv
  <2>2. CASE d # c
    BY <1>1, <1>3, <1>6, <2>1, <2>2, PostMoves DEF Requested, Still
  <2>3. CASE d = c
    <3>1. Somewhere(c)' /\ (Cancelling(c)' => Cancelling(c))
      BY PostMoves
    <3> QED  BY <1>1, <1>3, <1>6, <1>7, <2>1, <2>3, <3>1 DEF Requested, Before, Expecting
  <2> QED  BY <2>2, <2>3
<1>9. Ordered'
  <2>1. \A i \in 1 .. Len(results) : client'[results[i].id] \in Answerable
    BY <1>3, <1>4, <1>5 DEF Ordered, Answerable
  <2> QED  BY <1>1, <1>5, <2>1 DEF Ordered
<1> QED  BY <1>8, <1>9 DEF Answers

(* Taking results out leaves the others in their order.                    *)
LEMMA PickedOrder ==
    ASSUME NEW q \in Seq(Result), NEW w \in Seq(Result), NEW K \in SUBSET (1 .. Len(q)),
           \E h : Picks(q, K, w, h),
           \A i, j \in 1 .. Len(q) : i < j /\ q[i].id = q[j].id => q[i].kind = "partial"
    PROVE  /\ \A i, j \in 1 .. Len(w) : i < j /\ w[i].id = w[j].id => w[i].kind = "partial"
           /\ \A i \in 1 .. Len(w) : \E k \in K : w[i] = q[k]
           /\ \A k \in K : \E i \in 1 .. Len(w) : w[i] = q[k]
<1>1. PICK h : Picks(q, K, w, h)
  OBVIOUS
<1>2. \A i \in 1 .. Len(w) : h[i] \in K /\ h[i] \in 1 .. Len(q) /\ w[i] = q[h[i]]
  BY <1>1 DEF Picks
<1>3. ASSUME NEW i \in 1 .. Len(w), NEW j \in 1 .. Len(w), i < j, w[i].id = w[j].id
      PROVE  w[i].kind = "partial"
  <2>1. h[i] < h[j]
    BY <1>1, <1>3 DEF Picks
  <2> QED  BY <1>2, <1>3, <2>1
<1>4. ASSUME NEW k \in K PROVE \E i \in 1 .. Len(w) : w[i] = q[k]
  <2>1. PICK i \in 1 .. Len(w) : h[i] = k
    BY <1>1 DEF Picks
  <2> QED  BY <1>2, <2>1
<1> QED  BY <1>2, <1>3, <1>4

LEMMA DropResultsAnswers ==
    ASSUME Inv, NEW c \in Clients, DropResults(c)
    PROVE  Answers'
<1>1. /\ client[c] = "drop" /\ client' = [client EXCEPT ![c] = "cancel"]
      /\ waiting' = waiting \ {c} /\ UNCHANGED <<tasks, deferred, slot, hand>>
      /\ results' = RemoveIf(results, {r \in Result : r.id = c})
  BY DEF DropResults, Goto, queues, slots, mainpc
<1>2. /\ client \in [Clients -> {"start", "nosleep", "ready", "expected", "receive", "finish",
                                 "stop", "drop", "cancel", "done"}]
      /\ results \in Seq(Result)
  BY DEF Inv, TypeOK
<1>3. client'[c] = "cancel" /\ \A d \in Clients \ {c} : client'[d] = client[d]
  BY <1>1, <1>2
<1>4. Ordered
  BY DEF Inv
<1>5. PICK K : K = Others(results, {r \in Result : r.id = c}, Len(results))
  OBVIOUS
<1>6. K \in SUBSET (1 .. Len(results))
  BY <1>5 DEF Others
<1>7. \A k \in 1 .. Len(results) : results[k] \in Result
  BY <1>2, ElementOfSeq
<1>8. \A k \in 1 .. Len(results) : k \in K <=> results[k].id # c
  BY <1>5, <1>7 DEF Others
<1>9. results' \in Seq(Result) /\ \E h : Picks(results, K, results', h)
  BY <1>1, <1>2, <1>5, RemoveIfPicks
<1>10. /\ \A i, j \in 1 .. Len(results') :
             i < j /\ results'[i].id = results'[j].id => results'[i].kind = "partial"
       /\ \A i \in 1 .. Len(results') : \E k \in K : results'[i] = results[k]
       /\ \A k \in K : \E i \in 1 .. Len(results') : results'[i] = results[k]
  BY <1>2, <1>4, <1>6, <1>9, PickedOrder DEF Ordered
<1>11. \A d \in Clients : Ended(d)' <=> Ended(d) /\ d # c
  BY <1>6, <1>8, <1>10, SMTT(30) DEF Ended
<1>12. Ordered'
  <2>1. \A i \in 1 .. Len(results') : client'[results'[i].id] \in Answerable
    BY <1>3, <1>4, <1>6, <1>7, <1>8, <1>10 DEF Ordered, Result
  <2> QED  BY <1>10, <2>1 DEF Ordered
<1>13. ASSUME NEW d \in Clients PROVE Requested(d)'
  <2>1. Requested(d) /\ Still(d)
    BY <1>1, Unmoved DEF Inv
  <2>2. CASE d # c
    BY <1>1, <1>3, <1>11, <2>1, <2>2 DEF Requested, Still
  <2>3. CASE d = c
    BY <1>1, <1>3, <1>11, <2>1, <2>3 DEF Requested, Still, Before, Expecting
  <2> QED  BY <2>2, <2>3
<1> QED  BY <1>12, <1>13 DEF Answers

LEMMA PostCancelAnswers ==
    ASSUME Inv, NEW c \in Clients, PostCancel(c)
    PROVE  Answers'
<1>1. /\ client[c] = "cancel" /\ client' = [client EXCEPT ![c] = "done"]
      /\ UNCHANGED <<results, waiting>>
  BY DEF PostCancel, Goto, output
<1>2. /\ client \in [Clients -> {"start", "nosleep", "ready", "expected", "receive", "finish",
                                 "stop", "drop", "cancel", "done"}]
      /\ results \in Seq(Result)
  BY DEF Inv, TypeOK
<1>3. client'[c] = "done" /\ \A d \in Clients \ {c} : client'[d] = client[d]
  BY <1>1, <1>2
<1>4. \A i \in 1 .. Len(results) : results[i].id \in Clients
  <2>1. \A i \in 1 .. Len(results) : results[i] \in Result
    BY <1>2, ElementOfSeq
  <2> QED  BY <2>1 DEF Result
<1>5. Ordered
  BY DEF Inv
<1>6. \A d \in Clients : Ended(d)' <=> Ended(d)
  BY <1>1 DEF Ended
<1>7. ~Ended(c)
  BY <1>1, <1>5 DEF Ended, Ordered, Answerable
<1>8. ASSUME NEW d \in Clients PROVE Requested(d)'
  <2>1. Requested(d)
    BY DEF Inv
  <2>2. CASE d # c
    BY <1>1, <1>3, <1>6, <2>1, <2>2, PostCancelMoves DEF Requested, Still
  <2>3. CASE d = c
    BY <1>1, <1>3, <1>6, <1>7, <2>1, <2>3 DEF Requested, Before, Expecting
  <2> QED  BY <2>2, <2>3
<1>9. Ordered'
  <2>1. \A i \in 1 .. Len(results) : client'[results[i].id] \in Answerable
    BY <1>1, <1>3, <1>4, <1>5 DEF Ordered, Answerable
  <2> QED  BY <1>1, <1>5, <2>1 DEF Ordered
<1> QED  BY <1>8, <1>9 DEF Answers

LEMMA ReceiveAnswers ==
    ASSUME Inv, NEW c \in Clients, Receive(c)
    PROVE  Answers'
<1>1. /\ client \in [Clients -> {"start", "nosleep", "ready", "expected", "receive", "finish",
                                 "stop", "drop", "cancel", "done"}]
      /\ results \in Seq(Result) /\ DOMAIN results = 1 .. Len(results) /\ Len(results) \in Nat
  BY LenProperties DEF Inv, TypeOK
<1>2. PICK n \in 1 .. Len(results) :
          /\ results[n].id = c
          /\ \A j \in 1 .. n - 1 : results[j].id # c
          /\ results' = RemoveAt(results, n)
          /\ client' = [client EXCEPT ![c] =
                            CASE results[n].kind = "partial" -> "receive"
                              [] results[n].kind = "final"   -> "finish"
                              [] results[n].kind = "error"   -> "stop"]
  BY <1>1 DEF Receive
<1>3. client[c] = "receive" /\ UNCHANGED <<tasks, deferred, slot, hand, waiting>>
  BY DEF Receive, queues, slots, mainpc
<1>4. Ordered
  BY DEF Inv
<1>5. \A k \in 1 .. Len(results) : results[k] \in Result
  BY <1>1, ElementOfSeq
<1>6. PICK kind \in {"partial", "final", "error"} : results[n].kind = kind
  BY <1>2, <1>5 DEF Result
<1>7. /\ \A d \in Clients \ {c} : client'[d] = client[d]
      /\ client'[c] = CASE kind = "partial" -> "receive"
                        [] kind = "final"   -> "finish"
                        [] kind = "error"   -> "stop"
  BY <1>1, <1>2, <1>6
<1>8. PICK K : K = 1 .. Len(results) \ {n}
  OBVIOUS
<1>9. results' \in Seq(Result) /\ \E h : Picks(results, K, results', h)
  BY <1>1, <1>2, <1>8, RemoveAtPicks
<1>10. /\ \A i, j \in 1 .. Len(results') :
             i < j /\ results'[i].id = results'[j].id => results'[i].kind = "partial"
       /\ \A i \in 1 .. Len(results') : \E k \in K : results'[i] = results[k]
       /\ \A k \in K : \E i \in 1 .. Len(results') : results'[i] = results[k]
  <2>1. K \in SUBSET (1 .. Len(results))
    BY <1>8
  <2> QED  BY <1>1, <1>4, <1>9, <2>1, PickedOrder DEF Ordered
<1>11. kind # "partial" => \A k \in K : results[k].id # c
  <2>1. ASSUME kind # "partial", NEW k \in K PROVE results[k].id # c
    <3>1. CASE k < n
      BY <1>1, <1>2, <1>8, <2>1, <3>1
    <3>2. CASE k > n
      BY <1>2, <1>4, <1>6, <1>8, <2>1, <3>2 DEF Ordered
    <3> QED  BY <1>1, <1>8, <2>1, <3>1, <3>2
  <2> QED  BY <2>1
<1>12. \A d \in Clients : d # c => (Ended(d)' <=> Ended(d))
  <2>1. ASSUME NEW d \in Clients, d # c, Ended(d) PROVE Ended(d)'
    <3>1. PICK k \in 1 .. Len(results) : results[k].id = d /\ results[k].kind # "partial"
      BY <2>1 DEF Ended
    <3>2. k \in K
      BY <1>2, <1>8, <2>1, <3>1
    <3> QED  BY <1>10, <3>1, <3>2 DEF Ended
  <2>2. ASSUME NEW d \in Clients, Ended(d)' PROVE Ended(d)
    BY <1>8, <1>10, <2>2 DEF Ended
  <2> QED  BY <2>1, <2>2
<1>13. Ended(c)' <=> kind = "partial" /\ Ended(c)
  <2>1. CASE kind = "partial"
    BY <1>2, <1>6, <1>8, <1>10, <2>1, SMTT(30) DEF Ended
  <2>2. CASE kind # "partial"
    BY <1>10, <1>11, <2>2 DEF Ended
  <2> QED  BY <2>1, <2>2
<1>14. Ordered'
  <2>1. ASSUME NEW i \in 1 .. Len(results') PROVE client'[results'[i].id] \in Answerable
    <3>1. PICK k \in K : results'[i] = results[k]
      BY <1>10
    <3>2. results[k].id \in Clients /\ client[results[k].id] \in Answerable
      BY <1>4, <1>5, <1>8 DEF Ordered, Result
    <3>3. CASE results[k].id # c
      BY <1>7, <3>1, <3>2, <3>3
    <3>4. CASE results[k].id = c
      BY <1>6, <1>7, <1>11, <3>1, <3>4 DEF Answerable
    <3> QED  BY <3>3, <3>4
  <2> QED  BY <1>10, <2>1 DEF Ordered
<1>15. kind # "partial" => Ended(c)
  BY <1>2, <1>6 DEF Ended
<1>16. ASSUME NEW d \in Clients PROVE Requested(d)'
  <2>1. Requested(d) /\ Still(d)
    BY <1>3, Unmoved DEF Inv
  <2>2. CASE d # c
    BY <1>3, <1>7, <1>12, <2>1, <2>2 DEF Requested, Still
  <2>3. CASE d = c /\ kind = "partial"
    BY <1>3, <1>7, <1>13, <2>1, <2>3 DEF Requested, Still
  <2>4. CASE d = c /\ kind = "final"
    BY <1>3, <1>7, <1>13, <1>15, <2>1, <2>4 DEF Requested, Still, Before, Expecting
  <2>5. CASE d = c /\ kind = "error"
    BY <1>3, <1>7, <1>13, <1>15, <2>1, <2>5 DEF Requested, Still, Before, Expecting
  <2> QED  BY <1>6, <2>2, <2>3, <2>4, <2>5
<1> QED  BY <1>14, <1>16 DEF Answers
-----------------------------------------------------------------------------
(* The steps of the main thread, for the tasks and for those who wait.     *)
LEMMA MainKeepsTasks ==
    ASSUME Inv, MainRuns \/ Terminate \/ UNCHANGED vars
    PROVE  (\A c \in Clients : Alone(c)') /\ Answers'
<1>1. ASSUME UNCHANGED <<client, waiting, results>>, \A c \in Clients : Still(c)
      PROVE  (\A c \in Clients : Alone(c)') /\ Answers'
  BY <1>1, QuietStep DEF Still
<1>2. ASSUME UNCHANGED <<client, waiting, results>>, UNCHANGED <<tasks, deferred, slot, hand>>
      PROVE  (\A c \in Clients : Alone(c)') /\ Answers'
  BY <1>1, <1>2, Unmoved
<1>3. ASSUME NEW c \in Clients, NEW kind \in {"partial", "final", "error"},
             Somewhere(c), Send(c, kind), UNCHANGED <<client, waiting>>,
             \A d \in Clients \ {c} : Still(d),
             IF kind = "partial" THEN Still(c) ELSE Ends(c)
      PROVE  (\A d \in Clients : Alone(d)') /\ Answers'
  BY <1>3, SendStep DEF Still, Ends
<1>4. TypeOK
  BY DEF Inv
<1>5. CASE \/ StartLoop \/ Return \/ NoMoreTasks \/ UpdateIdle \/ Updated \/ HasTasks \/ Park
           \/ WakeUp \/ TimeOut \/ FallAsleep \/ SleepOn \/ LeaveSleep \/ Terminate
           \/ UNCHANGED vars
  <2>1. UNCHANGED <<client, waiting, results>> /\ UNCHANGED <<tasks, deferred, slot, hand>>
    BY <1>5 DEF StartLoop, Return, NoMoreTasks, UpdateIdle, Updated, HasTasks, Park, WakeUp,
                TimeOut, FallAsleep, SleepOn, LeaveSleep, Terminate, vars,
                queues, output, slots, mainpc, clients
  <2> QED  BY <1>2, <2>1
<1>6. CASE TakeTask
  <2>1. UNCHANGED <<client, waiting, results>>
    BY <1>6 DEF TakeTask, output, clients
  <2> QED  BY <1>1, <1>6, <2>1, TakeTaskMoves
<1>7. CASE Launch
  <2>1. UNCHANGED <<client, waiting, results>>
    BY <1>7 DEF Launch, output, clients
  <2> QED  BY <1>1, <1>7, <2>1, LaunchMoves
<1>8. CASE Defer
  <2>1. UNCHANGED <<client, waiting, results>>
    BY <1>8 DEF Defer, output, clients
  <2> QED  BY <1>1, <1>8, <2>1, DeferMoves
<1>9. CASE ProcessNext
  <2>1. UNCHANGED <<client, waiting, results>>
    BY <1>9 DEF ProcessNext, output, clients
  <2> QED  BY <1>1, <1>9, <2>1, ProcessNextMoves
<1>10. CASE PopDeferred
  <2>1. UNCHANGED <<client, waiting, results>>
    BY <1>10 DEF PopDeferred, output, clients
  <2> QED  BY <1>1, <1>10, <2>1, PopDeferredMoves
<1>11. CASE UpdateSlots
  <2>1. UNCHANGED <<client, waiting, results>>
    BY <1>11 DEF UpdateSlots, output, clients
  <2> QED  BY <1>1, <1>11, <2>1, UpdateSlotsMoves
<1>12. CASE LaunchFails \/ Act
  <2>1. PICK kind \in {"final", "error"} : Send(hand.id, kind) /\ UNCHANGED <<client, waiting>>
    BY <1>12 DEF LaunchFails, Act, clients
  <2>2. hand.id \in Clients /\ Somewhere(hand.id) /\ Ends(hand.id)
    <3>1. PICK c : c = hand.id
      OBVIOUS
    <3>2. c \in Clients
      BY <1>4, <1>12, <3>1, HandIs DEF LaunchFails, Act, Processing
    <3> QED  BY <1>12, <3>1, <3>2, HandEnds
  <2>3. \A d \in Clients \ {hand.id} : Still(d)
    BY <1>12, HandEnds
  <2>4. PICK c \in Clients : c = hand.id
    BY <2>2
  <2> QED  BY <1>3, <2>1, <2>2, <2>3, <2>4
<1>13. CASE ProcessCancel
  <2>1. /\ main = "process" /\ hand.kind = "cancel" /\ hand' = None
        /\ UNCHANGED <<client, waiting, results>> /\ UNCHANGED queues
    BY <1>13 DEF ProcessCancel, output, clients
  <2>2. hand.id \in Clients /\ hand = Cancel(hand.id)
    BY <1>4, <2>1, HandIs
  <2>3. client[hand.id] = "done"
    BY <2>2 DEF Inv, Requested, Cancelling
  <2>4. CASE \E s \in Slots : slot[s] = hand.id /\ Release(s)
    <3>1. PICK s \in Slots : slot[s] = hand.id /\ Release(s)
      BY <2>4
    <3>2. \A c \in Clients : IF c = hand.id THEN Ends(c) ELSE Still(c)
      BY <2>1, <2>2, <3>1, ReleaseEnds
    <3> QED  BY <2>1, <2>3, <3>2, QuietStep DEF Still, Ends
  <2>5. CASE UNCHANGED slots
    <3>1. ASSUME NEW c \in Clients PROVE Still(c)
      <4>1. ~InHand(c) /\ ~InHand(c)' /\ hand' # Cancel(c)
        BY <2>1, TasksDiffer DEF InHand
      <4>2. UNCHANGED <<tasks, deferred, slot>>
        BY <2>1, <2>5 DEF queues, slots
      <4>3. Alone(c) /\ (Working(c)' <=> Working(c))
        BY <4>2 DEF Inv, Working
      <4> QED  BY <4>1, <4>2, <4>3 DEF Still, Alone, Somewhere, Cancelling
    <3> QED  BY <1>1, <2>1, <3>1
  <2> QED  BY <1>13, <2>4, <2>5 DEF ProcessCancel
<1>14. ASSUME NEW s \in Slots, Generate(s) PROVE (\A c \in Clients : Alone(c)') /\ Answers'
  <2>1. slot[s] \in Clients
    BY <1>4, <1>14, NoneIs DEF Inv, Loop, Generate, Busy, TypeOK
  <2>2. UNCHANGED <<tasks, deferred, slot, hand, client, waiting>>
    BY <1>14 DEF Generate, queues, clients
  <2>3. \A c \in Clients : Still(c)
    BY <2>2, Unmoved
  <2>4. CASE UNCHANGED results
    BY <1>1, <2>2, <2>3, <2>4
  <2>5. CASE Send(slot[s], "partial")
    <3>1. Somewhere(slot[s])
      BY DEF Somewhere, Working
    <3>2. PICK c \in Clients : c = slot[s]
      BY <2>1
    <3> QED  BY <1>3, <2>2, <2>3, <2>5, <3>1, <3>2
  <2> QED  BY <1>14, <2>4, <2>5 DEF Generate
<1>15. ASSUME NEW s \in Slots, Complete(s) PROVE (\A c \in Clients : Alone(c)') /\ Answers'
  <2>1. slot[s] \in Clients
    BY <1>4, <1>15, NoneIs DEF Inv, Loop, Complete, Busy, TypeOK
  <2>2. Release(s) /\ UNCHANGED queues /\ hand' = hand /\ UNCHANGED <<client, waiting>>
    BY <1>15 DEF Complete, clients
  <2>3. PICK kind \in {"final", "error"} : Send(slot[s], kind)
    BY <1>15 DEF Complete
  <2>4. PICK c \in Clients : c = slot[s]
    BY <2>1
  <2>5. Ends(c) /\ Somewhere(c) /\ \A d \in Clients \ {c} : Still(d)
    BY <2>1, <2>2, <2>4, ReleaseEnds
  <2> QED  BY <1>3, <2>2, <2>3, <2>4, <2>5
<1> QED  BY <1>5, <1>6, <1>7, <1>8, <1>9, <1>10, <1>11, <1>12, <1>13, <1>14, <1>15 DEF MainRuns

LEMMA ClientsKeepTasks ==
    ASSUME Inv, NEW c \in Clients,
           Begin(c) \/ BeginAsleep(c) \/ ClientRuns(c) \/ Hangup(c)
    PROVE  (\A d \in Clients : Alone(d)') /\ Answers'
<1>1. CASE Begin(c) \/ BeginAsleep(c) \/ WakeClient(c) \/ ParkAgain(c) \/ Expect(c)
           \/ Finish(c) \/ StopWaiting(c) \/ Hangup(c)
  BY <1>1, ClientGoes DEF Still
<1>2. CASE Post(c)
  BY <1>2, PostAnswers, PostMoves DEF Still
<1>3. CASE PostCancel(c)
  BY <1>3, PostCancelAnswers, PostCancelMoves DEF Still
<1>4. CASE Receive(c)
  <2>1. UNCHANGED <<tasks, deferred, slot, hand>>
    BY <1>4 DEF Receive, queues, slots, mainpc
  <2> QED  BY <1>4, <2>1, ReceiveAnswers, Unmoved DEF Still
<1>5. CASE DropResults(c)
  <2>1. UNCHANGED <<tasks, deferred, slot, hand>>
    BY <1>5 DEF DropResults, queues, slots, mainpc
  <2> QED  BY <1>5, <2>1, DropResultsAnswers, Unmoved DEF Still
<1> QED  BY <1>1, <1>2, <1>3, <1>4, <1>5 DEF ClientRuns
-----------------------------------------------------------------------------
(* The queue is not empty while there is work: only the main thread takes  *)
(* tasks out, and what a client takes out it replaces by its cancel task.  *)
LEMMA ClientsKeepLoop ==
    ASSUME Inv, NEW c \in Clients,
           Begin(c) \/ BeginAsleep(c) \/ ClientRuns(c) \/ Hangup(c)
    PROVE  Loop'
<1>1. tasks' = tasks \/ tasks' # <<>>
  <2>1. CASE Post(c)
    BY <2>1, TaskIs, HeldAppend DEF Post, Inv, TypeOK
  <2>2. CASE PostCancel(c)
    <3>1. Without(tasks, c) \in Seq(Task)
      BY RemoveIfPicks DEF Without, Inv, TypeOK
    <3> QED  BY <2>2, <3>1, TaskIs, HeldCons DEF PostCancel
  <2>3. CASE ~Post(c) /\ ~PostCancel(c)
    BY <2>3 DEF Begin, BeginAsleep, ClientRuns, WakeClient, ParkAgain, Expect, Receive, Finish,
                StopWaiting, DropResults, Hangup, queues
  <2> QED  BY <2>1, <2>2, <2>3
<1>2. UNCHANGED <<slot, main, todo, released, running, sleeping>>
  BY DEF Begin, BeginAsleep, ClientRuns, WakeClient, ParkAgain, Expect, Post, Receive, Finish,
         StopWaiting, DropResults, PostCancel, Hangup, loop, slots, mainpc
<1>3. Loop
  BY DEF Inv
<1>4. Busy' = Busy
  BY <1>2 DEF Busy
<1> QED  BY <1>1, <1>2, <1>3, <1>4 DEF Loop

LEMMA MainKeepsLoop ==
    ASSUME Inv, MainRuns \/ Terminate \/ UNCHANGED vars
    PROVE  Loop'
<1>1. Loop /\ TypeOK
  BY DEF Inv
<1>2. slot' = slot => Busy' = Busy
  BY DEF Busy
<1> USE DEF slots, mainpc
<1>3. CASE StartLoop \/ Return
  BY <1>1, <1>2, <1>3 DEF StartLoop, Return, Loop, TypeOK, loop
<1>4. CASE TakeTask
  BY <1>1, <1>2, <1>4 DEF TakeTask, Loop, TypeOK, loop
<1>5. CASE NoMoreTasks
  BY <1>1, <1>2, <1>5 DEF NoMoreTasks, Loop, TypeOK, loop
<1>6. CASE Launch \/ LaunchFails \/ Act \/ Defer \/ ProcessNext
  <2>1. main = "process" /\ main' = "tasks" /\ todo' = todo /\ todo = {} /\ ~sleeping /\ sleeping' = sleeping
    BY <1>1, <1>6 DEF Launch, LaunchFails, Act, Defer, ProcessNext, Processing, Done, loop, Loop, TypeOK
  <2> QED  BY <2>1 DEF Loop
<1>7. CASE ProcessCancel
  <2>1. /\ main = "process" /\ main' \in {"tasks", "release"} /\ todo' = todo /\ todo = {}
        /\ ~sleeping /\ sleeping' = sleeping
    BY <1>1, <1>7 DEF ProcessCancel, Release, loop, Loop, TypeOK
  <2> QED  BY <2>1 DEF Loop
<1>8. CASE PopDeferred
  <2>1. /\ main = "release" /\ todo' = todo \ {released} /\ ~sleeping /\ sleeping' = sleeping
        /\ main' = (IF todo = {} THEN "tasks" ELSE "slots") /\ slot' = slot
    BY <1>1, <1>8 DEF PopDeferred, loop, Loop
  <2>2. tasks # <<>> => tasks' # <<>>
    <3>1. CASE UNCHANGED queues
      BY <3>1 DEF queues
    <3>2. ASSUME NEW i \in Popped(released), tasks' = <<deferred[i]>> \o tasks
          PROVE  tasks' # <<>>
      <4>1. deferred[i] \in Task
        BY <1>1, PoppedIsDeferred, ElementOfSeq DEF TypeOK
      <4> QED  BY <1>1, <3>2, <4>1, HeldCons DEF TypeOK
    <3> QED  BY <1>8, <3>1, <3>2 DEF PopDeferred
  <2>3. todo' \subseteq Busy'
    BY <1>1, <1>2, <2>1 DEF Loop
  <2> QED  BY <1>1, <2>1, <2>2, <2>3 DEF Loop
<1>9. CASE UpdateIdle
  BY <1>1, <1>2, <1>9 DEF UpdateIdle, Loop, TypeOK, loop
<1>10. CASE UpdateSlots
  <2>1. tasks' # <<>>
    BY <1>1, <1>10, TaskIs, HeldAppend DEF UpdateSlots, PostNext, TypeOK
  <2> QED  BY <1>1, <1>2, <1>10, <2>1 DEF UpdateSlots, Loop, loop
<1>11. CASE Updated
  BY <1>1, <1>2, <1>11 DEF Updated, Loop, TypeOK, loop, queues
<1>12. CASE HasTasks \/ Park \/ WakeUp \/ TimeOut
  BY <1>1, <1>2, <1>12 DEF HasTasks, Park, WakeUp, TimeOut, Loop, TypeOK, loop, queues
<1>13. CASE FallAsleep
  BY <1>1, <1>2, <1>13 DEF FallAsleep, Loop, TypeOK, queues
<1>14. CASE SleepOn \/ LeaveSleep
  BY <1>1, <1>2, <1>14 DEF SleepOn, LeaveSleep, Loop, TypeOK, loop, queues
<1>15. CASE Terminate \/ UNCHANGED vars
  BY <1>1, <1>2, <1>15 DEF Terminate, Loop, TypeOK, loop, queues, vars
<1>16. ASSUME NEW s \in Slots, Generate(s) PROVE Loop'
  BY <1>1, <1>2, <1>16 DEF Generate, Loop, TypeOK, loop, queues
<1>17. ASSUME NEW s \in Slots, Complete(s) PROVE Loop'
  <2>1. /\ main = "slots" /\ main' = "release" /\ todo' = todo /\ released' = s
        /\ UNCHANGED queues /\ sleeping' = sleeping /\ ~sleeping
    BY <1>1, <1>17 DEF Complete, Release, Loop, loop
  <2>2. todo \subseteq Busy
    BY <1>1, <2>1, NoneIs DEF Loop, TypeOK, Busy
  <2>3. Busy \subseteq Busy' \cup {s}
    BY <1>1, <1>17 DEF Complete, Release, Busy, TypeOK
  <2> QED  BY <1>1, <2>1, <2>2, <2>3 DEF Loop, queues
<1> QED  BY <1>3, <1>4, <1>5, <1>6, <1>7, <1>8, <1>9, <1>10, <1>11, <1>12, <1>13, <1>14, <1>15,
            <1>16, <1>17 DEF MainRuns

LEMMA StutterKeepsTypes == TypeOK /\ UNCHANGED vars => TypeOK'
BY DEF TypeOK, vars, queues, loop, output, slots, mainpc, clients, history

(* Inv is inductive.                                                       *)
LEMMA InvStep == Inv /\ [Next]_vars => Inv'
<1> SUFFICES ASSUME Inv, [Next]_vars PROVE Inv'
  OBVIOUS
<1>1. CASE MainRuns \/ Terminate \/ UNCHANGED vars
  <2>1. TypeOK'
    BY <1>1, ProcessKeepsTypes, UpdateKeepsTypes, StutterKeepsTypes DEF MainRuns, Inv
  <2> QED  BY <1>1, <2>1, MainKeepsTasks, MainKeepsLoop DEF Inv, Answers
<1>2. ASSUME NEW c \in Clients, Begin(c) \/ BeginAsleep(c) \/ ClientRuns(c) \/ Hangup(c)
      PROVE  Inv'
  BY <1>2, ClientsKeepTypes, ClientsKeepTasks, ClientsKeepLoop DEF Inv, Answers
<1> QED  BY <1>1, <1>2 DEF Next

LEMMA Invariant == Spec => []Inv
BY InitHolds, InvStep, PTL DEF Spec
-----------------------------------------------------------------------------
(* What the runs check follows from Inv.                                   *)

(* Queues hold tasks and results, and every thread is at one of its steps. *)
THEOREM TypeCorrect == Spec => []TypeOK
<1>1. Inv => TypeOK
  BY DEF Inv
<1> QED  BY <1>1, Invariant, PTL

LEMMA AtMostOne ==
    ASSUME NEW S, \A i, j \in S : i = j
    PROVE  /\ Cardinality(S) \in {0, 1}
           /\ Cardinality(S) = 0 <=> S = {}
<1>1. CASE S = {}
  BY <1>1, FS_EmptySet
<1>2. CASE S # {}
  <2>1. PICK x : S = {x}
    BY <1>2
  <2>2. Cardinality({x}) = 1
    BY FS_Singleton
  <2> QED  BY <1>2, <2>1, <2>2
<1> QED  BY <1>1, <1>2

(* Counted, the places of a task are as many as Somewhere and Alone say.   *)
LEMMA PlacesCounted ==
    ASSUME Inv, NEW c \in Clients
    PROVE  Places(c) = IF Somewhere(c) THEN 1 ELSE 0
<1>1. DOMAIN tasks = 1 .. Len(tasks) /\ DOMAIN deferred = 1 .. Len(deferred)
  BY LenProperties DEF Inv, TypeOK
<1>2. Alone(c)
  BY DEF Inv
<1>3. /\ Cardinality(Queued(c)) \in {0, 1} /\ Cardinality(Deferred(c)) \in {0, 1}
      /\ Cardinality(OnSlot(c)) \in {0, 1}
      /\ Cardinality(Queued(c)) = 0 <=> Queued(c) = {}
      /\ Cardinality(Deferred(c)) = 0 <=> Deferred(c) = {}
      /\ Cardinality(OnSlot(c)) = 0 <=> OnSlot(c) = {}
  <2>1. \A i, j \in Queued(c) : i = j
    BY <1>1, <1>2 DEF Alone, Once, Queued
  <2>2. \A i, j \in Deferred(c) : i = j
    BY <1>1, <1>2 DEF Alone, Once, Deferred
  <2>3. \A s, t \in OnSlot(c) : s = t
    BY <1>2 DEF Alone, OnSlot
  <2> QED  BY <2>1, <2>2, <2>3, AtMostOne
<1>4. /\ Queued(c) # {} <=> Holds(tasks, ReqTask(c))
      /\ Deferred(c) # {} <=> Holds(deferred, ReqTask(c))
      /\ OnSlot(c) # {} <=> Working(c)
  BY <1>1 DEF Queued, Deferred, OnSlot, Holds, Working
<1> QED  BY <1>2, <1>3, <1>4 DEF Alone, Somewhere, Places

(* However post, defer, pop, cancel and release interleave, a task is in   *)
(* one place at most: queued, deferred, in the main thread's hand, on one  *)
(* slot.                                                                   *)
THEOREM TaskInOnePlace == Spec => []OnePlace
<1>1. Inv => OnePlace
  BY PlacesCounted DEF OnePlace
<1> QED  BY <1>1, Invariant, PTL

(* A client that waits for a result has a task somewhere, or a result in   *)
(* the queue.                                                              *)
THEOREM NobodyWaitsInVain == Spec => []NotLost
<1>1. ASSUME Inv, NEW c \in Clients, client[c] = "receive"
      PROVE  Places(c) > 0 \/ \E i \in DOMAIN results : results[i].id = c
  <2>1. DOMAIN results = 1 .. Len(results)
    BY <1>1, LenProperties DEF Inv, TypeOK
  <2>2. Somewhere(c) \/ Ended(c)
    BY <1>1 DEF Inv, Requested
  <2>3. Somewhere(c) => Places(c) > 0
    BY <1>1, PlacesCounted
  <2> QED  BY <2>1, <2>2, <2>3 DEF Ended
<1>2. Inv => NotLost
  BY <1>1 DEF NotLost
<1> QED  BY <1>2, Invariant, PTL

(* A result in the queue has a reader: one that waits for it, or one that  *)
(* is about to drop it.                                                    *)
THEOREM ResultsHaveReaders == Spec => []NoStray
<1>1. ASSUME Inv, NEW i \in DOMAIN results
      PROVE  results[i].id \in waiting \/ client[results[i].id] = "drop"
  <2>1. i \in 1 .. Len(results) /\ results[i] \in Result
    BY <1>1, LenProperties, ElementOfSeq DEF Inv, TypeOK
  <2>2. results[i].id \in Clients /\ client[results[i].id] \in Answerable
    BY <1>1, <2>1 DEF Inv, Ordered, Result
  <2> QED  BY <1>1, <2>2 DEF Inv, Requested, Answerable, Expecting
<1>2. Inv => NoStray
  BY <1>1 DEF NoStray
<1> QED  BY <1>2, Invariant, PTL

(* The main thread neither waits nor frees the model while a slot has work *)
(* and no task is queued.                                                  *)
THEOREM WorkDrivesTheLoop == Spec => []Driven
<1>1. Inv => Driven
  BY DEF Inv, Loop, Driven
<1> QED  BY <1>1, Invariant, PTL
=============================================================================
