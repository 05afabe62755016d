----------------------------- MODULE KvStrategy -----------------------------
(***************************************************************************)
(* The KV cache strategy of the server: kv_strategy_manager                *)
(* (src/tools/server/server-kv-strategy.cpp), the task that sets it, its   *)
(* periodic evaluation and the rebuild of the context                      *)
(* (src/tools/server/server-context.cpp), with what runs them and puts     *)
(* the server to sleep: the main loop of src/tools/server/server-queue.cpp.*)
(* All of it runs on the main thread, a handler at a time.  Of the queue   *)
(* only the task update_slots posts for itself is kept; those of clients   *)
(* appear when the loop takes them.                                        *)
(*                                                                         *)
(* Time is counted in units of 10 seconds, the utilization of the context  *)
(* and the thresholds in per cent.                                         *)
(***************************************************************************)
EXTENDS Integers, FiniteSetsExt

CONSTANTS
    Slots,      (* the ids of the slots                                    *)
    Fills,      (* what a task may use of the context                      *)
    Scores,     (* scores of the adaptive strategy, in tenths of a per     *)
                (* cent                                                    *)
    MaxTime     (* bound of the clock                                      *)

MinRebuildInterval == 3
EvaluationInterval == 1
Hysteresis         == 5

ASSUME KvStrategyAssumption ==
    /\ Fills \subseteq 0..100 /\ Scores \subseteq 0..1000
    /\ MaxTime \in Nat /\ MaxTime >= MinRebuildInterval

VARIABLES
    used,       (* what the task of each slot uses, or NoTask              *)
    main,       (* where the loop is: it takes tasks, computes the slots,  *)
                (* or waits for tasks, also while it sleeps                *)
    posted,     (* update_slots has posted its NEXT_RESPONSE               *)
    server,     (* up, asleep, lost (a rebuild has failed: there is no     *)
                (* context) or aborted                                     *)
    type,       (* params_base.cache_type_k and cache_type_v; other: they  *)
                (* differ, or there is no level for them                   *)
    startup,    (* the strategy load_model sets: adaptive, or the one of   *)
                (* THUNDERLLAMA_KV_STRATEGY                                *)
    strategy,   (* current_strategy_                                       *)
    level,      (* current_level_                                          *)
    last,       (* last_rebuild_us_                                        *)
    evaluated,  (* last_strategy_eval_us                                   *)
    now,        (* ggml_time_us                                            *)
    rebuilt     (* (history) when the context was rebuilt; -1: never       *)

cacheVars    == <<type, level, server, strategy, last, rebuilt>>
strategyVars == <<used, main, posted, startup, evaluated, now, cacheVars>>

NoTask == -1
Levels == {"f16", "q8_0", "q4_0"}

(* The strategies with their default parameters. *)
Strategies(source) ==
    [name : {"fixed"}, level : Levels, source : {source}] \cup
    [name : {"threshold", "adaptive"}, source : {source}]

Default == [name |-> "adaptive", source |-> "default"]

Busy(s)     == used[s] # NoTask
AllIdle     == \A s \in Slots : ~Busy(s)
Utilization == MapThenSumSet(LAMBDA s : used[s], {s \in Slots : Busy(s)})

(* ggml_type_to_level has a level for every type of K, f16 where there is  *)
(* none, and is not asked about V.                                         *)
StrategyInit ==
    /\ used = [s \in Slots |-> NoTask]
    /\ main = "tasks" /\ posted = FALSE
    /\ server = "up"
    /\ level \in Levels /\ type \in {level, "other"}
    /\ startup \in {Default} \cup Strategies("env")
    /\ strategy = startup
    /\ last = 0 /\ evaluated = 0
    /\ now = MinRebuildInterval        (* since the machine was started   *)
    /\ rebuilt = -1
-----------------------------------------------------------------------------
(* evaluate_threshold_strategy: l is the current level, u the utilization. *)
Raised(l, u) == IF l = "f16" THEN u ELSE u + Hysteresis

WrongThresholdLevel(l, u) ==
    CASE Raised(l, u) >= 80 -> "q4_0"
      [] Raised(l, u) >= 60 -> "q8_0"
      [] Raised(l, u) >= 30 -> "f16"
      [] OTHER              -> "unset"

ThresholdLevel(l, u) ==
    CASE Raised(l, u) >= 80 -> "q4_0"
      [] Raised(l, u) >= 60 -> "q8_0"
      [] OTHER              -> "f16"

(* evaluate_adaptive_strategy, without the emergency. *)
Lowered(l, score) ==
    score - CASE l = "q4_0" -> 50 [] l = "q8_0" -> 25 [] OTHER -> 0

AdaptiveLevel(l, score) ==
    CASE Lowered(l, score) > 700 -> "q4_0"
      [] Lowered(l, score) > 400 -> "q8_0"
      [] OTHER                   -> "f16"

(* What evaluate() may decide.  The memory pressure and the prompt length  *)
(* of the metrics are never set: with adaptive any score may come out, or  *)
(* an emergency.                                                           *)
Targets(config) ==
    CASE config.name = "fixed"     -> {config.level}
      [] config.name = "threshold" -> {ThresholdLevel(level, Utilization)}
      [] config.name = "adaptive"  -> {AdaptiveLevel(level, score) : score \in Scores} \cup {"q4_0"}

WrongRequiresRebuild(t) == t # level

RequiresRebuild(t) == t # level /\ now - last >= MinRebuildInterval

(* rebuild_context_for_kv_type, and apply_decision if it succeeds: the     *)
(* model is loaded again, which sets the strategy to that of the startup.  *)
(* The strategy is config if it does not succeed.  When the last rebuild   *)
(* has failed destroy() frees the batch a second time, which may end the   *)
(* server or go unnoticed.                                                 *)
Rebuild(config, t) ==
    \/ /\ ~AllIdle
       /\ strategy' = config
       /\ UNCHANGED <<type, level, server, last, rebuilt>>
    \/ /\ AllIdle
       /\ server' = "up"
       /\ type' = t /\ level' = t
       /\ strategy' = startup
       /\ last' = now /\ rebuilt' = now
    \/ /\ AllIdle
       /\ server' \in {"lost"} \cup (IF server = "lost" THEN {"aborted"} ELSE {})
       /\ type' = t
       /\ strategy' = config
       /\ UNCHANGED <<level, last, rebuilt>>
-----------------------------------------------------------------------------
(* The tasks the loop takes.                                               *)
Taking == main = "tasks" /\ server \in {"up", "lost"}

(* A KV_STRATEGY_SET task.  A decision the cooldown has kept from being    *)
(* carried out is applied like any other.                                  *)
Set(config) ==
    /\ Taking
    /\ \E t \in Targets(config) :
        IF RequiresRebuild(t)
        THEN Rebuild(config, t)
        ELSE /\ strategy' = config
             /\ level' = t
             /\ UNCHANGED <<type, server, last, rebuilt>>
    /\ UNCHANGED <<used, main, posted, startup, evaluated, now>>

(* A completion, given to a slot that may still hold an earlier prompt.    *)
(* Without a context it uses a model that is not there.                    *)
Launch(s, n) ==
    /\ Taking /\ ~Busy(s)
    /\ IF server = "up"
       THEN used' = [used EXCEPT ![s] = n] /\ UNCHANGED server
       ELSE server' = "aborted" /\ UNCHANGED used
    /\ UNCHANGED <<main, posted, type, startup, strategy, level, last, evaluated, now, rebuilt>>

(* A cancel.                                                               *)
Cancel(s) ==
    /\ Taking /\ Busy(s)
    /\ used' = [used EXCEPT ![s] = NoTask]
    /\ UNCHANGED <<main, posted, startup, evaluated, now, cacheVars>>

(* NEXT_RESPONSE, for which there is nothing to do.                        *)
TakeNext ==
    /\ Taking /\ posted
    /\ posted' = FALSE
    /\ UNCHANGED <<used, main, startup, evaluated, now, cacheVars>>
-----------------------------------------------------------------------------
(* The periodic evaluation in update_slots.                                *)
Evaluate ==
    IF now - evaluated > EvaluationInterval
    THEN /\ evaluated' = now
         /\ \E t \in Targets(strategy) :
             IF strategy.source \in {"default", "env"} /\ RequiresRebuild(t)
             THEN Rebuild(strategy, t)
             ELSE UNCHANGED cacheVars
    ELSE UNCHANGED <<evaluated, cacheVars>>

(* There is no other task: update_slots begins, and posts the task that    *)
(* calls it again, unless all slots are idle.                              *)
WrongUpdate ==
    /\ Taking /\ ~posted
    /\ IF AllIdle
       THEN main' = "wait" /\ UNCHANGED <<posted, evaluated, cacheVars>>
       ELSE main' = "slots" /\ UNCHANGED posted /\ Evaluate
    /\ UNCHANGED <<used, startup, now>>

Update ==
    /\ Taking /\ ~posted
    /\ IF AllIdle
       THEN main' = "wait" /\ UNCHANGED <<posted, evaluated, cacheVars>>
       ELSE main' = "slots" /\ posted' = TRUE /\ Evaluate
    /\ UNCHANGED <<used, startup, now>>

(* The rest of update_slots: a task uses more of the context, or less      *)
(* after a shift, or ends.                                                 *)
Progress(s, n) ==
    /\ main = "slots" /\ Busy(s)
    /\ used' = [used EXCEPT ![s] = n]
    /\ UNCHANGED <<main, posted, startup, evaluated, now, cacheVars>>

Computed ==
    /\ main = "slots"
    /\ main' = "wait"
    /\ UNCHANGED <<used, posted, startup, evaluated, now, cacheVars>>

(* A task is in the queue: the one update_slots has posted, or a client's. *)
HasTasks ==
    /\ main = "wait" /\ server \in {"up", "lost"}
    /\ main' = "tasks"
    /\ UNCHANGED <<used, posted, startup, evaluated, now, cacheVars>>

(* handle_sleeping_state, when the queue has been empty for long: the      *)
(* context goes, whatever the slots do, and is loaded again by load_model, *)
(* which knows that it resumes and leaves the strategy alone.  After a     *)
(* failed rebuild the batch is freed twice, as in Rebuild.                 *)
Sleep ==
    /\ main = "wait" /\ ~posted
    /\ \/ server \in {"up", "lost"} /\ server' = "asleep"
       \/ server = "lost" /\ server' = "aborted"
    /\ UNCHANGED <<used, main, posted, type, startup, strategy, level, last, evaluated, now, rebuilt>>

Wake ==
    /\ server = "asleep"
    /\ server' \in {"up", "aborted"}
    /\ main' = "tasks"
    /\ UNCHANGED <<used, posted, type, startup, strategy, level, last, evaluated, now, rebuilt>>

Advance ==
    /\ now < MaxTime
    /\ now' = now + 1
    /\ UNCHANGED <<used, main, posted, startup, evaluated, cacheVars>>

StrategyNext ==
    \/ \E config \in Strategies("api") : Set(config)
    \/ \E s \in Slots, n \in Fills : Launch(s, n)
    \/ \E s \in Slots, n \in Fills \cup {NoTask} : Progress(s, n)
    \/ \E s \in Slots : Cancel(s)
    \/ TakeNext \/ Update \/ Computed \/ HasTasks \/ Sleep \/ Wake \/ Advance

StrategySpec == StrategyInit /\ [][StrategyNext]_strategyVars
-----------------------------------------------------------------------------
StrategyTypeOK ==
    /\ used \in [Slots -> Fills \cup {NoTask}]
    /\ main \in {"tasks", "slots", "wait"}
    /\ posted \in BOOLEAN
    /\ server \in {"up", "asleep", "lost", "aborted"}
    /\ level \in Levels /\ type \in Levels \cup {"other"}
    /\ startup \in {Default} \cup Strategies("env")
    /\ strategy \in {startup} \cup Strategies("api")
    /\ {last, evaluated, now} \subseteq 0..MaxTime
    /\ rebuilt \in -1..MaxTime

(* docs/clawgate-kv-strategy-api.md: "Cooldown timer (30s minimum between  *)
(* rebuilds)", whatever strategies are set, also by a rebuild itself, and  *)
(* across a sleep.                                                         *)
RebuildsApart ==
    [][rebuilt' # rebuilt /\ rebuilt # -1 => rebuilt' - rebuilt >= MinRebuildInterval]_strategyVars

(* The context a task computes in, and the type of its cache, stay as long *)
(* as there is a task.  handle_sleeping_state does not look at the slots:  *)
(* what keeps the context is the order in which the loop takes tasks,      *)
(* computes, waits and sleeps, and the task update_slots posts for itself. *)
ContextOutlivesTasks == [][~AllIdle => UNCHANGED <<type, server>>]_strategyVars

(* "Apply hysteresis to avoid oscillation": evaluated again and again with *)
(* the same utilization, threshold does not go on changing the level.      *)
ThresholdSettles ==
    LET At(l) == ThresholdLevel(l, Utilization)
    IN  At(At(At(level))) = At(At(level))

(* The same of adaptive, "Make it harder to upgrade from Q4_0": the        *)
(* hysteresis has the wrong sign, and scores just above a limit oscillate. *)
AdaptiveSettles ==
    \A score \in Scores :
        LET At(l) == AdaptiveLevel(l, score)
        IN  At(At(At(level))) = At(At(level))

(* server-kv-strategy.h: "Get current quantization level".  A decision     *)
(* that the cooldown suppressed changes the level and not the cache.       *)
(* A server that was started with another type is left out.                *)
LevelIsType == server = "up" /\ type \in Levels => level = type

(* docs/clawgate-kv-strategy-api.md: "API calls override".  A rebuild, the *)
(* one that the call itself asks for too, sets the startup strategy again. *)
StrategyIsKept == [][strategy.source = "api" => strategy'.source = "api"]_strategyVars

(* docs/clawgate-kv-strategy-api.md, if a rebuild fails: "The server       *)
(* remains on the current quantization level."  It has no context any more.*)
FailureKeepsContext == server # "lost"
=============================================================================
