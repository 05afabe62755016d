# ThunderLLAMA in TLA+

TLA+ models of the stateful core of ThunderLLAMA, a fork of llama.cpp, with TLC
configurations that check them on small instances and TLAPS proofs for every
instance. Paths are relative to the repository root (`src/` there is the library).

    tlc -workers 2 -config Paged.cfg MCPagedKV.tla     # a run
    tlapm PagedKVProofs.tla                             # the proofs

`PROJECT.json` lists the runs, the source lines behind every definition, the
mutants each property rejects, the most important hazards and the findings.

## 1. The system

| Part | Source | State | Operations |
|---|---|---|---|
| Paged KV cache | `src/llama-block-pool.*`, `src/llama-kv-cache.cpp` | blocks with reference counts, the free list, a block table per sequence, the GPU block table | find_slot_paged, prepare, apply_ubatch_paged, seq_rm, seq_cp, seq_keep |
| KV cells (non-paged) | `src/llama-kv-cells.h`, `src/llama-kv-cache*.cpp` | positions, sequence sets and shifts of cells, heads, postponed copies, the K rows | find_slot, prepare, apply_ubatch, update, seq_* |
| Recurrent memory | `src/llama-memory-recurrent.*`, `src/llama-graph.cpp` | cells that each hold the state of whole sequences, tails, sources, the rows | find_slot, prepare, seq_* |
| Context | `src/llama-context.cpp` | memory, graphs, LMCache globals | decode, the LMCache hook, state save and load |
| LMCache storage | `src/thunder-lmcache-storage.cpp` | L2 map, L3 index, LRU lists, counters, a memory-mapped log | get, put, batch_get, prefetch, compaction, safe_unmount, load |
| LMCache GPU tier | `src/metal-buffer-pool.mm` | offsets, free list, LRU list | store, get_offset, blit |
| LMCache hash, control, eviction notifier | `src/thunder-lmcache-{hash,control,eviction}.cpp` | keys; a global pointer; callbacks | make_key; SIGUSR1; notify |
| Server queue | `tools/server/server-queue.*` | task queue, deferred queue, running and sleeping flags, result queue, ids waited for | post, defer, pop_deferred_task, start_loop, send, recv, readers |
| Server slots | `tools/server/server-context.cpp` | slots, their tasks and prompts | process_single_task, update_slots, release |
| KV strategy | `tools/server/server-kv-strategy.cpp`, `server-context.cpp` | strategy, level, time of the last rebuild, the type of the cache | evaluate, apply_decision, SET task, rebuild of the context |
| Router | `tools/server/server-models.cpp` | models with their status, child process and threads; models to stop; order of use | load, unload, unload_lru, wait_until_loaded, the threads of an instance |
| CPU thread pool | `ggml/src/ggml-cpu/ggml-cpu.c` | the graph and its number, the barrier, the chunk counter, stop, pause, abort | graph_compute, kickoff, barrier, polling and sleeping, pause, resume, free |
| Everything else | `ggml/`, model loading, sampling, chat templates, tools, Python | none that outlives a call, or imported from upstream | |

How they interact. HTTP threads post tasks to the server queue and wait for
results. The one main thread takes tasks, assigns slots and calls
`llama_decode`, which drives the memory module (paged or not): a batch is split
into ubatches, all of them are placed as a trial, and each is then placed for
real and computed. Around each ubatch the LMCache hook looks chunks up in the
storage and stores new ones; the storage moves chunks between its tiers under
one mutex. A released slot calls back into the queue, which pops a deferred task.
Each ubatch becomes a graph; on the CPU its nodes are shared out to the threads of
a pool. The KV strategy is set by a task and evaluated by the loop that computes;
to change the type of the cache it destroys the context and loads the model again.
With several models, a router process starts a server like this as a child for
each, and forwards requests to it.

What is hard: threads that post, wait, cancel and sleep against one loop;
reference counts and tables that must agree over a long sequence of legal
calls; a pool, a cache and a log at their limits; a decode or a write that fails
half-way; a process that dies with half of its file synced; counters of type
`size_t` that may wrap.

What makes each part correct:

- *paged cache*: no block is free while a table names it, a shared block holds
  the same positions for all, decode succeeds only with every token placed, a
  failed ubatch leaves nothing behind.
- *storage*: a chunk returned is the last one put under its key, in one tier,
  reachable by eviction, within the limits; what a crash leaves is readable or
  recognised as lost; put() returns.
- *cells*: whatever the cells, slots, heads, streams and postponed work are, the
  memory acts like a bag of tokens with positions; a recurrent sequence continues
  from the state of its own tokens.
- *router*: a model is served by at most one process; a stop ends; nobody waits
  for a thread that waits for him.
- *KV strategy*: the context stays while it is used; rebuilds are rare; the level
  is the type of the cache.
- *thread pool*: nodes are computed in order, each part once, and the call returns.
- *server*: every task runs once, every waiting client is answered, nothing
  piles up for clients that are gone, the loop never waits with work to do.

## 2. Modules

| Module | Models | Uses |
|---|---|---|
| `PagedKV` | block pool, paged paths of the KV cache, the ubatch loop of decode() | |
| `MCPagedKV` | batches for TLC | `PagedKV` |
| `PagedKVProofs` | theorems about `PagedKV` | `PagedKV`, `SequenceLemmas` |
| `ChunkMemory` | what the LMCache storage promises: a memory that may forget (abstract) | |
| `ChunkStorage` | L2 and L3 of the LMCache storage, its file, crashes; implements `ChunkMemory` | `ChunkMemory` |
| `MCChunkStorage` | keys and data as model values, symmetry | `ChunkStorage` |
| `ChunkStorageProofs` | theorems about `ChunkStorage`, that it implements `ChunkMemory` among them | `ChunkStorage`, `SequenceLemmas` |
| `RemoveIf` | the erase-remove idiom the queues are cleaned with | |
| `SequenceLemmas` | what the operators on sequences return, for the proofs | `RemoveIf`, TLAPS |
| `ServerQueue` | task and result queues, readers, main loop, slot scheduling | `RemoveIf` |
| `MCServerQueue` | clients, slots and requests for TLC | `ServerQueue` |
| `ServerQueueProofs` | theorems about `ServerQueue` | `ServerQueue`, `SequenceLemmas` |
| `SlidingWindow` | the attention masks of sliding windows | |
| `SequenceMemory` | what an attention memory promises: a bag of tokens (abstract) | `SlidingWindow` |
| `KVCells` | cells, streams, slots and postponed work of the non-paged cache; implements `SequenceMemory` | `SequenceMemory`, `SlidingWindow` |
| `MCKVCells` | configurations and batches for TLC | `KVCells` |
| `KVCellsProofs` | theorems about `KVCells` | `KVCells`, `SequenceLemmas` |
| `RecurrentCells` | cells, tails and rows of the recurrent memory | `RemoveIf` |
| `MCRecurrentCells` | batches for TLC | `RecurrentCells` |
| `RecurrentCellsProofs` | theorems about `RecurrentCells` | `RecurrentCells`, `SequenceLemmas` |
| `KvStrategy` | strategies, cooldown, rebuild and sleep, and the main loop that orders them | |
| `MCKvStrategy` | slots as model values | `KvStrategy` |
| `ServerModels` | the router, its threads and children | `RemoveIf` |
| `MCServerModels` | models and clients as model values | `ServerModels` |
| `ServerModelsProofs` | theorems about `ServerModels` and about `KvStrategy`: the handlers of the server that are few | `ServerModels`, `KvStrategy`, `SequenceLemmas` |
| `GraphCompute` | what ggml_graph_compute promises (abstract) | |
| `ThreadPool` | the threads that compute a graph; implements `GraphCompute` | `GraphCompute` |
| `MCThreadPool` | graphs for TLC | `ThreadPool` |
| `ThreadPoolProofs` | theorems about `ThreadPool`, that it implements `GraphCompute` among them | `ThreadPool`, TLAPS |

Operators named `Wrong...` are not part of a model. Each is the operator after it
with a plausible mistake; put in its place, it makes the property listed with it
under "mutants" in `PROJECT.json` fail.

### PagedKV

The context that owns a cache is driven by one thread, so operations do not
interleave; but a ubatch allocates token by token and may run out of blocks in
between, and a decode may fail between two ubatches. So `PlaceToken` is a step,
and `phase` and the sequences `trial`, `batch` and `todo` are the program
counter of `decode()`.

| State | Code |
|---|---|
| `refCount`, `free` | `blocks[b].ref_count`, `free_blocks` |
| `present`, `table`, `nTokens` | `block_tables` and its entries |
| `gpu` | `block_table_gpu` |
| `trial`, `batch`, `todo` | ubatches prepare() has to place, ubatches to compute, tokens of the current one |
| `ub` | the loop of seq_rm(-1) or seq_keep has used an erased iterator |

Details that matter: `Placement` follows `sinfo.n_stream() == 1` (unified), where
all tokens of a ubatch go to the table of its smallest sequence id; `Accepted` is
the check of `llama_batch_allocr::init` that a batch continues each sequence
where the memory says it ends, but not that its positions ascend (the position the
code compares with is never set, see `DecreasingRefused`); `ComputeFail` calls seq_rm, which in paged mode
removes whole sequences only; `RemoveOthers` ends in undefined behaviour, after
which only a restart is possible. The splitting of batches into ubatches is any
division (`Batches`). seq_add, seq_div and a partial seq_rm leave the pool alone.

The code sizes the pool at 1.25 times what the sequences can fill. The runs use
less than that: `seq_cp` leaks blocks for good (see `NoLeak`), and a pool with
leaked blocks acts like a smaller one; several sequences may also be extended to
their ends by unified placement, which puts tokens of several into one table.

### ChunkStorage and ChunkMemory

`mutex_` is held by put() and the destructor for as long as they loop over
evictions; each iteration is a step and `pc` names the loop, so that the runs
can ask whether the loops end and a crash may come between iterations. get() and
safe_unmount() have no loop and are one step.

| State | Code |
|---|---|
| `l2`, `l2lru`, `l2usage` | `l2_cache_`, `l2_lru_` with its index, `l2_usage_bytes_` |
| `l3`, `l3lru`, `l3usage` | `l3_offsets_`, `l3_lru_` (a node is `live` if `l3_lru_index_` names it), `l3_usage_bytes_` |
| `disk`, `fileSize`, `mapped`, `next` | records of the file, `disk_mmap_size_`, `disk_mmap_`, `disk_next_offset_` |
| `durable` | records a power failure cannot take: msync() is called by safe_unmount, compaction and the destructor only |
| `freq`, `indexed` | `access_freq_`, `chunk_index_` |
| `cur`, `caller`, `victim`, `left` | locals of put() and of the evictions |

A record takes one slot of the file whatever its size (compression is data);
usage is counted in units of size, modulo `Wrap`. The size of the file is in tenths of a
record (`RecordSize`), so that its limit need not be a multiple of one: `Ensured` is
ensure_disk_space, which doubles the file, cuts that down to the limit and reports
success also when the record does not fit then. The record is written past the mapping
(`AppendPast`), which is undefined, and the model stops there; once the file has its
full size the next record is refused (`AppendFails`). That ftruncate or mmap fail while
the file grows is left out. Expiry (`Expire`) may happen at
any put(): time is not modelled. `Kill` keeps all that was written, the file being
a shared mapping; `PowerFailure` takes the data, or data and header, of any set of
records not yet synced. A kill in the middle of copying a record is covered by a
power failure that takes the last record.
After `compact_disk` the loader stops at the first v2 record: what it makes of one
depends on its data, and the end of the scan is the common outcome. A second-chance
scan of a list with one hot chunk ends in `pc = "undefined"`. Failures to map the
file at start-up and to allocate memory are left out. `evict_lru`, `disable_l3`
and `batch_get` have no caller and are not actions.

`ChunkMemory` is what a caller sees of it: the data of each key, the put() that runs,
and what the puts that returned true have stored. A put() stores at one moment or is
refused; chunks are forgotten at any time; nothing else changes. The refinement
mapping (`Stored`) gives a key the data of its copy in L2, or of its record in L3 if
read_from_disk could read it. That a chunk is between the tiers, in both, or in a
record that cannot be read now and could be later are the ways to break it: then what
was forgotten, or overwritten, would come back without a put(). It is checked and
proved for a process that starts on no file; with an old one, old data do come back
(`Overwritten` in section 4).

### ServerQueue

A critical section of `mutex_tasks` or of `mutex_results` is one step, and so is
what the main thread does between two of them. `main` is the program counter of
start_loop() and of the callbacks it runs, `client[c]` that of an HTTP thread
with one request of one task. `parked` is the set of threads waiting on
`condition_tasks` that nobody has notified: notify_one removes any one of them,
so a notification may go to the wrong thread, as it may in the code.
`condition_results` is polled, so a lost notification there only costs time and
is not modelled. A main thread that waits for tasks may time out (`TimeOut`); one
that sleeps does not.

| State | Code |
|---|---|
| `tasks`, `deferred` | `queue_tasks`, `queue_tasks_deferred` |
| `running`, `sleeping`, `req` | `running`, `sleeping`, `req_stop_sleeping` |
| `waiting`, `results` | `waiting_task_ids`, `queue_results` |
| `slot`, `tokens` | `slots[s].task`, and how many rounds it still needs |
| `hand`, `todo`, `released` | locals of the loop, the slots update_slots has not visited, the slot whose callback_on_release runs |
| `answer`, `cancelled`, `stopped` | history |

Which idle slot a completion gets (prompt similarity, then least recent use) is
any idle slot; how many rounds it needs is any number up to `MaxTokens`;
update_slots visits slots in any order. Stopping a reader is four steps, as it is
four sections in the code: `StopWaiting`, `DropResults`, `PostCancel`, and before
them the receipt or the time-out that caused it. Tasks of several prompts or
completions (parent and child tasks), and the requests for metrics, LoRA and the
KV strategy are not modelled. A request may name a slot by a number past the last:
get_slot_by_id takes it modulo the number of slots, and the comparison that pops a
deferred task for a slot takes it as it is, so such a task is popped in its turn only
(`wraps`). A
completion or an action may fail before any slot is looked up (`LaunchFails`, `Act`).

### KVCells and SequenceMemory

One thread drives a cache, so a call is one step; a decode() is one step with all
of its ubatches, any of which may fail. `SequenceMemory` knows tokens, their
positions and sequences, and that a window may forget; `KVCells` has all that is
between that promise and the tensors.

| State | Code |
|---|---|
| `conf` | `unified`, `n_swa` and `swa_type`, the size of a stream, what batches are decoded |
| `cells[m].pos`, `.seqs`, `.shift`, `.count`, `.head` | `v_cells[m]` (`pos`, `seq`, `shift`, `seq_pos`), `v_heads[m]` |
| `rows` | the K tensors: which token a row holds and what position it is rotated for |
| `copies` | `sc_info`, the stream copies that wait for update() |
| `ret` | what decode() returned |
| `strayed` | history: after a seq_div, or a copy that counted a token twice, only clear() is followed |

The refinement (`Implements`) maps the cells to the bag of tokens their rows hold
once the pending copies are made: so it is also about rows that a copy or a reuse
would mix up, not only about positions. A token forgotten by the window is a choice
in the abstract module and the reuse of a cell in the concrete one. The K-shift is
applied by update() before the next decode; `RopeAgrees` relates the row, the
pending shift and the position.

`IsMasked` has the three windows of is_masked_swa. The run has the standard one and the
chunked one, where a whole chunk is forgotten at once, its last token included; the
symmetric one belongs to models that have no memory. Positions are those init()
generates: explicit ones, and the checks that only they can fail, are in `PagedKV`.

The loops over the tokens of a ubatch are written by what they do: each cell of the slot
gets its token (`Assigned`, `Put`), and each counter changes by the number of cells that
were taken or filled (`Tally`). The loops over ubatches, where a slot depends on those
before it, are recursive functions. `BatchesAssumption` says what init() and the splitting of a batch make
sure of: a ubatch has tokens, a token has a sequence, and with a stream for each
sequence exactly one. `CoupledAssumption` leaves out one kind of batch that init()
takes: one where a sequence joins a token of another sequence that already had tokens
in the batch. `Placed` numbers a token by its first sequence, which is what init()
does when all sequences of a token have had the same number of tokens before it.

### RecurrentCells

A cell stands for the row of the state tensors with all tokens of its sequences.
`mem` is the metadata (`pos`, `src`, `seq_id`, `tail`, `head`, `used`), `rows` what
the rows have absorbed, `todo` the ubatches of a decode. `ProcessOk` is prepare()'s
placement of a ubatch, the copies the graph makes (build_rs: rows are gathered by
`src0`, the rest of the range is copied after them) and the update of the states;
`ProcessFail` the same without the graph. A failed GGML_ASSERT is a state
(`aborted`). After seq_rm(-1), which leaves tails without cells, only decode() and
clear() are followed.

find_slot's loops are written by what they do: the sequences that join a set give up
their cells at once (`Release`); the empty cells are listed in the order in which the
search meets them (`Empties`), and the n-th set without a cell of its own (`Lacking`)
gets the n-th of them. The loop that swaps cells into place is a recursive function
(`Gathered`), as each swap moves what the next one looks for. That a token names
each of its sequences once is assumed of the caller (`Ubatches`): nothing in
llama_batch_allocr checks it. A seq_add that would make a position negative, and so free
its cell, is left out: every caller shifts down by at most the start of its range.

### ServerModels

A section under the mutex is a step, and so is each act of a child process.
Condition variables are notified at every change they are waited for with, so a
wait is a guard.

| State | Code |
|---|---|
| `model[n]` | `mapping[n]`: `meta.status`, the subprocess, the monitor and stop threads; `unread` is the ready line in the child's pipe |
| `stopping`, `recent` | `stopping_models`; the order of `meta.last_used` among active models |
| `client`, `closing` | the HTTP threads, the end of main() |

The log thread of an instance ends with the output of the child, its stop thread
with a stop; the monitor joins both, clears the stop in between (`EraseStop`), and
resets the status at its end (`EndInstance`). An exit code is not kept: a waiting
client answers with an error whether the model failed or was unloaded. The choice
of a victim leaves out models used in the current millisecond in the code; here
the least recent one is always a candidate.

### KvStrategy

The definitions that the proofs of `ServerModels` would meet a second time carry the
module's name (`StrategyInit`, `StrategyNext`, `StrategySpec`, `StrategyTypeOK`). All
of it runs on the main thread, a handler at a time. Time is in units of ten
seconds. What slots use of the context, and the level a strategy decides for, are
what decisions depend on; the adaptive strategy reads metrics that are never set,
so it may decide anything its formula can give (`Targets`).

| State | Code |
|---|---|
| `used` | `slots[s].task`, and what it uses of the context |
| `main`, `posted` | where start_loop() is; the NEXT_RESPONSE that update_slots posts is in the queue |
| `server`, `type` | `ctx` and whether the server sleeps; `params_base.cache_type_k` and `_v` |
| `startup`, `strategy`, `level` | what load_model sets; `current_strategy_`, `current_level_` |
| `last`, `evaluated`, `now`, `rebuilt` | `last_rebuild_us_`, `last_strategy_eval_us`, the clock; history |

The loop takes tasks until there are none (`Set`, `Launch`, `Cancel`, `TakeNext`), calls
update_slots (`Update`, with `Evaluate`, then `Progress` and `Computed`), and waits, for
tasks or until it sleeps. Of the queue only the NEXT_RESPONSE is kept, as tasks of
clients may come at any time. `Rebuild` looks at the slots, and `Sleep` does not, as
handle_sleeping_state does not: that no task loses its context depends on the loop. It is
`ContextOutlivesTasks`, and the mutant is an update_slots that forgets its NEXT_RESPONSE.
`Rebuild` is the rebuild and the decision's application: refused with a busy slot,
successful (the model is loaded again, and load_model sets the startup strategy
again), or failed. After a failure the server stays up without a context (`lost`): a
later rebuild may bring one back, a task that needs one ends the server, and so may the
batch that destroy() then frees a second time (`aborted`). The server may have been
started with types of K and V that differ, or that have no level (`other`).

### ThreadPool and GraphCompute

`thread[t].pc` is where a thread is; a step is one atomic operation, one section
under the mutex, or one part of a node. Workers poll for any number of rounds and
then sleep; the barrier is five steps, so that threads still leaving one meet those
entering the next. `GraphCompute` has no threads: parts are computed in the order
of nodes, once, and the call returns when they are complete or it was aborted. The
refinement mapping is the identity on the graph, the work and the abort.
Assumptions: memory is sequentially consistent (the code has fences and seq_cst
operations at the barrier and the kickoff for this), no spurious wake-ups (which
only add rounds of a loop that checks its condition), no OpenMP; pause, resume and free
come from the computing thread, as in ggml_backend_cpu_set_threadpool.

## 3. Runs

| Run | Instance | Asks |
|---|---|---|
| `paged` | 2 sequences, 3 blocks of 2 tokens, 3 logical blocks, with a stream each and with one | `TypeOK`, `RefsCover`, `SharedAtSameIndex`, `ApplyAllocatesNothing`, `NoGap` (with a stream each) |
| `storage_tiers` | 3 keys, 2 values, room for 2 in L2, 2 in L3, 2 records and a tenth in the file, expiry | `TypeOK`, `LruAgrees`, `Exclusive`, `WithinLimits`, `Implements` (refinement) |
| `storage_restart` | 2 keys of 2 sizes, wrapping counters, 2 records, the file survives kills and power failures | `RightChunk`, `Released` (liveness) |
| `queue_tasks` | 3 clients, 2 slots, completions for any slot, slot actions, sleep, errors, hang-ups, a signal | `TypeOK`, `OnePlace`, `NotLost`, `NoStray`, `Driven` |
| `queue_answered` | 3 clients, 2 slots, completions for any slot, one slot, or a number that wraps around | `Answered` (liveness) |
| `recurrent` | 3 cells and sequences, ubatches of one to three sequences and of coupled ones, batches of two, failing graphs, removals, copies, shifts | `TypeOK`, `TailsAgree`, `UsedIsCount`, `StateIsText`, `NeverAborts` |
| `kv_cells` | 2 sequences; one stream of 3 cells with a standard window of 2; one of 2 cells with a chunked one; one of 2 cells with coupled sequences; two of 2 cells; refused and failing batches | `TypeOK`, `CountsAgree`, `RopeAgrees`, `Implements` (refinement), `DecodeLeavesNoGap` |
| `router` | 2 models, 2 HTTP threads, a limit of 1, crashes, a shutdown | `TypeOK`, `NoOrphan`, `JoinNeverWaits`, `StopEnds` (liveness) |
| `kv_strategy` | 2 slots, fills around the thresholds, scores around the limits, 50 seconds | `TypeOK`, `RebuildsApart`, `ContextOutlivesTasks` |
| `threadpool` | 3 threads, two graphs in a row on one to three of them, aborts, pause and free | `TypeOK`, `ParametersQuiet`, `Implements` (refinement), `ComputeEnds`, `FreeEnds` (liveness) |
| `router_loading`, `kv_level` | | find a violation, section 4 |

Bounds and why they are enough. The batches of `MCPagedKV` have
ascending positions. A sequence of up to three blocks with a pool of
three shows an empty pool with one sequence, with two, and after sharing; two
tokens to a block show a block that is half full at the end of a ubatch. The
reference count reaches `MaxRef` after copies over copies; the code's is 32 bits wide.
The reference count is the only unbounded counter there. In the
storage, `storage_tiers` has room for two of three chunks in L2, so that put()
evicts and an L2 list has an inside; a chunk that expired leaves the room a
promotion needs. Two records fill the log, so that appends fail, and trigger
compaction; in `storage_tiers` the file begins with room for one and a half and its limit is a
tenth above two, which cuts its growth short: a record after the two is refused, or, when
the file has grown to two whole records since a compaction, written past its end; `storage_restart` has room for one chunk in L2, an older and a newer
record of a key in the file, and two sizes with a small `Wrap`, since only then the
counters leave the truth. `Threshold` and `MaxFreq` are such that a chunk can be
spared and can lose its protection. In the queue, three clients on two slots are the
least with a deferred task and a different one popped before it; two tasks are
deferred at once in `queue_tasks` by actions for the same slot and in
`queue_answered` by completions pinned to one. `MaxTokens` is 1: a task may end in
the round that launches it or need another, with everything interleaved between.

Three cells are the least for which a ubatch of two recurrent sequences swaps a
third away, and three sequences share, part and gather them. In `kv_cells` the
window of 2 in 3 cells makes a fourth token use a cell again, within a batch and
between batches; two cells with coupled sequences or two streams make batches that
do not fit. One pending shift and one pending copy meet each other; `MaxShift` and
`MaxCopies` bound how many calls come between two decodes. In the router every
load of the second model evicts the first, while its threads are in any state. In
`kv_strategy` the clock lets a second rebuild follow a first, with the cooldown over and with
it not over, and sleeps and evaluations in between. In
`threadpool` the first graph has a worker more chunks than threads and the second
fewer; with `MaxGraphs` 2 every worker may be late for the second graph, be out of
it, or sleep through the first.

`VIEW WithoutGpu` in the paged run leaves the GPU table out of the state: no
action reads it; `VIEW Readable` in `recurrent` and `kv_cells` leaves out rows that
nothing can read any more. Symmetry is over keys and data, or over clients, and is used in
no run with a liveness property.
`CHECK_DEADLOCK FALSE` in the queue's configurations: the server stops after
terminate(), and clients are finite; in the router's, whose shutdown may hang
(`ShutdownEnds`); in `KvStrategy.cfg`, where a failed reload, or the second free of a
batch, ends the server; and in `ThreadPool.cfg`, where the pool ends, with
`ComputeEnds` and `FreeEnds` saying that nothing else does. The other runs check
for deadlock.

Fairness. `ChunkStorage!FairSpec` has weak fairness of the steps of the thread
that holds the mutex: it waits for nothing but the file, and the scheduler runs
it. `ServerQueue!FairSpec` has weak fairness of the main thread, whose waits are
bounded unless it sleeps, and of each HTTP thread once it has begun a request;
nobody is made to send one, to hang up or to send a signal. `Answered` also
relies on a task ending after a bounded number of rounds, as the context limit
makes it. With errors, hang-ups, slot actions or sleep `Answered` does not hold:
see `DeferredUntilAvailable` and `TaskReloads`. `ServerModels!Spec` has weak fairness
of each HTTP thread that has begun, of the threads of an instance, and of a child
that loads its model unless it crashes; a child that is told to exit may never do
so, and nobody is made to ask for anything. `ThreadPool!Spec` has weak fairness of
every thread, as the operating system schedules them; polling ends after some
rounds or goes on.

What the passing runs show beyond a unit test's reach: an empty pool in the trial
of prepare() leaves the real placement nothing to allocate (`ApplyAllocatesNothing`),
although paged mode restores nothing in between; the node lists and the maps of the
storage agree through every mixture of second chance, promotion, failed write and
compaction (`LruAgrees`); the eviction loops end, also after a crash and with wrong
usage counters (`Released`); no order of
stop(), send() and post() loses a task or keeps a result (`NotLost`, `NoStray`);
renamed cells and moved rows agree in every order of copies, gatherings and
failures (`StateIsText`); cells used again, refused batches and postponed copies and
shifts cannot be told from a plain bag of tokens (`KVCells!Implements`), but for the
disagreements below; no crash at any point leaves a process beside the one the
router knows (`NoOrphan`) or a stop that hangs once it is under way (`StopEnds`); and a
barrier that is entered again while threads still leave it neither lets one
through early nor keeps one (`ThreadPool!Implements`, `ComputeEnds`).

## 4. Known disagreements

Runs that end in a violation, with the sentence of the repository that the code
contradicts; `PROJECT.json` "findings" quotes each.

| Run | Property | What happens |
|---|---|---|
| `router_loading` | `LoadingEnds` | a child ends by itself; its monitor waits for the stop thread, which waits for a stop: the model stays loading for ever |
| `kv_level` | `LevelIsType` | a decision whose rebuild the cooldown suppressed is applied: the level changes, the cache does not |

The modules state more properties of this kind, in their last sections. They are
violated as well; add the property to the configuration named here to see how.

| Property | Configuration | What happens |
|---|---|---|
| `NoLeak` (invariant) | `Paged` | seq_cp onto a sequence that has blocks drops their last name without freeing them |
| `DecodedIsPlaced` (property) | `Paged` | with no free block, tokens are skipped and decode() returns 0 |
| `FailedIsRemoved` (property) | `Paged` | a failed ubatch that does not start at position 0 stays in the table |
| `DecreasingRefused` (property) | `Paged`, `SmallBatches` with a batch of decreasing positions | init() compares positions with `cur_seq_pos`, which nothing sets: the batch is decoded, and with an empty pool it leaves a gap (`NoGap`) |
| `AllRemoved` (property) | `Paged` | seq_rm(-1) erases an entry and then its iterator |
| `GpuTableAgrees` (invariant) | `Paged` | copies and removals do not reach the GPU block table |
| `PhysicalIsLogical` (invariant) | `Paged` | the second sequence's logical block 0 is another physical block, while rows are written at logical positions |
| `UsageIsSum`, `DiskUsageIsSum` (invariants) | `StorageRestart` | overwriting with another size leaves `l2_usage_bytes_`; erasing an L3 entry subtracts the new chunk's size |
| `SpaceEnsured` (property) | `StorageTiers` | the file grows to its limit, which is less than the record needs, and the record is written past the mapping |
| `Defined` (property) | `StorageRestart` | the second chance reads the iterator it erased |
| `MovedIfSpace` (property) | `StorageTiers` | the log is full of dead records: the chunk is dropped although the tier has room |
| `L2Discarded` (property) | `StorageTiers` | the destructor writes L2 to disk |
| `CompactionKeeps` (property) | `StorageTiers` | the chunk that compaction kept cannot be read any more (v2 header, uncompressed) |
| `Overwritten` (invariant) | `StorageRestart` | an overwritten chunk is back after a crash |
| `DeferredUntilAvailable` (property) | `QueueTasks` | a slot action popped on a release releases nothing; completions behind it stay deferred while all slots are idle. A launch that fails and a cancelled task that was popped do the same |
| `TaskReloads` (property, with `FairSpec`) | `QueueTasks` | the model is unloaded between wait_until_no_sleep() and post(): the task does not wake the main thread |
| `CancelEnds` (invariant) | `QueueTasks` | a task in the main thread's hands when it is cancelled is deferred afterwards, and computed |
| `TerminateUnblocks` (property) | `QueueAnswered`, `Signals = TRUE` | terminate() before start_loop() is forgotten |
| `WipedIsUsable` (invariant) | `Recurrent` | seq_rm(-1) leaves the tails: the next decode fails an assertion |
| `FailedIsRemoved` (invariant) | `Recurrent` | after a failed graph the cells take the rows for moved |
| `RefusedIsUnchanged` (property) | `KVCells` | a refused batch leaves tokens of the window purged |
| `HeadsRestored` (property) | `KVCells` | with several streams, prepare() restores the head of one from another |
| `KeptAlone` (property) | `KVCells` | seq_keep leaves the sequences of other streams |
| `DividedRopeAgrees` (invariant) | `KVCells` | pos_div adds the distance with the wrong sign to the shift |
| `LimitHolds` (invariant) | `Router` | two threads find room before either loads: more models than `--models-max` |
| `StopIsForCurrent` (invariant) | `Router` | a stop after the monitor cleared stopping_models stops the next instance |
| `NeverEvictsItself` (invariant) | `Router` | a thread evicts the model it is about to load |
| `EvictionEnds`, `ShutdownEnds` (properties) | `Router` | a victim is loaded again and again; the shutdown waits for the monitor of a crashed child |
| `AdaptiveSettles` (invariant) | `KvStrategy` | the hysteresis has the wrong sign: a score above a limit alternates between two levels |
| `StrategyIsKept` (property) | `KvStrategy` | a rebuild sets the strategy of the startup again |
| `FailureKeepsContext` (invariant) | `KvStrategy` | a reload that fails leaves no context (docs/clawgate-kv-strategy-api.md says the server remains on its level) |

## 5. Proofs

`PagedKVProofs` proves for every pool, block size, set of sequences and set of
batches that satisfy `PagedAssumption` and `BatchesAssumption`:

- `TypeCorrect`: `Spec => []TypeOK`.
- `NoUseAfterFree`: `Spec => []RefsCover`. No block on the free list is named by a
  table, and counts are never below the entries that name a block.
- `SharingIsAligned`: `Spec => []SharedAtSameIndex`.
- `TrialTakesAll`: `Spec => ApplyAllocatesNothing`.
- `TablesHaveNoGap`: `Spec => []NoGap`, if positions ascend in every batch
  (`Ascending`). llama_batch means to demand this and does not: `DecreasingRefused`
  in section 4.

`TypeOK` is inductive alone, up to two bounds that come from elsewhere: a count
stays at or above 0 because it is never below the number of names
(`RefsCover`), and at or below `MaxRef` because of the guard of `SeqCp`. So the
invariant the first three rest on is their conjunction. The heart is how `Refs` and
`Named`, cardinalities of sets of table entries, change in each action:
`Allocate` adds one entry that names a block nothing named before;
`RemoveSequences` takes exactly `Refs(S, b)` names from `b`; `SeqCp(src, dst)`
takes the names in the table of `dst` and adds those in that of `src`, where the
count only grows, so it stays above (and, for a leaked block, strictly).
`SharedAtSameIndex` needs `RefsCover`: an allocated block comes from the free list
and so has no other name. Each of these is a lemma about finite sets with the
library's cardinality theorems, and each action has its own preservation lemma.

The other two speak of the trial. `Tried` says that, while blocks are free, each
token of an accepted ubatch has its block, or is still ahead of the trial. `Gapless`
says that a table is `Solid` (what is allocated is a prefix, and ends where the
sequence ends) and that the tokens still ahead, through all the remaining ubatches,
continue each sequence (`Continues`). It is needed because a ubatch does not show
where the sequence ended when the decode began.

`ServerModelsProofs` proves for every set of models and HTTP threads, every limit
and with or without crashes:

- `TypeCorrect`: `Spec => []TypeOK`. The list of used models holds each active model
  once and no other (`Listed`), so every model that unload_lru finds can be unloaded.
- `OneProcess`: `Spec => []NoOrphan`, and `LoadDoesNotWait`: `Spec => []JoinNeverWaits`.
- The last two follow from `MonitorIsLast`: for each instance, the status is unloaded
  exactly if there is no monitor; without a monitor there is no child, no stop
  thread and no unread line; and a monitor that joins has seen the child's end and
  the last of its output. The last part is why it is inductive: a ready line that
  is read late would set the status again. Each step changes one instance at most
  (`OneInstance`), so the proof is one record per action.

`SequenceLemmas` is what the queues and lists of the next two modules rest on: for
each operator on sequences, where the elements of its result come from and where
those of its argument go. Induction is by the least counterexample (`LeastOf`, `UpTo`),
since an induction theorem with an operator parameter cannot be used; `Recursion`
lets a recursive function on sequences be unfolded.

`ServerQueueProofs` proves for any HTTP threads, slots, requests and numbers of tokens:

- `TypeCorrect`; `TaskInOnePlace`: `Spec => []OnePlace`; `NobodyWaitsInVain`:
  `Spec => []NotLost`; `ResultsHaveReaders`: `Spec => []NoStray`;
  `WorkDrivesTheLoop`: `Spec => []Driven`.
- All follow from one invariant, `Inv`: where the task of each client is, and that
  it is there once (`Alone`); what the client may rely on (`Requested`): a task that
  is anywhere has been posted and has no final result yet; what is in the queue of
  results (`Ordered`): each has a reader, and the final one of a task is its last;
  and when the main thread may rest (`Loop`). None is inductive without the
  others: a result finds a reader only because a task on a slot belongs to a client
  that waits or cancels, and a cancelled client leaves nothing behind only
  because its task is in one place. `NamesAssumption` says that the names for "no
  task" and for the main thread are no client's.

`ChunkStorageProofs` proves for any keys, data, limits and sizes, with kills, power
failures and restarts:

- `TypeCorrect`; `ListsFollowMaps`: `Spec => []LruAgrees`; `OneTier`:
  `Spec => []Exclusive`; `OwnChunk`: `Spec => []RightChunk`.
- `LastPutReturned`: `Spec => []Current`, without a file from an earlier process
  (`~KeepFile`). With one, the copy loaded may be older than the last put
  (`Overwritten` in section 4). The run asks `Implements`, which says more.
- `LimitsKept`: `Spec => []WithinLimits`, without a file and for chunks of one size. With
  two sizes put() miscounts (`UsageIsSum`, `DiskUsageIsSum`), and the constructor adds
  up every record of a file, also of keys that occur twice. Of the file it says that
  each record L3 has an offset for lies inside, and not that nothing is written outside, which is not so
  (`SpaceEnsured`).
- The invariant relates the program counter to the maps. `Control` says what a loop has found
  out and relies on: put() made sure that its key is in no tier, then evicts
  any number of chunks, and only then inserts; the eviction's victim is in L2 until
  it is written. `TierL2` and `TierL3` say that each list names what its map
  holds, and that records of L3 lie below the end of the file, where no append
  reaches them; `Written` that a record that can be read has data, across a power
  failure; `Same` whose data. For the limits, `Limits(s)` states the counters as
  multiples of the number of chunks, from which no subtraction wraps.
- `TiersActAsOne`: `Spec => Implements`, without a file: the refinement of `ChunkMemory`.
  It needs, besides that invariant, `Resting`: no record lies past the end of the file,
  from where it would come back when the file grows for another one; and no put() is
  left when none runs. What get() would return of a key (`Copy`) stays, is lost, or is
  what put() stores, a lemma for each kind of step: the promotion from a record, whose
  own copy it is; the append, which may lengthen the file and reaches no other record
  (`CopyAppended`); a failed write, after which no older record is left in L3 because
  no key is in both tiers (`CopyLeaves`); compaction and unmounting, after which
  nothing of L3 can be read (`FileSteps`).

`KVCellsProofs` proves for any size of the streams, any batches that satisfy
`BatchesAssumption` and `CoupledAssumption`, and any ranges and shifts of the calls:

- `CellsTypeCorrect`: `Spec => []TypeOK`; `CountersAgree`: `Spec => []CountsAgree`;
  `KeysAreRotated`: `Spec => []RopeAgrees`.
- The invariant is the conjunction of the three, which the run `kv_cells` checks. The
  types alone are not inductive: that no counter falls below 0 follows from
  `CountsAgree`, and that a cell keeps its key from the listing of its sequences.
- A stream is `Valid` if its cells are empty exactly when they list no sequence
  (`Listing`) and each sequence and position is counted once per cell (`Counted`). Two
  lemmas say that taking sequences out of cells (`Drop`) and putting tokens into
  them (`Fill`) keep that; all calls are made of the two, and of shifts, where two positions
  may meet and a cell may leave the range.
- decode() is followed through its three passes. The trial places each ubatch and adds
  nothing to a cell that was not there (`Within`); the way back restores the cells of each
  slot, in reverse, to what they were before that ubatch, so all of them are valid again;
  the processing writes rows for the positions of their cells (`Told`), and
  a cell that is overwritten loses its pending shift with its tokens.
- Pending copies come before pending shifts, so what is related to the position is the
  row once the copies are made, with the shift of the cell it is copied to (`Ropes`).

`ServerModelsProofs` also proves, of `KvStrategy`, for every number of slots and any fills and scores:

- `StrategyTypeCorrect`; `CooldownHolds`: `StrategySpec => RebuildsApart`; `TasksKeepTheirContext`:
  `StrategySpec => ContextOutlivesTasks`. The strengthening is that `last_rebuild_us_` is the
  time of the last rebuild (`Cooldown`); that the loop computes or waits with a busy slot
  only when its NEXT_RESPONSE is in the queue (`Driven`), so that it does not sleep then;
  and that nothing is busy without a context (`Quiet`). Neither of the last two is
  a guard of the action that needs it: they hold through `Update` and the order of the loop.
- `ThresholdLevelSettles`: the threshold strategy settles at every utilization
  (`ThresholdSettles`; no run has to check it).

`ThreadPoolProofs` proves for every number of threads and any graphs:

- `TypeCorrect`, and `ParametersKept`: `Spec => []ParametersQuiet`.
- Both follow from `Inv`, which says what the barrier does. It has to speak of threads
  that have been let go and have not noticed, and of workers that have not seen the
  new graph; such a thread is described by where it goes (`Here`). So described, all
  threads that compute a graph are on their way to the same barrier, which is a
  function of the graph, the abort and the place (`Key`), or all are out of the graph
  (`Together`); the counter counts those that wait, and when one thread is the
  last all others wait (`Counted`). The abort is thread 0's alone: it is set
  behind a node, before the barrier after it, and the lemma `KeyAborts` says that the
  threads that have not come as far still go to that barrier. There is one lemma per
  action.

From it `ThreadPoolProofs` proves, for the same instances, the refinement
`ImplementsGraphCompute`: `Spec => Implements`.

- What the threads share out is in `WorkInvariant`. A part of a node is computed, in the
  hands of one thread (its own first part, or a chunk it has taken), or an open chunk,
  and never two of these (`Tallied`). The chunk counter belongs to the node that
  thread 0 has begun last; a thread that is still at a node thread 0 has done finds
  the counter past its chunks (`Share`).
- It is inductive only with `Inv`: while one thread computes a node, all others have done
  the nodes before it, and if it has chunks, have begun it (`Behind`), so
  the counter is not reset under a thread that takes chunks from it.
- The rest is the simulation: a part is computed when all threads have passed
  the nodes before it (`Finished`); at an abort no thread has begun the next node
  (`NotAhead`, `NotBegun`); and when thread 0 leaves the last barrier everybody has
  done everything up to the node they stop at (`DoneAtEnd`). All other steps stutter.

`RecurrentCellsProofs` proves for any number of cells, any batches and bounds:

- `TypeCorrect`; `TailIsTheCell`: `Spec => []TailsAgree`; `UsedCells`:
  `Spec => []UsedIsCount`; `RowsHoldTheTokens`: `Spec => []StateIsText`;
  `NoAssertionFails`: `Spec => []NeverAborts`.
- Two halves of "tails and cells agree" have to be told apart, for seq_rm(-1) and
  find_slot both break one of them. That a cell names only sequences whose tail it is
  (`Named`) always holds, and with it the types and the count of used cells (`Rested`).
  That a tail is in its cell (`Tailed`), and that the rows hold the texts (`Tells`), is
  the part of the invariant that ends with seq_rm(-1) or a failed graph.
- find_slot is a chain of lemmas, one per stage, each about what it does to the
  ubatch and about what it leaves alone (`Kept`). A cell can always be found
  (`RoomForAll`) because somebody stays in every occupied cell (`SomebodyStays`), so
  that the sequences that lack a cell are at most as many as the empty cells. A row
  can be zeroed (`SlotIsOk`) by counting: cells outside the range read their own rows or
  none, so if every row of the range is read, every cell of the range reads one, and
  none asks for a zeroed row.
- The step that computes a graph (`ComputeTells`) shows that the rows, gathered by
  `src0`, undo the renamings.
- The invariant speaks of the future too: the ubatches that wait have been through
  the trial and will find their slots (`Runs`), and continue one another (`Follows`), so
  that the second placement cannot differ and positions stay bounded.

All safety invariants that a passing run checks are thus proved, except
`DecodeLeavesNoGap`, and so are the action properties and the refinements of `GraphCompute`
and `ChunkMemory`. Only model-checked:

- liveness (`Released`, `Answered`, `StopEnds`, `ComputeEnds`, `FreeEnds`), which is
  outside what the prover handles;
- that `KVCells` implements `SequenceMemory`: the tokens of a batch are added to a bag by
  a fold, while a cell is overwritten as part of a slot, and a bag of the cells of
  several streams is compared with it token by token;
- `DecodeLeavesNoGap` of `KVCells`: that the window leaves no hole in a sequence, while a
  batch is placed ubatch by ubatch, depends on the rest of the batch, which has to
  continue where the ubatches before ended; its invariant would speak of all
  ubatches still to come, as `Follows` does for `RecurrentCells`.

## 6. Not modelled, and why

Tensors, kernels and numeric results, graph building and its allocator, the other
backends; file formats and loaders; parsing and formatting of HTTP, chat and
command lines; sampling and grammars; the Python integration. They are by far most
of the repository's lines. They keep no state whose order matters here, or come
from upstream. Within the parts that are modelled: see section 2 and the notes of
"components". Parts with a state that were looked at and left out:

- *LMCache hook* (`llama-context.cpp`, around process_ubatch). What it does to K and
  V would be the model, and no property of it is left to check: it never stores V
  and a full hit skips the computation of V and of the outputs; chunks outside the
  ubatch are found by position alone, also in a decode, so the rows of one
  conversation come back in another; in the second ubatch of a prompt the key is
  made of other tokens than the rows stored under it.
- *Metal buffer pool*. Nothing stores into it, so it is always empty.
- *prefetch_hot_chunks, batch_get, SIGUSR1*. The first has one caller, the constructor,
  where no chunk has been read yet, so its loop does nothing; the second is used by a
  single-threaded benchmark only; the third calls safe_unmount in a thread that may
  hold the mutex, which is one line to read, and nothing happens after it.
- *find_prefix_match* reads the storage and changes nothing; its result is used by
  the hook only.
- *State save and load, llama_kv_cache_iswa, hybrid memory*: file formats, and
  pairs of caches that pass every call on.
- *Tasks of several prompts, prompt cache, speculative decoding, context shift* of
  the server.

The deadlock of a signal handler that calls terminate() in a thread that holds the
mutex is visible in one line of code, and is not modelled.

## 7. Plan

What would come next, most important first.

1. `ServerQueue` with readers of several tasks and with parent and child tasks,
   and its composition with `KvStrategy`, which has the loop but not the queues: a SET
   task is a task like others, and a rebuild clears the slots that deferred tasks wait for.
2. `PagedKV` against `SequenceMemory`, where its disagreements (section 4) have to be
   excluded first.
3. The pair of caches of `llama_kv_cache_iswa` and the hybrid memory: the two
   memories must refuse, place and remove together.
4. Theorems: `DecodeLeavesNoGap` of `KVCells`, then its refinement of
   `SequenceMemory`, with a bag defined without a fold.
