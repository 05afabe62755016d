------------------------------ MODULE PagedKV ------------------------------
(***************************************************************************)
(* The paged-attention mode of the KV cache: llama_block_pool              *)
(* (src/src/llama-block-pool.cpp) and the paged paths of llama_kv_cache    *)
(* (src/src/llama-kv-cache.cpp).                                           *)
(*                                                                         *)
(* A pool of physical blocks is shared by the sequences; each sequence has *)
(* a block table from logical to physical blocks, and each block a         *)
(* reference count.  The llama_context that owns the cache is driven by    *)
(* one thread, so a handler runs to its end before the next one starts;    *)
(* the tokens of a decoded batch are still one step each (todo), because   *)
(* every token may allocate a block, and nothing else runs between them.   *)
(*                                                                         *)
(* An operator named Wrong... is no part of the model: it is the operator  *)
(* that follows it with a plausible mistake, which a property must notice  *)
(* when it takes that operator's place.                                    *)
(***************************************************************************)
EXTENDS Integers, Sequences, FiniteSets, SequencesExt

CONSTANTS
    NumBlocks,  (* num_blocks: physical blocks in the pool                 *)
    BlockSize,  (* block_size: tokens per block                            *)
    Seqs,       (* sequence ids                                            *)
    MaxBlocks,  (* max_blocks_per_seq = ceil(kv_size / block_size)         *)
    MaxRef,     (* bound on a reference count (the code's is an int32_t)   *)
    Batches     (* the batches decoded: sequences of ubatches of tokens    *)

ASSUME PagedAssumption ==
    /\ NumBlocks \in Nat
    /\ BlockSize \in Nat \ {0}
    /\ MaxBlocks \in Nat \ {0}
    /\ MaxRef \in Nat \ {0}
    /\ Seqs \subseteq Nat
    /\ IsFiniteSet(Seqs)

Blocks  == 0 .. NumBlocks - 1
Logical == 0 .. MaxBlocks - 1
None    == -1
Token   == [seq: Seqs, pos: 0 .. MaxBlocks * BlockSize - 1]
Ubatch  == Seq(Token) \ {<<>>}

ASSUME BatchesAssumption == \A u \in Batches : u \in Seq(Ubatch) /\ u # <<>>

VARIABLES
    refCount,   (* blocks[b].ref_count                                     *)
    free,       (* free_blocks (blocks[b].is_free changes with it)         *)
    present,    (* the sequences that are keys of block_tables             *)
    table,      (* block_tables[s].logical_to_physical, None where it is   *)
                (* -1, beyond the vector's end, or the entry is absent     *)
    nTokens,    (* block_tables[s].n_tokens                                *)
    gpu,        (* block_table_gpu                                         *)
    phase,      (* what decode() is doing: idle, prepare, compute          *)
    trial,      (* the ubatches prepare() has still to place               *)
    batch,      (* the ubatches decode() has still to compute              *)
    todo,       (* the tokens apply_ubatch_paged has still to place        *)
    ub,         (* an erased map iterator has been used                    *)
    unified     (* the parameter: one stream for all sequences             *)

pool == <<refCount, free, present, table, nTokens>>
vars == <<pool, gpu, phase, trial, batch, todo, ub, unified>>

NoTable == [l \in Logical |-> None]

Init ==
    /\ refCount = [b \in Blocks |-> 0]
    /\ free = Blocks
    /\ present = {}
    /\ table = [s \in Seqs |-> NoTable]
    /\ nTokens = [s \in Seqs |-> 0]
    /\ gpu = [s \in Seqs |-> NoTable]
    /\ phase = "idle"
    /\ trial = <<>>
    /\ batch = <<>>
    /\ todo = <<>>
    /\ ub = FALSE
    /\ unified \in BOOLEAN

(* No handler is running and the process is still in a defined state.      *)
Idle == phase = "idle" /\ ~ub
-----------------------------------------------------------------------------
SeqsOf(ubatch) == {ubatch[i].seq : i \in DOMAIN ubatch}
PosOf(ubatch, s) == {ubatch[i].pos : i \in {j \in DOMAIN ubatch : ubatch[j].seq = s}}

(* llama_batch_allocr::init: positions of a sequence are continuous, and   *)
(* they start right after the last one the memory reports (seq_pos_max),   *)
(* if it reports one.  That they do not decrease it means to check, too,   *)
(* with cur_seq_pos, which nothing sets: their order in the batch is free. *)
Accepted(ubatches) ==
    \A s \in UNION {SeqsOf(u) : u \in Range(ubatches)} :
        LET P == UNION {PosOf(u, s) : u \in Range(ubatches)}
        IN  \E p \in P : /\ \A q \in P : p <= q
                         /\ P = p .. p + Cardinality(P) - 1
                         /\ nTokens[s] > 0 => p = nTokens[s]

(* Where apply_ubatch_paged places the tokens of a ubatch: with one stream *)
(* (sinfo.n_stream() = 1) everything goes to the table of seq_id_unq[0],   *)
(* the smallest id of the ubatch; with a stream per sequence, to its own.  *)
Placement(ubatch) ==
    LET first == CHOOSE s \in SeqsOf(ubatch) : \A r \in SeqsOf(ubatch) : s <= r
    IN  [i \in DOMAIN ubatch |->
            [seq |-> IF unified THEN first ELSE ubatch[i].seq, pos |-> ubatch[i].pos]]

(* decode(): init_batch -> prepare() places every ubatch as a trial        *)
(* (find_slot_paged never refuses one).  Afterwards it puts back the cells *)
(* and the heads, which paged mode does not use, and not the block pool.   *)
Decode(ubatches) ==
    /\ Idle
    /\ Accepted(ubatches)
    /\ phase' = "prepare"
    /\ trial' = ubatches
    /\ batch' = ubatches
    /\ UNCHANGED <<pool, gpu, todo, ub>>

WrongPrepare ==
    /\ phase = "prepare"
    /\ todo = <<>>
    /\ trial # <<>>
    /\ trial' = Tail(trial)
    /\ UNCHANGED <<pool, gpu, phase, batch, todo, ub>>

PrepareUbatch ==
    /\ phase = "prepare"
    /\ todo = <<>>
    /\ trial # <<>>
    /\ trial' = Tail(trial)
    /\ todo' = Placement(Head(trial))
    /\ UNCHANGED <<pool, gpu, phase, batch, ub>>

(* *free_blocks.begin() *)
FirstFree == CHOOSE b \in free : \A c \in free : b <= c

(* A free block is taken for logical block l of the table of s.            *)
WrongAllocate(s, l) ==
    /\ refCount' = [refCount EXCEPT ![FirstFree] = 1]
    /\ table' = [table EXCEPT ![s] = [@ EXCEPT ![l] = FirstFree]]
    /\ gpu' = [gpu EXCEPT ![s] = [@ EXCEPT ![l] = FirstFree]]
    /\ UNCHANGED free

Allocate(s, l) ==
    /\ free' = free \ {FirstFree}
    /\ refCount' = [refCount EXCEPT ![FirstFree] = 1]
    /\ table' = [table EXCEPT ![s] = [@ EXCEPT ![l] = FirstFree]]
    /\ gpu' = [gpu EXCEPT ![s] = [@ EXCEPT ![l] = FirstFree]]

(* n_tokens is one more than the largest position placed.                  *)
Count(s, pos) ==
    nTokens' = [nTokens EXCEPT ![s] = IF @ > pos THEN @ ELSE pos + 1]

(* No block is left: the token is logged and skipped, and not counted.     *)
WrongSkip(s, pos) ==
    /\ Count(s, pos)
    /\ UNCHANGED <<refCount, free, table, gpu>>

Skip(s, pos) == UNCHANGED <<refCount, free, table, gpu, nTokens>>

(* One iteration of the loop of apply_ubatch_paged.                        *)
PlaceToken ==
    /\ todo # <<>>
    /\ LET s == Head(todo).seq
           p == Head(todo).pos
           l == p \div BlockSize
       IN  /\ present' = present \cup {s}
           /\ \/ /\ table[s][l] # None
                 /\ Count(s, p)
                 /\ UNCHANGED <<refCount, free, table, gpu>>
              \/ /\ table[s][l] = None
                 /\ free # {}
                 /\ Allocate(s, l)
                 /\ Count(s, p)
              \/ /\ table[s][l] = None
                 /\ free = {}
                 /\ Skip(s, p)
    /\ todo' = Tail(todo)
    /\ UNCHANGED <<phase, trial, batch, ub>>

(* process_ubatch: mctx->apply() places the next ubatch again, for real.   *)
Apply ==
    /\ phase = "prepare"
    /\ todo = <<>>
    /\ trial = <<>>
    /\ phase' = "compute"
    /\ todo' = Placement(Head(batch))
    /\ UNCHANGED <<pool, gpu, trial, batch, ub>>

(* The graph of the ubatch is computed; decode() goes on or returns 0.     *)
ComputeOk ==
    /\ phase = "compute"
    /\ todo = <<>>
    /\ batch' = Tail(batch)
    /\ phase' = IF Tail(batch) = <<>> THEN "idle" ELSE "prepare"
    /\ UNCHANGED <<pool, gpu, trial, todo, ub>>
-----------------------------------------------------------------------------
(* How many entries of the tables of S name block b. *)
Refs(S, b) == Cardinality({x \in S \X Logical : table[x[1]][x[2]] = b})

(* remove_sequence(s) for every s of S: free_block() on each entry, then   *)
(* drop the table.  free_block ignores -1, decrements, and releases the    *)
(* block at zero or below.                                                 *)
WrongRemove(S) ==
    /\ refCount' = [b \in Blocks |-> refCount[b] - Refs(S, b)]
    /\ free' = free \cup {b \in Blocks : Refs(S, b) > 0 /\ refCount[b] <= Refs(S, b)}
    /\ UNCHANGED <<present, table, nTokens>>

RemoveSequences(S) ==
    /\ refCount' = [b \in Blocks |-> refCount[b] - Refs(S, b)]
    /\ free' = free \cup {b \in Blocks : Refs(S, b) > 0 /\ refCount[b] <= Refs(S, b)}
    /\ present' = present \ S
    /\ table' = [s \in Seqs |-> IF s \in S THEN NoTable ELSE table[s]]
    /\ nTokens' = [s \in Seqs |-> IF s \in S THEN 0 ELSE nTokens[s]]

(* The graph fails or is aborted: decode() removes the positions of the    *)
(* ubatch, from the first one up, of each of its sequences.  In paged mode *)
(* seq_rm does that only from position 0, and otherwise warns and returns. *)
ComputeFail ==
    /\ phase = "compute"
    /\ todo = <<>>
    /\ RemoveSequences({s \in SeqsOf(Head(batch)) : 0 \in PosOf(Head(batch), s)})
    /\ batch' = <<>>
    /\ phase' = "idle"
    /\ UNCHANGED <<gpu, trial, todo, ub>>

(* seq_rm(s, 0, max).  Removing part of the positions only warns and       *)
(* returns true; clear() resets cells and heads and not the pool: neither  *)
(* changes anything here, so neither is an action.                         *)
SeqRm(s) ==
    /\ Idle
    /\ RemoveSequences({s})
    /\ UNCHANGED <<gpu, phase, trial, batch, todo, ub>>

(* seq_rm(-1, ..) and seq_keep(keep): for each table, remove_sequence()    *)
(* erases the map entry and the loop then erases the same iterator again.  *)
(* Using the invalid iterator is undefined; the process is written off.    *)
RemoveOthers(keep) ==
    /\ Idle
    /\ ub' = (present \ keep # {})
    /\ UNCHANGED <<pool, gpu, phase, trial, batch, todo>>

(* seq_cp(src, dst): the table of dst is overwritten, then every block the *)
(* new table names gains a reference.  The GPU table is not written.       *)
WrongSeqCp(src, dst) ==
    /\ Idle
    /\ src \in present
    /\ table' = [table EXCEPT ![dst] = table[src]]
    /\ nTokens' = [nTokens EXCEPT ![dst] = nTokens[src]]
    /\ present' = present \cup {dst}
    /\ UNCHANGED <<refCount, free, gpu, phase, trial, batch, todo, ub>>

SeqCp(src, dst) ==
    /\ Idle
    /\ src \in present
    /\ \A b \in Blocks : refCount[b] + Refs({src}, b) <= MaxRef
    /\ table' = [table EXCEPT ![dst] = table[src]]
    /\ nTokens' = [nTokens EXCEPT ![dst] = nTokens[src]]
    /\ present' = present \cup {dst}
    /\ refCount' = [b \in Blocks |-> refCount[b] + Refs({src}, b)]
    /\ UNCHANGED <<free, gpu, phase, trial, batch, todo, ub>>

(* The process is started again and constructs a new cache.                *)
Restart ==
    /\ ub
    /\ refCount' = [b \in Blocks |-> 0]
    /\ free' = Blocks
    /\ present' = {}
    /\ table' = [s \in Seqs |-> NoTable]
    /\ nTokens' = [s \in Seqs |-> 0]
    /\ gpu' = [s \in Seqs |-> NoTable]
    /\ phase' = "idle"
    /\ trial' = <<>>
    /\ batch' = <<>>
    /\ todo' = <<>>
    /\ ub' = FALSE

Step ==
    \/ \E u \in Batches : Decode(u)
    \/ PrepareUbatch
    \/ PlaceToken
    \/ Apply
    \/ ComputeOk
    \/ ComputeFail
    \/ \E s \in Seqs : SeqRm(s)
    \/ RemoveOthers({})
    \/ \E s \in Seqs : RemoveOthers({s})
    \/ \E src, dst \in Seqs : SeqCp(src, dst)
    \/ Restart

Next == Step /\ UNCHANGED unified

Spec == Init /\ [][Next]_vars
-----------------------------------------------------------------------------
(* Entries of all the tables that name block b. *)
Named(b) == {x \in Seqs \X Logical : table[x[1]][x[2]] = b}

(* Every state component has the type its declaration in llama_block_pool  *)
(* and llama_kv_cache gives it, and decode() runs while it has ubatches.   *)
TypeOK ==
    /\ refCount \in [Blocks -> 0 .. MaxRef]
    /\ free \subseteq Blocks
    /\ present \subseteq Seqs
    /\ table \in [Seqs -> [Logical -> Blocks \cup {None}]]
    /\ nTokens \in [Seqs -> 0 .. MaxBlocks * BlockSize]
    /\ gpu \in [Seqs -> [Logical -> Blocks \cup {None}]]
    /\ phase \in {"idle", "prepare", "compute"}
    /\ trial \in Seq(Ubatch)
    /\ batch \in Seq(Ubatch)
    /\ phase = "idle" <=> batch = <<>>
    /\ todo \in Seq(Token)
    /\ ub \in BOOLEAN
    /\ unified \in BOOLEAN

(* No use after free: a block on the free list is named by no table and    *)
(* has no references, and a reference count is never below the number of   *)
(* table entries that name the block, so free_block, called once per       *)
(* entry, never releases a block another sequence still reads.             *)
RefsCover ==
    /\ \A b \in free : Named(b) = {} /\ refCount[b] = 0
    /\ \A b \in Blocks \ free : refCount[b] >= 1
    /\ \A b \in Blocks : refCount[b] >= Cardinality(Named(b))

(* seq_cp is the only way two entries come to name one block, and it keeps *)
(* the logical index: a physical block holds the same positions in every   *)
(* sequence that names it, and occurs once in a table.                     *)
SharedAtSameIndex ==
    \A b \in Blocks : \A x, y \in Named(b) : x[2] = y[2]

(* What apply_ubatch_paged takes from the pool in the trial of prepare()   *)
(* is all that decode() takes: applying the ubatch for real allocates and  *)
(* remaps nothing, even when the trial ran out of blocks.                  *)
ApplyAllocatesNothing ==
    [][phase = "compute" /\ todo # <<>> => UNCHANGED <<refCount, free, table>>]_vars

(* Attention walks the block table of a sequence up to n_tokens: from the  *)
(* first mapped block up to the one of seq_pos_max no entry is missing,    *)
(* also after tokens were dropped for want of blocks, provided that every  *)
(* sequence has a stream of its own and its tokens come in the order of    *)
(* their positions.                                                        *)
Ascending(ubatches) ==
    \A j, k \in DOMAIN ubatches : \A a \in DOMAIN ubatches[j], b \in DOMAIN ubatches[k] :
        (j < k \/ (j = k /\ a < b)) /\ ubatches[j][a].seq = ubatches[k][b].seq
            => ubatches[j][a].pos <= ubatches[k][b].pos

NoGap ==
    ~unified => \A s \in Seqs : \A k, l \in Logical :
        k < l /\ table[s][k] # None /\ l * BlockSize < nTokens[s] => table[s][l] # None
-----------------------------------------------------------------------------
(* What the comments of the code say and the code does not do.             *)

(* "Remove a sequence and free all its blocks" (llama-block-pool.h): when  *)
(* the last sequence has been removed, the whole pool is free.             *)
NoLeak ==
    Idle /\ present = {} => free = Blocks

(* llama_decode returns 1 when it "could not find a KV slot for the batch" *)
(* (llama.h), so a decode that succeeds has a block for every token.       *)
DecodedIsPlaced ==
    [][ComputeOk => \A i \in DOMAIN Head(batch) :
           LET t == Placement(Head(batch))[i]
           IN  table[t.seq][t.pos \div BlockSize] # None]_vars

(* "the last ubatch failed or was aborted -> remove all positions of that  *)
(* ubatch from the memory module" (llama-context.cpp).                     *)
FailedIsRemoved ==
    [][ComputeFail => \A i \in DOMAIN Head(batch) :
           nTokens'[Head(batch)[i].seq] <= Head(batch)[i].pos]_vars

(* "disallow decreasing sequence positions" (llama-batch.cpp): a batch that *)
(* is decoded has the tokens of each sequence in order.                    *)
DecreasingRefused ==
    [][\A u \in Batches : Decode(u) => Ascending(u)]_vars

(* "Remove all sequences" (seq_rm with -1): it ends with no table left.    *)
AllRemoved ==
    [][RemoveOthers({}) => present' = {} /\ ~ub']_vars

(* block_table_gpu holds the "physical_block_id or -1 if not allocated"    *)
(* (llama-kv-cache.h).                                                     *)
GpuTableAgrees ==
    Idle => gpu = table

(* "The physical position in the pool is the same as logical position for  *)
(* now" (find_slot_paged), which is where the K and V rows are written.    *)
PhysicalIsLogical ==
    \A s \in Seqs : \A l \in Logical : table[s][l] \in {None, l}
=============================================================================
