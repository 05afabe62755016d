--------------------------- MODULE ChunkStorage ---------------------------
(***************************************************************************)
(* ThunderChunkStorage (src/src/thunder-lmcache-storage.cpp): the LMCache  *)
(* tiers below the GPU.  L2 holds chunks in memory, L3 holds them in a     *)
(* file mapped in memory that is written as a log: a record per eviction   *)
(* from L2, the index (l3_offsets_) only in memory.                        *)
(*                                                                         *)
(* put() and the destructor hold mutex_ while they loop over evictions:    *)
(* one iteration of one loop is one step, pc says which loop, and nothing  *)
(* but a crash happens before pc is idle again.  get() and safe_unmount()  *)
(* have no loop and are one step.  batch_get() and prefetch_hot_chunks(),  *)
(* which give the mutex up in the middle, are not modelled.                *)
(*                                                                         *)
(* Sizes of chunks are counted in units.  A record takes the same space in *)
(* the file whatever the size of its chunk: how well a chunk compresses is *)
(* not modelled.  Sizes of the file are in tenths of a record, for neither *)
(* the initial file nor the limit is a multiple of a record.               *)
(*                                                                         *)
(* An operator named Wrong... is no part of the model: it is the operator  *)
(* that follows it with a plausible mistake, which a property must notice  *)
(* when it takes that operator's place.                                    *)
(***************************************************************************)
EXTENDS Integers, Sequences, FiniteSets, SequencesExt

CONSTANTS
    Keys,       (* thunder_kv_chunk_key (its hash_key)                     *)
    Data,       (* contents of a chunk                                     *)
    None,       (* no contents; corrupted contents                         *)
    Sizes,      (* k_size + v_size of the chunks put                       *)
    L2Limit,    (* l2_limit_bytes_                                         *)
    L3Limit,    (* l3_limit_bytes_, compared with l3_usage_bytes_          *)
    FileLimit,  (* l3_limit_bytes_ again, as a size of the file            *)
    InitSize,   (* the initial size of the file (1 MB)                     *)
    Wrap,       (* 2^64: size_t arithmetic is modulo Wrap                  *)
    Threshold,  (* freq_protect_threshold_                                 *)
    MaxFreq,    (* bound on access_freq_ (the code's is a uint32_t)        *)
    ScanDepth,  (* SECOND_CHANCE_SCAN_DEPTH                                *)
    Ttl,        (* TRUE: ttl_ns_ > 0, chunks may expire                    *)
    KeepFile    (* TRUE: a new process finds the file of the last one      *)

RecordSize == 10

ASSUME StorageAssumption ==
    /\ None \notin Data /\ None \notin Keys /\ IsFiniteSet(Keys)
    /\ Sizes \subseteq Nat \ {0}
    /\ L2Limit \in Nat /\ L3Limit \in Nat
    /\ FileLimit \in Nat /\ FileLimit >= RecordSize /\ InitSize \in 1 .. FileLimit
    /\ Threshold \in Nat /\ MaxFreq \in Nat /\ ScanDepth \in Nat \ {0}
    /\ Wrap \in Nat \ {0} /\ \A s \in Sizes : L2Limit + s < Wrap /\ L3Limit + s < Wrap
    /\ Ttl \in BOOLEAN /\ KeepFile \in BOOLEAN

Chunk    == [key: Keys, data: Data, size: Sizes]
NoChunk  == [key |-> None, data |-> None, size |-> 0]
(* The records that fit in a file, and in the largest one.                 *)
Whole(size) == size \div RecordSize
Slots    == Whole(FileLimit)
Slot     == 1 .. Slots
NoOffset == 0
(* A record of the file: written by write_to_disk (v3) or by compact_disk  *)
(* (v2), or one of which a power failure lost the data (torn) or the       *)
(* header too (blank, as is space never written).                          *)
Record   == [key: Keys, data: Data \cup {None}, size: Sizes, form: {"v3", "v2", "torn"}]
Blank    == [key |-> None, data |-> None, size |-> 0, form |-> "blank"]
Node     == [key: Keys, live: BOOLEAN]

VARIABLES
    l2,        (* l2_cache_                                                *)
    l2lru,     (* l2_lru_ (l2_lru_index_ names each node), front first     *)
    l2usage,   (* l2_usage_bytes_                                          *)
    l3,        (* l3_offsets_                                              *)
    l3lru,     (* l3_lru_; a node is live if l3_lru_index_ names it        *)
    l3usage,   (* l3_usage_bytes_                                          *)
    disk,      (* the records of the file, by slot                         *)
    fileSize,  (* disk_mmap_size_, and the size of the file while it is    *)
               (* not mapped                                               *)
    mapped,    (* disk_mmap_ # nullptr: the file is mapped as a whole      *)
    next,      (* disk_next_offset_                                        *)
    enabled,   (* l3_enabled_                                              *)
    durable,   (* slots that a power failure cannot take any more          *)
    freq,      (* access_freq_                                             *)
    indexed,   (* the layer bits that chunk_index_ holds, as keys          *)
    pc,        (* idle, or the loop that runs                              *)
    cur,       (* the chunk that put() stores                              *)
    caller,    (* the loop that evict_one_l2_to_l3 returns to              *)
    victim,    (* the key evict_one_l2_to_l3 writes to disk                *)
    left,      (* chunks the second-chance scan may still spare            *)
    latest     (* history: the data of the last put() that returned true   *)

memory  == <<l2, l2lru, l2usage>>
index3  == <<l3, l3lru, l3usage>>
file    == <<disk, fileSize, mapped, next, enabled, durable>>
control == <<cur, caller, victim, left>>
vars    == <<memory, index3, file, freq, indexed, pc, control, latest>>

Init ==
    /\ l2 = [k \in Keys |-> NoChunk]
    /\ l2lru = <<>>
    /\ l2usage = 0
    /\ freq = [k \in Keys |-> 0]
    /\ indexed = {}
    /\ pc = "idle"
    /\ cur = NoChunk
    /\ caller = "fit"
    /\ victim = None
    /\ left = 0
    /\ l3 = [k \in Keys |-> NoOffset]
    /\ l3lru = <<>>
    /\ l3usage = 0
    /\ disk = [n \in Slot |-> Blank]
    /\ fileSize = InitSize
    /\ mapped = TRUE
    /\ next = 1
    /\ enabled = TRUE
    /\ durable = Slot
    /\ latest = [k \in Keys |-> None]
-----------------------------------------------------------------------------
InL2 == {k \in Keys : l2[k] # NoChunk}
InL3 == {k \in Keys : l3[k] # NoOffset}

(* size_t arithmetic *)
Plus(a, b)  == (a + b) % Wrap
Minus(a, b) == (a - b) % Wrap

Least(a, b)    == IF a <= b THEN a ELSE b
Greatest(a, b) == IF a >= b THEN a ELSE b

(* std::list: an entry of a list is erased, whatever its place.            *)
Erase(list, entry) ==
    IF \E i \in DOMAIN list : list[i] = entry
    THEN RemoveAt(list, CHOOSE i \in DOMAIN list : list[i] = entry)
    ELSE list
Live(k) == [key |-> k, live |-> TRUE]

(* l3_lru_index_[k] = begin() or .erase(k): a node it named is an orphan.  *)
Orphan(list, k) ==
    [i \in DOMAIN list |-> IF list[i] = Live(k) THEN [key |-> k, live |-> FALSE] ELSE list[i]]

(* read_from_disk: no mapping, lost data (the checksum) and the format of  *)
(* compact_disk (its header is shorter) make it fail.                      *)
WrongReadable(n) ==
    /\ mapped
    /\ RecordSize * (n - 1) < fileSize
    /\ disk[n].form # "v2"

Readable(n) ==
    /\ mapped
    /\ RecordSize * (n - 1) < fileSize
    /\ disk[n].form = "v3"
-----------------------------------------------------------------------------
(* get(): the parts an L2 hit and an L3 hit share.                         *)
Accessed(k) ==
    /\ freq[k] < MaxFreq
    /\ freq' = [freq EXCEPT ![k] = @ + 1]

GetFromL2(k) ==
    /\ pc = "idle"
    /\ k \in InL2
    /\ Accessed(k)
    /\ l2lru' = <<k>> \o Erase(l2lru, k)
    /\ UNCHANGED <<l2, l2usage, index3, file, indexed, pc, control, latest>>

(* The record is read and fits in L2: the chunk moves there.               *)
WrongPromote(k) ==
    /\ pc = "idle"
    /\ k \in InL3 \ InL2
    /\ Readable(l3[k])
    /\ Plus(l2usage, disk[l3[k]].size) <= L2Limit
    /\ Accessed(k)
    /\ LET r == disk[l3[k]]
       IN  /\ l2' = [l2 EXCEPT ![k] = [key |-> r.key, data |-> r.data, size |-> r.size]]
           /\ l2usage' = Plus(l2usage, r.size)
           /\ l3usage' = Minus(l3usage, r.size)
    /\ l3' = [l3 EXCEPT ![k] = NoOffset]
    /\ l3lru' = Erase(l3lru, Live(k))
    /\ UNCHANGED <<l2lru, file, indexed, pc, control, latest>>

Promote(k) ==
    /\ pc = "idle"
    /\ k \in InL3 \ InL2
    /\ Readable(l3[k])
    /\ Plus(l2usage, disk[l3[k]].size) <= L2Limit
    /\ Accessed(k)
    /\ LET r == disk[l3[k]]
       IN  /\ l2' = [l2 EXCEPT ![k] = [key |-> r.key, data |-> r.data, size |-> r.size]]
           /\ l2usage' = Plus(l2usage, r.size)
           /\ l3usage' = Minus(l3usage, r.size)
    /\ l2lru' = <<k>> \o l2lru
    /\ l3' = [l3 EXCEPT ![k] = NoOffset]
    /\ l3lru' = Erase(l3lru, Live(k))
    /\ UNCHANGED <<file, indexed, pc, control, latest>>

(* It is read and does not fit: nullptr, and the chunk is now recent.      *)
GetTooFull(k) ==
    /\ pc = "idle"
    /\ k \in InL3 \ InL2
    /\ Readable(l3[k])
    /\ Plus(l2usage, disk[l3[k]].size) > L2Limit
    /\ Accessed(k)
    /\ l3lru' = IF \E i \in DOMAIN l3lru : l3lru[i] = Live(k)
                THEN <<Live(k)>> \o Erase(l3lru, Live(k))
                ELSE l3lru
    /\ UNCHANGED <<memory, l3, l3usage, file, indexed, pc, control, latest>>

(* It cannot be read: nullptr, and the entry stays.                        *)
GetUnreadable(k) ==
    /\ pc = "idle"
    /\ k \in InL3 \ InL2
    /\ ~Readable(l3[k])
    /\ Accessed(k)
    /\ UNCHANGED <<memory, index3, file, indexed, pc, control, latest>>
-----------------------------------------------------------------------------
(* put() takes the mutex.                                                  *)
Put(k, d, s) ==
    /\ pc = "idle"
    /\ cur' = [key |-> k, data |-> d, size |-> s]
    /\ pc' = "lookup"
    /\ UNCHANGED <<memory, index3, file, freq, indexed, caller, victim, left, latest>>

(* evict_one_l2_to_l3 begins; it returns to loop c.                        *)
EvictL2(c) ==
    /\ l2lru # <<>>
    /\ caller' = c
    /\ pc' = "scan2"
    /\ left' = Least(Len(l2lru), ScanDepth)
    /\ UNCHANGED <<memory, index3, file, freq, indexed, cur, victim, latest>>

(* The least recently used chunk has expired: at most 16 of them are       *)
(* evicted before put() goes on.  Time is not modelled: it may have, or    *)
(* not.                                                                    *)
Expire ==
    /\ pc = "lookup"
    /\ Ttl
    /\ EvictL2("lookup")

(* put() returns, and its locals are gone.                                 *)
Return ==
    /\ pc' = "idle"
    /\ cur' = NoChunk
    /\ UNCHANGED <<caller, victim, left>>

(* The key is in L2: the chunk is replaced; the usage is not updated.      *)
Overwrite ==
    /\ pc = "lookup"
    /\ cur.key \in InL2
    /\ l2' = [l2 EXCEPT ![cur.key] = cur]
    /\ l2lru' = <<cur.key>> \o Erase(l2lru, cur.key)
    /\ latest' = [latest EXCEPT ![cur.key] = cur.data]
    /\ Return
    /\ UNCHANGED <<l2usage, index3, file, freq, indexed>>

(* It is not: an entry of L3 is erased, with the size of the NEW chunk     *)
(* taken off the usage.                                                    *)
WrongEraseL3 ==
    /\ pc = "lookup"
    /\ cur.key \notin InL2
    /\ pc' = "fit"
    /\ UNCHANGED <<memory, index3, file, freq, indexed, control, latest>>

EraseL3 ==
    /\ pc = "lookup"
    /\ cur.key \notin InL2
    /\ IF cur.key \in InL3
       THEN /\ l3' = [l3 EXCEPT ![cur.key] = NoOffset]
            /\ l3lru' = Erase(l3lru, Live(cur.key))
            /\ l3usage' = Minus(l3usage, cur.size)
       ELSE UNCHANGED index3
    /\ pc' = "fit"
    /\ UNCHANGED <<memory, file, freq, indexed, control, latest>>

WrongFull == l2usage > L2Limit

Full == Plus(l2usage, cur.size) > L2Limit

MakeRoom ==
    /\ pc = "fit"
    /\ Full
    /\ InL2 # {}
    /\ EvictL2("fit")

(* Larger than the whole of L2: put() returns false.                       *)
Refuse ==
    /\ pc = "fit"
    /\ Full
    /\ InL2 = {}
    /\ Return
    /\ UNCHANGED <<memory, index3, file, freq, indexed, latest>>

Insert ==
    /\ pc = "fit"
    /\ ~Full
    /\ l2' = [l2 EXCEPT ![cur.key] = cur]
    /\ l2lru' = <<cur.key>> \o l2lru
    /\ l2usage' = Plus(l2usage, cur.size)
    /\ indexed' = indexed \cup {cur.key}
    /\ latest' = [latest EXCEPT ![cur.key] = cur.data]
    /\ Return
    /\ UNCHANGED <<index3, file, freq>>
-----------------------------------------------------------------------------
(* evict_one_l2_to_l3: chunks at the tail that are read often are spared,  *)
(* at the price of half their frequency.                                   *)
Hot(k) == freq[k] > Threshold
WrongHalve(k) == freq' = [freq EXCEPT ![k] = @ * 2]

Halve(k) == freq' = [freq EXCEPT ![k] = @ \div 2]

(* A hot chunk goes to the front.  When it is the only one the loop ends   *)
(* with the iterator it has just erased, and reads it: undefined.          *)
SpareL2 ==
    /\ pc = "scan2"
    /\ left > 0
    /\ Hot(Last(l2lru))
    /\ Halve(Last(l2lru))
    /\ l2lru' = <<Last(l2lru)>> \o Front(l2lru)
    /\ pc' = IF Len(l2lru) = 1 THEN "undefined" ELSE "scan2"
    /\ left' = left - 1
    /\ UNCHANGED <<l2, l2usage, index3, file, indexed, cur, caller, victim, latest>>

(* The victim; a node without a chunk is only erased (an inconsistent      *)
(* state, says the code).                                                  *)
ChooseVictim ==
    /\ pc = "scan2"
    /\ left = 0 \/ ~Hot(Last(l2lru))
    /\ IF Last(l2lru) \in InL2
       THEN /\ victim' = Last(l2lru)
            /\ pc' = "write"
            /\ UNCHANGED <<l2lru, caller>>
       ELSE /\ l2lru' = Front(l2lru)
            /\ pc' = caller
            /\ caller' = "fit"
            /\ UNCHANGED victim
    /\ left' = 0
    /\ UNCHANGED <<l2, l2usage, index3, file, freq, indexed, cur, latest>>

(* write_to_disk has returned: the chunk leaves L2, written or not.        *)
WrongLeaveL2 ==
    /\ l2' = [l2 EXCEPT ![victim] = NoChunk]
    /\ l2usage' = Minus(l2usage, l2[victim].size)
    /\ pc' = caller
    /\ caller' = "fit"
    /\ victim' = None
    /\ UNCHANGED <<l2lru, freq, indexed, cur, left, latest>>

LeaveL2 ==
    /\ l2' = [l2 EXCEPT ![victim] = NoChunk]
    /\ l2usage' = Minus(l2usage, l2[victim].size)
    /\ l2lru' = Erase(l2lru, victim)
    /\ pc' = caller
    /\ caller' = "fit"
    /\ victim' = None
    /\ UNCHANGED <<freq, indexed, cur, left, latest>>
-----------------------------------------------------------------------------
(* write_to_disk(l2[victim]) *)
Overflows == Plus(l3usage, l2[victim].size) > L3Limit

WriteRefused ==
    /\ pc = "write"
    /\ ~enabled \/ (Overflows /\ InL3 = {})
    /\ LeaveL2
    /\ UNCHANGED <<index3, file>>

(* Chunks are dropped from L3 until the new one fits.                      *)
EvictL3 ==
    /\ pc = "write"
    /\ enabled
    /\ Overflows
    /\ InL3 # {}
    /\ l3lru # <<>>
    /\ pc' = "scan3"
    /\ left' = Least(Len(l3lru), ScanDepth)
    /\ UNCHANGED <<memory, index3, file, freq, indexed, cur, caller, victim, latest>>

(* evict_one_l3: the second chance, with the same undefined case.          *)
SpareL3 ==
    /\ pc = "scan3"
    /\ left > 0
    /\ LET k == Last(l3lru).key
       IN  /\ Hot(k)
           /\ Halve(k)
           /\ l3lru' = <<Live(k)>> \o Orphan(Front(l3lru), k)
    /\ pc' = IF Len(l3lru) = 1 THEN "undefined" ELSE "scan3"
    /\ left' = left - 1
    /\ UNCHANGED <<memory, l3, l3usage, file, indexed, cur, caller, victim, latest>>

(* The chunk at the tail is dropped, a chunk that cannot be read with size *)
(* 0.  A node without an entry (an orphan) is only erased.                 *)
DropTail ==
    /\ pc = "scan3"
    /\ left = 0 \/ ~Hot(Last(l3lru).key)
    /\ LET k == Last(l3lru).key
       IN  /\ l3' = [l3 EXCEPT ![k] = NoOffset]
           /\ l3lru' = Orphan(Front(l3lru), k)
           /\ l3usage' = IF k \in InL3 /\ Readable(l3[k])
                         THEN Minus(l3usage, disk[l3[k]].size)
                         ELSE l3usage
           /\ indexed' = IF k \in InL3 THEN indexed \ {k} ELSE indexed
    /\ pc' = "write"
    /\ left' = 0
    /\ UNCHANGED <<memory, file, freq, cur, caller, victim, latest>>

(* compact_disk, above 90 percent of the limit: the chunks that can be     *)
(* read go to a new file, in a format that read_from_disk does not know.   *)
(* A second one cannot: its record starts in the middle of a page, where   *)
(* mmap() fails, and the old file stays.                                   *)
Kept == {k \in InL3 : Readable(l3[k])}
NeedsCompaction == 10 * RecordSize * (next - 1) > 9 * FileLimit /\ InL3 # {}

(* The space is taken back, and the offsets of the chunks stay.            *)
WrongCompact ==
    /\ next' = 1
    /\ UNCHANGED <<index3, disk, fileSize, mapped, enabled, durable>>

Compact ==
    LET n == Cardinality(Kept)
        k == CHOOSE x \in Kept : TRUE
    IN  /\ l3' = [x \in Keys |-> IF x \in Kept THEN 1 ELSE NoOffset]
        /\ disk' = [m \in Slot |-> IF m <= n THEN [disk[l3[k]] EXCEPT !.form = "v2"] ELSE Blank]
        /\ fileSize' = RecordSize * n
        /\ mapped' = (n > 0)
        /\ next' = n + 1
        /\ durable' = Slot
        /\ UNCHANGED <<l3lru, l3usage, enabled>>

WriteFits ==
    /\ pc = "write"
    /\ enabled
    /\ ~Overflows
    /\ IF NeedsCompaction /\ Cardinality(Kept) <= 1
       THEN Compact
       ELSE UNCHANGED <<index3, file>>
    /\ pc' = "append"
    /\ UNCHANGED <<memory, freq, indexed, control, latest>>

(* ensure_disk_space: the file doubles, or more, up to the limit; that may *)
(* be too little, and is taken for success.  Without a mapping (munmap()   *)
(* of nothing fails) it cannot grow.                                       *)
Required == RecordSize * next
Grown    == Least(Greatest(2 * fileSize, Required), FileLimit)
Ensured  == IF Required <= fileSize THEN fileSize ELSE Greatest(Grown, fileSize)

AppendRecord ==
    /\ pc = "append"
    /\ mapped
    /\ Required <= Ensured
    /\ fileSize' = Ensured
    /\ LET c == l2[victim]
       IN  /\ disk' = [disk EXCEPT ![next] =
                          [key |-> c.key, data |-> c.data, size |-> c.size, form |-> "v3"]]
           /\ l3usage' = Plus(l3usage, c.size)
    /\ durable' = durable \ {next}
    /\ next' = next + 1
    /\ l3' = [l3 EXCEPT ![victim] = next]
    /\ l3lru' = <<Live(victim)>> \o Orphan(l3lru, victim)
    /\ LeaveL2
    /\ UNCHANGED <<mapped, enabled>>

AppendFails ==
    /\ pc = "append"
    /\ ~mapped \/ (Required > Ensured /\ Ensured = fileSize)
    /\ LeaveL2
    /\ UNCHANGED <<index3, file>>

(* The file has grown, and the record is written past the end of the       *)
(* mapping: undefined.                                                     *)
AppendPast ==
    /\ pc = "append"
    /\ mapped
    /\ Required > Ensured
    /\ Ensured > fileSize
    /\ fileSize' = Ensured
    /\ pc' = "undefined"
    /\ UNCHANGED <<memory, index3, disk, mapped, next, enabled, durable,
                   freq, indexed, control, latest>>
-----------------------------------------------------------------------------
(* safe_unmount(): the file is synced, unmapped and closed; the offsets of *)
(* its chunks stay.                                                        *)
SafeUnmount ==
    /\ pc = "idle"
    /\ enabled
    /\ enabled' = FALSE
    /\ mapped' = FALSE
    /\ durable' = Slot
    /\ UNCHANGED <<memory, index3, disk, fileSize, next, freq, indexed, pc, control, latest>>

(* The destructor writes every chunk of L2 to disk, in no given order, and *)
(* syncs the file.                                                         *)
Shutdown ==
    /\ pc = "idle"
    /\ pc' = "persist"
    /\ UNCHANGED <<memory, index3, file, freq, indexed, control, latest>>

Persist(k) ==
    /\ pc = "persist"
    /\ k \in InL2
    /\ victim' = k
    /\ caller' = "persist"
    /\ pc' = "write"
    /\ UNCHANGED <<memory, index3, file, freq, indexed, cur, left, latest>>

(* The constructor: the file is mapped, and load_cache_from_disk() scans   *)
(* its records up to the first that is blank or in the format it does not  *)
(* know.  A later record of a key replaces the offset of an earlier one;   *)
(* both count for the usage, and both have a node in the list.             *)
Scanned(d, slots) ==
    {n \in 1 .. slots : \A m \in 1 .. n : d[m].form \in {"v3", "torn"}}

UsageOf(d, n) ==
    LET usage[m \in 0 .. n] == IF m = 0 THEN 0 ELSE Plus(usage[m - 1], d[m].size)
    IN  usage[n]

LoadFrom(d, size) ==
    LET S == Scanned(d, Whole(size))
        Offsets(k) == {n \in S : d[n].key = k}
    IN  /\ disk' = d
        /\ fileSize' = size
        /\ l3' = [k \in Keys |->
                     IF Offsets(k) = {} THEN NoOffset
                     ELSE CHOOSE n \in Offsets(k) : \A m \in Offsets(k) : m <= n]
        /\ l3lru' = [n \in 1 .. Cardinality(S) |->
                        [key |-> d[n].key, live |-> l3'[d[n].key] = n]]
        /\ l3usage' = UsageOf(d, Cardinality(S))
        /\ next' = Cardinality(S) + 1

(* A new process, on the file of the last one (d) or on none.              *)
Start(d) ==
    /\ l2' = [k \in Keys |-> NoChunk]
    /\ l2lru' = <<>>
    /\ l2usage' = 0
    /\ freq' = [k \in Keys |-> 0]
    /\ indexed' = {}
    /\ pc' = "idle"
    /\ cur' = NoChunk
    /\ caller' = "fit"
    /\ victim' = None
    /\ left' = 0
    /\ enabled' = TRUE
    /\ mapped' = TRUE
    /\ IF KeepFile
       THEN LoadFrom(d, Greatest(fileSize, InitSize)) /\ UNCHANGED latest
       ELSE LoadFrom([n \in Slot |-> Blank], InitSize) /\ latest' = [k \in Keys |-> None]

Exit ==
    /\ pc = "persist"
    /\ InL2 = {}
    /\ Start(disk)
    /\ durable' = Slot

(* The process is killed: the kernel still has all it wrote to the file.   *)
Kill ==
    /\ Start(disk)
    /\ durable' = IF KeepFile THEN durable ELSE Slot

(* The power fails: of the records not synced, some lose their data, and   *)
(* some their header too.                                                  *)
PowerFailure ==
    \E lost \in SUBSET (Slot \ durable) : \E headerless \in SUBSET lost :
        /\ Start([n \in Slot |->
                     CASE n \in headerless     -> Blank
                       [] n \in lost \ headerless -> [disk[n] EXCEPT !.data = None, !.form = "torn"]
                       [] OTHER                -> disk[n]])
        /\ durable' = Slot
-----------------------------------------------------------------------------
(* The steps of the thread that holds the mutex.                           *)
Running ==
    \/ Expire \/ Overwrite \/ EraseL3 \/ MakeRoom \/ Refuse \/ Insert
    \/ SpareL2 \/ ChooseVictim
    \/ WriteRefused \/ EvictL3 \/ SpareL3 \/ DropTail
    \/ WriteFits \/ AppendRecord \/ AppendFails \/ AppendPast
    \/ \E k \in Keys : Persist(k)
    \/ Exit

Next ==
    \/ \E k \in Keys, d \in Data, s \in Sizes : Put(k, d, s)
    \/ \E k \in Keys : GetFromL2(k) \/ Promote(k) \/ GetTooFull(k) \/ GetUnreadable(k)
    \/ SafeUnmount
    \/ Shutdown
    \/ Running
    \/ Kill
    \/ PowerFailure

Spec == Init /\ [][Next]_vars

(* A thread that holds the mutex is not stopped for ever by the scheduler. *)
FairSpec == Spec /\ WF_vars(Running)
-----------------------------------------------------------------------------
Sum(f(_), S) == FoldSet(LAMBDA k, u : u + f(k), 0, S)
SizeInL2 == Sum(LAMBDA k : l2[k].size, InL2)
SizeInL3 == Sum(LAMBDA k : disk[l3[k]].size, InL3)

(* Every state component has the type its declaration gives it.            *)
TypeOK ==
    /\ l2 \in [Keys -> Chunk \cup {NoChunk}]
    /\ l2lru \in Seq(Keys)
    /\ l2usage \in 0 .. Wrap - 1
    /\ l3 \in [Keys -> {NoOffset} \cup Slot]
    /\ l3lru \in Seq(Node)
    /\ l3usage \in 0 .. Wrap - 1
    /\ disk \in [Slot -> Record \cup {Blank}]
    /\ fileSize \in 0 .. FileLimit
    /\ mapped \in BOOLEAN
    /\ next \in 1 .. Slots + 1
    /\ enabled \in BOOLEAN
    /\ durable \subseteq Slot
    /\ freq \in [Keys -> 0 .. MaxFreq]
    /\ indexed \subseteq Keys
    /\ pc \in {"idle", "lookup", "fit", "scan2", "write", "scan3", "append", "persist", "undefined"}
    /\ cur \in Chunk \cup {NoChunk}
    /\ caller \in {"lookup", "fit", "persist"}
    /\ victim \in Keys \cup {None}
    /\ left \in 0 .. ScanDepth
    /\ latest \in [Keys -> Data \cup {None}]

(* What eviction can reach is what the maps hold: each chunk of L2 has one *)
(* node in its list, and each chunk of L3 one node that its index names.   *)
(* A chunk without a node could never be evicted, and the loops that make  *)
(* room would not end.                                                     *)
LruAgrees ==
    \A k \in Keys :
        /\ Cardinality({i \in DOMAIN l2lru : l2lru[i] = k}) = IF k \in InL2 THEN 1 ELSE 0
        /\ k \in InL3 => Cardinality({i \in DOMAIN l3lru : l3lru[i] = Live(k)}) = 1

(* A chunk moves between the tiers: no key is in both, where an older copy *)
(* in L3 would come back when the one in L2 is gone.                       *)
Exclusive == InL2 \cap InL3 = {}

(* Whatever eviction, promotion, compaction and failed writes did to a     *)
(* chunk, get() returns the data of the last put() of its key or nullptr.  *)
Current ==
    /\ \A k \in InL2 : l2[k].key = k /\ l2[k].data = latest[k]
    /\ \A k \in InL3 : Readable(l3[k]) =>
          disk[l3[k]].key = k /\ disk[l3[k]].data = latest[k]

(* The data a key has: that of its copy in L2, or of the record in L3 that *)
(* get() would read.                                                       *)
Stored ==
    [k \in Keys |-> IF k \in InL2 THEN l2[k].data
                    ELSE IF k \in InL3 /\ Readable(l3[k]) THEN disk[l3[k]].data
                    ELSE None]

Promise == INSTANCE ChunkMemory WITH store <- Stored, call <- [key |-> cur.key, data |-> cur.data]

(* The tiers together act as one memory that may forget: promotions,       *)
(* evictions in any number, writes that fail, compactions and unmounting   *)
(* never bring back what was overwritten or dropped, and put() takes       *)
(* effect at one moment, if it returns true.                               *)
Implements == Promise!Spec

(* With chunks of one size, the usage of L2 is exact, that of L3 is never  *)
(* too low, neither tier holds more than its limit, and the records of L3  *)
(* lie in the file, also when it was compacted.                            *)
WithinLimits ==
    /\ l2usage = SizeInL2 /\ l2usage <= L2Limit
    /\ SizeInL3 <= l3usage /\ l3usage <= L3Limit
    /\ \A k \in InL3 : RecordSize * l3[k] <= fileSize

(* The mutex is given up: whatever the lists hold and the file does, the   *)
(* loops of put() and of the destructor end.                               *)
Released == pc \notin {"idle", "undefined"} ~> pc \in {"idle", "undefined"}

(* Across kills and power failures, a chunk is returned only under its own *)
(* key, and never with data that the disk lost.                            *)
RightChunk == \A k \in InL2 : l2[k].key = k /\ l2[k].data \in Data
-----------------------------------------------------------------------------
(* What the comments of the code say and the code does not do.             *)

(* get_cpu_usage_bytes() is the "Sum of k_size + v_size for all chunks in  *)
(* L2".                                                                    *)
UsageIsSum == pc = "idle" => l2usage = SizeInL2

(* get_disk_usage_bytes() is the "Sum of k_size + v_size for all chunks in *)
(* L3".                                                                    *)
DiskUsageIsSum == pc = "idle" => l3usage = SizeInL3

(* Erasing the node of a hot chunk "Invalidates lru_it only", and lru_it   *)
(* is not used again.                                                      *)
Defined == [][SpareL2 \/ SpareL3 => pc' # "undefined"]_vars

(* "Ensure disk space", before the header is written: the file that has    *)
(* grown has room for the record.                                          *)
SpaceEnsured == [][~AppendPast]_vars

(* "Evicted L2 chunks are moved to L3 if space available, otherwise        *)
(* deleted."                                                               *)
MovedIfSpace ==
    [][AppendFails \/ WriteRefused =>
           ~enabled \/ SizeInL3 + l2[victim].size > L3Limit]_vars

(* "Create new file with only valid chunks, reclaim space from evicted     *)
(* chunks": the chunks that were valid still are.                          *)
CompactionKeeps ==
    [][WriteFits => \A k \in Kept : l3'[k] # NoOffset /\ Readable(l3[k])']_vars

(* "If a chunk with the same key already exists, it is overwritten": its   *)
(* old data does not come back, after a crash either.                      *)
Overwritten == \A k \in InL3 : Readable(l3[k]) => disk[l3[k]].data = latest[k]

(* The destructor: "L2 chunks are discarded, L3 chunks persist on disk."   *)
L2Discarded == [][AppendRecord => caller # "persist"]_vars
=============================================================================
