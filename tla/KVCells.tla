------------------------------ MODULE KVCells -------------------------------
(***************************************************************************)
(* The cells of the attention cache: llama_kv_cells                        *)
(* (src/src/llama-kv-cells.h), llama_kv_cache without paged attention      *)
(* (src/src/llama-kv-cache.cpp) and the loop of decode() over ubatches     *)
(* (src/src/llama-context.cpp).                                            *)
(*                                                                         *)
(* The cache has one stream of cells for all sequences (unified) or one    *)
(* per sequence.  A cell holds the position of a token, the sequences it   *)
(* belongs to and the shift its key is still to be rotated by; the row of  *)
(* the same index holds the key.  Copies between streams and shifts change *)
(* the cells at once and the rows at the next decode().  prepare() places  *)
(* a whole batch, takes it out again, and decode() places it once more,    *)
(* ubatch by ubatch.  With a sliding window, cells that no later token     *)
(* attends to are used again.                                              *)
(*                                                                         *)
(* One thread drives the cache, so a call is one step.  The module states  *)
(* that all of it implements SequenceMemory, where there are no cells.     *)
(***************************************************************************)
EXTENDS RemoveIf, SlidingWindow, SequencesExt, FiniteSetsExt

CONSTANTS
    Seqs,           (* sequence ids: 0 .. n_seq_max - 1                    *)
    Configs,        (* configurations, as in SequenceMemory, with the size *)
                    (* of a stream of cells; window and swa are n_swa and  *)
                    (* swa_type                                            *)
    Shifts,         (* the shifts of seq_add                               *)
    Ranges,         (* the position ranges of the calls                    *)
    MaxShift,       (* bound on the shifts that are pending for a cell     *)
    MaxCopies       (* bound on the stream copies that are pending         *)

ASSUME KVCellsAssumption ==
    /\ IsFiniteSet(Seqs) /\ Seqs # {} /\ Seqs = 0 .. Cardinality(Seqs) - 1
    /\ \A c \in Configs : /\ c.unified \in BOOLEAN
                          /\ c.size \in Nat \ {0}
                          /\ c.swa \in SwaTypes /\ (c.swa = "chunked" => c.window > 0)
                          /\ {c.window, c.maxPos} \subseteq Nat
    /\ {MaxShift, MaxCopies} \subseteq Nat
    /\ Shifts \subseteq Int
    /\ Ranges \subseteq Int \X Int

(* What init() and the splitting of a batch make sure of: a ubatch has     *)
(* tokens, a token has a sequence, and with a stream per sequence only one *)
(* (split_equal refuses coupled sequences there).                          *)
ASSUME BatchesAssumption ==
    \A c \in Configs : \A b \in c.batches :
        /\ b \in Seq(Seq(Seq(Seqs)))
        /\ \A k \in DOMAIN b : b[k] # <<>>
        /\ \A k \in DOMAIN b : \A i \in DOMAIN b[k] :
              IF c.unified THEN b[k][i] # <<>> ELSE Len(b[k][i]) = 1

(* The sequences of a token have had the same number of tokens before it   *)
(* in the batch: Placed numbers a token by its first sequence, and init()  *)
(* gives the others the position after that one's.                         *)
ASSUME CoupledAssumption ==
    \A c \in Configs : \A b \in c.batches : \A k \in DOMAIN b : \A i \in DOMAIN b[k] :
        LET earlier == {at \in UNION {{l} \X DOMAIN b[l] : l \in 1 .. k} : at[1] < k \/ at[2] < i}
            Of(s)   == {at \in earlier : s \in Range(b[at[1]][at[2]])}
        IN  \A s, t \in Range(b[k][i]) : Cardinality(Of(s)) = Cardinality(Of(t))

VARIABLES
    conf,       (* the configuration                                       *)
    cells,      (* v_cells and v_heads: per stream [pos, seqs, shift] of   *)
                (* each cell, count (seq_pos) and head                     *)
    rows,       (* the K tensors: per stream and cell the token and the    *)
                (* position its key was rotated for                        *)
    copies,     (* sc_info: the stream copies the next decode() makes      *)
    ret,        (* what the last call was: a decode() and its outcome      *)
    strayed     (* history: after the last clear(), seq_div was called, or *)
                (* seq_cp counted a token of a sequence twice              *)

vars == <<conf, cells, rows, copies, ret, strayed>>

Streams     == IF conf.unified THEN {0} ELSE Seqs
StreamOf(s) == IF conf.unified THEN 0 ELSE s
Cells       == 0 .. conf.size - 1
Positions   == 0 .. conf.maxPos

NoCells == [pos   |-> [i \in Cells |-> -1],
            seqs  |-> [i \in Cells |-> {}],
            shift |-> [i \in Cells |-> 0],
            count |-> [s \in Seqs |-> [p \in Positions |-> 0]],
            head  |-> 0]

NoRow == [tok |-> -1, rope |-> 0]

Init ==
    /\ conf \in Configs
    /\ cells = [m \in Streams |-> NoCells]
    /\ rows = [m \in Streams |-> [i \in Cells |-> NoRow]]
    /\ copies = <<>>
    /\ ret = "none"
    /\ strayed = FALSE
-----------------------------------------------------------------------------
(* llama_kv_cells: st is the record of one stream.  An operation on        *)
(* several cells is one definition over all of them: the cells do not      *)
(* depend on each other, and the counters add up.                          *)
Occupied(st)     == {i \in DOMAIN st.pos : st.pos[i] # -1}
Hit(st, s, range) ==
    {i \in Occupied(st) : s \in st.seqs[i] /\ st.pos[i] \in range[1] .. range[2] - 1}

Present(st, s)   == {p \in Positions : st.count[s][p] > 0}
SeqPosMax(st, s) == Max({-1} \cup Present(st, s))
SeqPosMin(st, s) == IF Present(st, s) = {} THEN -1 ELSE Min(Present(st, s))

(* seq_pos_inc (d is 1) and seq_pos_dec (-1) for each sequence that a cell *)
(* lists, at the position of that cell.                                    *)
Tally(count, pos, listed, d) ==
    [s \in Seqs |-> [p \in Positions |->
        count[s][p] + d * Cardinality({i \in Cells : pos[i] = p /\ s \in listed[i]})]]

(* All sequences of the cells at. *)
Whole(st, at) == [i \in Cells |-> IF i \in at THEN st.seqs[i] ELSE {}]

(* rm, seq_rm and seq_keep: each cell loses the sequences gone[i], which   *)
(* are some of its own, and is emptied if none is left.                    *)
WrongDrop(st, gone) ==
    LET left(i) == st.seqs[i] \ gone[i]
    IN  [st EXCEPT
            !.pos   = [i \in DOMAIN gone |-> IF left(i) = {} THEN -1 ELSE @[i]],
            !.seqs  = [i \in DOMAIN gone |-> IF left(i) = {} THEN @[i] ELSE left(i)],
            !.shift = [i \in DOMAIN gone |-> IF left(i) = {} THEN 0 ELSE @[i]],
            !.count = Tally(@, st.pos, gone, -1)]

Drop(st, gone) ==
    LET left(i) == st.seqs[i] \ gone[i]
    IN  [st EXCEPT
            !.pos   = [i \in DOMAIN gone |-> IF left(i) = {} THEN -1 ELSE @[i]],
            !.seqs  = [i \in DOMAIN gone |-> left(i)],
            !.shift = [i \in DOMAIN gone |-> IF left(i) = {} THEN 0 ELSE @[i]],
            !.count = Tally(@, st.pos, gone, -1)]

(* pos_set, seq_add and set: empty cells get [pos, seqs]. *)
Fill(st, new) ==
    LET pos  == [i \in Cells |-> IF i \in DOMAIN new THEN new[i].pos ELSE st.pos[i]]
        seqs == [i \in Cells |-> IF i \in DOMAIN new THEN new[i].seqs ELSE {}]
    IN  [st EXCEPT
            !.pos   = pos,
            !.seqs  = [i \in DOMAIN seqs |-> IF i \in DOMAIN new THEN seqs[i] ELSE @[i]],
            !.count = Tally(@, pos, seqs, 1)]

(* pos_add and pos_div: the sequences of a cell are counted at the new     *)
(* position to[i], and by[i] is added to the shift of its key.  A cell that*)
(* would be moved below 0 is emptied.                                      *)
WrongMovedTo(st, to, by) ==
    LET kept == {i \in DOMAIN to : to[i] >= 0}
        t    == [Drop(st, Whole(st, DOMAIN to)) EXCEPT
                    !.count = Tally(st.count, st.pos, Whole(st, kept), -1)]
    IN  [Fill(t, [i \in kept |-> [pos |-> to[i], seqs |-> st.seqs[i]]])
            EXCEPT !.shift = [i \in Cells |-> IF i \in kept THEN st.shift[i] + by[i] ELSE @[i]]]

MovedTo(st, to, by) ==
    LET kept == {i \in DOMAIN to : to[i] >= 0}
    IN  [Fill(Drop(st, Whole(st, DOMAIN to)), [i \in kept |-> [pos |-> to[i], seqs |-> st.seqs[i]]])
            EXCEPT !.shift = [i \in Cells |-> IF i \in kept THEN st.shift[i] + by[i] ELSE @[i]]]

(* The head goes back to the first cell that an operation emptied. *)
HeadBack(before, after) ==
    LET freed == Occupied(before) \ Occupied(after)
    IN  IF freed # {} /\ Min(freed) < after.head
        THEN [after EXCEPT !.head = Min(freed)] ELSE after
-----------------------------------------------------------------------------
(* llama_kv_cache on one stream. *)
(* seq_rm, for any number of sequences. *)
RmSeqs(st, gone) == HeadBack(st, Drop(st, gone))

(* A cell of one sequence that the token after its last one does not see.  *)
Masked(st, i) ==
    /\ Cardinality(st.seqs[i]) = 1
    /\ \A s \in st.seqs[i] :
          IsMasked(conf.window, conf.swa, st.pos[i], SeqPosMax(st, s) + 1)

(* The cells a token cannot go to. *)
Taken(st) == {i \in Occupied(st) : ~Masked(st, i)}

(* find_slot: the first n usable cells from the head on, around the end; a *)
(* head far behind the used cells starts over.  <<>> if there are fewer.   *)
FindSlot(st, n) ==
    LET start == IF st.head > Cardinality(Occupied(st)) + 2 * n THEN 0 ELSE st.head
        at(k) == IF k < conf.size THEN k ELSE k - conf.size
        found == RemoveIf([k \in 1 .. conf.size |-> at(start + k - 1)], Taken(st))
    IN  IF Len(found) < n THEN <<>> ELSE SubSeq(found, 1, n)

(* The tokens of a ubatch that go to stream m. *)
For(m, u) == RemoveIf(u, {t \in Range(u) : StreamOf(t.tok) # m})

(* The token that goes to each cell of a slot. *)
Assigned(idxs, toks) == [i \in Range(idxs) |-> toks[CHOOSE k \in DOMAIN idxs : idxs[k] = i]]

(* Tokens are written to their cells, over those that were there. *)
Put(st, new) == Fill(Drop(st, Whole(st, DOMAIN new)), new)

(* apply_ubatch on one stream: every position of a sequence up to the last *)
(* one that was overwritten is purged, so that no gap is left.             *)
WrongApplyTo(st, idxs, toks) ==
    [Put(st, Assigned(idxs, toks)) EXCEPT !.head = idxs[Len(idxs)] + 1]

ApplyTo(st, idxs, toks) ==
    LET put == Put(st, Assigned(idxs, toks))
        overwritten == [s \in Seqs |->
            Max({-1} \cup {st.pos[i] : i \in {j \in Range(idxs) : s \in st.seqs[j]}})]
        purged(i) == {s \in put.seqs[i] : put.pos[i] \in SeqPosMin(put, s) .. overwritten[s]}
    IN  [Drop(put, [i \in Cells |-> purged(i)]) EXCEPT !.head = idxs[Len(idxs)] + 1]

(* A slot: for every stream that the ubatch has tokens for, their cells. *)
Slot(all, u) ==
    [m \in {k \in DOMAIN all : \E t \in Range(u) : StreamOf(t.tok) = k} |->
        FindSlot(all[m], Len(For(m, u)))]

Apply(all, slot, u) ==
    [m \in DOMAIN all |-> IF m \in DOMAIN slot THEN ApplyTo(all[m], slot[m], For(m, u)) ELSE all[m]]

(* The end of prepare() for one ubatch: the cells it was placed in get     *)
(* their old contents back.  What was purged does not come back, and the   *)
(* head of the k-th stream of the slot is taken from the k-th stream.      *)
WrongRestored(all, slot, old) ==
    [m \in Streams |-> [all[m] EXCEPT !.head = old[m].head]]

Restored(all, slot, old) ==
    LET was(m) == [i \in Range(slot[m]) |-> [pos |-> old[m].pos[i], seqs |-> old[m].seqs[i]]]
        nth(m) == Cardinality({k \in DOMAIN slot : k < m})
    IN  [m \in DOMAIN all |-> IF m \in DOMAIN slot
                              THEN [Put(all[m], was(m)) EXCEPT !.head = old[nth(m)].head]
                              ELSE all[m]]

(* prepare(): the ubatches are placed one after the other, up to the first *)
(* that finds no slot, and taken out again, the last one first.            *)
Trial(all, placed) ==
    LET tried[k \in 0 .. Len(placed)] ==
            IF k = 0 THEN all
            ELSE LET before == tried[k - 1]
                     slot   == Slot(before, placed[k])
                 IN  IF <<>> \in Range(slot) THEN before ELSE Apply(before, slot, placed[k])
    IN  tried

TakenOut(tried, slots, n) ==
    LET undone[k \in 0 .. n] ==
            IF k = 0 THEN tried[n] ELSE Restored(undone[k - 1], slots[n + 1 - k], tried[n - k])
    IN  undone[n]

Prepared(all, placed) ==
    LET tried  == Trial(all, placed)
        slots  == [k \in DOMAIN tried \ {0} |-> Slot(tried[k - 1], placed[k])]
        failed == {k \in DOMAIN slots : <<>> \in Range(slots[k])}
        n      == IF failed = {} THEN Len(placed) ELSE Min(failed) - 1
    IN  [ok |-> failed = {}, slots |-> slots, cells |-> TakenOut(tried, slots, n)]
-----------------------------------------------------------------------------
(* update(): the stream copies in order, then the shift of every key. *)
Copied(r, todo) ==
    LET made[k \in 0 .. Len(todo)] ==
            IF k = 0 THEN r
            ELSE LET before == made[k - 1] IN [before EXCEPT ![todo[k][2]] = before[todo[k][1]]]
    IN  made[Len(todo)]

Rotated(r) ==
    [m \in Streams |-> [i \in Cells |-> [r[m][i] EXCEPT !.rope = @ + cells[m].shift[i]]]]

Shifted == [m \in Streams |-> [cells[m] EXCEPT !.shift = [i \in Cells |-> 0]]]

(* The graph of a ubatch writes the keys of its tokens to their rows. *)
Written(r, slot, u, computed) ==
    [m \in DOMAIN r |-> [i \in Cells |->
        IF m \in DOMAIN slot /\ i \in Range(slot[m])
        THEN LET t == Assigned(slot[m], For(m, u))[i]
             IN  [tok |-> IF computed THEN t.tok ELSE -1, rope |-> t.pos]
        ELSE r[m][i]]]

(* A ubatch that failed is removed: for the first sequence of each token,  *)
(* everything from the first position that sequence has in the ubatch.     *)
RolledBack(all, u) ==
    LET from(s) == Min({t.pos : t \in {v \in Range(u) : v.tok = s}})
        gone(st, i) == {s \in st.seqs[i] : /\ \E t \in Range(u) : t.tok = s
                                           /\ st.pos[i] >= from(s)}
    IN  [m \in DOMAIN all |-> RmSeqs(all[m], [i \in Cells |-> gone(all[m], i)])]

(* What the cells say, read with the copies that are pending. *)
Held   == UNION {{<<m, i>> : i \in Occupied(cells[m])} : m \in Streams}
Key(at) == Copied(rows, copies)[at[1]][at[2]]
Tokens ==
    LET token == [at \in Held |-> [seqs |-> cells[at[1]].seqs[at[2]],
                                   pos  |-> cells[at[1]].pos[at[2]],
                                   tok  |-> Key(at).tok]]
    IN  [t \in Range(token) |-> Cardinality({at \in Held : token[at] = t})]

Memory == INSTANCE SequenceMemory WITH tokens <- Tokens

(* The ubatches are applied and computed in order. *)
Processed(all, r, slots, placed, failed) ==
    LET done[k \in 0 .. Len(placed)] ==
            IF k = 0 THEN [cells |-> all, rows |-> r]
            ELSE LET before == done[k - 1]
                 IN  [cells |-> Apply(before.cells, slots[k], placed[k]),
                      rows  |-> Written(before.rows, slots[k], placed[k], k # failed)]
    IN  done

(* decode(): the pending work, prepare(), then ubatch after ubatch; the    *)
(* n-th one may fail and is removed again.                                 *)
Decode(b) ==
    LET min == [s \in Seqs |-> SeqPosMin(cells[StreamOf(s)], s)]
        max == [s \in Seqs |-> SeqPosMax(cells[StreamOf(s)], s)]
    IN  \E placed \in {Memory!Placed(max, b)}, rotated \in {Rotated(Copied(rows, copies))} :
        /\ Memory!Accepted(placed, min, max)
        /\ copies' = <<>>
        /\ UNCHANGED strayed
        /\ \E plan \in {Prepared(Shifted, placed)} :
              LET After(n, failed) == Processed(plan.cells, rotated, plan.slots, placed, failed)[n]
              IN  \/ /\ ~plan.ok
                     /\ ret' = "refused"
                     /\ cells' = plan.cells
                     /\ rows' = rotated
                  \/ /\ plan.ok
                     /\ ret' = "ok"
                     /\ \E done \in {After(Len(b), 0)} :
                           /\ cells' = done.cells
                           /\ rows' = done.rows
                  \/ /\ plan.ok
                     /\ ret' = "failed"
                     /\ \E n \in 1 .. Len(b) : \E done \in {After(n, n)} :
                           /\ cells' = RolledBack(done.cells, placed[n])
                           /\ rows' = done.rows

Clear ==
    /\ cells' = [m \in Streams |-> NoCells]
    /\ ret' = "none"
    /\ strayed' = FALSE
    /\ UNCHANGED <<rows, copies>>

(* The other calls change the cells of some streams. *)
Edit(new) ==
    /\ cells' = new
    /\ ret' = "none"
    /\ UNCHANGED rows

SeqRm(s, range) ==
    /\ Edit([cells EXCEPT ![StreamOf(s)] =
                RmSeqs(@, [i \in Cells |-> IF i \in Hit(@, s, range) THEN {s} ELSE {}])])
    /\ UNCHANGED <<copies, strayed>>

SeqRmAll(range) ==
    /\ Edit([m \in Streams |->
                RmSeqs(cells[m], Whole(cells[m], UNION {Hit(cells[m], s, range) : s \in Seqs}))])
    /\ UNCHANGED <<copies, strayed>>

(* Within a stream the copy shares the cells.  A cell that already belongs *)
(* to the destination is counted for it twice.                             *)
SeqCpShared(s, d, range) ==
    LET st  == cells[StreamOf(s)]
        hit == Hit(st, s, range)
    IN  /\ s # d
        /\ StreamOf(s) = StreamOf(d)
        /\ Edit([cells EXCEPT ![StreamOf(s)] =
                    [st EXCEPT !.seqs = [i \in Cells |-> IF i \in hit THEN @[i] \cup {d} ELSE @[i]],
                               !.count = Tally(@, st.pos, [i \in Cells |-> IF i \in hit THEN {d} ELSE {}], 1)]])
        /\ strayed' = (\E i \in hit : d \in st.seqs[i])
        /\ UNCHANGED copies

(* Between streams the cells are copied with their pending shifts, and the *)
(* rows at the next decode().                                              *)
WrongSeqCpStream(s, d) ==
    LET m   == StreamOf(s)
        src == cells[m]
        own == {i \in Cells : s \in src.seqs[i]}
    IN  /\ m # StreamOf(d)
        /\ Len(copies) < MaxCopies
        /\ copies' = Append(copies, <<m, StreamOf(d)>>)
        /\ Edit([cells EXCEPT ![StreamOf(d)] =
                    [Fill(NoCells, [i \in own |-> [pos |-> src.pos[i], seqs |-> {d}]]) EXCEPT
                        !.head = src.head]])
        /\ UNCHANGED strayed

SeqCpStream(s, d) ==
    LET m   == StreamOf(s)
        src == cells[m]
        own == {i \in Cells : s \in src.seqs[i]}
    IN  /\ m # StreamOf(d)
        /\ Len(copies) < MaxCopies
        /\ copies' = Append(copies, <<m, StreamOf(d)>>)
        /\ Edit([cells EXCEPT ![StreamOf(d)] =
                    [Fill(NoCells, [i \in own |-> [pos |-> src.pos[i], seqs |-> {d}]]) EXCEPT
                        !.shift = [i \in Cells |-> IF i \in own THEN src.shift[i] ELSE 0],
                        !.head = src.head]])
        /\ UNCHANGED strayed

(* Only the stream of the sequence is looked at. *)
SeqKeep(s) ==
    /\ Edit([cells EXCEPT ![StreamOf(s)] = RmSeqs(@, [i \in Cells |-> @.seqs[i] \ {s}])])
    /\ UNCHANGED <<copies, strayed>>

(* The head goes to the first cell that was emptied, or to the start. *)
SeqAdd(s, range, d) ==
    LET st    == cells[StreamOf(s)]
        hit   == Hit(st, s, range)
        moved == MovedTo(st, [i \in hit |-> st.pos[i] + d], [i \in hit |-> d])
        freed == Occupied(st) \ Occupied(moved)
    IN  /\ \A i \in hit : st.shift[i] + d \in -MaxShift .. MaxShift
        /\ \A i \in hit : st.pos[i] + d <= conf.maxPos
        /\ Edit([cells EXCEPT ![StreamOf(s)] =
                    [moved EXCEPT !.head = IF freed = {} THEN 0 ELSE Min(freed)]])
        /\ UNCHANGED <<copies, strayed>>

(* pos_div adds the distance to the shift with the opposite sign. *)
SeqDiv(s, range, d) ==
    LET st  == cells[StreamOf(s)]
        hit == Hit(st, s, range)
    IN  /\ Edit([cells EXCEPT ![StreamOf(s)] =
                    MovedTo(st, [i \in hit |-> st.pos[i] \div d],
                                [i \in hit |-> st.pos[i] - st.pos[i] \div d])])
        /\ strayed' = TRUE
        /\ UNCHANGED copies

(* After a call that strays, the model goes on with Clear only: what the   *)
(* other calls make of a key that is rotated wrongly, or of a position that*)
(* is counted twice, is not followed.                                      *)
Next ==
    /\ UNCHANGED conf
    /\ \/ Clear
       \/ /\ ~strayed
          /\ \/ \E b \in conf.batches : Decode(b)
             \/ \E s \in Seqs, range \in Ranges :
                    \/ SeqRm(s, range)
                    \/ \E d \in Seqs : SeqCpShared(s, d, range)
                    \/ \E d \in Shifts : SeqAdd(s, range, d)
                    \/ SeqDiv(s, range, 2)
             \/ \E range \in Ranges : SeqRmAll(range)
             \/ \E s \in Seqs : SeqKeep(s) \/ \E d \in Seqs : SeqCpStream(s, d)

Spec == Init /\ [][Next]_vars
-----------------------------------------------------------------------------
TypeOK ==
    /\ conf \in Configs
    /\ cells \in [Streams -> [pos   : [Cells -> {-1} \cup Positions],
                              seqs  : [Cells -> SUBSET Seqs],
                              shift : [Cells -> Int],
                              count : [Seqs -> [Positions -> Nat]],
                              head  : 0 .. conf.size]]
    /\ \A m \in Streams : \A i \in Cells :
        /\ cells[m].seqs[i] = {} <=> cells[m].pos[i] = -1
        /\ \A s \in cells[m].seqs[i] : StreamOf(s) = m
    /\ rows \in [Streams -> [Cells -> [tok : Seqs \cup {-1}, rope : Int]]]
    /\ copies \in Seq(Streams \X Streams) /\ Len(copies) <= MaxCopies
    /\ ret \in {"none", "ok", "refused", "failed"}
    /\ strayed \in BOOLEAN

(* The calls have the effects of SequenceMemory: no token is lost, mixed   *)
(* up, or at another position because of the cells, the slots prepare()    *)
(* chose, the work that is postponed or the rows that are used again.      *)
Implements == Memory!Spec

(* seq_pos counts, for each sequence, the cells at each position: the      *)
(* positions that seq_pos_min and seq_pos_max report are in the cache.     *)
CountsAgree ==
    ~strayed => \A m \in Streams, s \in Seqs, p \in Positions :
        cells[m].count[s][p] = Cardinality(Hit(cells[m], s, <<p, p + 1>>))

(* A key, once the pending copies are made and the pending shift applied,  *)
(* is rotated for the position of its cell.                                *)
RopeAgrees ==
    ~strayed => \A at \in Held :
        Key(at).rope + cells[at[1]].shift[at[2]] = cells[at[1]].pos[at[2]]

(* All positions between the first and the last one of a sequence are in   *)
(* the cache (llama.h of seq_pos_min), if they were before a batch was     *)
(* decoded: overwriting masked cells leaves no gap.                        *)
Contiguous ==
    \A s \in Seqs : LET st == cells[StreamOf(s)]
                    IN  Present(st, s) = IF Present(st, s) = {} THEN {} ELSE Min(Present(st, s)) .. Max(Present(st, s))

DecodeLeavesNoGap == [][ret' = "ok" /\ Contiguous => Contiguous']_vars

(* llama.h of llama_decode: when no slot is found, the memory is restored  *)
(* to the state before the call.  It is not with a window: prepare() does  *)
(* not bring back what it purged for the first ubatches.                   *)
RefusedIsUnchanged == [][ret' = "refused" => Tokens' = Tokens]_vars

(* llama-kv-cache.cpp of prepare(): "restore the cells to their original   *)
(* state".  With several streams a head may be taken from another stream.  *)
HeadsRestored ==
    [][ret' = "refused" => \A m \in Streams : cells'[m].head = cells[m].head]_vars

(* llama.h of seq_keep: tokens of other sequences are removed.  Those in   *)
(* other streams are not.                                                  *)
KeptAlone == [][\A s \in Seqs : SeqKeep(s) => \A t \in DOMAIN Tokens' : t.seqs = {s}]_vars

(* Keys stay where their cells are after seq_div as well: they do not,     *)
(* pos_div adds the distance with the wrong sign.                          *)
DividedRopeAgrees ==
    \A at \in Held :
        Key(at).rope + cells[at[1]].shift[at[2]] = cells[at[1]].pos[at[2]]
=============================================================================
