--------------------------- MODULE RecurrentCells ---------------------------
(***************************************************************************)
(* The memory of recurrent models: llama_memory_recurrent                  *)
(* (src/src/llama-memory-recurrent.cpp), the copies its graphs make        *)
(* (build_rs in src/src/llama-graph.cpp) and the loop of decode() over     *)
(* ubatches.                                                               *)
(*                                                                         *)
(* A cell holds the state of whole sequences: one row of the state tensors *)
(* that has absorbed all their tokens.  Sequences share a cell after       *)
(* seq_cp until one of them goes on.  find_slot gathers the cells of a     *)
(* ubatch side by side by renaming cells, and leaves in src where each     *)
(* cell's row still is; the graph then moves the rows.  The cells say what *)
(* the rows hold only if the two agree.                                    *)
(*                                                                         *)
(* One thread drives the memory.  A token of the model stands for all the  *)
(* tokens that one sequence has in a ubatch, and is named by the sequence  *)
(* it was decoded for.                                                     *)
(***************************************************************************)
EXTENDS Integers, Sequences, FiniteSets, SequencesExt, FiniteSetsExt, RemoveIf

CONSTANTS
    Size,       (* mem_size = n_seq_max: cells, and sequence ids           *)
    Batches,    (* sequences of ubatches; a ubatch is a sequence of sets   *)
                (* of sequence ids, each of them a sequence of ids         *)
    MaxTokens,  (* bound on the tokens of a sequence                       *)
    MaxPos,     (* bound on positions                                      *)
    Shifts      (* the shifts that seq_add is called with                  *)

ASSUME RecurrentAssumption ==
    /\ Size \in Nat \ {0}
    /\ MaxTokens \in Nat /\ MaxPos \in Nat
    /\ Shifts \subseteq Int

Cells == 0 .. Size - 1
Seqs  == 0 .. Size - 1
None  == -1

(* The sets of a ubatch do not overlap (split_equal).  That a set names    *)
(* each of its sequences once is left to the caller.                       *)
Ubatches ==
    {u \in Seq(Seq(Seqs)) :
        /\ u # <<>>
        /\ \A i \in DOMAIN u : u[i] # <<>>
        /\ \A i, k \in DOMAIN u : \A j \in DOMAIN u[i], l \in DOMAIN u[k] :
              u[i][j] = u[k][l] => i = k /\ j = l}

ASSUME BatchesAssumption == Batches \subseteq Seq(Ubatches)

VARIABLES
    mem,     (* the metadata: per cell pos, src, seqs (seq_id), and per    *)
             (* sequence tail (cells[seq].tail); head, used                *)
    rows,    (* the state tensors: the tokens each row has absorbed        *)
    todo,    (* the ubatches decode() has still to process                 *)
    aborted, (* a GGML_ASSERT of find_slot has failed                      *)
    text,    (* history: the tokens decoded for each sequence              *)
    wiped,   (* seq_rm(-1) has left tails without a cell                   *)
    failed   (* history: a graph failed after the last clear()             *)

vars == <<mem, rows, todo, aborted, text, wiped, failed>>

NoCells == [pos |-> [c \in Cells |-> -1], src |-> [c \in Cells |-> None],
            seqs |-> [c \in Cells |-> {}], tail |-> [s \in Seqs |-> None],
            head |-> 0, used |-> 0]

Init ==
    /\ mem = NoCells
    /\ rows = [c \in Cells |-> <<>>]
    /\ todo = <<>>
    /\ aborted = FALSE
    /\ text = [s \in Seqs |-> <<>>]
    /\ wiped = FALSE
    /\ failed = FALSE

Idle == todo = <<>> /\ ~aborted

(* After seq_rm(-1) the model goes on with decode() and clear() only: what *)
(* the other calls make of tails without cells (used wraps, for one) is    *)
(* not followed.                                                           *)
Sound == Idle /\ ~wiped
-----------------------------------------------------------------------------
Owner(set) == set[1]
PosMax(m, s) == Max({-1} \cup {m.pos[c] : c \in {d \in Cells : s \in m.seqs[d]}})

(* head moves back to the first cell that was freed. *)
WrongHeadAfter(m, freed) ==
    IF freed = {} THEN Size ELSE Min(freed)

HeadAfter(m, freed) ==
    IF freed # {} /\ Min(freed) < m.head THEN Min(freed) ELSE m.head

Occupied(m) == {c \in Cells : m.seqs[c] # {}}

(* seq_cp and find_slot: sequences give up their cells; a cell that no     *)
(* other sequence is in is freed.                                          *)
WrongRelease(m, who) ==
    LET left(c) == m.seqs[c] \ {s \in who : m.tail[s] = c}
        freed   == {c \in Cells : left(c) = {} /\ \E s \in who : m.tail[s] = c}
    IN  [m EXCEPT !.pos = [c \in Cells |-> IF c \in freed THEN -1 ELSE @[c]],
                  !.seqs = [c \in Cells |-> left(c)],
                  !.tail = [s \in Seqs |-> IF s \in who THEN None ELSE @[s]],
                  !.used = @ - Cardinality(freed)]

Release(m, who) ==
    LET left(c) == m.seqs[c] \ {s \in who : m.tail[s] = c}
        freed   == {c \in Cells : left(c) = {} /\ \E s \in who : m.tail[s] = c}
    IN  [pos  |-> [c \in Cells |-> IF c \in freed THEN -1 ELSE m.pos[c]],
         src  |-> [c \in Cells |-> IF c \in freed THEN None ELSE m.src[c]],
         seqs |-> [c \in Cells |-> left(c)],
         tail |-> [s \in Seqs |-> IF s \in who THEN None ELSE m.tail[s]],
         head |-> m.head,
         used |-> m.used - Cardinality(freed)]

(* The cells are searched from head or, if they are nearly empty, from 0.  *)
Hinted(m, u) == IF m.head > m.used + 2 * Len(u) THEN [m EXCEPT !.head = 0] ELSE m

(* The other sequences of each set give up their cells. *)
Joining(u)  == UNION {{u[i][j] : j \in 2 .. Len(u[i])} : i \in DOMAIN u}
Alone(m, u) == Release(m, Joining(u))

(* The empty cells in the order in which they are found. *)
WrongEmpties(m) ==
    RemoveIf([k \in 1 .. Size - m.head |-> m.head + k - 1], Occupied(m))

Empties(m) ==
    LET at(n) == IF n < Size THEN n ELSE n - Size
    IN  RemoveIf([k \in 1 .. Size |-> at(m.head + k - 1)], Occupied(m))

(* "find usable cell range": the first sequence of each set has a cell of  *)
(* its own or gets the next empty one.  It has one if the other sequences  *)
(* in its cell are the first of earlier sets, which have left.             *)
Lacking(m, u) ==
    {i \in DOMAIN u :
        \/ m.tail[Owner(u[i])] = None
        \/ m.seqs[m.tail[Owner(u[i])]] \ {Owner(u[j]) : j \in 1 .. i} # {}}

(* The assertions: a tail is in its own cell, an empty cell is there.      *)
Pickable(m, u) ==
    /\ \A i \in DOMAIN u :
          LET s == Owner(u[i]) IN m.tail[s] = None \/ s \in m.seqs[m.tail[s]]
    /\ Cardinality(Lacking(m, u)) <= Len(Empties(m))

(* Who leaves a cell it shared takes a copy of the cell along. *)
Picked(m, u) ==
    LET lacking == Lacking(m, u)
        empties == Empties(m)
        cell == [i \in DOMAIN u |-> IF i \in lacking THEN empties[Cardinality(lacking \cap 1 .. i)]
                                    ELSE m.tail[Owner(u[i])]]
        leaves == {i \in lacking : m.tail[Owner(u[i])] # None}
        moved(c) == {i \in leaves : cell[i] = c}
        from(c)  == IF moved(c) = {} THEN c ELSE m.tail[Owner(u[CHOOSE i \in moved(c) : TRUE])]
        owned(s) == {i \in DOMAIN u : Owner(u[i]) = s}
    IN  [m EXCEPT
            !.pos = [c \in Cells |-> m.pos[from(c)]],
            !.src = [c \in Cells |-> m.src[from(c)]],
            !.seqs = [c \in Cells |-> (@[c] \ {Owner(u[i]) : i \in leaves})
                                       \cup {Owner(u[i]) : i \in moved(c)}],
            !.tail = [s \in Seqs |-> IF owned(s) = {} THEN @[s]
                                      ELSE cell[CHOOSE i \in owned(s) : TRUE]]]

(* "gather and re-order": cells a and b change places.                     *)
WrongSwap(m, a, b) ==
    LET Other(c) == IF c = a THEN b ELSE IF c = b THEN a ELSE c
    IN  [m EXCEPT !.pos = [c \in Cells |-> m.pos[Other(c)]],
                  !.src = [c \in Cells |-> m.src[Other(c)]],
                  !.seqs = [c \in Cells |-> m.seqs[Other(c)]],
                  !.tail = [s \in Seqs |-> IF m.tail[s] = b THEN a ELSE m.tail[s]]]

Swap(m, a, b) ==
    LET Other(c) == IF c = a THEN b ELSE IF c = b THEN a ELSE c
    IN  [m EXCEPT !.pos = [c \in Cells |-> m.pos[Other(c)]],
                  !.src = [c \in Cells |-> m.src[Other(c)]],
                  !.seqs = [c \in Cells |-> m.seqs[Other(c)]],
                  !.tail = [s \in Seqs |-> IF @[s] = None THEN None ELSE Other(@[s])]]

(* The cells picked are brought to lo, lo + 1, ... in the order of u.      *)
Gathered(m, u, lo) ==
    LET swapped[i \in 0 .. Len(u)] ==
            IF i = 0 THEN m
            ELSE Swap(swapped[i - 1], lo + i - 1, swapped[i - 1].tail[Owner(u[i])])
    IN  swapped[Len(u)]

(* Each cell from lo on takes over the sequences of its set, one position  *)
(* after the last that m0 had for the first of them.                       *)
Placed(m0, m, u, lo) ==
    LET here(c) == c \in lo .. lo + Len(u) - 1
        set(s)  == {i \in 1 .. Len(u) : s \in ToSet(u[i])}
    IN  [m EXCEPT
            !.pos = [c \in Cells |-> IF here(c) THEN PosMax(m0, Owner(u[c - lo + 1])) + 1 ELSE @[c]],
            !.seqs = [c \in Cells |-> IF here(c) THEN ToSet(u[c - lo + 1]) ELSE @[c]],
            !.tail = [s \in Seqs |-> IF set(s) = {} THEN @[s] ELSE lo - 1 + Min(set(s))]]

(* The first cell of the range that no cell reads is to be zeroed.         *)
ToZero(m, range) ==
    LET unread == {c \in range : \A d \in Cells : m.src[d] # c}
    IN  IF unread = {} THEN None ELSE Min(unread)

Slot(m, lo, hi, zero) ==
    [m |-> [m EXCEPT !.src = [c \in Cells |-> IF c \in lo .. hi THEN c ELSE @[c]],
                     !.head = lo,
                     !.used = Cardinality({c \in Cells : m.seqs[c] # {}})],
     lo |-> lo, hi |-> hi, zero |-> zero,
     src0 |-> [c \in lo .. hi |-> IF m.src[c] = None THEN zero ELSE m.src[c]],
     ok |-> zero # None \/ \A c \in lo .. hi : m.src[c] # None]

(* find_slot in order.  The result has the new metadata, the range of      *)
(* cells lo .. hi, from which row each of them is to be copied (src0), the *)
(* row to be zeroed, and whether the assertions held.                      *)
SlotBetween(m0, m, u, lo, hi) ==
    LET placed == Placed(m0, Gathered(m, u, lo), u, lo)
    IN  Slot(placed, lo, hi, ToZero(placed, lo .. hi))

SlotOver(m0, m, u, tails) == SlotBetween(m0, m, u, Min(tails), Max(tails))

SlotFor(m0, m, u) ==
    IF Pickable(m, u)
    THEN LET picked == Picked(m, u)
         IN  SlotOver(m0, picked, u, {picked.tail[Owner(u[i])] : i \in DOMAIN u})
    ELSE [ok |-> FALSE]

FindSlot(m0, u) == SlotFor(m0, Alone(Hinted(m0, u), u), u)

(* What the graph does with the rows: the chosen row is zeroed, the rows   *)
(* of the range are gathered, and the first ones absorb a token each.      *)
Compute(r, u, slot) ==
    LET old(c) == IF slot.src0[c] = slot.zero THEN <<>> ELSE r[slot.src0[c]]
    IN  [c \in Cells |->
            IF c \notin slot.lo .. slot.hi THEN r[c]
            ELSE IF c < slot.lo + Len(u) THEN Append(old(c), Owner(u[c - slot.lo + 1]))
            ELSE old(c)]
-----------------------------------------------------------------------------
(* The tokens of s in the first n ubatches. *)
Tokens(ubatches, n, s) ==
    Cardinality({i \in 1 .. n : \E j \in DOMAIN ubatches[i] : s \in ToSet(ubatches[i][j])})

(* llama_batch_allocr::init accepts sequences in one token only if their   *)
(* positions agree; positions continue what the memory has, so that the    *)
(* sequences of a token have as many tokens before it.                     *)
Accepted(ubatches) ==
    /\ \A i \in DOMAIN ubatches : \A j \in DOMAIN ubatches[i] :
          \A s, t \in ToSet(ubatches[i][j]) :
              /\ PosMax(mem, s) = PosMax(mem, t)
              /\ Tokens(ubatches, i - 1, s) = Tokens(ubatches, i - 1, t)
    /\ \A s \in Seqs :
          LET n == Tokens(ubatches, Len(ubatches), s)
          IN  n > 0 => Len(text[s]) + n <= MaxTokens /\ PosMax(mem, s) + n <= MaxPos

(* prepare() finds a slot for every ubatch. *)
Trial(m, ubatches) ==
    LET after[i \in 0 .. Len(ubatches)] ==
            IF i = 0 THEN [m |-> m, ok |-> TRUE]
            ELSE IF ~after[i - 1].ok THEN after[i - 1]
            ELSE LET slot == FindSlot(after[i - 1].m, ubatches[i])
                 IN  IF slot.ok THEN [m |-> slot.m, ok |-> TRUE]
                     ELSE [m |-> after[i - 1].m, ok |-> FALSE]
    IN  after[Len(ubatches)]

(* decode(): prepare() puts the metadata back after the trial. *)
WrongDecode(ubatches) ==
    LET trial == Trial(mem, ubatches)
    IN  /\ Idle
        /\ Accepted(ubatches)
        /\ aborted' = ~trial.ok
        /\ mem' = IF trial.ok THEN trial.m ELSE mem
        /\ todo' = IF trial.ok THEN ubatches ELSE <<>>
        /\ UNCHANGED <<rows, text, wiped, failed>>

Decode(ubatches) ==
    LET trial == Trial(mem, ubatches)
    IN  /\ Idle
        /\ Accepted(ubatches)
        /\ aborted' = ~trial.ok
        /\ todo' = IF trial.ok THEN ubatches ELSE <<>>
        /\ UNCHANGED <<mem, rows, text, wiped, failed>>

(* process_ubatch: apply() finds the slot again, and the graph is computed.*)
ProcessOk ==
    /\ todo # <<>>
    /\ LET u    == Head(todo)
           slot == FindSlot(mem, u)
           set(s) == CHOOSE x \in ToSet(u) : s \in ToSet(x)
       IN  /\ mem' = slot.m
           /\ rows' = Compute(rows, u, slot)
           /\ text' = [s \in Seqs |->
                  IF \E x \in ToSet(u) : s \in ToSet(x)
                  THEN Append(text[Owner(set(s))], Owner(set(s))) ELSE text[s]]
    /\ todo' = Tail(todo)
    /\ UNCHANGED <<aborted, wiped, failed>>

(* seq_rm(s, 0, max) on the metadata, for each sequence s of who. *)
WrongWithoutSeqs(m, who) ==
    LET hit   == {c \in Cells : m.pos[c] >= 0 /\ m.seqs[c] \cap who # {}}
        freed == {c \in hit : m.seqs[c] \subseteq who}
    IN  [m EXCEPT !.pos = [c \in Cells |-> IF c \in freed THEN -1 ELSE @[c]],
                  !.src = [c \in Cells |-> IF c \in freed THEN None ELSE @[c]],
                  !.seqs = [c \in Cells |-> @[c] \ who],
                  !.tail = [s \in Seqs |-> IF s \in who THEN None ELSE @[s]],
                  !.used = @ - Cardinality(hit)]

WithoutSeqs(m, who) ==
    LET hit   == {c \in Cells : m.pos[c] >= 0 /\ m.seqs[c] \cap who # {}}
        freed == {c \in hit : m.seqs[c] \subseteq who}
        gone(t) == t # None /\ m.pos[t] >= 0
    IN  [pos  |-> [c \in Cells |-> IF c \in freed THEN -1 ELSE m.pos[c]],
         src  |-> [c \in Cells |-> IF c \in freed THEN None ELSE m.src[c]],
         seqs |-> [c \in Cells |-> IF c \in hit THEN m.seqs[c] \ who ELSE m.seqs[c]],
         tail |-> [s \in Seqs |-> IF s \in who /\ gone(m.tail[s]) THEN None ELSE m.tail[s]],
         head |-> HeadAfter(m, freed),
         used |-> m.used - Cardinality(freed)]

(* The graph is not computed.  decode() asks seq_rm to remove the          *)
(* positions of the ubatch; it does so for the owner of each set whose     *)
(* token was its first, and returns false for the others.                  *)
ProcessFail ==
    /\ todo # <<>>
    /\ LET u     == Head(todo)
           after == FindSlot(mem, u).m
           first == {Owner(u[i]) : i \in {k \in DOMAIN u : after.pos[after.tail[Owner(u[k])]] = 0}}
       IN  /\ mem' = WithoutSeqs(after, first)
           /\ text' = [s \in Seqs |-> IF s \in first THEN <<>> ELSE text[s]]
    /\ failed' = TRUE
    /\ todo' = <<>>
    /\ UNCHANGED <<rows, aborted, wiped>>
-----------------------------------------------------------------------------
(* A range that ends before the cell's position removes nothing, one that  *)
(* starts after 0 and reaches it is refused: only whole sequences go.      *)
SeqRm(s) ==
    /\ Sound
    /\ mem' = WithoutSeqs(mem, {s})
    /\ text' = [text EXCEPT ![s] = <<>>]
    /\ UNCHANGED <<rows, todo, aborted, wiped, failed>>

(* seq_rm(-1, 0, max): every cell is emptied and no tail is reset.         *)
SeqRmAll ==
    LET hit == {c \in Cells : mem.pos[c] >= 0}
    IN  /\ Sound
        /\ mem' = [NoCells EXCEPT !.tail = mem.tail,
                                  !.src = [c \in Cells |-> IF c \in hit THEN None ELSE mem.src[c]],
                                  !.head = HeadAfter(mem, hit),
                                  !.used = mem.used - Cardinality(hit)]
        /\ text' = [s \in Seqs |-> <<>>]
        /\ wiped' = \E s \in Seqs : mem.tail[s] # None
        /\ UNCHANGED <<rows, todo, aborted, failed>>

SeqCp(src, dst) ==
    LET freed == Release(mem, {dst})
        t     == freed.tail[src]
    IN  /\ Sound
        /\ src # dst
        /\ mem' = IF t = None THEN freed
                  ELSE [freed EXCEPT !.seqs[t] = @ \cup {dst}, !.tail[dst] = t]
        /\ text' = [text EXCEPT ![dst] = text[src]]
        /\ UNCHANGED <<rows, todo, aborted, wiped, failed>>

SeqKeep(s) ==
    LET drop == {c \in Cells : s \notin mem.seqs[c]}
    IN  /\ Sound
        /\ mem' = [pos  |-> [c \in Cells |-> IF c \in drop THEN -1 ELSE mem.pos[c]],
                   src  |-> [c \in Cells |-> IF c \in drop THEN None ELSE mem.src[c]],
                   seqs |-> [c \in Cells |-> IF c \in drop THEN {} ELSE {s}],
                   tail |-> [r \in Seqs |-> IF r = s THEN mem.tail[r] ELSE None],
                   head |-> HeadAfter(mem, drop),
                   used |-> mem.used - Cardinality({c \in drop : mem.pos[c] >= 0})]
        /\ text' = [r \in Seqs |-> IF r = s THEN text[r] ELSE <<>>]
        /\ UNCHANGED <<rows, todo, aborted, wiped, failed>>

(* seq_add and seq_div over the whole range change the position of the     *)
(* cell of s, for all that share it.  The code does not look at the sum: a *)
(* shift that makes the position negative is not modelled; every caller    *)
(* shifts down by the start of its range at most.                          *)
MovePos(s, move) ==
    LET t == mem.tail[s]
    IN  /\ Sound
        /\ t # None
        /\ s \in mem.seqs[t]
        /\ mem.pos[t] >= 0
        /\ move[mem.pos[t]] \in 0 .. MaxPos
        /\ mem' = [mem EXCEPT !.pos[t] = move[@]]
        /\ UNCHANGED <<rows, todo, aborted, text, wiped, failed>>

SeqAdd(s, shift) == MovePos(s, [p \in 0 .. MaxPos |-> p + shift])
SeqDiv(s)        == MovePos(s, [p \in 0 .. MaxPos |-> p \div 2])

(* clear(data): the rows are zeroed only if data is set.                   *)
Clear(data) ==
    /\ Idle
    /\ mem' = NoCells
    /\ rows' = IF data THEN [c \in Cells |-> <<>>] ELSE rows
    /\ text' = [s \in Seqs |-> <<>>]
    /\ wiped' = FALSE
    /\ failed' = FALSE
    /\ UNCHANGED <<todo, aborted>>

(* A new process after an assertion has failed. *)
Restart ==
    /\ aborted
    /\ mem' = NoCells
    /\ rows' = [c \in Cells |-> <<>>]
    /\ todo' = <<>>
    /\ aborted' = FALSE
    /\ text' = [s \in Seqs |-> <<>>]
    /\ wiped' = FALSE
    /\ failed' = FALSE

Next ==
    \/ \E b \in Batches : Decode(b)
    \/ ProcessOk
    \/ ProcessFail
    \/ \E s \in Seqs : SeqRm(s)
    \/ SeqRmAll
    \/ \E src, dst \in Seqs : SeqCp(src, dst)
    \/ \E s \in Seqs : SeqKeep(s)
    \/ \E s \in Seqs, d \in Shifts : SeqAdd(s, d)
    \/ \E s \in Seqs : SeqDiv(s)
    \/ \E data \in BOOLEAN : Clear(data)
    \/ Restart

Spec == Init /\ [][Next]_vars
-----------------------------------------------------------------------------
(* Every state component has the type its declaration gives it; all cells  *)
(* counted as used hold a position.                                        *)
TypeOK ==
    /\ mem.pos \in [Cells -> -1 .. MaxPos]
    /\ mem.src \in [Cells -> Cells \cup {None}]
    /\ mem.seqs \in [Cells -> SUBSET Seqs]
    /\ mem.tail \in [Seqs -> Cells \cup {None}]
    /\ mem.head \in Cells
    /\ mem.used \in 0 .. Size
    /\ rows \in [Cells -> Seq(Seqs)]
    /\ todo \in Seq(Seq(Seq(Seqs)))
    /\ text \in [Seqs -> Seq(Seqs)]
    /\ aborted \in BOOLEAN /\ wiped \in BOOLEAN /\ failed \in BOOLEAN

(* The check that find_slot makes in debug builds only: the tail of a      *)
(* sequence is the one cell that names it.  It survives sharing, taking a  *)
(* cell of one's own, swaps, failed graphs and removals, as long as        *)
(* nobody calls seq_rm(-1).                                                *)
TailsAgree ==
    ~wiped => \A s \in Seqs, c \in Cells : mem.tail[s] = c <=> s \in mem.seqs[c]

(* used, from which find_slot decides where to search, is the number of    *)
(* cells that are not empty, and an empty cell has no position.            *)
UsedIsCount ==
    /\ mem.used = Cardinality({c \in Cells : mem.seqs[c] # {}})
    /\ \A c \in Cells : mem.seqs[c] = {} <=> mem.pos[c] = -1

(* The row from which the next ubatch of a sequence will start holds its   *)
(* tokens, all of them and in order, and that of an empty cell is zero:    *)
(* no swap, no copy on a cell's way back to a sequence of its own, no      *)
(* removal and no reuse of a cell mixes the states of sequences.           *)
RowOf(c) == IF mem.src[c] = None THEN <<>> ELSE rows[mem.src[c]]

StateIsText ==
    ~wiped /\ ~failed =>
        /\ \A s \in Seqs : text[s] = IF mem.tail[s] = None THEN <<>> ELSE RowOf(mem.tail[s])
        /\ \A c \in Cells : mem.seqs[c] = {} => RowOf(c) = <<>>

(* The assertions of find_slot hold: an empty cell is there whenever one   *)
(* is needed, as is a row to be zeroed, and a tail is in its own cell.     *)
NeverAborts == aborted => wiped
-----------------------------------------------------------------------------
(* What the comments of the code say and the code does not do.             *)

(* "seq_id < 0 : match any sequence" (llama.h): after it all sequences are *)
(* gone, and decoding can go on.                                           *)
WipedIsUsable == ~aborted

(* "the last ubatch failed or was aborted -> remove all positions of that  *)
(* ubatch from the memory module" (llama-context.cpp): the state of a      *)
(* sequence is that of the tokens that were decoded for it.                *)
FailedIsRemoved ==
    ~wiped => \A s \in Seqs :
        text[s] = IF mem.tail[s] = None THEN <<>> ELSE RowOf(mem.tail[s])
=============================================================================
