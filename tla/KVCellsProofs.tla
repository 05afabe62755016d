---------------------------- MODULE KVCellsProofs ----------------------------
(***************************************************************************)
(* Theorems about KVCells, for any size of the streams, any batches and    *)
(* any ranges and shifts of the calls.                                     *)
(*                                                                         *)
(* Everything that is done to a stream keeps its record Valid: typed, each *)
(* cell listing what it should (Listing), each position counted (Counted). *)
(* The lemmas of the first part say so for Drop and Fill and for what is   *)
(* made of them, with what becomes of positions and shifts.  A decode() is *)
(* then followed through its three passes over the ubatches: the trial,    *)
(* the way back, and the processing.  It works on States, where no shift   *)
(* is pending; the trial leaves nothing in a cell that was not there       *)
(* (Within), and the processing keeps the rows Told: rotated for the       *)
(* positions of their cells.                                               *)
(***************************************************************************)
EXTENDS KVCells, SequenceLemmas, FiniteSetTheorems, TLAPS

(* What the configuration is.                                              *)
LEMMA ConfTypes ==
    ASSUME conf \in Configs
    PROVE  /\ conf.size \in Nat /\ conf.size >= 1 /\ conf.maxPos \in Nat /\ conf.window \in Nat
           /\ conf.unified \in BOOLEAN
           /\ Seqs \in SUBSET Nat /\ 0 \in Seqs
           /\ Streams \in SUBSET Seqs /\ 0 \in Streams
           /\ \A s \in Seqs : StreamOf(s) \in Streams
           /\ Cells = 0 .. conf.size - 1 /\ IsFiniteSet(Cells)
           /\ Positions = 0 .. conf.maxPos
<1>1. /\ conf.size \in Nat /\ conf.size >= 1 /\ conf.maxPos \in Nat /\ conf.window \in Nat
      /\ conf.unified \in BOOLEAN
  BY KVCellsAssumption
<1>2. Seqs \in SUBSET Nat /\ 0 \in Seqs
  BY KVCellsAssumption, FS_EmptySet, FS_CardinalityType
<1>3. Streams \in SUBSET Seqs /\ 0 \in Streams /\ \A s \in Seqs : StreamOf(s) \in Streams
  BY <1>1, <1>2 DEF Streams, StreamOf
<1>4. IsFiniteSet(Cells)
  <2>1. PICK n : n = conf.size - 1
    OBVIOUS
  <2>2. n \in Int /\ Cells = 0 .. n
    BY <1>1, <2>1 DEF Cells
  <2>3. IsFiniteSet(0 .. n)
    BY <2>2, FS_Interval
  <2> QED  BY <2>2, <2>3
<1> QED  BY <1>1, <1>2, <1>3, <1>4 DEF Cells, Positions

(* The least element of a set of numbers, and the greatest one of a bounded*)
(* set of numbers from -1 on.                                              *)
LEMMA MinIn ==
    ASSUME NEW S \in SUBSET Nat, S # {}
    PROVE  Min(S) \in S /\ \A x \in S : Min(S) <= x
<1>1. \E m \in S : \A x \in S : m <= x
  BY LeastOf
<1> QED  BY <1>1 DEF Min

LEMMA MaxIn ==
    ASSUME NEW N \in Nat, NEW S \in SUBSET (-1 .. N), S # {}
    PROVE  Max(S) \in S /\ \A x \in S : x <= Max(S)
<1>1. PICK R : R = {x + 1 : x \in S}
  OBVIOUS
<1>2. \A x \in S : x \in Int /\ x + 1 \in 0 .. N + 1
  OBVIOUS
<1>3. R \in SUBSET (0 .. N + 1) /\ R # {}
  BY <1>1, <1>2
<1>4. N + 1 \in Nat
  OBVIOUS
<1>5. PICK r \in R : \A y \in R : y <= r
  BY <1>3, <1>4, GreatestOf
<1>6. PICK m \in S : r = m + 1
  BY <1>1, <1>5
<1>7. \A x \in S : x + 1 \in R
  BY <1>1
<1>8. \A x \in S : x <= m
  BY <1>2, <1>5, <1>6, <1>7
<1>9. \A x \in S : m >= x
  BY <1>2, <1>8
<1>10. PICK v : v = Max(S)
  OBVIOUS
<1>11. v \in S /\ \A x \in S : v >= x
  BY <1>6, <1>9, <1>10 DEF Max
<1> QED  BY <1>2, <1>10, <1>11
-----------------------------------------------------------------------------
(* The cells of a stream.                                                  *)
Records == [pos   : [Cells -> {-1} \cup Positions],
            seqs  : [Cells -> SUBSET Seqs],
            shift : [Cells -> Int],
            count : [Seqs -> [Positions -> Int]],
            head  : 0 .. conf.size]

(* A cell is empty if it lists no sequence; the others are of this stream. *)
Listing(m, st) ==
    \A i \in Cells : /\ st.seqs[i] = {} <=> st.pos[i] = -1
                     /\ \A s \in st.seqs[i] : StreamOf(s) = m

(* The cells that are counted for s at p.                                  *)
Where(pos, listed, s, p) == {i \in Cells : pos[i] = p /\ s \in listed[i]}

Counted(st) ==
    \A s \in Seqs, p \in Positions : st.count[s][p] = Cardinality(Where(st.pos, st.seqs, s, p))

Valid(m) == {st \in Records : Listing(m, st) /\ Counted(st)}

(* What a cell of k says of the position its key is rotated for is what it *)
(* says in st, if it is not empty.                                         *)
Stays(st, k) ==
    \A i \in Cells : k.pos[i] # -1 => /\ st.pos[i] # -1
                                      /\ k.pos[i] - k.shift[i] = st.pos[i] - st.shift[i]

LEMMA RecordIs ==
    ASSUME NEW st \in Records
    PROVE  /\ st.pos \in [Cells -> {-1} \cup Positions]
           /\ st.seqs \in [Cells -> SUBSET Seqs]
           /\ st.shift \in [Cells -> Int]
           /\ st.count \in [Seqs -> [Positions -> Int]]
           /\ st.head \in 0 .. conf.size
           /\ st = [pos |-> st.pos, seqs |-> st.seqs, shift |-> st.shift,
                    count |-> st.count, head |-> st.head]
BY DEF Records

LEMMA WhereFinite ==
    ASSUME conf \in Configs, NEW pos, NEW listed, NEW s, NEW p
    PROVE  /\ IsFiniteSet(Where(pos, listed, s, p))
           /\ Cardinality(Where(pos, listed, s, p)) \in Nat
<1>1. Where(pos, listed, s, p) \in SUBSET Cells
  BY DEF Where
<1>2. IsFiniteSet(Where(pos, listed, s, p))
  BY <1>1, ConfTypes, FS_Subset
<1> QED  BY <1>2, FS_CardinalityType

(* seq_pos_dec and seq_pos_inc.                                            *)
LEMMA TallyIs ==
    ASSUME conf \in Configs, NEW count \in [Seqs -> [Positions -> Int]], NEW pos, NEW listed
    PROVE  /\ Tally(count, pos, listed, 1) \in [Seqs -> [Positions -> Int]]
           /\ Tally(count, pos, listed, -1) \in [Seqs -> [Positions -> Int]]
           /\ \A s \in Seqs, p \in Positions :
                /\ Tally(count, pos, listed, 1)[s][p]
                     = count[s][p] + Cardinality(Where(pos, listed, s, p))
                /\ Tally(count, pos, listed, -1)[s][p]
                     = count[s][p] - Cardinality(Where(pos, listed, s, p))
<1>1. ASSUME NEW s \in Seqs, NEW p \in Positions
      PROVE  count[s][p] \in Int /\ Cardinality(Where(pos, listed, s, p)) \in Nat
  BY WhereFinite
<1>2. ASSUME NEW s \in Seqs, NEW p \in Positions
      PROVE  /\ Tally(count, pos, listed, 1)[s][p]
                  = count[s][p] + 1 * Cardinality(Where(pos, listed, s, p))
             /\ Tally(count, pos, listed, -1)[s][p]
                  = count[s][p] + (-1) * Cardinality(Where(pos, listed, s, p))
  BY DEF Tally, Where
<1>3. ASSUME NEW s \in Seqs, NEW p \in Positions
      PROVE  /\ Tally(count, pos, listed, 1)[s][p]
                  = count[s][p] + Cardinality(Where(pos, listed, s, p))
             /\ Tally(count, pos, listed, -1)[s][p]
                  = count[s][p] - Cardinality(Where(pos, listed, s, p))
  <2>1. PICK c, w : c = count[s][p] /\ w = Cardinality(Where(pos, listed, s, p))
    OBVIOUS
  <2>2. c + 1 * w = c + w /\ c + (-1) * w = c - w
    BY <1>1, <2>1
  <2> QED  BY <1>2, <2>1, <2>2
<1>4. ASSUME NEW d \in {1, -1} PROVE Tally(count, pos, listed, d) \in [Seqs -> [Positions -> Int]]
  <2>1. ASSUME NEW s \in Seqs, NEW p \in Positions
        PROVE  count[s][p] + d * Cardinality({i \in Cells : pos[i] = p /\ s \in listed[i]}) \in Int
    <3>1. PICK c, w : c = count[s][p] /\ w = Cardinality({i \in Cells : pos[i] = p /\ s \in listed[i]})
      OBVIOUS
    <3>2. c \in Int /\ w \in Nat
      BY <1>1, <3>1 DEF Where
    <3>3. c + d * w \in Int
      BY <3>2
    <3> QED  BY <3>1, <3>3
  <2> QED  BY <2>1 DEF Tally
<1> QED  BY <1>3, <1>4
-----------------------------------------------------------------------------
(* Cells that lose some of their sequences.                                *)
LEMMA DropIs ==
    ASSUME conf \in Configs, NEW st \in Records, NEW gone \in [Cells -> SUBSET Seqs],
           NEW d, d = Drop(st, gone)
    PROVE  /\ d \in Records
           /\ d.count = Tally(st.count, st.pos, gone, -1)
           /\ d.head = st.head
           /\ \A i \in Cells :
                /\ d.seqs[i] = st.seqs[i] \ gone[i]
                /\ d.pos[i] = IF d.seqs[i] = {} THEN -1 ELSE st.pos[i]
                /\ d.shift[i] = IF d.seqs[i] = {} THEN 0 ELSE st.shift[i]
<1>1. PICK pos, seqs, shift, count :
        /\ pos = [i \in Cells |-> IF st.seqs[i] \ gone[i] = {} THEN -1 ELSE st.pos[i]]
        /\ seqs = [i \in Cells |-> st.seqs[i] \ gone[i]]
        /\ shift = [i \in Cells |-> IF st.seqs[i] \ gone[i] = {} THEN 0 ELSE st.shift[i]]
        /\ count = Tally(st.count, st.pos, gone, -1)
  OBVIOUS
<1>2. d = [pos |-> pos, seqs |-> seqs, shift |-> shift, count |-> count, head |-> st.head]
  <2>1. DOMAIN gone = Cells
    OBVIOUS
  <2>2. d = [st EXCEPT !.pos = pos, !.seqs = seqs, !.shift = shift, !.count = count]
    BY <1>1, <2>1 DEF Drop
  <2> QED  BY <2>2, RecordIs
<1>3. count \in [Seqs -> [Positions -> Int]]
  BY <1>1, RecordIs, TallyIs
<1>4. pos \in [Cells -> {-1} \cup Positions]
  BY <1>1, RecordIs
<1>5. seqs \in [Cells -> SUBSET Seqs]
  BY <1>1, RecordIs
<1>6. shift \in [Cells -> Int]
  BY <1>1, RecordIs
<1>7. d \in Records
  BY <1>2, <1>3, <1>4, <1>5, <1>6, RecordIs DEF Records
<1> QED  BY <1>1, <1>2, <1>7

(* ... and are counted as often as they are listed after it, if they were  *)
(* and lose only what they list.                                           *)
LEMMA DropValid ==
    ASSUME conf \in Configs, NEW m, NEW st \in Valid(m), NEW gone \in [Cells -> SUBSET Seqs],
           \A i \in Cells : gone[i] \subseteq st.seqs[i],
           NEW d, d = Drop(st, gone)
    PROVE  /\ d \in Valid(m)
           /\ d.head = st.head
           /\ \A i \in Cells :
                /\ d.seqs[i] = st.seqs[i] \ gone[i]
                /\ d.pos[i] = IF d.seqs[i] = {} THEN -1 ELSE st.pos[i]
                /\ d.shift[i] = IF d.seqs[i] = {} THEN 0 ELSE st.shift[i]
<1>1. st \in Records /\ Listing(m, st) /\ Counted(st)
  BY DEF Valid
<1>2. /\ d \in Records
      /\ d.count = Tally(st.count, st.pos, gone, -1)
      /\ d.head = st.head
      /\ \A i \in Cells :
           /\ d.seqs[i] = st.seqs[i] \ gone[i]
           /\ d.pos[i] = IF d.seqs[i] = {} THEN -1 ELSE st.pos[i]
           /\ d.shift[i] = IF d.seqs[i] = {} THEN 0 ELSE st.shift[i]
  BY <1>1, DropIs
<1>3. Listing(m, d)
  BY <1>1, <1>2 DEF Listing
<1>4. ASSUME NEW s \in Seqs, NEW p \in Positions
      PROVE  d.count[s][p] = Cardinality(Where(d.pos, d.seqs, s, p))
  <2>1. PICK A, B : A = Where(st.pos, st.seqs, s, p) /\ B = Where(st.pos, gone, s, p)
    OBVIOUS
  <2>2. IsFiniteSet(A) /\ B \subseteq A
    <3>1. IsFiniteSet(A)
      BY <2>1, WhereFinite
    <3>2. B \subseteq A
      BY <2>1 DEF Where
    <3> QED  BY <3>1, <3>2
  <2>3. p # -1
    BY ConfTypes
  <2>4. Where(d.pos, d.seqs, s, p) = A \ B
    BY <1>1, <1>2, <2>1, <2>3 DEF Where
  <2>5. Cardinality(A \ B) = Cardinality(A) - Cardinality(B)
    <3>1. A \cap B = B
      BY <2>2
    <3>2. Cardinality(A \ B) = Cardinality(A) - Cardinality(A \cap B)
      BY <2>2, FS_Difference
    <3> QED  BY <3>1, <3>2
  <2>6. d.count[s][p] = st.count[s][p] - Cardinality(B)
    <3>1. PICK base, pos : base = st.count /\ pos = st.pos
      OBVIOUS
    <3>2. base \in [Seqs -> [Positions -> Int]]
      BY <1>1, <3>1, RecordIs
    <3>3. d.count = Tally(base, pos, gone, -1)
      BY <1>2, <3>1
    <3>4. d.count[s][p] = base[s][p] - Cardinality(Where(pos, gone, s, p))
      BY <3>2, <3>3, TallyIs
    <3> QED  BY <2>1, <3>1, <3>4
  <2>7. st.count[s][p] = Cardinality(A)
    BY <1>1, <2>1 DEF Counted
  <2> QED  BY <2>4, <2>5, <2>6, <2>7
<1> QED  BY <1>2, <1>3, <1>4 DEF Valid, Counted

(* What is put into cells.                                                 *)
Contents(N, new) ==
    DOMAIN new = N /\ \A i \in N : new[i].pos \in {-1} \cup Positions /\ new[i].seqs \in SUBSET Seqs

(* ... so that a cell of stream m is listed as it should be.               *)
Proper(m, N, new) ==
    /\ N \in SUBSET Cells
    /\ Contents(N, new)
    /\ \A i \in N : /\ new[i].seqs = {} <=> new[i].pos = -1
                    /\ \A s \in new[i].seqs : StreamOf(s) = m

(* Cells that are filled.                                                  *)
LEMMA FillIs ==
    ASSUME conf \in Configs, NEW st \in Records, NEW N \in SUBSET Cells, NEW new, Contents(N, new),
           NEW d, d = Fill(st, new)
    PROVE  /\ d \in Records
           /\ d.head = st.head
           /\ d.shift = st.shift
           /\ \A i \in Cells :
                /\ d.pos[i] = IF i \in N THEN new[i].pos ELSE st.pos[i]
                /\ d.seqs[i] = IF i \in N THEN new[i].seqs ELSE st.seqs[i]
           /\ d.count = Tally(st.count, d.pos, [i \in Cells |-> IF i \in N THEN new[i].seqs ELSE {}], 1)
<1>0. DOMAIN new = N /\ \A i \in N : new[i].pos \in {-1} \cup Positions /\ new[i].seqs \in SUBSET Seqs
  BY DEF Contents
<1>1. PICK pos, put, seqs, count :
        /\ pos = [i \in Cells |-> IF i \in N THEN new[i].pos ELSE st.pos[i]]
        /\ put = [i \in Cells |-> IF i \in N THEN new[i].seqs ELSE {}]
        /\ seqs = [i \in Cells |-> IF i \in N THEN put[i] ELSE st.seqs[i]]
        /\ count = Tally(st.count, pos, put, 1)
  OBVIOUS
<1>2. d = [pos |-> pos, seqs |-> seqs, shift |-> st.shift, count |-> count, head |-> st.head]
  <2>1. DOMAIN put = Cells
    BY <1>1
  <2>2. d = [st EXCEPT !.pos = pos, !.seqs = seqs, !.count = count]
    BY <1>0, <1>1, <2>1 DEF Fill
  <2> QED  BY <2>2, RecordIs
<1>3. count \in [Seqs -> [Positions -> Int]]
  BY <1>1, RecordIs, TallyIs
<1>4. pos \in [Cells -> {-1} \cup Positions]
  BY <1>0, <1>1, RecordIs
<1>5. seqs \in [Cells -> SUBSET Seqs]
  BY <1>0, <1>1, RecordIs
<1>6. d \in Records
  BY <1>2, <1>3, <1>4, <1>5, RecordIs DEF Records
<1> QED  BY <1>1, <1>2, <1>6

(* ... empty ones, with contents of this stream.                           *)
LEMMA FillValid ==
    ASSUME conf \in Configs, NEW m, NEW st \in Valid(m), NEW N, NEW new, Proper(m, N, new),
           \A i \in N : st.seqs[i] = {},
           NEW d, d = Fill(st, new)
    PROVE  /\ d \in Valid(m)
           /\ d.head = st.head
           /\ d.shift = st.shift
           /\ \A i \in Cells :
                /\ d.pos[i] = IF i \in N THEN new[i].pos ELSE st.pos[i]
                /\ d.seqs[i] = IF i \in N THEN new[i].seqs ELSE st.seqs[i]
<1>1. st \in Records /\ Listing(m, st) /\ Counted(st)
  BY DEF Valid
<1>2. PICK put : put = [i \in Cells |-> IF i \in N THEN new[i].seqs ELSE {}]
  OBVIOUS
<1>3. /\ d \in Records
      /\ d.head = st.head
      /\ d.shift = st.shift
      /\ \A i \in Cells :
           /\ d.pos[i] = IF i \in N THEN new[i].pos ELSE st.pos[i]
           /\ d.seqs[i] = IF i \in N THEN new[i].seqs ELSE st.seqs[i]
      /\ d.count = Tally(st.count, d.pos, put, 1)
  <2>1. N \in SUBSET Cells /\ Contents(N, new)
    BY DEF Proper
  <2> QED  BY <1>1, <1>2, <2>1, FillIs
<1>4. Listing(m, d)
  BY <1>1, <1>3 DEF Listing, Proper
<1>5. ASSUME NEW s \in Seqs, NEW p \in Positions
      PROVE  d.count[s][p] = Cardinality(Where(d.pos, d.seqs, s, p))
  <2>1. PICK A, B : A = Where(st.pos, st.seqs, s, p) /\ B = Where(d.pos, put, s, p)
    OBVIOUS
  <2>2. /\ IsFiniteSet(A) /\ Cardinality(A) \in Nat
        /\ IsFiniteSet(B) /\ Cardinality(B) \in Nat
    BY <2>1, WhereFinite
  <2>3. \A i \in Cells : put[i] = IF i \in N THEN new[i].seqs ELSE {}
    BY <1>2
  <2>4. A \cap B = {} /\ Where(d.pos, d.seqs, s, p) = A \cup B
    <3>1. \A i \in Cells : i \in A <=> st.pos[i] = p /\ s \in st.seqs[i]
      BY <2>1 DEF Where
    <3>2. \A i \in Cells : i \in B <=> d.pos[i] = p /\ s \in put[i]
      BY <2>1 DEF Where
    <3>3. \A i \in Cells : i \in Where(d.pos, d.seqs, s, p) <=> d.pos[i] = p /\ s \in d.seqs[i]
      BY DEF Where
    <3>4. A \subseteq Cells /\ B \subseteq Cells /\ Where(d.pos, d.seqs, s, p) \subseteq Cells
      BY <2>1 DEF Where
    <3>5. \A i \in Cells : ~(i \in A /\ i \in B)
      BY <2>3, <3>1, <3>2
    <3>6. \A i \in Cells : i \in Where(d.pos, d.seqs, s, p) <=> i \in A \/ i \in B
      BY <1>3, <2>3, <3>1, <3>2, <3>3
    <3> QED  BY <3>4, <3>5, <3>6
  <2>5. Cardinality(A \cup B) = Cardinality(A) + Cardinality(B)
    <3>1. Cardinality(A \cup B) = Cardinality(A) + Cardinality(B) - Cardinality(A \cap B)
      BY <2>2, FS_Union
    <3>2. Cardinality(A \cap B) = 0
      BY <2>4, FS_EmptySet
    <3> QED  BY <2>2, <3>1, <3>2
  <2>6. d.count[s][p] = st.count[s][p] + Cardinality(B)
    <3>1. PICK base, pos : base = st.count /\ pos = d.pos
      OBVIOUS
    <3>2. base \in [Seqs -> [Positions -> Int]]
      BY <1>1, <3>1, RecordIs
    <3>3. d.count = Tally(base, pos, put, 1)
      BY <1>3, <3>1
    <3>4. d.count[s][p] = base[s][p] + Cardinality(Where(pos, put, s, p))
      BY <3>2, <3>3, TallyIs
    <3> QED  BY <2>1, <3>1, <3>4
  <2>7. st.count[s][p] = Cardinality(A)
    BY <1>1, <2>1 DEF Counted
  <2> QED  BY <2>4, <2>5, <2>6, <2>7
<1> QED  BY <1>3, <1>4, <1>5 DEF Valid, Counted
-----------------------------------------------------------------------------
(* Tokens that are written over what was in their cells.                   *)
LEMMA PutValid ==
    ASSUME conf \in Configs, NEW m, NEW st \in Valid(m), NEW N, NEW new, Proper(m, N, new),
           NEW d, d = Put(st, new)
    PROVE  /\ d \in Valid(m)
           /\ d.head = st.head
           /\ \A i \in Cells :
                /\ d.pos[i] = IF i \in N THEN new[i].pos ELSE st.pos[i]
                /\ d.seqs[i] = IF i \in N THEN new[i].seqs ELSE st.seqs[i]
                /\ d.shift[i] = IF i \in N \/ d.seqs[i] = {} THEN 0 ELSE st.shift[i]
<1>1. st \in Records /\ Listing(m, st)
  BY DEF Valid
<1>2. DOMAIN new = N /\ N \in SUBSET Cells
  BY DEF Proper, Contents
<1>3. PICK gone, t : gone = Whole(st, N) /\ t = Drop(st, gone)
  OBVIOUS
<1>4. gone \in [Cells -> SUBSET Seqs] /\ \A i \in Cells : gone[i] = IF i \in N THEN st.seqs[i] ELSE {}
  BY <1>1, <1>3, RecordIs DEF Whole
<1>5. /\ t \in Valid(m)
      /\ t.head = st.head
      /\ \A i \in Cells :
           /\ t.seqs[i] = st.seqs[i] \ gone[i]
           /\ t.pos[i] = IF t.seqs[i] = {} THEN -1 ELSE st.pos[i]
           /\ t.shift[i] = IF t.seqs[i] = {} THEN 0 ELSE st.shift[i]
  <2>1. \A i \in Cells : gone[i] \subseteq st.seqs[i]
    BY <1>4
  <2> QED  BY <1>3, <1>4, <2>1, DropValid
<1>6. \A i \in N : t.seqs[i] = {}
  BY <1>2, <1>4, <1>5
<1>7. d = Fill(t, new)
  BY <1>2, <1>3 DEF Put
<1>8. /\ d \in Valid(m)
      /\ d.head = t.head
      /\ d.shift = t.shift
      /\ \A i \in Cells :
           /\ d.pos[i] = IF i \in N THEN new[i].pos ELSE t.pos[i]
           /\ d.seqs[i] = IF i \in N THEN new[i].seqs ELSE t.seqs[i]
  BY <1>5, <1>6, <1>7, FillValid
<1>9. ASSUME NEW i \in Cells
      PROVE  /\ d.pos[i] = IF i \in N THEN new[i].pos ELSE st.pos[i]
             /\ d.seqs[i] = IF i \in N THEN new[i].seqs ELSE st.seqs[i]
             /\ d.shift[i] = IF i \in N \/ d.seqs[i] = {} THEN 0 ELSE st.shift[i]
  <2>1. CASE i \in N
    BY <1>5, <1>6, <1>8, <2>1
  <2>2. CASE i \notin N
    <3>1. t.seqs[i] = st.seqs[i]
      BY <1>4, <1>5, <2>2
    <3>2. st.seqs[i] = {} <=> st.pos[i] = -1
      BY <1>1 DEF Listing
    <3> QED  BY <1>5, <1>8, <2>2, <3>1, <3>2
  <2> QED  BY <2>1, <2>2
<1> QED  BY <1>5, <1>8, <1>9

(* The head is a cell, or behind the last one, and nothing else.           *)
LEMMA HeadIs ==
    ASSUME NEW m, NEW st \in Valid(m), NEW h \in 0 .. conf.size, NEW d, d = [st EXCEPT !.head = h]
    PROVE  /\ d \in Valid(m) /\ d.head = h
           /\ d.pos = st.pos /\ d.seqs = st.seqs /\ d.shift = st.shift /\ d.count = st.count
<1>1. st \in Records /\ Listing(m, st) /\ Counted(st)
  BY DEF Valid
<1>2. d = [pos |-> st.pos, seqs |-> st.seqs, shift |-> st.shift, count |-> st.count, head |-> h]
  BY <1>1, RecordIs
<1>3. /\ d.head = h
      /\ d.pos = st.pos /\ d.seqs = st.seqs /\ d.shift = st.shift /\ d.count = st.count
  BY <1>2
<1>4. d \in Records
  BY <1>1, <1>2, RecordIs DEF Records
<1>5. Listing(m, d) /\ Counted(d)
  BY <1>1, <1>3 DEF Listing, Counted
<1> QED  BY <1>3, <1>4, <1>5 DEF Valid

(* Pending shifts say nothing of what is listed and counted.               *)
LEMMA ShiftIs ==
    ASSUME NEW m, NEW st \in Valid(m), NEW h \in [Cells -> Int], NEW d, d = [st EXCEPT !.shift = h]
    PROVE  /\ d \in Valid(m) /\ d.shift = h
           /\ d.pos = st.pos /\ d.seqs = st.seqs /\ d.head = st.head /\ d.count = st.count
<1>1. st \in Records /\ Listing(m, st) /\ Counted(st)
  BY DEF Valid
<1>2. d = [pos |-> st.pos, seqs |-> st.seqs, shift |-> h, count |-> st.count, head |-> st.head]
  BY <1>1, RecordIs
<1>3. /\ d.shift = h
      /\ d.pos = st.pos /\ d.seqs = st.seqs /\ d.head = st.head /\ d.count = st.count
  BY <1>2
<1>4. d \in Records
  BY <1>1, <1>2, RecordIs DEF Records
<1>5. Listing(m, d) /\ Counted(d)
  BY <1>1, <1>3 DEF Listing, Counted
<1> QED  BY <1>3, <1>4, <1>5 DEF Valid

(* The first cell of some is a cell.                                       *)
LEMMA OccupiedIs ==
    ASSUME conf \in Configs, NEW st \in Records
    PROVE  /\ Occupied(st) = {i \in Cells : st.pos[i] # -1}
           /\ \A S : S # {} /\ S \subseteq Occupied(st) => Min(S) \in Cells /\ Min(S) \in 0 .. conf.size
<1>1. Occupied(st) = {i \in Cells : st.pos[i] # -1}
  BY RecordIs DEF Occupied
<1>2. Cells \subseteq 0 .. conf.size /\ 0 .. conf.size \subseteq Nat
  BY ConfTypes
<1>3. ASSUME NEW S, S # {}, S \subseteq Occupied(st) PROVE Min(S) \in Cells
  <2>1. S \in SUBSET Nat
    BY <1>1, <1>2, <1>3
  <2>2. Min(S) \in S
    BY <1>3, <2>1, MinIn
  <2> QED  BY <1>1, <1>3, <2>2
<1> QED  BY <1>1, <1>2, <1>3

(* seq_rm, with the head going back.                                       *)
LEMMA RmSeqsValid ==
    ASSUME conf \in Configs, NEW m, NEW st \in Valid(m), NEW gone \in [Cells -> SUBSET Seqs],
           \A i \in Cells : gone[i] \subseteq st.seqs[i],
           NEW d, d = RmSeqs(st, gone)
    PROVE  /\ d \in Valid(m)
           /\ \A i \in Cells :
                /\ d.seqs[i] = st.seqs[i] \ gone[i]
                /\ d.pos[i] = IF d.seqs[i] = {} THEN -1 ELSE st.pos[i]
                /\ d.shift[i] = IF d.seqs[i] = {} THEN 0 ELSE st.shift[i]
<1>1. PICK t, freed : t = Drop(st, gone) /\ freed = Occupied(st) \ Occupied(t)
  OBVIOUS
<1>2. /\ t \in Valid(m)
      /\ \A i \in Cells :
           /\ t.seqs[i] = st.seqs[i] \ gone[i]
           /\ t.pos[i] = IF t.seqs[i] = {} THEN -1 ELSE st.pos[i]
           /\ t.shift[i] = IF t.seqs[i] = {} THEN 0 ELSE st.shift[i]
  BY <1>1, DropValid
<1>3. d = IF freed # {} /\ Min(freed) < t.head THEN [t EXCEPT !.head = Min(freed)] ELSE t
  BY <1>1 DEF RmSeqs, HeadBack
<1>4. CASE d = t
  BY <1>2, <1>4
<1>5. CASE freed # {} /\ d = [t EXCEPT !.head = Min(freed)]
  <2>1. st \in Records
    BY DEF Valid
  <2>2. Min(freed) \in 0 .. conf.size
    <3>1. freed \subseteq Occupied(st)
      BY <1>1
    <3> QED  BY <1>5, <2>1, <3>1, OccupiedIs
  <2>3. d \in Valid(m) /\ d.pos = t.pos /\ d.seqs = t.seqs /\ d.shift = t.shift
    BY <1>2, <1>5, <2>2, HeadIs
  <2> QED  BY <1>2, <2>3
<1> QED  BY <1>3, <1>4, <1>5
(* What seq_add and seq_div make of the cells H.                           *)
Moved(st, H, to, by, d) ==
    \A i \in Cells :
        /\ d.pos[i] = IF i \in H THEN IF to[i] >= 0 THEN to[i] ELSE -1 ELSE st.pos[i]
        /\ d.shift[i] = IF d.pos[i] = -1 THEN 0
                        ELSE IF i \in H THEN st.shift[i] + by[i] ELSE st.shift[i]

(* Cells that are moved: seq_add and seq_div.                              *)
LEMMA MovedToValid ==
    ASSUME conf \in Configs, NEW m, NEW st \in Valid(m), NEW H \in SUBSET Cells,
           \A i \in H : st.pos[i] # -1,
           NEW to \in [H -> Int], NEW by \in [H -> Int], \A i \in H : to[i] <= conf.maxPos,
           NEW d, d = MovedTo(st, to, by)
    PROVE  /\ d \in Valid(m)
           /\ d.head = st.head
           /\ Moved(st, H, to, by, d)
<1>1. st \in Records /\ Listing(m, st)
  BY DEF Valid
<1>2. PICK kept, gone, new : /\ kept = {i \in H : to[i] >= 0}
                             /\ gone = Whole(st, H)
                             /\ new = [i \in kept |-> [pos |-> to[i], seqs |-> st.seqs[i]]]
  OBVIOUS
<1>3. PICK t, f : t = Drop(st, gone) /\ f = Fill(t, new)
  OBVIOUS
<1>4. gone \in [Cells -> SUBSET Seqs] /\ \A i \in Cells : gone[i] = IF i \in H THEN st.seqs[i] ELSE {}
  BY <1>1, <1>2, RecordIs DEF Whole
<1>5. /\ t \in Valid(m)
      /\ t.head = st.head
      /\ \A i \in Cells :
           /\ t.seqs[i] = st.seqs[i] \ gone[i]
           /\ t.pos[i] = IF t.seqs[i] = {} THEN -1 ELSE st.pos[i]
           /\ t.shift[i] = IF t.seqs[i] = {} THEN 0 ELSE st.shift[i]
  <2>1. \A i \in Cells : gone[i] \subseteq st.seqs[i]
    BY <1>4
  <2> QED  BY <1>3, <1>4, <2>1, DropValid
<1>6. kept \in SUBSET Cells /\ \A i \in kept : t.seqs[i] = {}
  BY <1>2, <1>4, <1>5
<1>7. \A i \in kept : new[i].pos = to[i] /\ new[i].seqs = st.seqs[i]
  BY <1>2
<1>8. Proper(m, kept, new)
  <2>1. \A i \in kept : to[i] \in Positions /\ to[i] # -1
    BY <1>2, ConfTypes
  <2>2. \A i \in kept : st.seqs[i] \in SUBSET Seqs /\ st.seqs[i] # {} /\ \A s \in st.seqs[i] : StreamOf(s) = m
    BY <1>1, <1>2, <1>6, RecordIs DEF Listing
  <2>3. DOMAIN new = kept
    BY <1>2
  <2>4. Contents(kept, new)
    BY <1>7, <2>1, <2>2, <2>3 DEF Contents
  <2> QED  BY <1>6, <1>7, <2>1, <2>2, <2>4 DEF Proper
<1>9. /\ f \in Valid(m)
      /\ f.head = t.head
      /\ f.shift = t.shift
      /\ \A i \in Cells :
           /\ f.pos[i] = IF i \in kept THEN new[i].pos ELSE t.pos[i]
           /\ f.seqs[i] = IF i \in kept THEN new[i].seqs ELSE t.seqs[i]
  BY <1>3, <1>5, <1>6, <1>8, FillValid
<1>10. PICK h : h = [i \in Cells |-> IF i \in kept THEN st.shift[i] + by[i] ELSE f.shift[i]]
  OBVIOUS
<1>11. d = [f EXCEPT !.shift = h]
  <2>1. DOMAIN to = H
    OBVIOUS
  <2> QED  BY <1>2, <1>3, <1>10, <2>1 DEF MovedTo
<1>12. h \in [Cells -> Int]
  <2>1. \A i \in Cells : st.shift[i] \in Int /\ f.shift[i] \in Int
    BY <1>1, <1>9, RecordIs DEF Valid
  <2>2. \A i \in kept : by[i] \in Int
    BY <1>2
  <2>3. \A i \in Cells : h[i] \in Int
    BY <1>10, <2>1, <2>2
  <2> QED  BY <1>10, <2>3
<1>13. d \in Valid(m) /\ d.pos = f.pos /\ d.head = f.head /\ d.shift = h
  BY <1>9, <1>11, <1>12, ShiftIs
<1>14. ASSUME NEW i \in Cells
       PROVE  /\ d.pos[i] = IF i \in H THEN IF to[i] >= 0 THEN to[i] ELSE -1 ELSE st.pos[i]
              /\ d.shift[i] = IF d.pos[i] = -1 THEN 0
                              ELSE IF i \in H THEN st.shift[i] + by[i] ELSE st.shift[i]
  <2>1. CASE i \in kept
    <3>1. d.pos[i] = to[i] /\ i \in H /\ to[i] >= 0
      BY <1>2, <1>7, <1>9, <1>13, <2>1
    <3>2. d.shift[i] = st.shift[i] + by[i]
      BY <1>10, <1>13, <2>1
    <3>3. to[i] \in Int /\ to[i] # -1
      BY <3>1
    <3> QED  BY <3>1, <3>2, <3>3
  <2>2. CASE i \in H /\ i \notin kept
    <3>1. t.seqs[i] = {} /\ ~(to[i] >= 0)
      BY <1>2, <1>4, <1>5, <2>2
    <3>2. d.pos[i] = -1 /\ d.shift[i] = 0
      BY <1>5, <1>9, <1>10, <1>13, <2>2, <3>1
    <3> QED  BY <2>2, <3>1, <3>2
  <2>3. CASE i \notin H
    <3>1. t.seqs[i] = st.seqs[i] /\ i \notin kept
      BY <1>2, <1>4, <1>5, <2>3
    <3>2. st.seqs[i] = {} <=> st.pos[i] = -1
      BY <1>1 DEF Listing
    <3>3. d.pos[i] = t.pos[i] /\ d.shift[i] = t.shift[i]
      BY <1>9, <1>10, <1>13, <3>1
    <3> QED  BY <1>5, <2>3, <3>1, <3>2, <3>3
  <2> QED  BY <2>1, <2>2, <2>3
<1> QED  BY <1>5, <1>9, <1>13, <1>14 DEF Moved
-----------------------------------------------------------------------------
(* A token of a batch: all its sequences are in one stream.                *)
Token == {t \in [seqs : SUBSET Seqs, pos : Positions, tok : Seqs] :
            t.seqs # {} /\ \A s \in t.seqs : StreamOf(s) = StreamOf(t.tok)}

(* Tokens of stream m for the cells idxs.                                  *)
Fits(m, idxs, toks) ==
    /\ idxs \in Seq(Cells) /\ idxs # <<>>
    /\ toks \in Seq(Token) /\ Len(toks) = Len(idxs)
    /\ \A k \in 1 .. Len(toks) : StreamOf(toks[k].tok) = m

LEMMA AssignedIs ==
    ASSUME NEW m, NEW idxs, NEW toks, Fits(m, idxs, toks), NEW new, new = Assigned(idxs, toks)
    PROVE  /\ Range(idxs) \in SUBSET Cells /\ DOMAIN new = Range(idxs)
           /\ \A i \in Range(idxs) : new[i] \in Token /\ StreamOf(new[i].tok) = m
           /\ idxs[Len(idxs)] \in Cells
<1>1. /\ Len(idxs) \in Nat \ {0} /\ DOMAIN idxs = 1 .. Len(idxs)
      /\ \A k \in 1 .. Len(idxs) : idxs[k] \in Cells
  BY LenProperties, EmptySeq, ElementOfSeq DEF Fits
<1>2. \A k \in 1 .. Len(idxs) : toks[k] \in Token /\ StreamOf(toks[k].tok) = m
  BY ElementOfSeq DEF Fits
<1>3. Range(idxs) \in SUBSET Cells
  BY <1>1 DEF Range
<1>4. DOMAIN new = Range(idxs)
  BY DEF Assigned
<1>5. ASSUME NEW i \in Range(idxs) PROVE new[i] \in Token /\ StreamOf(new[i].tok) = m
  <2>1. PICK k : k = CHOOSE l \in DOMAIN idxs : idxs[l] = i
    OBVIOUS
  <2>2. \E j \in DOMAIN idxs : idxs[j] = i
    BY DEF Range
  <2>3. k \in DOMAIN idxs
    BY <2>1, <2>2
  <2>4. new[i] = toks[k]
    BY <2>1 DEF Assigned
  <2> QED  BY <1>1, <1>2, <2>3, <2>4
<1> QED  BY <1>1, <1>3, <1>4, <1>5

(* apply_ubatch.                                                           *)
LEMMA ApplyToValid ==
    ASSUME conf \in Configs, NEW m, NEW st \in Valid(m), \A i \in Cells : st.shift[i] = 0,
           NEW idxs, NEW toks, Fits(m, idxs, toks),
           NEW d, d = ApplyTo(st, idxs, toks)
    PROVE  /\ d \in Valid(m)
           /\ \A i \in Cells :
                /\ d.shift[i] = 0
                /\ d.pos[i] # -1 => d.pos[i] = IF i \in Range(idxs) THEN Assigned(idxs, toks)[i].pos
                                               ELSE st.pos[i]
<1>1. PICK N, new : N = Range(idxs) /\ new = Assigned(idxs, toks)
  OBVIOUS
<1>2. /\ N \in SUBSET Cells /\ DOMAIN new = N
      /\ \A i \in N : new[i] \in Token /\ StreamOf(new[i].tok) = m
      /\ idxs[Len(idxs)] \in Cells
  BY <1>1, AssignedIs
<1>3. Proper(m, N, new)
  <2>1. -1 \notin Positions
    BY ConfTypes
  <2>2. \A i \in N : new[i].pos \in Positions /\ new[i].seqs \in SUBSET Seqs /\ new[i].seqs # {}
    BY <1>2 DEF Token
  <2>3. \A i \in N : \A s \in new[i].seqs : StreamOf(s) = m
    BY <1>2 DEF Token
  <2>4. Contents(N, new)
    BY <1>2, <2>2 DEF Contents
  <2> QED  BY <1>2, <2>1, <2>2, <2>3, <2>4 DEF Proper
<1>4. PICK put : put = Put(st, new)
  OBVIOUS
<1>5. /\ put \in Valid(m)
      /\ \A i \in Cells :
           /\ put.pos[i] = IF i \in N THEN new[i].pos ELSE st.pos[i]
           /\ put.shift[i] = IF i \in N \/ put.seqs[i] = {} THEN 0 ELSE st.shift[i]
  BY <1>2, <1>3, <1>4, PutValid
<1>6. PICK over : over = [s \in Seqs |->
            Max({-1} \cup {st.pos[i] : i \in {j \in Range(idxs) : s \in st.seqs[j]}})]
  OBVIOUS
<1>7. PICK gone : gone = [i \in Cells |->
            {s \in put.seqs[i] : put.pos[i] \in SeqPosMin(put, s) .. over[s]}]
  OBVIOUS
<1>8. gone \in [Cells -> SUBSET Seqs] /\ \A i \in Cells : gone[i] \subseteq put.seqs[i]
  <2>1. put \in Records
    BY <1>5 DEF Valid
  <2>2. \A i \in Cells : put.seqs[i] \in SUBSET Seqs
    BY <2>1, RecordIs
  <2>3. \A i \in Cells : gone[i] \subseteq put.seqs[i]
    BY <1>7
  <2> QED  BY <1>7, <2>2, <2>3
<1>9. PICK t : t = Drop(put, gone)
  OBVIOUS
<1>10. /\ t \in Valid(m)
       /\ \A i \in Cells :
            /\ t.pos[i] = IF t.seqs[i] = {} THEN -1 ELSE put.pos[i]
            /\ t.shift[i] = IF t.seqs[i] = {} THEN 0 ELSE put.shift[i]
  BY <1>5, <1>8, <1>9, DropValid
<1>11. d = [t EXCEPT !.head = idxs[Len(idxs)] + 1]
  BY <1>1, <1>4, <1>6, <1>7, <1>9 DEF ApplyTo
<1>12. idxs[Len(idxs)] + 1 \in 0 .. conf.size
  BY <1>2, ConfTypes
<1>13. d \in Valid(m) /\ d.pos = t.pos /\ d.shift = t.shift
  BY <1>10, <1>11, <1>12, HeadIs
<1>14. ASSUME NEW i \in Cells
       PROVE  /\ d.shift[i] = 0
              /\ d.pos[i] # -1 => d.pos[i] = IF i \in N THEN new[i].pos ELSE st.pos[i]
  BY <1>5, <1>10, <1>13
<1> QED  BY <1>1, <1>13, <1>14
-----------------------------------------------------------------------------
(* A slot that was found has a cell for each of n tokens.                  *)
LEMMA FindSlotIs ==
    ASSUME conf \in Configs, NEW m, NEW st \in Valid(m), NEW n \in Nat \ {0},
           NEW f, f = FindSlot(st, n), f # <<>>
    PROVE  f \in Seq(Cells) /\ Len(f) = n
<1> DEFINE start == IF st.head > Cardinality(Occupied(st)) + 2 * n THEN 0 ELSE st.head
           at(k) == IF k < conf.size THEN k ELSE k - conf.size
           from  == [k \in 1 .. conf.size |-> at(start + k - 1)]
           found == RemoveIf(from, Taken(st))
<1>1. /\ conf.size \in Nat /\ conf.size >= 1 /\ Cells = 0 .. conf.size - 1
      /\ st.head \in 0 .. conf.size
  BY ConfTypes, RecordIs DEF Valid
<1>2. f = IF Len(found) < n THEN <<>> ELSE SubSeq(found, 1, n)
  BY DEF FindSlot
<1>3. start \in 0 .. conf.size
  BY <1>1
<1> HIDE DEF start
<1>4. from \in Seq(Cells)
  <2>1. ASSUME NEW k \in 1 .. conf.size PROVE at(start + k - 1) \in Cells
    BY <1>1, <1>3
  <2>2. PICK g : g = from
    OBVIOUS
  <2>3. g \in [1 .. conf.size -> Cells]
    BY <2>1, <2>2
  <2> HIDE DEF from
  <2> QED  BY <1>1, <2>2, <2>3
<1> HIDE DEF from
<1>7. found \in Seq(Cells)
  BY <1>4, RemoveIfPicks
<1> HIDE DEF found
<1>9. ~(Len(found) < n) /\ f = SubSeq(found, 1, n)
  BY <1>2
<1>10. Len(found) \in Nat /\ \A i \in 1 .. n : i \in 1 .. Len(found)
  BY <1>7, <1>9, LenProperties
<1>11. 1 \in 1 .. Len(found) + 1 /\ n \in 0 .. Len(found) /\ n >= 1
  BY <1>9, <1>10
<1> QED  BY <1>7, <1>9, <1>10, <1>11, SubSeqProperties

(* The tokens of a ubatch that go to stream m.                             *)
LEMMA ForIs ==
    ASSUME NEW u \in Seq(Token), NEW m, NEW w, w = For(m, u)
    PROVE  /\ w \in Seq(Token) /\ Len(w) \in Nat
           /\ \A k \in 1 .. Len(w) : w[k] \in Token /\ StreamOf(w[k].tok) = m
           /\ (\E t \in Range(u) : StreamOf(t.tok) = m) => Len(w) # 0
<1>1. PICK S : S = {t \in Range(u) : StreamOf(t.tok) # m}
  OBVIOUS
<1>2. /\ w \in Seq(Token)
      /\ \A x : Holds(w, x) <=> Holds(u, x) /\ x \notin S
  BY <1>1, HeldRemoveIf DEF For
<1>3. Range(u) = {u[i] : i \in 1 .. Len(u)}
  BY DEF Range
<1>4. \A x : Holds(u, x) <=> x \in Range(u)
  BY <1>3 DEF Holds
<1>5. Len(w) \in Nat
  BY <1>2, LenProperties
<1>6. ASSUME NEW k \in 1 .. Len(w) PROVE w[k] \in Token /\ StreamOf(w[k].tok) = m
  <2>1. w[k] \in Token
    BY <1>2, ElementOfSeq
  <2>2. Holds(w, w[k])
    BY DEF Holds
  <2>3. w[k] \in Range(u) /\ w[k] \notin S
    BY <1>2, <1>4, <2>2
  <2> QED  BY <1>1, <2>1, <2>3
<1>7. ASSUME NEW t \in Range(u), StreamOf(t.tok) = m PROVE Len(w) # 0
  <2>1. Holds(w, t)
    BY <1>1, <1>2, <1>4, <1>7
  <2>2. PICK k \in 1 .. Len(w) : w[k] = t
    BY <2>1 DEF Holds
  <2> QED  BY <1>5, <2>2
<1> QED  BY <1>2, <1>5, <1>6, <1>7

(* The cells with no shift pending, and the slots of a ubatch.             *)
States == {a \in [Streams -> Records] :
              \A m \in Streams : a[m] \in Valid(m) /\ \A i \in Cells : a[m].shift[i] = 0}

Slots(u, slot) == DOMAIN slot \subseteq Streams /\ \A m \in DOMAIN slot : Fits(m, slot[m], For(m, u))

(* The streams and the cells of a slot, and the position that each cell    *)
(* gets.                                                                   *)
Into(slot, m, i) == m \in DOMAIN slot /\ i \in Range(slot[m])
To(slot, u, m, i) == Assigned(slot[m], For(m, u))[i].pos

LEMMA SlotIs ==
    ASSUME conf \in Configs, NEW a \in States, NEW u \in Seq(Token), NEW slot, slot = Slot(a, u),
           <<>> \notin Range(slot)
    PROVE  Slots(u, slot)
<1>1. DOMAIN a = Streams /\ \A m \in Streams : a[m] \in Valid(m)
  BY DEF States
<1>2. DOMAIN slot \subseteq Streams /\ \A m \in DOMAIN slot : \E t \in Range(u) : StreamOf(t.tok) = m
  BY <1>1 DEF Slot
<1>3. ASSUME NEW m \in DOMAIN slot PROVE Fits(m, slot[m], For(m, u))
  <2>1. PICK w : w = For(m, u)
    OBVIOUS
  <2>2. /\ w \in Seq(Token) /\ Len(w) \in Nat /\ Len(w) # 0
        /\ \A k \in 1 .. Len(w) : w[k] \in Token /\ StreamOf(w[k].tok) = m
    BY <1>2, <2>1, ForIs
  <2>3. slot[m] = FindSlot(a[m], Len(w))
    BY <2>1 DEF Slot
  <2>4. slot[m] # <<>>
    BY DEF Range
  <2>5. a[m] \in Valid(m) /\ Len(w) \in Nat \ {0}
    BY <1>1, <1>2, <2>2
  <2>6. slot[m] \in Seq(Cells) /\ Len(slot[m]) = Len(w)
    BY <2>3, <2>4, <2>5, FindSlotIs
  <2> QED  BY <2>1, <2>2, <2>4, <2>6 DEF Fits
<1> QED  BY <1>2, <1>3 DEF Slots

(* A ubatch that is applied to its slot.                                   *)
LEMMA ApplyIs ==
    ASSUME conf \in Configs, NEW a \in States, NEW u, NEW slot, Slots(u, slot),
           NEW d, d = Apply(a, slot, u)
    PROVE  /\ d \in States
           /\ \A m \in Streams, i \in Cells :
                d[m].pos[i] # -1 => d[m].pos[i] = IF Into(slot, m, i) THEN To(slot, u, m, i) ELSE a[m].pos[i]
<1>1. DOMAIN a = Streams /\ \A m \in Streams : a[m] \in Valid(m) /\ \A i \in Cells : a[m].shift[i] = 0
  BY DEF States
<1>2. DOMAIN d = Streams /\ d = [m \in Streams |-> d[m]]
  BY <1>1 DEF Apply
<1>3. ASSUME NEW m \in Streams
      PROVE  /\ d[m] \in Valid(m)
             /\ \A i \in Cells :
                  /\ d[m].shift[i] = 0
                  /\ d[m].pos[i] # -1 => d[m].pos[i] = IF Into(slot, m, i) THEN To(slot, u, m, i) ELSE a[m].pos[i]
  <2>1. CASE m \in DOMAIN slot
    <3>1. d[m] = ApplyTo(a[m], slot[m], For(m, u))
      BY <1>1, <2>1 DEF Apply
    <3>2. Fits(m, slot[m], For(m, u))
      BY <2>1 DEF Slots
    <3>3. /\ d[m] \in Valid(m)
          /\ \A i \in Cells :
               /\ d[m].shift[i] = 0
               /\ d[m].pos[i] # -1 => d[m].pos[i] = IF i \in Range(slot[m]) THEN Assigned(slot[m], For(m, u))[i].pos
                                                    ELSE a[m].pos[i]
      BY <1>1, <3>1, <3>2, ApplyToValid
    <3> QED  BY <2>1, <3>3 DEF Into, To
  <2>2. CASE m \notin DOMAIN slot
    <3>1. d[m] = a[m]
      BY <1>1, <2>2 DEF Apply
    <3> QED  BY <1>1, <2>2, <3>1 DEF Into
  <2> QED  BY <2>1, <2>2
<1>4. d \in States
  <2>1. \A m \in Streams : d[m] \in Records
    BY <1>3 DEF Valid
  <2>2. d \in [Streams -> Records]
    BY <1>2, <2>1
  <2> QED  BY <1>3, <2>2 DEF States
<1> QED  BY <1>3, <1>4

(* The cells of a slot have what they have in old, the others what they    *)
(* have in a.                                                              *)
Back(d, slot, old, a) ==
    \A m \in Streams, i \in Cells :
        d[m].pos[i] = IF Into(slot, m, i) THEN old[m].pos[i] ELSE a[m].pos[i]

LEMMA RestoredIs ==
    ASSUME conf \in Configs, NEW a \in States, NEW old \in States, NEW u, NEW slot, Slots(u, slot),
           NEW d, d = Restored(a, slot, old)
    PROVE  d \in States /\ Back(d, slot, old, a)
<1>1. /\ DOMAIN a = Streams
      /\ \A m \in Streams : a[m] \in Valid(m) /\ \A i \in Cells : a[m].shift[i] = 0
      /\ \A m \in Streams : old[m] \in Valid(m)
  BY DEF States
<1>2. DOMAIN d = Streams /\ d = [m \in Streams |-> d[m]]
  BY <1>1 DEF Restored
<1>3. ASSUME NEW m \in Streams
      PROVE  /\ d[m] \in Valid(m)
             /\ \A i \in Cells : /\ d[m].shift[i] = 0
                                 /\ d[m].pos[i] = IF Into(slot, m, i) THEN old[m].pos[i] ELSE a[m].pos[i]
  <2>1. CASE m \in DOMAIN slot
    <3>1. PICK N, was, nth : /\ N = Range(slot[m])
                             /\ was = [i \in N |-> [pos |-> old[m].pos[i], seqs |-> old[m].seqs[i]]]
                             /\ nth = Cardinality({k \in DOMAIN slot : k < m})
      OBVIOUS
    <3>2. PICK t : t = Put(a[m], was)
      OBVIOUS
    <3>3. d[m] = [t EXCEPT !.head = old[nth].head]
      BY <1>1, <2>1, <3>1, <3>2 DEF Restored
    <3>4. N \in SUBSET Cells
      BY <2>1, <3>1, AssignedIs DEF Slots
    <3>5. \A i \in N : was[i].pos = old[m].pos[i] /\ was[i].seqs = old[m].seqs[i]
      BY <3>1
    <3>6. Proper(m, N, was)
      <4>1. /\ \A i \in Cells : old[m].pos[i] \in {-1} \cup Positions /\ old[m].seqs[i] \in SUBSET Seqs
            /\ Listing(m, old[m])
        BY <1>1, RecordIs DEF Valid
      <4>2. DOMAIN was = N
        BY <3>1
      <4>3. Contents(N, was)
        BY <3>4, <3>5, <4>1, <4>2 DEF Contents
      <4> QED  BY <3>4, <3>5, <4>1, <4>3 DEF Proper, Listing
    <3>7. /\ t \in Valid(m)
          /\ \A i \in Cells :
               /\ t.pos[i] = IF i \in N THEN was[i].pos ELSE a[m].pos[i]
               /\ t.shift[i] = IF i \in N \/ t.seqs[i] = {} THEN 0 ELSE a[m].shift[i]
      BY <1>1, <3>2, <3>6, PutValid
    <3>8. nth \in Streams
      <4>1. PICK K : K = {k \in DOMAIN slot : k < m}
        OBVIOUS
      <4>2. m \in Nat /\ DOMAIN slot \in SUBSET Nat
        BY <2>1, ConfTypes DEF Slots
      <4>3. K \in SUBSET (0 .. m - 1)
        BY <4>1, <4>2
      <4>4. IsFiniteSet(0 .. m - 1) /\ Cardinality(0 .. m - 1) = IF 0 > m - 1 THEN 0 ELSE m - 1 - 0 + 1
        <5>1. 0 \in Int /\ m - 1 \in Int
          BY <4>2
        <5> QED  BY <5>1, FS_Interval
      <4>5. Cardinality(K) \in Nat /\ Cardinality(K) <= m
        <5>1. IsFiniteSet(K) /\ Cardinality(K) <= Cardinality(0 .. m - 1)
          BY <4>3, <4>4, FS_Subset
        <5>2. Cardinality(K) \in Nat
          BY <5>1, FS_CardinalityType
        <5>3. Cardinality(0 .. m - 1) = m
          BY <4>2, <4>4
        <5> QED  BY <5>1, <5>2, <5>3
      <4>6. nth = Cardinality(K)
        BY <3>1, <4>1
      <4>7. CASE conf.unified
        <5>1. m = 0
          BY <4>7 DEF Streams
        <5> QED  BY <4>5, <4>6, <5>1
      <4>8. CASE ~conf.unified
        <5>1. Streams = Seqs
          BY <4>8 DEF Streams
        <5>2. PICK q : q = Cardinality(Seqs)
          OBVIOUS
        <5>3. q \in Nat /\ Seqs = 0 .. q - 1
          BY <5>2, FS_CardinalityType, KVCellsAssumption
        <5> QED  BY <4>2, <4>5, <4>6, <5>1, <5>3
      <4> QED  BY <4>7, <4>8
    <3>9. old[nth].head \in 0 .. conf.size
      BY <1>1, <3>8, RecordIs DEF Valid
    <3>10. d[m] \in Valid(m) /\ d[m].pos = t.pos /\ d[m].shift = t.shift
      BY <3>3, <3>7, <3>9, HeadIs
    <3>11. ASSUME NEW i \in Cells
           PROVE  /\ d[m].shift[i] = 0
                  /\ d[m].pos[i] = IF Into(slot, m, i) THEN old[m].pos[i] ELSE a[m].pos[i]
      <4>1. Into(slot, m, i) <=> i \in N
        BY <2>1, <3>1 DEF Into
      <4> QED  BY <1>1, <3>5, <3>7, <3>10, <4>1
    <3> QED  BY <3>10, <3>11
  <2>2. CASE m \notin DOMAIN slot
    <3>1. d[m] = a[m]
      BY <1>1, <2>2 DEF Restored
    <3> QED  BY <1>1, <2>2, <3>1 DEF Into
  <2> QED  BY <2>1, <2>2
<1>4. d \in States
  <2>1. \A m \in Streams : d[m] \in Records
    BY <1>3 DEF Valid
  <2>2. d \in [Streams -> Records]
    BY <1>2, <2>1
  <2> QED  BY <1>3, <2>2 DEF States
<1> QED  BY <1>3, <1>4 DEF Back
-----------------------------------------------------------------------------
(* A function on 0 .. N that is given step by step has its values in D.    *)
Steps(N, D, f) ==
    /\ f = [n \in 0 .. N |-> f[n]]
    /\ f[0] \in D
    /\ \A n \in 1 .. N : f[n - 1] \in D => f[n] \in D

LEMMA StepByStep ==
    ASSUME NEW N \in Nat, NEW D, NEW f, Steps(N, D, f)
    PROVE  f \in [0 .. N -> D]
<1> DEFINE P == {n \in 0 .. N : f[n] \in D}
<1>0. /\ f = [n \in 0 .. N |-> f[n]]
      /\ f[0] \in D
      /\ \A n \in 1 .. N : f[n - 1] \in D => f[n] \in D
  BY DEF Steps
<1>1. 0 \in P
  BY <1>0
<1>2. ASSUME NEW n \in 1 .. N, n - 1 \in P PROVE n \in P
  BY <1>0, <1>2
<1>3. 0 .. N \subseteq P
  <2> HIDE DEF P
  <2> QED  BY <1>1, <1>2, UpTo
<1> QED  BY <1>0, <1>3

(* One step of prepare().                                                  *)
Try(a, u) ==
    LET slot == Slot(a, u)
    IN  IF <<>> \in Range(slot) THEN a ELSE Apply(a, slot, u)

LEMMA TryIs ==
    ASSUME conf \in Configs, NEW a \in States, NEW u \in Seq(Token)
    PROVE  /\ Try(a, u) \in States
           /\ <<>> \notin Range(Slot(a, u)) => /\ Slots(u, Slot(a, u))
                                               /\ Try(a, u) = Apply(a, Slot(a, u), u)
<1>1. PICK slot : slot = Slot(a, u)
  OBVIOUS
<1>2. <<>> \notin Range(slot) => Slots(u, slot) /\ Apply(a, slot, u) \in States
  BY <1>1, SlotIs, ApplyIs
<1>3. Try(a, u) = IF <<>> \in Range(slot) THEN a ELSE Apply(a, slot, u)
  BY <1>1 DEF Try
<1> QED  BY <1>1, <1>2, <1>3

(* The states that prepare() goes through.                                 *)
LEMMA TrialIs ==
    ASSUME conf \in Configs, NEW a \in States, NEW w \in Seq(Seq(Token)), NEW f, f = Trial(a, w)
    PROVE  /\ f \in [0 .. Len(w) -> States]
           /\ f[0] = a
           /\ \A k \in 1 .. Len(w) : f[k] = Try(f[k - 1], w[k])
<1> DEFINE N == Len(w)
           Body(g) == [k \in 0 .. N |->
                          IF k = 0 THEN a
                          ELSE LET before == g[k - 1]
                                   slot   == Slot(before, w[k])
                               IN  IF <<>> \in Range(slot) THEN before ELSE Apply(before, slot, w[k])]
           Turn(g) == [k \in 0 .. N |-> IF k = 0 THEN a ELSE Try(g[k - 1], w[k])]
<1>0. \A g : Body(g) = Turn(g)
  BY DEF Try
<1>1. N \in Nat /\ \A k \in 1 .. N : w[k] \in Seq(Token)
  BY LenProperties, ElementOfSeq
<1>2. f = CHOOSE g : g = Body(g)
  BY DEF Trial
<1> HIDE DEF Body
<1>3. \E g : g = Turn(g)
  <2>1. PICK F : F = [x \in (1 .. N) \X States |-> Try(x[2], w[x[1]])]
    OBVIOUS
  <2>2. \A k \in 1 .. N, x \in States : F[<<k, x>>] = Try(x, w[k])
    BY <2>1
  <2>3. F \in [(1 .. N) \X States -> States]
    <3>1. \A k \in 1 .. N, x \in States : F[<<k, x>>] \in States
      BY <1>1, <2>2, TryIs
    <3>2. \A y \in (1 .. N) \X States : F[y] \in States
      BY <3>1
    <3> QED  BY <2>1, <3>2
  <2>4. PICK g \in [0 .. N -> States] : g[0] = a /\ \A k \in 1 .. N : g[k] = F[<<k, g[k - 1]>>]
    <3>1. \E g : g \in Recursive(N, States, a, F)
      BY <1>1, <2>3, Recursion
    <3> QED  BY <3>1 DEF Recursive
  <2>5. \A k \in 0 .. N : k # 0 => k \in 1 .. N /\ g[k - 1] \in States
    <3>1. \A k \in 0 .. N : k # 0 => k \in 1 .. N /\ k - 1 \in 0 .. N
      BY <1>1
    <3> QED  BY <3>1
  <2>6. g = Turn(g)
    <3>1. \A k \in 0 .. N : g[k] = IF k = 0 THEN a ELSE Try(g[k - 1], w[k])
      BY <2>2, <2>4, <2>5
    <3> QED  BY <2>4, <3>1
  <2> QED  BY <2>6
<1>4. f = Turn(f)
  <2> HIDE DEF Turn
  <2>1. \E h : h = Body(h)
    BY <1>0, <1>3
  <2>2. f = Body(f)
    BY <1>2, <2>1
  <2> QED  BY <1>0, <2>2
<1>5. f[0] = a /\ \A k \in 1 .. N : f[k] = Try(f[k - 1], w[k])
  <2>1. \A k \in 0 .. N : f[k] = Turn(f)[k]
    BY <1>4
  <2>2. 0 \in 0 .. N /\ \A k \in 1 .. N : k \in 0 .. N /\ k # 0
    BY <1>1
  <2> QED  BY <2>1, <2>2
<1>6. f \in [0 .. N -> States]
  <2>1. f = [k \in 0 .. N |-> f[k]]
    BY <1>4
  <2>2. f[0] \in States
    BY <1>5
  <2>3. \A k \in 1 .. N : f[k - 1] \in States => f[k] \in States
    BY <1>1, <1>5, TryIs
  <2> HIDE DEF N
  <2>4. Steps(N, States, f)
    BY <2>1, <2>2, <2>3 DEF Steps
  <2> QED  BY <1>1, <2>4, StepByStep
<1> QED  BY <1>5, <1>6

(* d has in its cells what a has, or nothing.                              *)
Within(d, a) == \A m \in Streams, i \in Cells : d[m].pos[i] # -1 => d[m].pos[i] = a[m].pos[i]

(* What is left of a trial when its last n ubatches are taken out again.   *)
LEMMA TakenOutIs ==
    ASSUME conf \in Configs, NEW N \in Nat, NEW f \in [0 .. N -> States], NEW n \in 0 .. N,
           NEW w, NEW slots,
           \A k \in 1 .. n : Slots(w[k], slots[k]) /\ f[k] = Apply(f[k - 1], slots[k], w[k])
    PROVE  TakenOut(f, slots, n) \in States /\ Within(TakenOut(f, slots, n), f[0])
<1> DEFINE Undo(x, k) == Restored(x, slots[n + 1 - k], f[n - k])
           Body(g) == [k \in 0 .. n |->
                          IF k = 0 THEN f[n] ELSE Restored(g[k - 1], slots[n + 1 - k], f[n - k])]
<1>1. PICK g : g = CHOOSE h : h = Body(h)
  OBVIOUS
<1>2. TakenOut(f, slots, n) = g[n]
  BY <1>1 DEF TakenOut
<1>3. /\ n \in Nat /\ f[n] \in States
      /\ \A k \in 1 .. n : n + 1 - k \in 1 .. n /\ n + 1 - k - 1 = n - k /\ n - k \in 0 .. N /\ f[n - k] \in States
  <2>1. \A k \in 1 .. n : n + 1 - k \in 1 .. n /\ n + 1 - k - 1 = n - k /\ n - k \in 0 .. N
    OBVIOUS
  <2>2. \A k \in 1 .. n : f[n - k] \in States
    BY <2>1
  <2> QED  BY <2>1, <2>2
<1>4. ASSUME NEW k \in 1 .. n, NEW x \in States
      PROVE  /\ Undo(x, k) \in States
             /\ Within(x, f[n - (k - 1)]) => Within(Undo(x, k), f[n - k])
  <2>1. PICK j, old, d : j = n + 1 - k /\ old = f[n - k] /\ d = Restored(x, slots[j], old)
    OBVIOUS
  <2>2. j \in 1 .. n /\ old \in States /\ j - 1 = n - k /\ j = n - (k - 1)
    BY <1>3, <2>1
  <2>3. Slots(w[j], slots[j]) /\ f[j] = Apply(old, slots[j], w[j])
    BY <2>1, <2>2
  <2>4. d \in States /\ Back(d, slots[j], old, x)
    <3>1. PICK u, slot : u = w[j] /\ slot = slots[j]
      OBVIOUS
    <3>2. Slots(u, slot) /\ d = Restored(x, slot, old)
      BY <2>1, <2>3, <3>1
    <3>3. d \in States /\ Back(d, slot, old, x)
      BY <2>2, <3>2, RestoredIs
    <3> QED  BY <3>1, <3>3
  <2>5. ASSUME Within(x, f[j]), NEW m \in Streams, NEW i \in Cells, d[m].pos[i] # -1
        PROVE  d[m].pos[i] = old[m].pos[i]
    <3>1. CASE Into(slots[j], m, i)
      BY <2>4, <3>1 DEF Back
    <3>2. CASE ~Into(slots[j], m, i)
      <4>1. x[m].pos[i] # -1 /\ d[m].pos[i] = x[m].pos[i]
        BY <2>4, <2>5, <3>2 DEF Back
      <4>2. x[m].pos[i] = f[j][m].pos[i]
        BY <2>5, <4>1 DEF Within
      <4>3. f[j][m].pos[i] # -1 => f[j][m].pos[i] = old[m].pos[i]
        BY <2>2, <2>3, <3>2, ApplyIs
      <4> QED  BY <4>1, <4>2, <4>3
    <3> QED  BY <3>1, <3>2
  <2> QED  BY <2>1, <2>2, <2>4, <2>5 DEF Within
<1>5. \E h : h = Body(h)
  <2>1. PICK F : F = [x \in (1 .. n) \X States |-> Undo(x[2], x[1])]
    OBVIOUS
  <2> HIDE DEF Undo
  <2>2. \A k \in 1 .. n, x \in States : F[<<k, x>>] = Undo(x, k)
    BY <2>1
  <2>3. F \in [(1 .. n) \X States -> States]
    <3>1. \A k \in 1 .. n, x \in States : F[<<k, x>>] \in States
      BY <1>4, <2>2
    <3>2. \A y \in (1 .. n) \X States : F[y] \in States
      BY <3>1
    <3> QED  BY <2>1, <3>2
  <2>4. PICK h \in [0 .. n -> States] : h[0] = f[n] /\ \A k \in 1 .. n : h[k] = F[<<k, h[k - 1]>>]
    <3>1. \E h : h \in Recursive(n, States, f[n], F)
      BY <1>3, <2>3, Recursion
    <3> QED  BY <3>1 DEF Recursive
  <2>5. \A k \in 0 .. n : k # 0 => k \in 1 .. n /\ h[k - 1] \in States
    BY <1>3, <2>4
  <2>6. h = Body(h)
    <3>1. \A k \in 0 .. n : h[k] = IF k = 0 THEN f[n] ELSE Undo(h[k - 1], k)
      BY <2>2, <2>4, <2>5
    <3> QED  BY <2>4, <3>1 DEF Undo
  <2> QED  BY <2>6
<1>6. g = Body(g)
  <2> HIDE DEF Body
  <2> QED  BY <1>1, <1>5
<1>7. g[0] = f[n] /\ \A k \in 1 .. n : g[k] = Undo(g[k - 1], k)
  <2>1. \A k \in 0 .. n : g[k] = Body(g)[k]
    BY <1>6
  <2>2. 0 \in 0 .. n /\ \A k \in 1 .. n : k \in 0 .. n /\ k # 0
    BY <1>3
  <2> QED  BY <2>1, <2>2
<1> HIDE DEF Body, Undo
<1> DEFINE P == {k \in 0 .. n : g[k] \in States /\ Within(g[k], f[n - k])}
<1>8. 0 \in P
  <2>1. n - 0 = n
    OBVIOUS
  <2>2. g[0] \in States /\ Within(g[0], f[n - 0]) /\ 0 \in 0 .. n
    BY <1>3, <1>7, <2>1 DEF Within
  <2> QED  BY <2>2
<1>9. ASSUME NEW k \in 1 .. n, k - 1 \in P PROVE k \in P
  <2>1. g[k - 1] \in States /\ Within(g[k - 1], f[n - (k - 1)])
    BY <1>9
  <2>2. g[k] \in States /\ Within(g[k], f[n - k]) /\ k \in 0 .. n
    BY <1>3, <1>4, <1>7, <2>1
  <2> QED  BY <2>2
<1>10. n \in P
  <2>1. 0 .. n \subseteq P
    <3> HIDE DEF P
    <3> QED  BY <1>3, <1>8, <1>9, UpTo
  <2> QED  BY <1>3, <2>1
<1>11. g[n] \in States /\ Within(g[n], f[0])
  <2>1. n - n = 0
    OBVIOUS
  <2> QED  BY <1>10, <2>1
<1> QED  BY <1>2, <1>11

(* prepare(): nothing is in another place than before, and if it succeeds  *)
(* there is a slot for each ubatch.                                        *)
LEMMA PreparedIs ==
    ASSUME conf \in Configs, NEW a \in States, NEW w \in Seq(Seq(Token)), NEW p, p = Prepared(a, w)
    PROVE  /\ p.cells \in States /\ Within(p.cells, a)
           /\ p.ok \in BOOLEAN
           /\ p.ok => \A k \in 1 .. Len(w) : Slots(w[k], p.slots[k])
<1> DEFINE f      == Trial(a, w)
           slots  == [k \in DOMAIN f \ {0} |-> Slot(f[k - 1], w[k])]
           failed == {k \in DOMAIN slots : <<>> \in Range(slots[k])}
           n      == IF failed = {} THEN Len(w) ELSE Min(failed) - 1
<1>1. /\ p.ok = (failed = {}) /\ p.slots = slots /\ p.cells = TakenOut(f, slots, n)
  BY DEF Prepared
<1>2. /\ f \in [0 .. Len(w) -> States] /\ f[0] = a
      /\ \A k \in 1 .. Len(w) : f[k] = Try(f[k - 1], w[k])
      /\ Len(w) \in Nat /\ \A k \in 1 .. Len(w) : w[k] \in Seq(Token)
  BY TrialIs, LenProperties, ElementOfSeq
<1> HIDE DEF f
<1>3. DOMAIN f \ {0} = 1 .. Len(w)
  BY <1>2
<1>4. DOMAIN slots = 1 .. Len(w) /\ \A k \in 1 .. Len(w) : slots[k] = Slot(f[k - 1], w[k])
  BY <1>3
<1> HIDE DEF slots
<1>5. ASSUME NEW k \in 1 .. Len(w), k \notin failed
      PROVE  Slots(w[k], slots[k]) /\ f[k] = Apply(f[k - 1], slots[k], w[k])
  <2>1. f[k - 1] \in States
    <3>1. k - 1 \in 0 .. Len(w)
      BY <1>2
    <3> QED  BY <1>2, <3>1
  <2>2. <<>> \notin Range(Slot(f[k - 1], w[k]))
    BY <1>4, <1>5
  <2> QED  BY <1>2, <1>4, <2>1, <2>2, TryIs
<1>6. n \in 0 .. Len(w) /\ \A k \in 1 .. n : k \in 1 .. Len(w) /\ k \notin failed
  <2>1. CASE failed = {}
    BY <1>2, <2>1
  <2>2. CASE failed # {}
    <3>1. failed \in SUBSET Nat /\ failed \subseteq 1 .. Len(w)
      BY <1>4
    <3>2. PICK l : l = Min(failed)
      OBVIOUS
    <3>3. l \in failed /\ \A x \in failed : l <= x
      BY <2>2, <3>1, <3>2, MinIn
    <3>4. n = l - 1
      BY <2>2, <3>2
    <3> HIDE DEF failed, n
    <3>5. l \in 1 .. Len(w)
      BY <3>1, <3>3
    <3> QED  BY <1>2, <3>3, <3>4, <3>5
  <2> QED  BY <2>1, <2>2
<1> HIDE DEF failed, n
<1>7. TakenOut(f, slots, n) \in States /\ Within(TakenOut(f, slots, n), f[0])
  <2>1. \A k \in 1 .. n : Slots(w[k], slots[k]) /\ f[k] = Apply(f[k - 1], slots[k], w[k])
    BY <1>5, <1>6
  <2> QED  BY <1>2, <1>6, <2>1, TakenOutIs
<1>8. p.ok => \A k \in 1 .. Len(w) : Slots(w[k], p.slots[k])
  BY <1>1, <1>5
<1> QED  BY <1>1, <1>2, <1>7, <1>8
-----------------------------------------------------------------------------
(* The rows, and the stream copies that are pending.                       *)
Tables == [Streams -> [Cells -> [tok : Seqs \cup {-1}, rope : Int]]]
Queues == Seq(Streams \X Streams)

(* One stream copy.                                                        *)
Copy(r, c) == [r EXCEPT ![c[2]] = r[c[1]]]

LEMMA CopyIs ==
    ASSUME NEW r \in Tables, NEW c \in Streams \X Streams
    PROVE  Copy(r, c) \in Tables
BY DEF Tables, Copy

(* update() makes the copies one after the other.                          *)
LEMMA CopiedSteps ==
    ASSUME NEW r \in Tables, NEW q \in Queues
    PROVE  \E f \in [0 .. Len(q) -> Tables] : /\ f[0] = r
                                              /\ \A k \in 1 .. Len(q) : f[k] = Copy(f[k - 1], q[k])
                                              /\ Copied(r, q) = f[Len(q)]
<1> DEFINE N == Len(q)
           Body(g) == [k \in 0 .. N |->
                          IF k = 0 THEN r
                          ELSE LET before == g[k - 1] IN [before EXCEPT ![q[k][2]] = before[q[k][1]]]]
           Turn(g) == [k \in 0 .. N |-> IF k = 0 THEN r ELSE Copy(g[k - 1], q[k])]
<1>0. \A g : Body(g) = Turn(g)
  BY DEF Copy
<1>1. N \in Nat /\ \A k \in 1 .. N : q[k] \in Streams \X Streams
  BY LenProperties, ElementOfSeq DEF Queues
<1>2. PICK f : f = CHOOSE g : g = Body(g)
  OBVIOUS
<1>3. Copied(r, q) = f[N]
  BY <1>2 DEF Copied
<1> HIDE DEF Body
<1>4. \E g : g = Turn(g)
  <2>1. PICK F : F = [x \in (1 .. N) \X Tables |-> Copy(x[2], q[x[1]])]
    OBVIOUS
  <2>2. \A k \in 1 .. N, x \in Tables : F[<<k, x>>] = Copy(x, q[k])
    BY <2>1
  <2>3. F \in [(1 .. N) \X Tables -> Tables]
    <3>1. \A k \in 1 .. N, x \in Tables : F[<<k, x>>] \in Tables
      BY <1>1, <2>2, CopyIs
    <3>2. \A y \in (1 .. N) \X Tables : F[y] \in Tables
      BY <3>1
    <3> QED  BY <2>1, <3>2
  <2>4. PICK g \in [0 .. N -> Tables] : g[0] = r /\ \A k \in 1 .. N : g[k] = F[<<k, g[k - 1]>>]
    <3>1. \E g : g \in Recursive(N, Tables, r, F)
      BY <1>1, <2>3, Recursion
    <3> QED  BY <3>1 DEF Recursive
  <2>5. \A k \in 0 .. N : k # 0 => k \in 1 .. N /\ g[k - 1] \in Tables
    <3>1. \A k \in 0 .. N : k # 0 => k \in 1 .. N /\ k - 1 \in 0 .. N
      BY <1>1
    <3> QED  BY <3>1
  <2>6. g = Turn(g)
    <3>1. \A k \in 0 .. N : g[k] = IF k = 0 THEN r ELSE Copy(g[k - 1], q[k])
      BY <2>2, <2>4, <2>5
    <3> QED  BY <2>4, <3>1
  <2> QED  BY <2>6
<1>5. f = Turn(f)
  <2> HIDE DEF Turn
  <2>1. \E h : h = Body(h)
    BY <1>0, <1>4
  <2>2. f = Body(f)
    BY <1>2, <2>1
  <2> QED  BY <1>0, <2>2
<1>6. f[0] = r /\ \A k \in 1 .. N : f[k] = Copy(f[k - 1], q[k])
  <2>1. \A k \in 0 .. N : f[k] = Turn(f)[k]
    BY <1>5
  <2>2. 0 \in 0 .. N /\ \A k \in 1 .. N : k \in 0 .. N /\ k # 0
    BY <1>1
  <2> QED  BY <2>1, <2>2
<1>7. f \in [0 .. N -> Tables]
  <2>1. f = [k \in 0 .. N |-> f[k]]
    BY <1>5
  <2>2. f[0] \in Tables
    BY <1>6
  <2>3. \A k \in 1 .. N : f[k - 1] \in Tables => f[k] \in Tables
    BY <1>1, <1>6, CopyIs
  <2> HIDE DEF N
  <2>4. Steps(N, Tables, f)
    BY <2>1, <2>2, <2>3 DEF Steps
  <2> QED  BY <1>1, <2>4, StepByStep
<1> QED  BY <1>3, <1>6, <1>7

(* A copy that is asked for last is made last.                             *)
LEMMA CopiedIs ==
    ASSUME NEW r \in Tables, NEW q \in Queues
    PROVE  /\ Copied(r, q) \in Tables
           /\ Copied(r, <<>>) = r
           /\ \A c \in Streams \X Streams : Copied(r, Append(q, c)) = Copy(Copied(r, q), c)
<1>0. Len(q) \in Nat
  BY LenProperties DEF Queues
<1>1. PICK f \in [0 .. Len(q) -> Tables] : /\ f[0] = r
                                           /\ \A k \in 1 .. Len(q) : f[k] = Copy(f[k - 1], q[k])
                                           /\ Copied(r, q) = f[Len(q)]
  BY CopiedSteps
<1>2. Copied(r, q) \in Tables
  BY <1>0, <1>1
<1>3. Copied(r, <<>>) = r
  <2>1. <<>> \in Queues /\ Len(<<>>) = 0
    BY DEF Queues
  <2>2. PICK g : g[0] = r /\ Copied(r, <<>>) = g[Len(<<>>)]
    BY <2>1, CopiedSteps
  <2> QED  BY <2>1, <2>2
<1>4. ASSUME NEW c \in Streams \X Streams PROVE Copied(r, Append(q, c)) = Copy(Copied(r, q), c)
  <2>1. PICK w : w = Append(q, c)
    OBVIOUS
  <2>2. /\ w \in Queues /\ Len(w) = Len(q) + 1 /\ w[Len(q) + 1] = c
        /\ \A k \in 1 .. Len(q) : w[k] = q[k]
    BY <2>1, AppendProperties DEF Queues
  <2>3. PICK g \in [0 .. Len(w) -> Tables] : /\ g[0] = r
                                             /\ \A k \in 1 .. Len(w) : g[k] = Copy(g[k - 1], w[k])
                                             /\ Copied(r, w) = g[Len(w)]
    BY <2>2, CopiedSteps
  <2> DEFINE P == {k \in 0 .. Len(q) : g[k] = f[k]}
  <2>4. 0 \in P
    BY <1>0, <1>1, <2>3
  <2>5. ASSUME NEW k \in 1 .. Len(q), k - 1 \in P PROVE k \in P
    <3>1. k \in 1 .. Len(w) /\ k \in 0 .. Len(q)
      BY <1>0, <2>2
    <3>2. g[k] = Copy(g[k - 1], w[k]) /\ f[k] = Copy(f[k - 1], q[k])
      BY <1>1, <2>3, <3>1
    <3>3. g[k - 1] = f[k - 1] /\ w[k] = q[k]
      BY <2>2, <2>5
    <3> QED  BY <3>1, <3>2, <3>3
  <2>6. 0 .. Len(q) \subseteq P
    <3> HIDE DEF P
    <3> QED  BY <1>0, <2>4, <2>5, UpTo
  <2>7. g[Len(q)] = f[Len(q)]
    BY <1>0, <2>6
  <2>8. Len(w) \in 1 .. Len(w) /\ Len(w) - 1 = Len(q)
    BY <1>0, <2>2
  <2>9. g[Len(w)] = Copy(g[Len(q)], c)
    BY <2>2, <2>3, <2>8
  <2> QED  BY <1>1, <2>1, <2>3, <2>7, <2>9
<1> QED  BY <1>2, <1>3, <1>4

(* The keys of the cells of a are rotated for the positions of the cells.  *)
Told(a, r) == \A m \in Streams, i \in Cells : a[m].pos[i] # -1 => r[m][i].rope = a[m].pos[i]

(* The graph of a ubatch that was applied, and of one that failed.         *)
LEMMA WrittenIs ==
    ASSUME conf \in Configs, NEW a \in States, NEW r \in Tables, Told(a, r), NEW u, NEW slot, Slots(u, slot),
           NEW computed \in BOOLEAN,
           NEW d, d = Apply(a, slot, u), NEW g, g = Written(r, slot, u, computed)
    PROVE  d \in States /\ g \in Tables /\ Told(d, g)
<1>1. /\ d \in States
      /\ \A m \in Streams, i \in Cells :
           d[m].pos[i] # -1 => d[m].pos[i] = IF Into(slot, m, i) THEN To(slot, u, m, i) ELSE a[m].pos[i]
  BY ApplyIs
<1>2. DOMAIN r = Streams /\ \A m \in Streams : \A i \in Cells : r[m][i] \in [tok : Seqs \cup {-1}, rope : Int]
  BY DEF Tables
<1>3. g = [m \in Streams |-> [i \in Cells |->
            IF Into(slot, m, i)
            THEN [tok |-> IF computed THEN Assigned(slot[m], For(m, u))[i].tok ELSE -1,
                  rope |-> To(slot, u, m, i)]
            ELSE r[m][i]]]
  BY <1>2 DEF Written, Into, To
<1>4. ASSUME NEW m \in Streams, NEW i \in Cells, Into(slot, m, i)
      PROVE  To(slot, u, m, i) \in Int /\ Assigned(slot[m], For(m, u))[i].tok \in Seqs
  <2>1. PICK new : new = Assigned(slot[m], For(m, u))
    OBVIOUS
  <2>2. Fits(m, slot[m], For(m, u)) /\ i \in Range(slot[m])
    BY <1>4 DEF Slots, Into
  <2>3. new[i] \in Token
    BY <2>1, <2>2, AssignedIs
  <2>4. new[i].pos \in Positions /\ new[i].tok \in Seqs
    BY <2>3 DEF Token
  <2>5. new[i].pos \in Int
    <3>1. PICK x, n : x = new[i].pos /\ n = conf.maxPos
      OBVIOUS
    <3>2. n \in Nat /\ x \in 0 .. n
      BY <2>4, <3>1, ConfTypes
    <3>3. x \in Int
      BY <3>2
    <3> QED  BY <3>1, <3>3
  <2> QED  BY <2>1, <2>4, <2>5 DEF To
<1>5. ASSUME NEW m \in Streams, NEW i \in Cells
      PROVE  /\ g[m][i] \in [tok : Seqs \cup {-1}, rope : Int]
             /\ d[m].pos[i] # -1 => g[m][i].rope = d[m].pos[i]
  <2>1. CASE Into(slot, m, i)
    <3>1. g[m][i] = [tok |-> IF computed THEN Assigned(slot[m], For(m, u))[i].tok ELSE -1,
                     rope |-> To(slot, u, m, i)]
      BY <1>3, <2>1
    <3>2. d[m].pos[i] # -1 => d[m].pos[i] = To(slot, u, m, i)
      BY <1>1, <2>1
    <3> QED  BY <1>4, <2>1, <3>1, <3>2
  <2>2. CASE ~Into(slot, m, i)
    <3>1. g[m][i] = r[m][i]
      BY <1>3, <2>2
    <3>2. d[m].pos[i] # -1 => d[m].pos[i] = a[m].pos[i]
      BY <1>1, <2>2
    <3>3. a[m].pos[i] # -1 => r[m][i].rope = a[m].pos[i]
      BY DEF Told
    <3> QED  BY <1>2, <3>1, <3>2, <3>3
  <2> QED  BY <2>1, <2>2
<1>6. g \in Tables
  <2>1. \A m \in Streams : g[m] = [i \in Cells |-> g[m][i]]
    BY <1>3
  <2>2. \A m \in Streams : g[m] \in [Cells -> [tok : Seqs \cup {-1}, rope : Int]]
    BY <1>5, <2>1
  <2>3. g = [m \in Streams |-> g[m]]
    BY <1>3
  <2> QED  BY <2>2, <2>3 DEF Tables
<1> QED  BY <1>1, <1>5, <1>6 DEF Told
(* The ubatches that have a slot are applied and computed in order.        *)
LEMMA ProcessedIs ==
    ASSUME conf \in Configs, NEW a \in States, NEW r \in Tables, Told(a, r), NEW w \in Seq(Seq(Token)),
           NEW slots, \A k \in 1 .. Len(w) : Slots(w[k], slots[k]), NEW failed,
           NEW f, f = Processed(a, r, slots, w, failed), NEW n \in 0 .. Len(w)
    PROVE  f[n].cells \in States /\ f[n].rows \in Tables /\ Told(f[n].cells, f[n].rows)
<1> DEFINE N == Len(w)
           b == [cells |-> a, rows |-> r]
           More(x, k) == [cells |-> Apply(x.cells, slots[k], w[k]),
                          rows  |-> Written(x.rows, slots[k], w[k], k # failed)]
           Body(g) == [k \in 0 .. N |->
                          IF k = 0 THEN [cells |-> a, rows |-> r]
                          ELSE LET before == g[k - 1]
                               IN  [cells |-> Apply(before.cells, slots[k], w[k]),
                                    rows  |-> Written(before.rows, slots[k], w[k], k # failed)]]
           Turn(g) == [k \in 0 .. N |-> IF k = 0 THEN b ELSE More(g[k - 1], k)]
<1>0. \A g : Body(g) = Turn(g)
  OBVIOUS
<1>1. N \in Nat
  BY LenProperties
<1>2. f = CHOOSE g : g = Body(g)
  BY DEF Processed
<1>3. PICK D : D = {x \in [cells : States, rows : Tables] : Told(x.cells, x.rows)}
  OBVIOUS
<1>4. b \in D
  BY <1>3
<1>5. ASSUME NEW k \in 1 .. N, NEW x \in D PROVE More(x, k) \in D
  <2>1. x.cells \in States /\ x.rows \in Tables /\ Told(x.cells, x.rows)
    BY <1>3
  <2>2. PICK u, slot, computed : u = w[k] /\ slot = slots[k] /\ computed = (k # failed)
    OBVIOUS
  <2>3. Slots(u, slot) /\ computed \in BOOLEAN
    BY <2>2
  <2>4. PICK d, g : d = Apply(x.cells, slot, u) /\ g = Written(x.rows, slot, u, computed)
    OBVIOUS
  <2>5. d \in States /\ g \in Tables /\ Told(d, g)
    BY <2>1, <2>3, <2>4, WrittenIs
  <2>6. More(x, k) = [cells |-> d, rows |-> g]
    BY <2>2, <2>4
  <2> HIDE DEF More
  <2> QED  BY <1>3, <2>5, <2>6
<1> HIDE DEF Body, More, b
<1>6. \E g : g = Turn(g)
  <2>1. PICK F : F = [x \in (1 .. N) \X D |-> More(x[2], x[1])]
    OBVIOUS
  <2>2. \A k \in 1 .. N, x \in D : F[<<k, x>>] = More(x, k)
    BY <2>1
  <2>3. F \in [(1 .. N) \X D -> D]
    <3>1. \A k \in 1 .. N, x \in D : F[<<k, x>>] \in D
      BY <1>5, <2>2
    <3>2. \A y \in (1 .. N) \X D : F[y] \in D
      BY <3>1
    <3> QED  BY <2>1, <3>2
  <2>4. PICK g \in [0 .. N -> D] : g[0] = b /\ \A k \in 1 .. N : g[k] = F[<<k, g[k - 1]>>]
    <3>1. \E g : g \in Recursive(N, D, b, F)
      BY <1>1, <1>4, <2>3, Recursion
    <3> QED  BY <3>1 DEF Recursive
  <2>5. \A k \in 0 .. N : k # 0 => k \in 1 .. N /\ g[k - 1] \in D
    <3>1. \A k \in 0 .. N : k # 0 => k \in 1 .. N /\ k - 1 \in 0 .. N
      BY <1>1
    <3> QED  BY <3>1
  <2>6. g = Turn(g)
    <3>1. \A k \in 0 .. N : g[k] = IF k = 0 THEN b ELSE More(g[k - 1], k)
      BY <2>2, <2>4, <2>5
    <3> QED  BY <2>4, <3>1
  <2> QED  BY <2>6
<1>7. f = Turn(f)
  <2> HIDE DEF Turn
  <2>1. \E h : h = Body(h)
    BY <1>0, <1>6
  <2>2. f = Body(f)
    BY <1>2, <2>1
  <2> QED  BY <1>0, <2>2
<1>8. f[0] = b /\ \A k \in 1 .. N : f[k] = More(f[k - 1], k)
  <2>1. \A k \in 0 .. N : f[k] = Turn(f)[k]
    BY <1>7
  <2>2. 0 \in 0 .. N /\ \A k \in 1 .. N : k \in 0 .. N /\ k # 0
    BY <1>1
  <2> QED  BY <2>1, <2>2
<1>9. f \in [0 .. N -> D]
  <2>1. f = [k \in 0 .. N |-> f[k]]
    BY <1>7
  <2>2. f[0] \in D
    BY <1>4, <1>8
  <2>3. \A k \in 1 .. N : f[k - 1] \in D => f[k] \in D
    BY <1>5, <1>8
  <2> HIDE DEF N
  <2>4. Steps(N, D, f)
    BY <2>1, <2>2, <2>3 DEF Steps
  <2> QED  BY <1>1, <2>4, StepByStep
<1> QED  BY <1>3, <1>9

(* A ubatch that failed is removed.                                        *)
LEMMA RolledBackIs ==
    ASSUME conf \in Configs, NEW a \in States, NEW u, NEW d, d = RolledBack(a, u)
    PROVE  d \in States /\ Within(d, a)
<1>1. DOMAIN a = Streams /\ \A m \in Streams : a[m] \in Valid(m) /\ \A i \in Cells : a[m].shift[i] = 0
  BY DEF States
<1> DEFINE from(s) == Min({t.pos : t \in {v \in Range(u) : v.tok = s}})
           gone(st, i) == {s \in st.seqs[i] : /\ \E t \in Range(u) : t.tok = s
                                              /\ st.pos[i] >= from(s)}
<1>2. d = [m \in DOMAIN a |-> RmSeqs(a[m], [i \in Cells |-> gone(a[m], i)])]
  BY DEF RolledBack
<1>3. \A m \in Streams, i \in Cells : gone(a[m], i) \subseteq a[m].seqs[i]
  OBVIOUS
<1> HIDE DEF gone
<1>4. ASSUME NEW m \in Streams
      PROVE  /\ d[m] \in Valid(m)
             /\ \A i \in Cells : /\ d[m].shift[i] = 0
                                 /\ d[m].pos[i] # -1 => d[m].pos[i] = a[m].pos[i]
  <2>1. PICK lost : lost = [i \in Cells |-> gone(a[m], i)]
    OBVIOUS
  <2>2. d[m] = RmSeqs(a[m], lost)
    BY <1>1, <1>2, <2>1
  <2>3. \A i \in Cells : a[m].seqs[i] \in SUBSET Seqs
    BY <1>1, RecordIs DEF Valid
  <2>4. \A i \in Cells : lost[i] \subseteq a[m].seqs[i]
    BY <1>3, <2>1
  <2>5. lost \in [Cells -> SUBSET Seqs]
    <3>1. \A i \in Cells : lost[i] \in SUBSET Seqs
      BY <2>3, <2>4
    <3> QED  BY <2>1, <3>1
  <2>6. /\ d[m] \in Valid(m)
        /\ \A i \in Cells :
             /\ d[m].pos[i] = IF d[m].seqs[i] = {} THEN -1 ELSE a[m].pos[i]
             /\ d[m].shift[i] = IF d[m].seqs[i] = {} THEN 0 ELSE a[m].shift[i]
    BY <1>1, <2>2, <2>4, <2>5, RmSeqsValid
  <2> QED  BY <1>1, <2>6
<1>5. d \in States
  <2>1. \A m \in Streams : d[m] \in Records
    BY <1>4 DEF Valid
  <2>2. d \in [Streams -> Records]
    BY <1>1, <1>2, <2>1
  <2> QED  BY <1>4, <2>2 DEF States
<1> QED  BY <1>4, <1>5 DEF Within

(* The tokens of a batch that is accepted.                                 *)
LEMMA PlacedIs ==
    ASSUME conf \in Configs, NEW b \in conf.batches, NEW first, NEW last,
           \A s \in Seqs : last[s] \in Int /\ last[s] >= -1,
           NEW w, w = Memory!Placed(last, b), Memory!Accepted(w, first, last)
    PROVE  w \in Seq(Seq(Token)) /\ Len(w) = Len(b)
<1> DEFINE places == UNION {{k} \X (DOMAIN b[k]) : k \in DOMAIN b}
           Before(k, i, s) == Cardinality({at \in places :
                                  /\ at[1] < k \/ (at[1] = k /\ at[2] < i)
                                  /\ s \in Range(b[at[1]][at[2]])})
           token(k, i) == [seqs |-> Range(b[k][i]),
                           pos  |-> last[b[k][i][1]] + 1 + Before(k, i, b[k][i][1]),
                           tok  |-> b[k][i][1]]
<1>1. w = [k \in 1 .. Len(b) |-> [i \in 1 .. Len(b[k]) |-> token(k, i)]]
  BY Zenon DEF Memory!Placed, Memory!Range, Range, Memory!Cardinality, Cardinality
<1>2. /\ b \in Seq(Seq(Seq(Seqs))) /\ Len(b) \in Nat /\ DOMAIN b = 1 .. Len(b)
      /\ \A k \in 1 .. Len(b) : b[k] \in Seq(Seq(Seqs)) /\ Len(b[k]) \in Nat /\ DOMAIN b[k] = 1 .. Len(b[k])
  <2>1. b \in Seq(Seq(Seq(Seqs)))
    BY BatchesAssumption
  <2>2. Len(b) \in Nat /\ DOMAIN b = 1 .. Len(b)
    BY <2>1, LenProperties
  <2>3. \A k \in 1 .. Len(b) : b[k] \in Seq(Seq(Seqs))
    BY <2>1, ElementOfSeq
  <2>4. \A k \in 1 .. Len(b) : Len(b[k]) \in Nat /\ DOMAIN b[k] = 1 .. Len(b[k])
    BY <2>3, LenProperties
  <2> QED  BY <2>1, <2>2, <2>3, <2>4
<1>3. IsFiniteSet(places)
  <2>1. PICK T : T = {{k} \X (DOMAIN b[k]) : k \in DOMAIN b}
    OBVIOUS
  <2>2. PICK g : g = [k \in 1 .. Len(b) |-> {k} \X (DOMAIN b[k])]
    OBVIOUS
  <2>3. \A k \in 1 .. Len(b) : g[k] = {k} \X (DOMAIN b[k])
    BY <2>2
  <2>4. g \in [1 .. Len(b) -> T] /\ \A x \in T : \E k \in 1 .. Len(b) : g[k] = x
    <3>1. \A k \in 1 .. Len(b) : g[k] \in T
      BY <1>2, <2>1, <2>3
    <3>2. \A x \in T : \E k \in 1 .. Len(b) : x = {k} \X (DOMAIN b[k])
      BY <1>2, <2>1
    <3> QED  BY <2>2, <2>3, <3>1, <3>2
  <2>5. g \in Surjection(1 .. Len(b), T)
    BY <2>4 DEF Surjection
  <2>6. IsFiniteSet(T)
    <3>1. IsFiniteSet(1 .. Len(b))
      BY <1>2, FS_Interval
    <3> QED  BY <2>5, <3>1, FS_Surjection
  <2>7. ASSUME NEW k \in 1 .. Len(b) PROVE IsFiniteSet({k} \X (DOMAIN b[k]))
    <3>1. IsFiniteSet({k})
      BY FS_Singleton
    <3>2. PICK l : l = Len(b[k])
      OBVIOUS
    <3>3. IsFiniteSet(1 .. l) /\ DOMAIN b[k] = 1 .. l
      BY <1>2, <3>2, FS_Interval
    <3> QED  BY <3>1, <3>3, FS_Product
  <2>8. \A x \in T : IsFiniteSet(x)
    BY <1>2, <2>1, <2>7
  <2>9. IsFiniteSet(UNION T)
    BY <2>6, <2>8, FS_UNION
  <2> QED  BY <2>1, <2>9
<1>4. ASSUME NEW k, NEW i, NEW s PROVE Before(k, i, s) \in Nat
  <2>1. PICK S : S = {at \in places : /\ at[1] < k \/ (at[1] = k /\ at[2] < i)
                                      /\ s \in Range(b[at[1]][at[2]])}
    OBVIOUS
  <2>2. S \in SUBSET places
    BY <2>1
  <2> HIDE DEF places
  <2>3. IsFiniteSet(S)
    BY <1>3, <2>2, FS_Subset
  <2>4. Cardinality(S) \in Nat
    BY <2>3, FS_CardinalityType
  <2> QED  BY <2>1, <2>4
<1> HIDE DEF Before
<1>5. ASSUME NEW k \in 1 .. Len(b), NEW i \in 1 .. Len(b[k])
      PROVE  /\ b[k][i] \in Seq(Seqs) /\ b[k][i][1] \in Seqs
             /\ Range(b[k][i]) \in SUBSET Seqs /\ Range(b[k][i]) # {}
             /\ \A s \in Range(b[k][i]) : StreamOf(s) = StreamOf(b[k][i][1])
  <2>1. PICK q : q = b[k][i]
    OBVIOUS
  <2>2. q \in Seq(Seqs) /\ Len(q) \in Nat /\ DOMAIN q = 1 .. Len(q)
    <3>1. q \in Seq(Seqs)
      BY <1>2, <2>1, ElementOfSeq
    <3> QED  BY <3>1, LenProperties
  <2>3. IF conf.unified THEN q # <<>> ELSE Len(q) = 1
    BY <1>2, <2>1, BatchesAssumption
  <2>4. Len(q) >= 1 /\ (~conf.unified => Len(q) = 1)
    <3>1. PICK l : l = Len(q)
      OBVIOUS
    <3>2. q # <<>> => l # 0
      BY <2>2, <3>1, EmptySeq
    <3>3. l \in Nat
      BY <2>2, <3>1
    <3>4. (conf.unified => l # 0) /\ (~conf.unified => l = 1)
      BY <2>3, <3>1, <3>2
    <3>5. l >= 1 /\ (~conf.unified => l = 1)
      BY <3>3, <3>4
    <3> QED  BY <3>1, <3>5
  <2>5. q[1] \in Seqs /\ 1 \in 1 .. Len(q)
    <3>1. 1 \in 1 .. Len(q)
      BY <2>2, <2>4
    <3> QED  BY <2>2, <3>1, ElementOfSeq
  <2>6. Range(q) = {q[j] : j \in 1 .. Len(q)}
    BY <2>2 DEF Range
  <2>7. Range(q) \in SUBSET Seqs
    BY <2>2, <2>6, ElementOfSeq
  <2>8. Range(q) # {}
    BY <2>5, <2>6
  <2>9. \A s \in Range(q) : StreamOf(s) = StreamOf(q[1])
    <3>1. CASE conf.unified
      BY <3>1 DEF StreamOf
    <3>2. CASE ~conf.unified
      <4>1. \A j \in 1 .. Len(q) : j = 1
        <5>1. Len(q) = 1
          BY <2>4, <3>2
        <5>2. \A j \in 1 .. 1 : j = 1
          OBVIOUS
        <5> QED  BY <5>1, <5>2
      <4>2. \A s \in Range(q) : s = q[1]
        BY <2>6, <4>1
      <4> QED  BY <4>2
    <3> QED  BY <3>1, <3>2
  <2> QED  BY <2>1, <2>2, <2>5, <2>7, <2>8, <2>9
<1>6. ASSUME NEW k \in 1 .. Len(b), NEW i \in 1 .. Len(b[k]) PROVE token(k, i) \in Token
  <2>1. PICK p : p = last[b[k][i][1]] + 1 + Before(k, i, b[k][i][1])
    OBVIOUS
  <2>2. p \in Nat
    <3>1. last[b[k][i][1]] \in Int /\ last[b[k][i][1]] >= -1
      BY <1>5
    <3>2. PICK l, n : l = last[b[k][i][1]] /\ n = Before(k, i, b[k][i][1])
      OBVIOUS
    <3>3. l \in Int /\ l >= -1 /\ n \in Nat /\ p = l + 1 + n
      BY <1>4, <2>1, <3>1, <3>2
    <3> QED  BY <3>3
  <2>3. token(k, i) = [seqs |-> Range(b[k][i]), pos |-> p, tok |-> b[k][i][1]]
    BY <2>1
  <2> HIDE DEF token
  <2>4. w[k][i] = token(k, i) /\ k \in DOMAIN w /\ i \in DOMAIN w[k]
    BY <1>1
  <2>5. w[k][i].pos <= conf.maxPos
    BY <2>4 DEF Memory!Accepted
  <2>6. p \in Positions
    BY <2>2, <2>3, <2>4, <2>5, ConfTypes
  <2> QED  BY <1>5, <2>3, <2>6 DEF Token
<1> HIDE DEF token
<1>7. ASSUME NEW k \in 1 .. Len(b) PROVE w[k] \in Seq(Token)
  <2>1. PICK l, q : l = Len(b[k]) /\ q = w[k]
    OBVIOUS
  <2>2. l \in Nat /\ q = [i \in 1 .. l |-> token(k, i)]
    BY <1>1, <1>2, <2>1
  <2>3. \A i \in 1 .. l : token(k, i) \in Token
    BY <1>6, <2>1
  <2>4. q \in [1 .. l -> Token]
    BY <2>2, <2>3
  <2> QED  BY <2>1, <2>2, <2>4
<1>8. w \in Seq(Seq(Token)) /\ Len(w) = Len(b)
  <2>1. PICK n : n = Len(b)
    OBVIOUS
  <2>2. n \in Nat /\ DOMAIN w = 1 .. n /\ w = [k \in 1 .. n |-> w[k]]
    BY <1>1, <1>2, <2>1
  <2>3. \A k \in 1 .. n : w[k] \in Seq(Token)
    BY <1>7, <2>1
  <2>4. w \in [1 .. n -> Seq(Token)]
    BY <2>2, <2>3
  <2>5. w \in Seq(Seq(Token)) /\ Len(w) = n
    BY <2>2, <2>4
  <2> QED  BY <2>1, <2>5
<1> QED  BY <1>8
-----------------------------------------------------------------------------
(* The inductive invariant.  The types alone are not inductive: that no    *)
(* counter falls below 0 follows from CountsAgree, and that a cell keeps   *)
(* its key from the listing of its sequences in TypeOK.                    *)
IInv == TypeOK /\ CountsAgree /\ RopeAgrees

(* RopeAgrees for given cells, rows and pending copies.                    *)
Ropes(c, r, q) ==
    \A m \in Streams, i \in Cells :
        c[m].pos[i] # -1 => Copied(r, q)[m][i].rope + c[m].shift[i] = c[m].pos[i]

(* What CountsAgree counts is what a counter is compared with.             *)
LEMMA HitIs ==
    ASSUME conf \in Configs, NEW st \in Records, NEW s, NEW p \in Positions
    PROVE  Hit(st, s, <<p, p + 1>>) = Where(st.pos, st.seqs, s, p)
<1>1. Occupied(st) = {i \in Cells : st.pos[i] # -1}
  BY OccupiedIs
<1>2. p \in Nat
  BY ConfTypes
<1>3. PICK range : range = <<p, p + 1>>
  OBVIOUS
<1>4. range[1] = p /\ range[2] = p + 1
  BY <1>3
<1>5. ASSUME NEW i \in Cells
      PROVE  st.pos[i] # -1 /\ st.pos[i] \in range[1] .. range[2] - 1 <=> st.pos[i] = p
  <2>1. PICK x : x = st.pos[i]
    OBVIOUS
  <2>2. x \in Int
    <3>1. x \in {-1} \cup Positions
      BY <2>1, RecordIs
    <3> QED  BY <3>1, ConfTypes
  <2>3. x # -1 /\ x \in p .. (p + 1) - 1 <=> x = p
    BY <1>2, <2>2
  <2> QED  BY <1>4, <2>1, <2>3
<1> QED  BY <1>1, <1>3, <1>5 DEF Hit, Where

(* The invariant, for the cells of each stream ...                         *)
LEMMA InvIs ==
    ASSUME IInv, ~strayed
    PROVE  /\ conf \in Configs
           /\ cells \in [Streams -> Records] /\ \A m \in Streams : cells[m] \in Valid(m)
           /\ rows \in Tables /\ copies \in Queues /\ Len(copies) <= MaxCopies
           /\ Ropes(cells, rows, copies)
<1>1. conf \in Configs
  BY DEF IInv, TypeOK
<1>2. PICK R : R = [pos : [Cells -> {-1} \cup Positions], seqs : [Cells -> SUBSET Seqs],
                    shift : [Cells -> Int], count : [Seqs -> [Positions -> Nat]], head : 0 .. conf.size]
  OBVIOUS
<1>3. cells \in [Streams -> R]
  BY <1>2 DEF IInv, TypeOK
<1>4. \A m \in Streams : Listing(m, cells[m])
  BY DEF IInv, TypeOK, Listing
<1>5. R \subseteq Records
  <2>1. [Seqs -> [Positions -> Nat]] \subseteq [Seqs -> [Positions -> Int]]
    OBVIOUS
  <2> QED  BY <1>2, <2>1 DEF Records
<1>6. cells \in [Streams -> Records] /\ \A m \in Streams : cells[m] \in Records
  BY <1>3, <1>5
<1>7. ASSUME NEW m \in Streams PROVE Counted(cells[m])
  <2>1. \A s \in Seqs, p \in Positions :
            cells[m].count[s][p] = Cardinality(Hit(cells[m], s, <<p, p + 1>>))
    BY DEF IInv, CountsAgree
  <2>2. \A s \in Seqs, p \in Positions :
            Hit(cells[m], s, <<p, p + 1>>) = Where(cells[m].pos, cells[m].seqs, s, p)
    BY <1>1, <1>6, HitIs
  <2> QED  BY <2>1, <2>2 DEF Counted
<1>8. rows \in Tables /\ copies \in Queues /\ Len(copies) <= MaxCopies
  BY DEF IInv, TypeOK, Tables, Queues
<1>9. Ropes(cells, rows, copies)
  <2>1. ASSUME NEW m \in Streams, NEW i \in Cells, cells[m].pos[i] # -1
        PROVE  Copied(rows, copies)[m][i].rope + cells[m].shift[i] = cells[m].pos[i]
    <3>1. i \in Occupied(cells[m])
      BY <1>1, <1>6, <2>1, OccupiedIs
    <3>2. PICK at : at = <<m, i>>
      OBVIOUS
    <3>3. at \in Held /\ at[1] = m /\ at[2] = i
      BY <3>1, <3>2 DEF Held
    <3>4. Key(at).rope + cells[at[1]].shift[at[2]] = cells[at[1]].pos[at[2]]
      BY <3>3 DEF IInv, RopeAgrees
    <3> QED  BY <3>3, <3>4 DEF Key
  <2> QED  BY <2>1 DEF Ropes
<1> QED  BY <1>1, <1>4, <1>6, <1>7, <1>8, <1>9 DEF Valid

(* ... and what a step has to show for it to hold again.                   *)
LEMMA InvHolds ==
    ASSUME conf \in Configs, UNCHANGED conf, NEW c, NEW r, NEW q, cells' = c, rows' = r, copies' = q,
           c \in [Streams -> Records],
           \A m \in Streams : Listing(m, c[m]) /\ c[m].count \in [Seqs -> [Positions -> Nat]],
           r \in Tables, q \in Queues, Len(q) <= MaxCopies,
           ret' \in {"none", "ok", "refused", "failed"}, strayed' \in BOOLEAN,
           ~strayed' => Ropes(c, r, q) /\ \A m \in Streams : Counted(c[m])
    PROVE  IInv'
<1>1. Streams' = Streams /\ Cells' = Cells /\ Positions' = Positions
  BY DEF Streams, Cells, Positions
<1>2. \A s : StreamOf(s)' = StreamOf(s)
  BY DEF StreamOf
<1>3. TypeOK'
  <2>1. PICK R : R = [pos : [Cells -> {-1} \cup Positions], seqs : [Cells -> SUBSET Seqs],
                      shift : [Cells -> Int], count : [Seqs -> [Positions -> Nat]], head : 0 .. conf.size]
    OBVIOUS
  <2>2. \A m \in Streams : c[m] \in R
    <3>1. ASSUME NEW m \in Streams PROVE c[m] \in R
      <4>1. PICK st : st = c[m]
        OBVIOUS
      <4>2. st \in Records /\ st.count \in [Seqs -> [Positions -> Nat]]
        BY <4>1
      <4>3. st \in R
        BY <2>1, <4>2, RecordIs
      <4> QED  BY <4>1, <4>3
    <3> QED  BY <3>1
  <2>3. c \in [Streams -> R]
    BY <2>2
  <2>4. \A m \in Streams, i \in Cells : /\ c[m].seqs[i] = {} <=> c[m].pos[i] = -1
                                        /\ \A s \in c[m].seqs[i] : StreamOf(s) = m
    BY DEF Listing
  <2>5. r \in [Streams -> [Cells -> [tok : Seqs \cup {-1}, rope : Int]]]
    BY DEF Tables
  <2>6. q \in Seq(Streams \X Streams) /\ Len(q) <= MaxCopies
    BY DEF Queues
  <2> QED  BY <1>1, <1>2, <2>1, <2>3, <2>4, <2>5, <2>6 DEF TypeOK
<1>4. CountsAgree'
  <2>1. SUFFICES ASSUME ~strayed', NEW m \in Streams, NEW s \in Seqs, NEW p \in Positions
                 PROVE  c[m].count[s][p] = Cardinality(Hit(c[m], s, <<p, p + 1>>))
    BY <1>1 DEF CountsAgree
  <2>2. c[m] \in Records /\ Counted(c[m])
    BY <2>1
  <2>3. Hit(c[m], s, <<p, p + 1>>) = Where(c[m].pos, c[m].seqs, s, p)
    BY <2>2, HitIs
  <2> QED  BY <2>2, <2>3 DEF Counted
<1>5. RopeAgrees'
  <2>1. SUFFICES ASSUME ~strayed', NEW at \in UNION {{<<m, i>> : i \in Occupied(c[m])} : m \in Streams}
                 PROVE  Copied(r, q)[at[1]][at[2]].rope + c[at[1]].shift[at[2]] = c[at[1]].pos[at[2]]
    BY <1>1 DEF RopeAgrees, Held, Key
  <2>2. PICK m \in Streams : \E i \in Occupied(c[m]) : at = <<m, i>>
    BY <2>1
  <2>3. PICK i \in Occupied(c[m]) : at = <<m, i>>
    BY <2>2
  <2>4. i \in Cells /\ c[m].pos[i] # -1
    BY <2>3, OccupiedIs
  <2>5. at[1] = m /\ at[2] = i
    BY <2>3
  <2>6. Copied(r, q)[m][i].rope + c[m].shift[i] = c[m].pos[i]
    BY <2>1, <2>4 DEF Ropes
  <2> QED  BY <2>5, <2>6
<1> QED  BY <1>3, <1>4, <1>5 DEF IInv

(* Cells that are counted right have no negative counter.                  *)
LEMMA CountIs ==
    ASSUME conf \in Configs, NEW m, NEW st \in Valid(m)
    PROVE  st.count \in [Seqs -> [Positions -> Nat]]
<1>1. st.count \in [Seqs -> [Positions -> Int]]
  BY RecordIs DEF Valid
<1>2. ASSUME NEW s \in Seqs PROVE st.count[s] \in [Positions -> Nat]
  <2>1. st.count[s] \in [Positions -> Int]
    BY <1>1
  <2>2. \A p \in Positions : st.count[s][p] \in Nat
    BY WhereFinite DEF Valid, Counted
  <2> QED  BY <2>1, <2>2
<1> QED  BY <1>1, <1>2

(* ... if they are counted right.                                          *)
LEMMA ValidHolds ==
    ASSUME conf \in Configs, UNCHANGED conf, NEW c, NEW r, NEW q, cells' = c, rows' = r, copies' = q,
           c \in [Streams -> Records], \A m \in Streams : c[m] \in Valid(m),
           r \in Tables, q \in Queues, Len(q) <= MaxCopies,
           ret' \in {"none", "ok", "refused", "failed"}, strayed' \in BOOLEAN,
           ~strayed' => Ropes(c, r, q)
    PROVE  IInv'
<1>1. \A m \in Streams : /\ Listing(m, c[m]) /\ Counted(c[m])
                         /\ c[m].count \in [Seqs -> [Positions -> Nat]]
  BY CountIs DEF Valid
<1> QED  BY <1>1, InvHolds
-----------------------------------------------------------------------------
(* A call that edits cells in place: what stays in a cell keeps the key.   *)
LEMMA Edited ==
    ASSUME IInv, ~strayed, UNCHANGED <<conf, rows, copies>>, NEW c, cells' = c,
           c \in [Streams -> Records], \A m \in Streams : c[m] \in Valid(m),
           ret' = "none", strayed' \in BOOLEAN, ~strayed' => \A m \in Streams : Stays(cells[m], c[m])
    PROVE  IInv'
<1>1. /\ conf \in Configs
      /\ cells \in [Streams -> Records]
      /\ rows \in Tables /\ copies \in Queues /\ Len(copies) <= MaxCopies
      /\ Ropes(cells, rows, copies)
  BY InvIs
<1>2. ASSUME ~strayed' PROVE Ropes(c, rows, copies)
  <2>1. PICK t : t = Copied(rows, copies)
    OBVIOUS
  <2>2. t \in Tables
    BY <1>1, <2>1, CopiedIs
  <2>3. ASSUME NEW m \in Streams, NEW i \in Cells, c[m].pos[i] # -1
        PROVE  t[m][i].rope + c[m].shift[i] = c[m].pos[i]
    <3>1. /\ cells[m].pos[i] # -1
          /\ c[m].pos[i] - c[m].shift[i] = cells[m].pos[i] - cells[m].shift[i]
      BY <1>2, <2>3 DEF Stays
    <3>2. t[m][i].rope + cells[m].shift[i] = cells[m].pos[i]
      BY <1>1, <2>1, <3>1 DEF Ropes
    <3>3. t[m][i].rope \in Int
      BY <2>2 DEF Tables
    <3>4. ASSUME NEW st \in Records PROVE st.pos[i] \in Int /\ st.shift[i] \in Int
      <4>1. st.pos[i] \in {-1} \cup Positions /\ st.shift[i] \in Int
        BY RecordIs
      <4> QED  BY <1>1, <4>1, ConfTypes
    <3>5. /\ c[m].pos[i] \in Int /\ c[m].shift[i] \in Int
          /\ cells[m].pos[i] \in Int /\ cells[m].shift[i] \in Int
      <4>1. c[m] \in Records /\ cells[m] \in Records
        BY <1>1
      <4> QED  BY <3>4, <4>1
    <3>6. ASSUME NEW k \in Int, NEW x \in Int, NEW y \in Int, NEW u \in Int, NEW v \in Int,
                 x - y = u - v, k + v = u
          PROVE  k + y = x
      BY <3>6
    <3> QED  BY <3>1, <3>2, <3>3, <3>5, <3>6
  <2> QED  BY <2>1, <2>3 DEF Ropes
<1>3. rows' = rows /\ copies' = copies /\ UNCHANGED conf
  OBVIOUS
<1> QED  BY <1>1, <1>2, <1>3, ValidHolds

(* ... in one stream.                                                      *)
LEMMA EditedOne ==
    ASSUME IInv, ~strayed, UNCHANGED <<conf, rows, copies>>, NEW m \in Streams, NEW d,
           cells' = [cells EXCEPT ![m] = d],
           d \in Valid(m), ret' = "none", strayed' \in BOOLEAN, ~strayed' => Stays(cells[m], d)
    PROVE  IInv'
<1>1. cells \in [Streams -> Records] /\ \A k \in Streams : cells[k] \in Valid(k)
  BY InvIs
<1>2. PICK c : c = [cells EXCEPT ![m] = d]
  OBVIOUS
<1>3. c = [k \in Streams |-> c[k]] /\ \A k \in Streams : c[k] = IF k = m THEN d ELSE cells[k]
  BY <1>1, <1>2
<1>4. \A k \in Streams : c[k] \in Valid(k) /\ c[k] \in Records
  BY <1>1, <1>3 DEF Valid
<1>5. c \in [Streams -> Records]
  BY <1>3, <1>4
<1>6. ASSUME ~strayed' PROVE \A k \in Streams : Stays(cells[k], c[k])
  BY <1>3, <1>6 DEF Stays
<1> QED  BY <1>2, <1>4, <1>5, <1>6, Edited

(* Sequences that cells lose.                                              *)
LEMMA RmSeqsStays ==
    ASSUME conf \in Configs, NEW m, NEW st \in Valid(m), NEW gone \in [Cells -> SUBSET Seqs],
           \A i \in Cells : gone[i] \subseteq st.seqs[i],
           NEW d, d = RmSeqs(st, gone)
    PROVE  d \in Valid(m) /\ Stays(st, d)
<1>1. /\ d \in Valid(m)
      /\ \A i \in Cells : /\ d.pos[i] = IF d.seqs[i] = {} THEN -1 ELSE st.pos[i]
                          /\ d.shift[i] = IF d.seqs[i] = {} THEN 0 ELSE st.shift[i]
  BY RmSeqsValid
<1>2. \A i \in Cells : d.pos[i] # -1 => d.pos[i] = st.pos[i] /\ d.shift[i] = st.shift[i]
  BY <1>1
<1> QED  BY <1>1, <1>2 DEF Stays

(* seq_rm of one sequence.                                                 *)
LEMMA SeqRmKeeps ==
    ASSUME IInv, ~strayed, UNCHANGED conf, NEW s \in Seqs, NEW range, SeqRm(s, range)
    PROVE  IInv'
<1>1. conf \in Configs /\ \A m \in Streams : cells[m] \in Valid(m)
  BY InvIs
<1>2. PICK m : m = StreamOf(s)
  OBVIOUS
<1>3. m \in Streams
  BY <1>1, <1>2, ConfTypes
<1>4. PICK st, gone : /\ st = cells[m]
                      /\ gone = [i \in Cells |-> IF i \in Hit(st, s, range) THEN {s} ELSE {}]
  OBVIOUS
<1>5. gone \in [Cells -> SUBSET Seqs]
  BY <1>4
<1>6. \A i \in Cells : gone[i] \subseteq st.seqs[i]
  BY <1>4 DEF Hit
<1>7. PICK d : d = RmSeqs(st, gone)
  OBVIOUS
<1>8. d \in Valid(m) /\ Stays(st, d)
  BY <1>1, <1>3, <1>4, <1>5, <1>6, <1>7, RmSeqsStays
<1>9. cells' = [cells EXCEPT ![m] = RmSeqs(@, [i \in Cells |-> IF i \in Hit(@, s, range) THEN {s} ELSE {}])]
  BY <1>2 DEF SeqRm, Edit
<1>10. cells' = [cells EXCEPT ![m] = d]
  BY <1>4, <1>7, <1>9
<1>11. UNCHANGED <<rows, copies, strayed>> /\ ret' = "none" /\ strayed' \in BOOLEAN
  BY DEF SeqRm, Edit, IInv, TypeOK
<1> QED  BY <1>3, <1>4, <1>8, <1>10, <1>11, EditedOne

(* seq_keep.                                                               *)
LEMMA SeqKeepKeeps ==
    ASSUME IInv, ~strayed, UNCHANGED conf, NEW s \in Seqs, SeqKeep(s)
    PROVE  IInv'
<1>1. conf \in Configs /\ \A m \in Streams : cells[m] \in Valid(m)
  BY InvIs
<1>2. PICK m : m = StreamOf(s)
  OBVIOUS
<1>3. m \in Streams
  BY <1>1, <1>2, ConfTypes
<1>4. PICK st, gone : st = cells[m] /\ gone = [i \in Cells |-> st.seqs[i] \ {s}]
  OBVIOUS
<1>5. \A i \in Cells : gone[i] \subseteq st.seqs[i] /\ st.seqs[i] \in SUBSET Seqs
  <2>1. st \in Records
    BY <1>1, <1>3, <1>4 DEF Valid
  <2> QED  BY <1>4, <2>1, RecordIs
<1>6. gone \in [Cells -> SUBSET Seqs]
  BY <1>4, <1>5
<1>7. PICK d : d = RmSeqs(st, gone)
  OBVIOUS
<1>8. d \in Valid(m) /\ Stays(st, d)
  BY <1>1, <1>3, <1>4, <1>5, <1>6, <1>7, RmSeqsStays
<1>9. cells' = [cells EXCEPT ![m] = RmSeqs(@, [i \in Cells |-> @.seqs[i] \ {s}])]
  BY <1>2 DEF SeqKeep, Edit
<1>10. cells' = [cells EXCEPT ![m] = d]
  BY <1>4, <1>7, <1>9
<1>11. UNCHANGED <<rows, copies, strayed>> /\ ret' = "none" /\ strayed' \in BOOLEAN
  BY DEF SeqKeep, Edit, IInv, TypeOK
<1> QED  BY <1>3, <1>4, <1>8, <1>10, <1>11, EditedOne

(* seq_rm of all sequences, in every stream.                               *)
LEMMA SeqRmAllKeeps ==
    ASSUME IInv, ~strayed, UNCHANGED conf, NEW range, SeqRmAll(range)
    PROVE  IInv'
<1>1. conf \in Configs /\ \A m \in Streams : cells[m] \in Valid(m)
  BY InvIs
<1> DEFINE at(m) == UNION {Hit(cells[m], s, range) : s \in Seqs}
<1>2. PICK c : c = [m \in Streams |-> RmSeqs(cells[m], Whole(cells[m], at(m)))]
  OBVIOUS
<1>3. cells' = c
  BY <1>2 DEF SeqRmAll, Edit
<1> HIDE DEF at
<1>4. ASSUME NEW m \in Streams PROVE c[m] \in Valid(m) /\ Stays(cells[m], c[m])
  <2>1. PICK st, gone : st = cells[m] /\ gone = Whole(st, at(m))
    OBVIOUS
  <2>2. c[m] = RmSeqs(st, gone) /\ st \in Valid(m)
    BY <1>1, <1>2, <2>1
  <2>3. gone = [i \in Cells |-> IF i \in at(m) THEN st.seqs[i] ELSE {}]
    BY <2>1 DEF Whole
  <2>4. \A i \in Cells : st.seqs[i] \in SUBSET Seqs
    BY <2>2, RecordIs DEF Valid
  <2>5. gone \in [Cells -> SUBSET Seqs] /\ \A i \in Cells : gone[i] \subseteq st.seqs[i]
    BY <2>3, <2>4
  <2> QED  BY <1>1, <2>1, <2>2, <2>5, RmSeqsStays
<1>5. c \in [Streams -> Records]
  BY <1>2, <1>4 DEF Valid
<1>6. UNCHANGED <<rows, copies, strayed>> /\ ret' = "none" /\ strayed' \in BOOLEAN
  BY DEF SeqRmAll, Edit, IInv, TypeOK
<1> QED  BY <1>3, <1>4, <1>5, <1>6, Edited

(* The cells that seq_add and seq_div move.                                *)
LEMMA HitCells ==
    ASSUME conf \in Configs, NEW m, NEW st \in Valid(m), NEW s, NEW range
    PROVE  /\ Hit(st, s, range) \in SUBSET Cells
           /\ \A i \in Hit(st, s, range) : st.pos[i] \in Positions
<1>1. st \in Records
  BY DEF Valid
<1>2. Occupied(st) = {i \in Cells : st.pos[i] # -1}
  BY <1>1, OccupiedIs
<1>3. \A i \in Cells : st.pos[i] \in {-1} \cup Positions
  BY <1>1, RecordIs
<1> QED  BY <1>2, <1>3 DEF Hit

(* seq_add: a position and the shift of the key move together.             *)
LEMMA SeqAddKeeps ==
    ASSUME IInv, ~strayed, UNCHANGED conf, NEW s \in Seqs, NEW range, NEW n \in Shifts, SeqAdd(s, range, n)
    PROVE  IInv'
<1>1. conf \in Configs /\ \A m \in Streams : cells[m] \in Valid(m)
  BY InvIs
<1>2. PICK m : m = StreamOf(s)
  OBVIOUS
<1>3. m \in Streams
  BY <1>1, <1>2, ConfTypes
<1>4. PICK st, hit : st = cells[m] /\ hit = Hit(st, s, range)
  OBVIOUS
<1>5. PICK to, by : to = [i \in hit |-> st.pos[i] + n] /\ by = [i \in hit |-> n]
  OBVIOUS
<1>6. PICK k, freed : k = MovedTo(st, to, by) /\ freed = Occupied(st) \ Occupied(k)
  OBVIOUS
<1>7. PICK h : h = IF freed = {} THEN 0 ELSE Min(freed)
  OBVIOUS
<1>8. PICK d : d = [k EXCEPT !.head = h]
  OBVIOUS
<1>9. /\ cells' = [cells EXCEPT ![m] = d]
      /\ \A i \in hit : st.pos[i] + n <= conf.maxPos
      /\ UNCHANGED <<rows, copies, strayed>> /\ ret' = "none"
  BY <1>2, <1>4, <1>5, <1>6, <1>7, <1>8 DEF SeqAdd, Edit
<1>10. st \in Valid(m) /\ st \in Records
  BY <1>1, <1>3, <1>4 DEF Valid
<1>11. hit \in SUBSET Cells /\ n \in Int /\ \A i \in hit : st.pos[i] \in Nat
  <2>1. hit \in SUBSET Cells /\ \A i \in hit : st.pos[i] \in Positions
    BY <1>1, <1>4, <1>10, HitCells
  <2>2. Positions \subseteq Nat
    BY <1>1, ConfTypes
  <2>3. n \in Int
    BY KVCellsAssumption
  <2> QED  BY <2>1, <2>2, <2>3
<1>12. to \in [hit -> Int] /\ by \in [hit -> Int]
  <2>1. \A i \in hit : st.pos[i] + n \in Int
    BY <1>11
  <2> QED  BY <1>5, <1>11, <2>1
<1>13. /\ k \in Valid(m)
       /\ Moved(st, hit, to, by, k)
  <2>1. \A i \in hit : st.pos[i] # -1
    BY <1>11
  <2>2. \A i \in hit : to[i] <= conf.maxPos
    BY <1>5, <1>9
  <2> QED  BY <1>1, <1>6, <1>10, <1>11, <1>12, <2>1, <2>2, MovedToValid
<1>14. h \in 0 .. conf.size
  <2>1. freed \subseteq Occupied(st)
    BY <1>6
  <2>2. freed # {} => Min(freed) \in 0 .. conf.size
    BY <1>1, <1>10, <2>1, OccupiedIs
  <2>3. 0 \in 0 .. conf.size
    BY <1>1, ConfTypes
  <2> QED  BY <1>7, <2>2, <2>3
<1>15. d \in Valid(m) /\ d.pos = k.pos /\ d.shift = k.shift
  BY <1>8, <1>13, <1>14, HeadIs
<1>16. Stays(st, d)
  <2>1. ASSUME NEW i \in Cells, k.pos[i] # -1
        PROVE  st.pos[i] # -1 /\ k.pos[i] - k.shift[i] = st.pos[i] - st.shift[i]
    <3>1. CASE i \in hit
      <4>1. k.pos[i] = st.pos[i] + n /\ k.shift[i] = st.shift[i] + n
        BY <1>5, <1>13, <2>1, <3>1 DEF Moved
      <4>2. st.pos[i] \in Nat /\ st.shift[i] \in Int
        BY <1>10, <1>11, <3>1, RecordIs
      <4>3. \A x, y \in Int : (x + n) - (y + n) = x - y
        BY <1>11
      <4>4. PICK x, y : x = st.pos[i] /\ y = st.shift[i]
        OBVIOUS
      <4>5. x \in Nat /\ y \in Int
        BY <4>2, <4>4
      <4>6. (x + n) - (y + n) = x - y /\ x # -1
        BY <4>3, <4>5
      <4> QED  BY <4>1, <4>4, <4>6
    <3>2. CASE i \notin hit
      BY <1>13, <2>1, <3>2 DEF Moved
    <3> QED  BY <3>1, <3>2
  <2> QED  BY <1>15, <2>1 DEF Stays
<1>17. strayed' \in BOOLEAN
  BY <1>9 DEF IInv, TypeOK
<1> QED  BY <1>3, <1>4, <1>9, <1>15, <1>16, <1>17, EditedOne

(* seq_div: the cells are still listed and counted as they should be.      *)
LEMMA SeqDivKeeps ==
    ASSUME IInv, ~strayed, UNCHANGED conf, NEW s \in Seqs, NEW range, SeqDiv(s, range, 2)
    PROVE  IInv'
<1>1. conf \in Configs /\ \A m \in Streams : cells[m] \in Valid(m)
  BY InvIs
<1>2. PICK m : m = StreamOf(s)
  OBVIOUS
<1>3. m \in Streams
  BY <1>1, <1>2, ConfTypes
<1>4. PICK st, hit : st = cells[m] /\ hit = Hit(st, s, range)
  OBVIOUS
<1>5. PICK to, by : /\ to = [i \in hit |-> st.pos[i] \div 2]
                    /\ by = [i \in hit |-> st.pos[i] - st.pos[i] \div 2]
  OBVIOUS
<1>6. PICK d : d = MovedTo(st, to, by)
  OBVIOUS
<1>7. /\ cells' = [cells EXCEPT ![m] = d]
      /\ UNCHANGED <<rows, copies>> /\ ret' = "none" /\ strayed' = TRUE
  BY <1>2, <1>4, <1>5, <1>6 DEF SeqDiv, Edit
<1>8. st \in Valid(m) /\ st \in Records
  BY <1>1, <1>3, <1>4 DEF Valid
<1>9. hit \in SUBSET Cells /\ \A i \in hit : st.pos[i] \in 0 .. conf.maxPos
  BY <1>1, <1>4, <1>8, HitCells, ConfTypes
<1>10. \A i \in hit : st.pos[i] \div 2 \in 0 .. conf.maxPos /\ st.pos[i] - st.pos[i] \div 2 \in Int
  <2>1. conf.maxPos \in Nat
    BY <1>1, ConfTypes
  <2>2. \A x \in 0 .. conf.maxPos : x \div 2 \in 0 .. conf.maxPos /\ x - x \div 2 \in Int
    BY <2>1
  <2> QED  BY <1>9, <2>2
<1>11. to \in [hit -> Int] /\ by \in [hit -> Int] /\ \A i \in hit : to[i] <= conf.maxPos
  <2>1. conf.maxPos \in Nat
    BY <1>1, ConfTypes
  <2>2. \A i \in hit : to[i] \in 0 .. conf.maxPos
    BY <1>5, <1>10
  <2>3. \A x \in 0 .. conf.maxPos : x \in Int /\ x <= conf.maxPos
    BY <2>1
  <2> QED  BY <1>5, <1>10, <2>2, <2>3
<1>12. d \in Valid(m)
  <2>1. \A i \in hit : st.pos[i] # -1
    BY <1>9
  <2> QED  BY <1>1, <1>6, <1>8, <1>9, <1>11, <2>1, MovedToValid
<1> QED  BY <1>3, <1>7, <1>12, EditedOne

(* seq_cp within a stream: if a cell already belongs to the destination,   *)
(* the counters are too high from then on.                                 *)
LEMMA SeqCpSharedKeeps ==
    ASSUME IInv, ~strayed, UNCHANGED conf, NEW s \in Seqs, NEW d \in Seqs, NEW range, SeqCpShared(s, d, range)
    PROVE  IInv'
<1>1. /\ conf \in Configs
      /\ cells \in [Streams -> Records] /\ \A n \in Streams : cells[n] \in Valid(n)
      /\ rows \in Tables /\ copies \in Queues /\ Len(copies) <= MaxCopies
  BY InvIs
<1>2. PICK m : m = StreamOf(s)
  OBVIOUS
<1>3. m \in Streams
  BY <1>1, <1>2, ConfTypes
<1>4. PICK st, hit : st = cells[m] /\ hit = Hit(st, s, range)
  OBVIOUS
<1>5. PICK seqs, put : /\ seqs = [i \in Cells |-> IF i \in hit THEN st.seqs[i] \cup {d} ELSE st.seqs[i]]
                       /\ put = [i \in Cells |-> IF i \in hit THEN {d} ELSE {}]
  OBVIOUS
<1>6. PICK count : count = Tally(st.count, st.pos, put, 1)
  OBVIOUS
<1>7. PICK k : k = [st EXCEPT !.seqs = seqs, !.count = count]
  OBVIOUS
<1>8. /\ StreamOf(d) = m
      /\ cells' = [cells EXCEPT ![m] = k]
      /\ UNCHANGED <<rows, copies>> /\ ret' = "none"
      /\ strayed' = (\E i \in hit : d \in st.seqs[i])
  BY <1>2, <1>4, <1>5, <1>6, <1>7 DEF SeqCpShared, Edit
<1>9. st \in Valid(m) /\ st \in Records /\ Listing(m, st) /\ Counted(st)
  BY <1>1, <1>3, <1>4 DEF Valid
<1>10. hit \in SUBSET Cells /\ \A i \in hit : st.pos[i] # -1 /\ s \in st.seqs[i]
  <2>1. hit \in SUBSET Cells
    BY <1>1, <1>4, <1>9, HitCells
  <2>2. Occupied(st) = {i \in Cells : st.pos[i] # -1}
    BY <1>1, <1>9, OccupiedIs
  <2> QED  BY <1>4, <2>1, <2>2 DEF Hit
<1>11. /\ count \in [Seqs -> [Positions -> Int]]
       /\ \A t \in Seqs, p \in Positions :
            count[t][p] = st.count[t][p] + Cardinality(Where(st.pos, put, t, p))
  <2>1. PICK base, pos : base = st.count /\ pos = st.pos
    OBVIOUS
  <2>2. base \in [Seqs -> [Positions -> Int]]
    BY <1>9, <2>1, RecordIs
  <2>3. count = Tally(base, pos, put, 1)
    BY <1>6, <2>1
  <2>4. /\ count \in [Seqs -> [Positions -> Int]]
        /\ \A t \in Seqs, p \in Positions :
             count[t][p] = base[t][p] + Cardinality(Where(pos, put, t, p))
    BY <1>1, <2>2, <2>3, TallyIs
  <2> QED  BY <2>1, <2>4
<1>12. count \in [Seqs -> [Positions -> Nat]]
  <2>1. st.count \in [Seqs -> [Positions -> Nat]]
    BY <1>1, <1>9, CountIs
  <2>2. ASSUME NEW t \in Seqs, NEW p \in Positions PROVE count[t][p] \in Nat
    <3>1. PICK x, y : x = st.count[t][p] /\ y = Cardinality(Where(st.pos, put, t, p))
      OBVIOUS
    <3>2. x \in Nat /\ y \in Nat
      BY <1>1, <2>1, <3>1, WhereFinite
    <3>3. x + y \in Nat
      BY <3>2
    <3> QED  BY <1>11, <3>1, <3>3
  <2>3. \A t \in Seqs : count[t] \in [Positions -> Nat]
    <3>1. \A t \in Seqs : count[t] \in [Positions -> Int]
      BY <1>11
    <3> QED  BY <2>2, <3>1
  <2> QED  BY <1>11, <2>3
<1>13. seqs \in [Cells -> SUBSET Seqs]
  <2>1. \A i \in Cells : st.seqs[i] \in SUBSET Seqs
    BY <1>9, RecordIs
  <2>2. \A i \in Cells : seqs[i] \in SUBSET Seqs
    BY <1>5, <2>1
  <2> QED  BY <1>5, <2>2
<1>14. k = [pos |-> st.pos, seqs |-> seqs, shift |-> st.shift, count |-> count, head |-> st.head]
  <2>1. PICK g : g = [pos |-> st.pos, seqs |-> seqs, shift |-> st.shift, count |-> st.count, head |-> st.head]
    OBVIOUS
  <2>2. g = [st EXCEPT !.seqs = seqs]
    BY <1>9, <2>1, RecordIs
  <2>3. k = [g EXCEPT !.count = count]
    BY <1>7, <2>2
  <2> QED  BY <2>1, <2>3
<1>15. k \in Records
  BY <1>9, <1>11, <1>13, <1>14, RecordIs DEF Records
<1>16. k.pos = st.pos /\ k.seqs = seqs /\ k.shift = st.shift /\ k.count = count
  BY <1>14
<1>17. Listing(m, k)
  <2>1. \A i \in Cells : i \in hit => seqs[i] = st.seqs[i] \cup {d}
    BY <1>5
  <2>2. \A i \in Cells : i \notin hit => seqs[i] = st.seqs[i]
    BY <1>5
  <2> QED  BY <1>8, <1>9, <1>10, <1>16, <2>1, <2>2 DEF Listing
<1>18. CASE strayed'
  <2>1. PICK c : c = [cells EXCEPT ![m] = k]
    OBVIOUS
  <2>2. c = [n \in Streams |-> c[n]] /\ \A n \in Streams : c[n] = IF n = m THEN k ELSE cells[n]
    BY <1>1, <2>1
  <2>3. \A n \in Streams : /\ c[n] \in Records /\ Listing(n, c[n])
                           /\ c[n].count \in [Seqs -> [Positions -> Nat]]
    <3>1. ASSUME NEW n \in Streams, n # m
          PROVE  /\ cells[n] \in Records /\ Listing(n, cells[n])
                 /\ cells[n].count \in [Seqs -> [Positions -> Nat]]
      BY <1>1, CountIs DEF Valid
    <3> QED  BY <1>12, <1>15, <1>16, <1>17, <2>2, <3>1
  <2>4. c \in [Streams -> Records]
    BY <2>2, <2>3
  <2>5. rows' = rows /\ copies' = copies /\ cells' = c /\ strayed' \in BOOLEAN
        /\ ret' \in {"none", "ok", "refused", "failed"}
    BY <1>8, <2>1
  <2> QED  BY <1>1, <1>18, <2>3, <2>4, <2>5, InvHolds
<1>19. CASE ~strayed'
  <2>1. \A i \in hit : d \notin st.seqs[i]
    BY <1>8, <1>19
  <2>2. ASSUME NEW t \in Seqs, NEW p \in Positions
        PROVE  k.count[t][p] = Cardinality(Where(k.pos, k.seqs, t, p))
    <3>1. PICK A, B : A = Where(st.pos, st.seqs, t, p) /\ B = Where(st.pos, put, t, p)
      OBVIOUS
    <3>2. /\ IsFiniteSet(A) /\ Cardinality(A) \in Nat
          /\ IsFiniteSet(B) /\ Cardinality(B) \in Nat
      BY <1>1, <3>1, WhereFinite
    <3>3. A \cap B = {} /\ Where(k.pos, k.seqs, t, p) = A \cup B
      <4>1. A \subseteq Cells /\ B \subseteq Cells /\ Where(st.pos, seqs, t, p) \subseteq Cells
        BY <3>1 DEF Where
      <4>2. \A i \in Cells : i \in A <=> st.pos[i] = p /\ t \in st.seqs[i]
        BY <3>1 DEF Where
      <4>3. \A i \in Cells : i \in B <=> st.pos[i] = p /\ i \in hit /\ t = d
        BY <1>5, <3>1 DEF Where
      <4>4. \A i \in Cells : i \in Where(st.pos, seqs, t, p)
                             <=> st.pos[i] = p /\ (t \in st.seqs[i] \/ (i \in hit /\ t = d))
        BY <1>5 DEF Where
      <4>5. \A i \in Cells : ~(i \in A /\ i \in B)
        BY <2>1, <4>2, <4>3
      <4>6. \A i \in Cells : i \in Where(st.pos, seqs, t, p) <=> i \in A \/ i \in B
        BY <4>2, <4>3, <4>4
      <4> QED  BY <1>16, <4>1, <4>5, <4>6
    <3>4. Cardinality(A \cup B) = Cardinality(A) + Cardinality(B)
      <4>1. Cardinality(A \cup B) = Cardinality(A) + Cardinality(B) - Cardinality(A \cap B)
        BY <3>2, FS_Union
      <4>2. Cardinality(A \cap B) = 0
        BY <3>3, FS_EmptySet
      <4> QED  BY <3>2, <4>1, <4>2
    <3>5. k.count[t][p] = st.count[t][p] + Cardinality(B)
      BY <1>11, <1>16, <3>1
    <3>6. st.count[t][p] = Cardinality(A)
      BY <1>9, <3>1 DEF Counted
    <3> QED  BY <3>3, <3>4, <3>5, <3>6
  <2>3. k \in Valid(m)
    BY <1>15, <1>17, <2>2 DEF Valid, Counted
  <2>4. Stays(st, k)
    BY <1>16 DEF Stays
  <2>5. strayed' \in BOOLEAN
    BY <1>8
  <2> QED  BY <1>3, <1>4, <1>8, <2>3, <2>4, <2>5, EditedOne
<1> QED  BY <1>18, <1>19

(* The cells of a stream after clear().                                    *)
LEMMA NoCellsIs ==
    ASSUME conf \in Configs, NEW m
    PROVE  /\ NoCells \in Valid(m) /\ NoCells.head = 0
           /\ \A i \in Cells : NoCells.pos[i] = -1 /\ NoCells.seqs[i] = {} /\ NoCells.shift[i] = 0
<1>1. PICK pos, seqs, shift, count : /\ pos = [i \in Cells |-> -1]
                                     /\ seqs = [i \in Cells |-> {}]
                                     /\ shift = [i \in Cells |-> 0]
                                     /\ count = [s \in Seqs |-> [p \in Positions |-> 0]]
  OBVIOUS
<1>2. PICK k : k = [pos |-> pos, seqs |-> seqs, shift |-> shift, count |-> count, head |-> 0]
  OBVIOUS
<1>3. k = NoCells
  BY <1>1, <1>2 DEF NoCells
<1>4. /\ pos \in [Cells -> {-1} \cup Positions] /\ seqs \in [Cells -> SUBSET Seqs]
      /\ shift \in [Cells -> Int] /\ count \in [Seqs -> [Positions -> Int]]
  BY <1>1
<1>5. 0 \in 0 .. conf.size
  BY ConfTypes
<1>6. k \in Records
  BY <1>2, <1>4, <1>5 DEF Records
<1>7. \A i \in Cells : k.pos[i] = -1 /\ k.seqs[i] = {} /\ k.shift[i] = 0
  BY <1>1, <1>2
<1>8. Listing(m, k)
  BY <1>7 DEF Listing
<1>9. ASSUME NEW s \in Seqs, NEW p \in Positions
      PROVE  k.count[s][p] = Cardinality(Where(k.pos, k.seqs, s, p))
  <2>1. Where(k.pos, k.seqs, s, p) = {}
    BY <1>7 DEF Where
  <2>2. k.count[s][p] = 0
    BY <1>1, <1>2
  <2> QED  BY <2>1, <2>2, FS_EmptySet
<1>10. k \in Valid(m)
  BY <1>6, <1>8, <1>9 DEF Valid, Counted
<1> QED  BY <1>2, <1>3, <1>7, <1>10

(* seq_cp between streams: the cells take the pending shifts along, and    *)
(* the rows are copied before they are rotated.                            *)
LEMMA SeqCpStreamKeeps ==
    ASSUME IInv, ~strayed, UNCHANGED conf, NEW s \in Seqs, NEW d \in Seqs, SeqCpStream(s, d)
    PROVE  IInv'
<1>1. /\ conf \in Configs
      /\ cells \in [Streams -> Records] /\ \A n \in Streams : cells[n] \in Valid(n)
      /\ rows \in Tables /\ copies \in Queues /\ Len(copies) <= MaxCopies
      /\ Ropes(cells, rows, copies)
  BY InvIs
<1>2. PICK m, n : m = StreamOf(s) /\ n = StreamOf(d)
  OBVIOUS
<1>3. m \in Streams /\ n \in Streams
  BY <1>1, <1>2, ConfTypes
<1>4. PICK src : src = cells[m]
  OBVIOUS
<1>5. PICK own : own = {i \in Cells : s \in src.seqs[i]}
  OBVIOUS
<1>6. PICK new : new = [i \in own |-> [pos |-> src.pos[i], seqs |-> {d}]]
  OBVIOUS
<1>7. PICK f, h : f = Fill(NoCells, new) /\ h = [i \in Cells |-> IF i \in own THEN src.shift[i] ELSE 0]
  OBVIOUS
<1>8. PICK k : k = [f EXCEPT !.shift = h, !.head = src.head]
  OBVIOUS
<1>9. /\ Len(copies) < MaxCopies
      /\ copies' = Append(copies, <<m, n>>)
      /\ cells' = [cells EXCEPT ![n] = k]
      /\ UNCHANGED <<rows, strayed>> /\ ret' = "none"
  BY <1>2, <1>4, <1>5, <1>6, <1>7, <1>8 DEF SeqCpStream, Edit
<1>10. src \in Valid(m) /\ src \in Records /\ Listing(m, src)
  BY <1>1, <1>3, <1>4 DEF Valid
<1>11. \A i \in own : i \in Cells /\ src.pos[i] # -1 /\ src.pos[i] \in Positions
  <2>1. \A i \in own : i \in Cells /\ src.pos[i] # -1
    BY <1>5, <1>10 DEF Listing
  <2> QED  BY <1>10, <2>1, RecordIs
<1>12. DOMAIN new = own /\ \A i \in own : new[i].pos = src.pos[i] /\ new[i].seqs = {d}
  BY <1>6
<1>13. Proper(n, own, new)
  <2>1. own \in SUBSET Cells
    BY <1>11
  <2>2. Contents(own, new)
    BY <1>11, <1>12 DEF Contents
  <2>3. \A i \in own : /\ new[i].seqs = {} <=> new[i].pos = -1
                       /\ \A x \in new[i].seqs : StreamOf(x) = n
    BY <1>2, <1>11, <1>12
  <2> QED  BY <2>1, <2>2, <2>3 DEF Proper
<1>14. /\ f \in Valid(n)
       /\ \A i \in Cells : f.pos[i] = IF i \in own THEN new[i].pos ELSE -1
  <2>1. PICK no : no = NoCells
    OBVIOUS
  <2>2. no \in Valid(n) /\ \A i \in Cells : no.pos[i] = -1 /\ no.seqs[i] = {}
    BY <1>1, <2>1, NoCellsIs
  <2>3. \A i \in own : no.seqs[i] = {}
    BY <1>11, <2>2
  <2>4. f = Fill(no, new)
    BY <1>7, <2>1
  <2>5. f \in Valid(n) /\ \A i \in Cells : f.pos[i] = IF i \in own THEN new[i].pos ELSE no.pos[i]
    BY <1>1, <1>13, <2>2, <2>3, <2>4, FillValid
  <2> QED  BY <2>2, <2>5
<1>15. h \in [Cells -> Int]
  <2>1. \A i \in Cells : src.shift[i] \in Int
    BY <1>10, RecordIs
  <2>2. \A i \in Cells : h[i] \in Int
    BY <1>7, <2>1
  <2> QED  BY <1>7, <2>2
<1>16. k \in Valid(n) /\ k.pos = f.pos /\ k.shift = h
  <2>1. PICK g : g = [f EXCEPT !.shift = h]
    OBVIOUS
  <2>2. g \in Valid(n) /\ g.pos = f.pos /\ g.shift = h
    BY <1>14, <1>15, <2>1, ShiftIs
  <2>3. PICK e : e = [g EXCEPT !.head = src.head]
    OBVIOUS
  <2>4. e \in Valid(n) /\ e.pos = g.pos /\ e.shift = g.shift
    BY <1>10, <2>2, <2>3, HeadIs, RecordIs
  <2>5. e = k
    BY <1>8, <1>14, <2>1, <2>3, RecordIs DEF Valid
  <2> QED  BY <2>2, <2>4, <2>5
<1>17. PICK c : c = [cells EXCEPT ![n] = k]
  OBVIOUS
<1>18. c = [x \in Streams |-> c[x]] /\ \A x \in Streams : c[x] = IF x = n THEN k ELSE cells[x]
  BY <1>1, <1>17
<1>19. \A x \in Streams : c[x] \in Valid(x) /\ c[x] \in Records
  BY <1>1, <1>16, <1>18 DEF Valid
<1>20. c \in [Streams -> Records]
  BY <1>18, <1>19
<1>21. PICK q, at : q = Append(copies, at) /\ at = <<m, n>>
  OBVIOUS
<1>22. at \in Streams \X Streams /\ at[1] = m /\ at[2] = n
  BY <1>3, <1>21
<1>23. q \in Queues /\ Len(q) <= MaxCopies
  <2>1. q \in Queues /\ Len(q) = Len(copies) + 1 /\ Len(copies) \in Nat
    BY <1>1, <1>21, <1>22, AppendProperties, LenProperties DEF Queues
  <2>2. PICK l : l = Len(copies)
    OBVIOUS
  <2>3. l \in Nat /\ l < MaxCopies /\ MaxCopies \in Nat
    BY <1>9, <2>1, <2>2, KVCellsAssumption
  <2>4. l + 1 <= MaxCopies
    BY <2>3
  <2> QED  BY <2>1, <2>2, <2>4
<1>24. Ropes(c, rows, q)
  <2>1. PICK t, u : t = Copied(rows, copies) /\ u = Copied(rows, q)
    OBVIOUS
  <2>2. t \in Tables /\ u = Copy(t, at)
    BY <1>1, <1>21, <1>22, <2>1, CopiedIs
  <2>3. \A x \in Streams : u[x] = IF x = n THEN t[m] ELSE t[x]
    BY <1>3, <1>22, <2>2 DEF Copy, Tables
  <2>4. ASSUME NEW x \in Streams, NEW i \in Cells, c[x].pos[i] # -1
        PROVE  u[x][i].rope + c[x].shift[i] = c[x].pos[i]
    <3>1. CASE x = n
      <4>1. i \in own /\ k.pos[i] = src.pos[i]
        BY <1>12, <1>14, <1>16, <1>18, <2>4, <3>1
      <4>2. k.shift[i] = src.shift[i]
        BY <1>7, <1>16, <4>1
      <4>3. t[m][i].rope + src.shift[i] = src.pos[i]
        BY <1>1, <1>3, <1>4, <1>11, <2>1, <4>1 DEF Ropes
      <4> QED  BY <1>18, <2>3, <3>1, <4>1, <4>2, <4>3
    <3>2. CASE x # n
      <4>1. t[x][i].rope + cells[x].shift[i] = cells[x].pos[i]
        BY <1>1, <1>18, <2>1, <2>4, <3>2 DEF Ropes
      <4> QED  BY <1>18, <2>3, <3>2, <4>1
    <3> QED  BY <3>1, <3>2
  <2> QED  BY <2>1, <2>4 DEF Ropes
<1>25. /\ cells' = c /\ rows' = rows /\ copies' = q
       /\ strayed' \in BOOLEAN /\ ret' \in {"none", "ok", "refused", "failed"}
  BY <1>9, <1>17, <1>21 DEF IInv, TypeOK
<1> QED  BY <1>1, <1>19, <1>20, <1>23, <1>24, <1>25, ValidHolds
-----------------------------------------------------------------------------
(* decode() first makes the pending copies and rotates the keys: no shift  *)
(* is pending then.                                                        *)
LEMMA ShiftedIs ==
    ASSUME IInv, ~strayed, NEW t, t = Rotated(Copied(rows, copies))
    PROVE  Shifted \in States /\ t \in Tables /\ Told(Shifted, t)
<1>1. /\ conf \in Configs
      /\ cells \in [Streams -> Records] /\ \A m \in Streams : cells[m] \in Valid(m)
      /\ rows \in Tables /\ copies \in Queues
      /\ Ropes(cells, rows, copies)
  BY InvIs
<1>2. PICK r : r = Copied(rows, copies)
  OBVIOUS
<1>3. r \in Tables
  BY <1>1, <1>2, CopiedIs
<1>4. PICK none : none = [i \in Cells |-> 0]
  OBVIOUS
<1>5. none \in [Cells -> Int] /\ \A i \in Cells : none[i] = 0
  BY <1>4
<1>6. PICK a : a = Shifted
  OBVIOUS
<1>7. a = [m \in Streams |-> [cells[m] EXCEPT !.shift = none]]
  BY <1>4, <1>6 DEF Shifted
<1>8. ASSUME NEW m \in Streams
      PROVE  a[m] \in Valid(m) /\ a[m].pos = cells[m].pos /\ a[m].shift = none
  <2>1. a[m] = [cells[m] EXCEPT !.shift = none]
    BY <1>7
  <2> QED  BY <1>1, <1>5, <2>1, ShiftIs
<1>9. a \in States
  <2>1. \A m \in Streams : a[m] \in Records
    BY <1>8 DEF Valid
  <2>2. a \in [Streams -> Records]
    BY <1>7, <2>1
  <2> QED  BY <1>5, <1>8, <2>2 DEF States
<1>10. t = [m \in Streams |-> [i \in Cells |-> [r[m][i] EXCEPT !.rope = @ + cells[m].shift[i]]]]
  BY <1>2 DEF Rotated
<1>11. ASSUME NEW m \in Streams, NEW i \in Cells
       PROVE  /\ t[m][i] \in [tok : Seqs \cup {-1}, rope : Int]
              /\ t[m][i].rope = r[m][i].rope + cells[m].shift[i]
  <2>1. PICK x, y : x = r[m][i] /\ y = cells[m].shift[i]
    OBVIOUS
  <2>2. x \in [tok : Seqs \cup {-1}, rope : Int]
    BY <1>3, <2>1 DEF Tables
  <2>3. y \in Int
    BY <1>1, <2>1, RecordIs
  <2>4. t[m][i] = [x EXCEPT !.rope = @ + y]
    BY <1>10, <2>1
  <2>5. x.rope + y \in Int
    BY <2>2, <2>3
  <2> QED  BY <2>1, <2>2, <2>4, <2>5
<1>12. t \in Tables
  <2>1. \A m \in Streams : t[m] \in [Cells -> [tok : Seqs \cup {-1}, rope : Int]]
    <3>1. ASSUME NEW m \in Streams PROVE t[m] \in [Cells -> [tok : Seqs \cup {-1}, rope : Int]]
      <4>1. t[m] = [i \in Cells |-> t[m][i]]
        BY <1>10
      <4>2. \A i \in Cells : t[m][i] \in [tok : Seqs \cup {-1}, rope : Int]
        BY <1>11
      <4> QED  BY <4>1, <4>2
    <3> QED  BY <3>1
  <2>2. t = [m \in Streams |-> t[m]]
    BY <1>10
  <2> QED  BY <2>1, <2>2 DEF Tables
<1>13. Told(a, t)
  <2>1. ASSUME NEW m \in Streams, NEW i \in Cells, a[m].pos[i] # -1 PROVE t[m][i].rope = a[m].pos[i]
    <3>1. a[m].pos[i] = cells[m].pos[i]
      BY <1>8
    <3>2. r[m][i].rope + cells[m].shift[i] = cells[m].pos[i]
      BY <1>1, <1>2, <2>1, <3>1 DEF Ropes
    <3> QED  BY <1>11, <3>1, <3>2
  <2> QED  BY <2>1 DEF Told
<1> QED  BY <1>6, <1>9, <1>12, <1>13

(* The state that decode() leaves.                                         *)
LEMMA DecodedHolds ==
    ASSUME conf \in Configs, UNCHANGED conf, NEW c \in States, NEW r \in Tables, Told(c, r),
           cells' = c, rows' = r, copies' = <<>>,
           ret' \in {"none", "ok", "refused", "failed"}, strayed' \in BOOLEAN
    PROVE  IInv'
<1>1. /\ c \in [Streams -> Records] /\ \A m \in Streams : c[m] \in Valid(m)
      /\ \A m \in Streams, i \in Cells : c[m].shift[i] = 0
  BY DEF States
<1>2. PICK q : q = <<>>
  OBVIOUS
<1>3. q \in Queues /\ Len(q) <= MaxCopies
  <2>1. MaxCopies \in Nat
    BY KVCellsAssumption
  <2>2. q \in Queues
    BY <1>2 DEF Queues
  <2>3. Len(q) = 0
    BY <1>2
  <2>4. 0 <= MaxCopies
    BY <2>1
  <2> QED  BY <2>2, <2>3, <2>4
<1>4. Ropes(c, r, q)
  <2>1. Copied(r, q) = r
    BY <1>2, <1>3, CopiedIs
  <2>2. ASSUME NEW m \in Streams, NEW i \in Cells, c[m].pos[i] # -1
        PROVE  r[m][i].rope + c[m].shift[i] = c[m].pos[i]
    <3>1. r[m][i].rope = c[m].pos[i]
      BY <2>2 DEF Told
    <3>2. r[m][i].rope \in Int
      BY DEF Tables
    <3>3. \A x \in Int : x + 0 = x
      OBVIOUS
    <3> QED  BY <1>1, <3>1, <3>2, <3>3
  <2> QED  BY <2>1, <2>2 DEF Ropes
<1> QED  BY <1>1, <1>2, <1>3, <1>4, ValidHolds

(* The last position of a sequence, or -1.                                 *)
LEMMA SeqPosMaxIs ==
    ASSUME conf \in Configs, NEW st, NEW s
    PROVE  SeqPosMax(st, s) \in Int /\ SeqPosMax(st, s) >= -1
<1>1. PICK S, n : S = {-1} \cup Present(st, s) /\ n = conf.maxPos
  OBVIOUS
<1>2. n \in Nat /\ Present(st, s) \subseteq 0 .. n
  BY <1>1, ConfTypes DEF Present
<1>3. S \in SUBSET (-1 .. n) /\ S # {} /\ -1 \in S
  BY <1>1, <1>2
<1>4. Max(S) \in S /\ \A x \in S : x <= Max(S)
  BY <1>2, <1>3, MaxIn
<1>5. Max(S) \in Int /\ -1 <= Max(S)
  <2>1. Max(S) \in -1 .. n /\ -1 <= Max(S)
    BY <1>3, <1>4
  <2>2. \A x \in -1 .. n : x \in Int
    BY <1>2
  <2> QED  BY <2>1, <2>2
<1>6. SeqPosMax(st, s) = Max(S)
  BY <1>1 DEF SeqPosMax
<1>7. \A x \in Int : -1 <= x => x >= -1
  OBVIOUS
<1> QED  BY <1>5, <1>6, <1>7

(* decode(): whichever way it ends, the keys are those of the positions.   *)
LEMMA DecodeKeeps ==
    ASSUME IInv, ~strayed, UNCHANGED conf, NEW b \in conf.batches, Decode(b)
    PROVE  IInv'
<1>1. conf \in Configs
  BY DEF IInv, TypeOK
<1>2. PICK first, last : /\ first = [s \in Seqs |-> SeqPosMin(cells[StreamOf(s)], s)]
                         /\ last = [s \in Seqs |-> SeqPosMax(cells[StreamOf(s)], s)]
  OBVIOUS
<1>3. PICK w, t : w = Memory!Placed(last, b) /\ t = Rotated(Copied(rows, copies))
  OBVIOUS
<1>4. PICK p : p = Prepared(Shifted, w)
  OBVIOUS
<1> DEFINE After(n, failed) == Processed(p.cells, t, p.slots, w, failed)[n]
<1>5. /\ Memory!Accepted(w, first, last)
      /\ copies' = <<>>
      /\ UNCHANGED strayed
      /\ \/ /\ ~p.ok
            /\ ret' = "refused"
            /\ cells' = p.cells
            /\ rows' = t
         \/ /\ p.ok
            /\ ret' = "ok"
            /\ cells' = After(Len(b), 0).cells
            /\ rows' = After(Len(b), 0).rows
         \/ /\ p.ok
            /\ ret' = "failed"
            /\ \E n \in 1 .. Len(b) : /\ cells' = RolledBack(After(n, n).cells, w[n])
                                      /\ rows' = After(n, n).rows
  BY <1>2, <1>3, <1>4, SMTT(30) DEF Decode
<1> HIDE DEF After
<1>6. Shifted \in States /\ t \in Tables /\ Told(Shifted, t)
  BY <1>3, ShiftedIs
<1>7. w \in Seq(Seq(Token)) /\ Len(w) = Len(b) /\ Len(b) \in Nat
  <2>1. \A s \in Seqs : last[s] \in Int /\ last[s] >= -1
    BY <1>1, <1>2, SeqPosMaxIs
  <2>2. w \in Seq(Seq(Token)) /\ Len(w) = Len(b)
    BY <1>1, <1>3, <1>5, <2>1, PlacedIs
  <2> QED  BY <2>2, LenProperties
<1>8. /\ p.cells \in States /\ Within(p.cells, Shifted)
      /\ p.ok => \A k \in 1 .. Len(w) : Slots(w[k], p.slots[k])
  BY <1>1, <1>4, <1>6, <1>7, PreparedIs
<1>9. Told(p.cells, t)
  BY <1>6, <1>8 DEF Told, Within
<1>10. ASSUME p.ok, NEW failed, NEW n \in 0 .. Len(b)
       PROVE  /\ After(n, failed).cells \in States /\ After(n, failed).rows \in Tables
              /\ Told(After(n, failed).cells, After(n, failed).rows)
  <2>1. PICK a, slots, f : a = p.cells /\ slots = p.slots /\ f = Processed(a, t, slots, w, failed)
    OBVIOUS
  <2>2. a \in States /\ Told(a, t) /\ \A k \in 1 .. Len(w) : Slots(w[k], slots[k])
    BY <1>8, <1>9, <1>10, <2>1
  <2>3. n \in 0 .. Len(w)
    BY <1>7
  <2>4. f[n].cells \in States /\ f[n].rows \in Tables /\ Told(f[n].cells, f[n].rows)
    BY <1>1, <1>6, <1>7, <2>1, <2>2, <2>3, ProcessedIs
  <2>5. f[n] = After(n, failed)
    BY <2>1 DEF After
  <2> QED  BY <2>4, <2>5
<1>11. strayed' \in BOOLEAN
  BY <1>5 DEF IInv, TypeOK
<1>12. CASE ret' = "refused"
  <2>1. cells' = p.cells /\ rows' = t
    BY <1>5, <1>12
  <2> QED  BY <1>1, <1>5, <1>6, <1>8, <1>9, <1>11, <1>12, <2>1, DecodedHolds
<1>13. CASE ret' = "ok"
  <2>1. p.ok /\ cells' = After(Len(b), 0).cells /\ rows' = After(Len(b), 0).rows
    BY <1>5, <1>13
  <2>2. Len(b) \in 0 .. Len(b)
    BY <1>7
  <2>3. /\ cells' \in States /\ rows' \in Tables /\ Told(cells', rows')
    BY <1>10, <2>1, <2>2
  <2>4. PICK c, r : c = cells' /\ r = rows'
    OBVIOUS
  <2> QED  BY <1>1, <1>5, <1>11, <1>13, <2>3, <2>4, DecodedHolds
<1>14. CASE ret' = "failed"
  <2>1. PICK n \in 1 .. Len(b) : p.ok /\ cells' = RolledBack(After(n, n).cells, w[n]) /\ rows' = After(n, n).rows
    BY <1>5, <1>14
  <2>2. n \in 0 .. Len(b)
    BY <1>7
  <2>3. PICK a, r, u : a = After(n, n).cells /\ r = After(n, n).rows /\ u = w[n]
    OBVIOUS
  <2>4. a \in States /\ r \in Tables /\ Told(a, r)
    BY <1>10, <2>1, <2>2, <2>3
  <2>5. PICK c : c = RolledBack(a, u)
    OBVIOUS
  <2>6. c \in States /\ Within(c, a)
    BY <1>1, <2>4, <2>5, RolledBackIs
  <2>7. Told(c, r)
    BY <2>4, <2>6 DEF Told, Within
  <2>8. cells' = c /\ rows' = r
    BY <2>1, <2>3, <2>5
  <2> QED  BY <1>1, <1>5, <1>11, <1>14, <2>4, <2>6, <2>7, <2>8, DecodedHolds
<1> QED  BY <1>5, <1>12, <1>13, <1>14
-----------------------------------------------------------------------------
(* clear(): no cell is occupied.                                           *)
LEMMA ClearKeeps ==
    ASSUME IInv, UNCHANGED conf, Clear
    PROVE  IInv'
<1>1. conf \in Configs
  BY DEF IInv, TypeOK
<1>2. PICK c : c = [m \in Streams |-> NoCells]
  OBVIOUS
<1>3. \A m \in Streams : c[m] \in Valid(m) /\ c[m] \in Records /\ \A i \in Cells : c[m].pos[i] = -1
  BY <1>1, <1>2, NoCellsIs DEF Valid
<1>4. c \in [Streams -> Records]
  BY <1>2, <1>3
<1>5. rows \in Tables /\ copies \in Queues /\ Len(copies) <= MaxCopies
  BY DEF IInv, TypeOK, Tables, Queues
<1>6. Ropes(c, rows, copies)
  BY <1>3 DEF Ropes
<1>7. /\ cells' = c /\ rows' = rows /\ copies' = copies
      /\ ret' \in {"none", "ok", "refused", "failed"} /\ strayed' \in BOOLEAN
  BY <1>2 DEF Clear
<1> QED  BY <1>1, <1>3, <1>4, <1>5, <1>6, <1>7, ValidHolds

(* The invariant of every reachable state.                                 *)
LEMMA InitCells == Init => IInv
<1>1. SUFFICES ASSUME Init PROVE IInv
  OBVIOUS
<1>2. conf \in Configs
  BY <1>1 DEF Init
<1>3. cells = [m \in Streams |-> NoCells]
  BY <1>1 DEF Init
<1>4. \A m \in Streams : /\ cells[m] \in Valid(m) /\ cells[m] \in Records
                         /\ \A i \in Cells : cells[m].pos[i] = -1
  BY <1>2, <1>3, NoCellsIs DEF Valid
<1>5. TypeOK
  <2>1. PICK R : R = [pos : [Cells -> {-1} \cup Positions], seqs : [Cells -> SUBSET Seqs],
                      shift : [Cells -> Int], count : [Seqs -> [Positions -> Nat]], head : 0 .. conf.size]
    OBVIOUS
  <2>2. ASSUME NEW m \in Streams PROVE cells[m] \in R
    <3>1. PICK st : st = cells[m]
      OBVIOUS
    <3>2. st \in Records /\ st.count \in [Seqs -> [Positions -> Nat]]
      BY <1>2, <1>4, <3>1, CountIs
    <3>3. st \in R
      BY <2>1, <3>2, RecordIs
    <3> QED  BY <3>1, <3>3
  <2>3. cells \in [Streams -> R]
    BY <1>3, <2>2
  <2>4. \A m \in Streams : Listing(m, cells[m])
    BY <1>4 DEF Valid
  <2>5. rows \in [Streams -> [Cells -> [tok : Seqs \cup {-1}, rope : Int]]]
    BY <1>1 DEF Init, NoRow
  <2>6. copies \in Seq(Streams \X Streams) /\ Len(copies) <= MaxCopies
    <3>1. MaxCopies \in Nat /\ copies = <<>>
      BY <1>1, KVCellsAssumption DEF Init
    <3>2. 0 <= MaxCopies
      BY <3>1
    <3> QED  BY <3>1, <3>2
  <2>7. ret = "none" /\ strayed = FALSE
    BY <1>1 DEF Init
  <2> QED  BY <1>2, <2>1, <2>3, <2>4, <2>5, <2>6, <2>7 DEF TypeOK, Listing
<1>6. CountsAgree
  <2>1. ASSUME NEW m \in Streams, NEW s \in Seqs, NEW p \in Positions
        PROVE  cells[m].count[s][p] = Cardinality(Hit(cells[m], s, <<p, p + 1>>))
    <3>1. cells[m] \in Records /\ Counted(cells[m])
      BY <1>4 DEF Valid
    <3>2. Hit(cells[m], s, <<p, p + 1>>) = Where(cells[m].pos, cells[m].seqs, s, p)
      BY <1>2, <3>1, HitIs
    <3> QED  BY <3>1, <3>2 DEF Counted
  <2> QED  BY <2>1 DEF CountsAgree
<1>7. RopeAgrees
  <2>1. Held = {}
    <3>1. \A m \in Streams : Occupied(cells[m]) = {}
      BY <1>2, <1>4, OccupiedIs
    <3> QED  BY <3>1 DEF Held
  <2> QED  BY <2>1 DEF RopeAgrees
<1> QED  BY <1>5, <1>6, <1>7 DEF IInv

(* ... one step, call by call.                                             *)
LEMMA NextCells == IInv /\ [Next]_vars => IInv'
<1>1. SUFFICES ASSUME IInv, [Next]_vars PROVE IInv'
  OBVIOUS
<1>2. CASE UNCHANGED vars
  <2>1. /\ conf' = conf /\ cells' = cells /\ rows' = rows
        /\ copies' = copies /\ ret' = ret /\ strayed' = strayed
    BY <1>2 DEF vars
  <2> QED  BY <1>1, <2>1 DEF IInv, TypeOK, CountsAgree, RopeAgrees, Held, Key, Streams, Cells, Positions, StreamOf
<1>3. CASE Next
  <2>1. UNCHANGED conf
    BY <1>3 DEF Next
  <2>2. CASE Clear
    BY <1>1, <2>1, <2>2, ClearKeeps
  <2>3. ASSUME ~strayed, NEW b \in conf.batches, Decode(b) PROVE IInv'
    BY <1>1, <2>1, <2>3, DecodeKeeps
  <2>4. ASSUME ~strayed, NEW s \in Seqs, NEW range, SeqRm(s, range) PROVE IInv'
    BY <1>1, <2>1, <2>4, SeqRmKeeps
  <2>5. ASSUME ~strayed, NEW s \in Seqs, NEW d \in Seqs, NEW range, SeqCpShared(s, d, range) PROVE IInv'
    BY <1>1, <2>1, <2>5, SeqCpSharedKeeps
  <2>6. ASSUME ~strayed, NEW s \in Seqs, NEW range, NEW n \in Shifts, SeqAdd(s, range, n) PROVE IInv'
    BY <1>1, <2>1, <2>6, SeqAddKeeps
  <2>7. ASSUME ~strayed, NEW s \in Seqs, NEW range, SeqDiv(s, range, 2) PROVE IInv'
    BY <1>1, <2>1, <2>7, SeqDivKeeps
  <2>8. ASSUME ~strayed, NEW range, SeqRmAll(range) PROVE IInv'
    BY <1>1, <2>1, <2>8, SeqRmAllKeeps
  <2>9. ASSUME ~strayed, NEW s \in Seqs, SeqKeep(s) PROVE IInv'
    BY <1>1, <2>1, <2>9, SeqKeepKeeps
  <2>10. ASSUME ~strayed, NEW s \in Seqs, NEW d \in Seqs, SeqCpStream(s, d) PROVE IInv'
    BY <1>1, <2>1, <2>10, SeqCpStreamKeeps
  <2> QED  BY <1>3, <2>2, <2>3, <2>4, <2>5, <2>6, <2>7, <2>8, <2>9, <2>10 DEF Next
<1> QED  BY <1>1, <1>2, <1>3

(* ... and of all behaviours.                                              *)
LEMMA CellsInv == Spec => []IInv
<1> QED  BY InitCells, NextCells, PTL DEF Spec

(* The cells have their types: a cell is empty exactly if it lists no      *)
(* sequence, and it lists sequences of its own stream only, whatever slots *)
(* prepare() found, took back and had restored.                            *)
THEOREM CellsTypeCorrect == Spec => []TypeOK
<1>1. IInv => TypeOK
  BY DEF IInv
<1> QED  BY <1>1, CellsInv, PTL

(* The counters of seq_pos agree with the cells, so that seq_pos_min and   *)
(* seq_pos_max, which batches are continued from and masked cells are      *)
(* recognised by, are positions of the cache.                              *)
THEOREM CountersAgree == Spec => []CountsAgree
<1>1. IInv => CountsAgree
  BY DEF IInv
<1> QED  BY <1>1, CellsInv, PTL

(* The key of a cell is rotated for the position of the cell, once the     *)
(* pending copies and shifts are applied: over shifts, copies between      *)
(* streams, cells that are used again and ubatches that are taken back.    *)
THEOREM KeysAreRotated == Spec => []RopeAgrees
<1>1. IInv => RopeAgrees
  BY DEF IInv
<1> QED  BY <1>1, CellsInv, PTL
=============================================================================
