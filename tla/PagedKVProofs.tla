--------------------------- MODULE PagedKVProofs ---------------------------
(***************************************************************************)
(* Proofs about PagedKV, for every pool, every set of sequences and every  *)
(* set of batches: the types; that reference counts cover the table        *)
(* entries (no block is released while a sequence still reads it); that    *)
(* shared blocks are aligned; that the real placement of a ubatch takes    *)
(* nothing from the pool; and that the tables have no gap.                 *)
(*                                                                         *)
(* TypeOK is not inductive alone: a reference count stays above zero only  *)
(* because remove_sequence() decrements it once per table entry and        *)
(* RefsCover says that there are never more entries than references.  So   *)
(* the two are proved together, by one lemma per handler.  Tried follows a *)
(* batch from its trial to its real placement.  Gapless says what makes a  *)
(* gap impossible while blocks run out: the pending tokens of a sequence   *)
(* come one after the other, from its end on.                              *)
(***************************************************************************)
EXTENDS PagedKV, SequenceLemmas, FiniteSetTheorems, TLAPS

USE PagedAssumption

(* The block that apply_ubatch_paged takes is a free one.                  *)
LEMMA FirstFreeIsFree ==
    ASSUME free \subseteq Blocks, free # {}
    PROVE  FirstFree \in free
<1>1. free \in SUBSET Nat
  BY DEF Blocks
<1> QED  BY <1>1, LeastOf DEF FirstFree

(* The logical block of a position of the cache is in its block table.     *)
LEMMA LogicalOfPosition ==
    ASSUME NEW p \in 0 .. MaxBlocks * BlockSize - 1
    PROVE  p \div BlockSize \in Logical
<1> DEFINE q == p \div BlockSize
           r == p % BlockSize
<1>1. q \in Nat /\ r \in 0 .. BlockSize - 1 /\ p = BlockSize * q + r
  OBVIOUS
<1>2. ~ (q >= MaxBlocks)
  <2>1. SUFFICES ASSUME q >= MaxBlocks PROVE FALSE
    OBVIOUS
  <2>2. BlockSize * q >= BlockSize * MaxBlocks
    BY <2>1, <1>1
  <2> QED  BY <2>2, <1>1
<1> QED  BY <1>1, <1>2 DEF Logical
-----------------------------------------------------------------------------
(* Counting table entries: there are finitely many, whatever they name.    *)
LEMMA EntriesFinite ==
    ASSUME NEW T \in SUBSET (Seqs \X Logical)
    PROVE  IsFiniteSet(T) /\ Cardinality(T) \in Nat
<1>1. IsFiniteSet(Logical)
  BY FS_Interval DEF Logical
<1>2. IsFiniteSet(Seqs \X Logical)
  BY <1>1, FS_Product
<1>3. IsFiniteSet(T)
  BY <1>2, FS_Subset
<1> QED  BY <1>3, FS_CardinalityType

(* free_block() is called at most as often as the block has references.    *)
LEMMA RefsBounded ==
    ASSUME NEW S \in SUBSET Seqs, NEW b
    PROVE  /\ Refs(S, b) \in Nat
           /\ Refs(S, b) <= Cardinality(Named(b))
           /\ Refs(S, b) = 0 <=> \A x \in S \X Logical : table[x[1]][x[2]] # b
<1> DEFINE R == {x \in S \X Logical : table[x[1]][x[2]] = b}
<1>1. R \in SUBSET Named(b) /\ R \in SUBSET (Seqs \X Logical) /\ Named(b) \in SUBSET (Seqs \X Logical)
  BY DEF Named
<1>2. IsFiniteSet(R) /\ IsFiniteSet(Named(b)) /\ Cardinality(R) \in Nat
  BY <1>1, EntriesFinite
<1>3. Cardinality(R) <= Cardinality(Named(b))
  BY <1>1, <1>2, FS_Subset
<1>4. Cardinality(R) = 0 <=> R = {}
  BY <1>2, FS_EmptySet
<1> QED  BY <1>2, <1>3, <1>4 DEF Refs

(* A free block becomes the only entry that names it.                      *)
LEMMA AllocateKeeps ==
    ASSUME TypeOK, RefsCover, NEW s \in Seqs, NEW l \in Logical,
           table[s][l] = None, free # {}, Allocate(s, l)
    PROVE  /\ refCount' \in [Blocks -> 0 .. MaxRef]
           /\ free' \subseteq Blocks
           /\ table' \in [Seqs -> [Logical -> Blocks \cup {None}]]
           /\ gpu' \in [Seqs -> [Logical -> Blocks \cup {None}]]
           /\ RefsCover'
<1>1. PICK f : f = FirstFree /\ f \in free /\ f \in Blocks
  BY FirstFreeIsFree DEF TypeOK
<1>2. /\ free' = free \ {f}
      /\ refCount' = [refCount EXCEPT ![f] = 1]
      /\ table' = [table EXCEPT ![s] = [@ EXCEPT ![l] = f]]
      /\ gpu' = [gpu EXCEPT ![s] = [@ EXCEPT ![l] = f]]
  BY <1>1 DEF Allocate
<1>3. /\ refCount' \in [Blocks -> 0 .. MaxRef]
      /\ free' \subseteq Blocks
      /\ table' \in [Seqs -> [Logical -> Blocks \cup {None}]]
      /\ gpu' \in [Seqs -> [Logical -> Blocks \cup {None}]]
  BY <1>1, <1>2 DEF TypeOK
<1>4. \A x \in Seqs \X Logical :
          table'[x[1]][x[2]] = IF x = <<s, l>> THEN f ELSE table[x[1]][x[2]]
  BY <1>2 DEF TypeOK
<1>5. \A b \in Blocks \ {f} : Named(b)' = Named(b)
  BY <1>4 DEF Named, None, Blocks
<1>6. Named(f) = {} /\ refCount[f] = 0
  BY <1>1 DEF RefsCover
<1>7. Named(f)' = {<<s, l>>}
  <2>1. \A x \in Seqs \X Logical : table[x[1]][x[2]] # f
    BY <1>6 DEF Named
  <2>2. \A x \in Seqs \X Logical : table'[x[1]][x[2]] = f <=> x = <<s, l>>
    BY <1>4, <2>1
  <2>3. <<s, l>> \in Seqs \X Logical
    OBVIOUS
  <2>4. {x \in Seqs \X Logical : table'[x[1]][x[2]] = f} = {<<s, l>>}
    BY <2>2, <2>3, Zenon
  <2> QED  BY <2>4 DEF Named
<1>8. Cardinality(Named(f)') = 1
  BY <1>7, FS_Singleton
<1>9. \A b \in Blocks : refCount'[b] = IF b = f THEN 1 ELSE refCount[b]
  BY <1>2 DEF TypeOK
<1>10. \A b \in free' : Named(b)' = {} /\ refCount'[b] = 0
  BY <1>2, <1>3, <1>5, <1>9 DEF RefsCover
<1>11. \A b \in Blocks \ free' : refCount'[b] >= 1
  BY <1>2, <1>9 DEF RefsCover
<1>12. \A b \in Blocks : refCount'[b] >= Cardinality(Named(b)')
  <2>1. SUFFICES ASSUME NEW b \in Blocks
                 PROVE  refCount'[b] >= Cardinality(Named(b)')
    OBVIOUS
  <2>2. CASE b = f
    <3>1. refCount'[b] = 1
      BY <2>2, <1>9
    <3>2. Cardinality(Named(b)') = 1
      BY <2>2, <1>8
    <3> QED  BY <3>1, <3>2
  <2>3. CASE b # f
    <3>1. Named(b)' = Named(b) /\ refCount'[b] = refCount[b]
      BY <2>3, <1>5, <1>9
    <3> QED  BY <3>1 DEF RefsCover
  <2> QED  BY <2>2, <2>3
<1>13. RefsCover'
  BY <1>10, <1>11, <1>12 DEF RefsCover
<1> QED  BY <1>3, <1>13
(* remove_sequence() takes as many references from a block as it removes   *)
(* entries that name it, and releases it when none is left.                *)
LEMMA RemoveKeeps ==
    ASSUME TypeOK, RefsCover, NEW S \in SUBSET Seqs, RemoveSequences(S)
    PROVE  /\ refCount' \in [Blocks -> 0 .. MaxRef]
           /\ free' \subseteq Blocks
           /\ present' \subseteq Seqs
           /\ table' \in [Seqs -> [Logical -> Blocks \cup {None}]]
           /\ nTokens' \in [Seqs -> 0 .. MaxBlocks * BlockSize]
           /\ RefsCover'
<1>1. /\ refCount' = [b \in Blocks |-> refCount[b] - Refs(S, b)]
      /\ free' = free \cup {b \in Blocks : Refs(S, b) > 0 /\ refCount[b] <= Refs(S, b)}
      /\ present' = present \ S
      /\ table' = [s \in Seqs |-> IF s \in S THEN NoTable ELSE table[s]]
      /\ nTokens' = [s \in Seqs |-> IF s \in S THEN 0 ELSE nTokens[s]]
  BY DEF RemoveSequences
<1>2. /\ free' \subseteq Blocks
      /\ present' \subseteq Seqs
      /\ table' \in [Seqs -> [Logical -> Blocks \cup {None}]]
  BY <1>1 DEF TypeOK, NoTable
<1>3. nTokens' \in [Seqs -> 0 .. MaxBlocks * BlockSize]
  <2>1. MaxBlocks * BlockSize \in Nat
    OBVIOUS
  <2> QED  BY <1>1, <2>1 DEF TypeOK
<1>4. ASSUME NEW b \in Blocks
      PROVE  Cardinality(Named(b)') = Cardinality(Named(b)) - Refs(S, b)
  <2> DEFINE R == {x \in S \X Logical : table[x[1]][x[2]] = b}
  <2>1. \A x \in Seqs \X Logical :
            table'[x[1]][x[2]] = IF x[1] \in S THEN None ELSE table[x[1]][x[2]]
    BY <1>1 DEF NoTable
  <2>2. Named(b)' = Named(b) \ R
    BY <2>1 DEF Named, None, Blocks
  <2>3. Named(b) \cap R = R
    BY DEF Named
  <2>4. IsFiniteSet(Named(b))
    BY EntriesFinite DEF Named
  <2>5. Cardinality(Named(b) \ R) = Cardinality(Named(b)) - Cardinality(Named(b) \cap R)
    BY <2>4, FS_Difference
  <2> QED  BY <2>2, <2>3, <2>5 DEF Refs
<1>5. ASSUME NEW b \in Blocks
      PROVE  /\ refCount'[b] = refCount[b] - Refs(S, b)
             /\ refCount[b] \in 0 .. MaxRef
             /\ Refs(S, b) \in Nat
             /\ Cardinality(Named(b)) \in Nat
             /\ Cardinality(Named(b)') \in Nat
             /\ Refs(S, b) <= Cardinality(Named(b))
             /\ refCount[b] >= Cardinality(Named(b))
  <2>1. Named(b) \in SUBSET (Seqs \X Logical) /\ Named(b)' \in SUBSET (Seqs \X Logical)
    BY DEF Named
  <2>2. Cardinality(Named(b)) \in Nat /\ Cardinality(Named(b)') \in Nat
    BY <2>1, EntriesFinite
  <2>3. refCount'[b] = refCount[b] - Refs(S, b)
    BY <1>1
  <2> QED  BY <2>2, <2>3, RefsBounded DEF TypeOK, RefsCover
<1>6. refCount' \in [Blocks -> 0 .. MaxRef]
  <2>1. \A b \in Blocks : refCount[b] - Refs(S, b) \in 0 .. MaxRef
    BY <1>5
  <2> QED  BY <1>1, <2>1
<1>7. \A b \in Blocks : refCount'[b] >= Cardinality(Named(b)')
  BY <1>4, <1>5
<1>8. ASSUME NEW b \in free'
      PROVE  Named(b)' = {} /\ refCount'[b] = 0
  <2>1. b \in Blocks
    BY <1>2
  <2>2. refCount[b] <= Refs(S, b)
    <3>1. CASE b \in free
      BY <3>1, <2>1, <1>5 DEF RefsCover
    <3>2. CASE b \notin free
      BY <3>2, <1>1
    <3> QED  BY <3>1, <3>2
  <2>3. refCount'[b] = 0 /\ Cardinality(Named(b)') = 0
    BY <2>1, <2>2, <1>4, <1>5
  <2>4. IsFiniteSet(Named(b)')
    <3>1. Named(b)' \in SUBSET (Seqs \X Logical)
      BY DEF Named
    <3> QED  BY <3>1, EntriesFinite
  <2> QED  BY <2>3, <2>4, FS_EmptySet
<1>9. ASSUME NEW b \in Blocks \ free'
      PROVE  refCount'[b] >= 1
  <2>1. b \notin free /\ ~ (Refs(S, b) > 0 /\ refCount[b] <= Refs(S, b))
    BY <1>1
  <2>2. refCount[b] >= 1
    BY <2>1 DEF RefsCover
  <2> QED  BY <2>1, <2>2, <1>5
<1>10. RefsCover'
  BY <1>7, <1>8, <1>9 DEF RefsCover
<1> QED  BY <1>2, <1>3, <1>6, <1>10

(* seq_cp() adds a reference for every entry it copies; an entry of the    *)
(* table it overwrites loses its name and not its reference.               *)
LEMMA SeqCpKeeps ==
    ASSUME TypeOK, RefsCover, NEW src \in Seqs, NEW dst \in Seqs, SeqCp(src, dst)
    PROVE  /\ refCount' \in [Blocks -> 0 .. MaxRef]
           /\ present' \subseteq Seqs
           /\ table' \in [Seqs -> [Logical -> Blocks \cup {None}]]
           /\ nTokens' \in [Seqs -> 0 .. MaxBlocks * BlockSize]
           /\ RefsCover'
<1>0. PICK S : S = {src}
  OBVIOUS
<1>1. /\ \A b \in Blocks : refCount[b] + Refs(S, b) <= MaxRef
      /\ table' = [table EXCEPT ![dst] = table[src]]
      /\ nTokens' = [nTokens EXCEPT ![dst] = nTokens[src]]
      /\ present' = present \cup {dst}
      /\ refCount' = [b \in Blocks |-> refCount[b] + Refs(S, b)]
      /\ free' = free
  BY <1>0 DEF SeqCp
<1>2. /\ present' \subseteq Seqs
      /\ table' \in [Seqs -> [Logical -> Blocks \cup {None}]]
      /\ nTokens' \in [Seqs -> 0 .. MaxBlocks * BlockSize]
  BY <1>1 DEF TypeOK
<1>3. ASSUME NEW b \in Blocks
      PROVE  /\ refCount'[b] = refCount[b] + Refs(S, b)
             /\ refCount[b] \in 0 .. MaxRef
             /\ Refs(S, b) \in Nat
             /\ refCount[b] + Refs(S, b) <= MaxRef
  BY <1>0, <1>1, RefsBounded DEF TypeOK
<1>4. refCount' \in [Blocks -> 0 .. MaxRef]
  <2>1. \A b \in Blocks : refCount[b] + Refs(S, b) \in 0 .. MaxRef
    BY <1>3
  <2> QED  BY <1>1, <2>1
<1>5. \A x \in Seqs \X Logical :
          table'[x[1]][x[2]] = IF x[1] = dst THEN table[src][x[2]] ELSE table[x[1]][x[2]]
  BY <1>1 DEF TypeOK
<1>6. ASSUME NEW b \in Blocks
      PROVE  /\ Cardinality(Named(b)') \in Nat
             /\ Cardinality(Named(b)') <= Cardinality(Named(b)) + Refs(S, b)
  <2> DEFINE R == {x \in {src} \X Logical : table[x[1]][x[2]] = b}
             C == {x \in {dst} \X Logical : table[src][x[2]] = b}
             f == [x \in R |-> <<dst, x[2]>>]
  <2>1. /\ R \in SUBSET (Seqs \X Logical)
        /\ C \in SUBSET (Seqs \X Logical)
        /\ Named(b) \in SUBSET (Seqs \X Logical)
        /\ Named(b)' \in SUBSET (Seqs \X Logical)
    BY DEF Named
  <2>2. /\ IsFiniteSet(R) /\ IsFiniteSet(C) /\ IsFiniteSet(Named(b))
        /\ Cardinality(R) \in Nat
        /\ Cardinality(C) \in Nat
        /\ Cardinality(Named(b)) \in Nat
        /\ Cardinality(Named(b)') \in Nat
    BY <2>1, EntriesFinite
  <2>3. f \in Surjection(R, C)
    <3>1. f \in [R -> C]
      OBVIOUS
    <3>2. ASSUME NEW y \in C
          PROVE  \E x \in R : f[x] = y
      <4>1. <<src, y[2]>> \in R /\ y = <<dst, y[2]>>
        OBVIOUS
      <4>2. f[<<src, y[2]>>] = y
        BY <4>1
      <4> QED  BY <4>1, <4>2
    <3> QED  BY <3>1, <3>2 DEF Surjection
  <2>4. Cardinality(C) <= Cardinality(R)
    BY <2>2, <2>3, FS_Surjection
  <2>5. Named(b)' \subseteq Named(b) \cup C
    BY <1>5 DEF Named
  <2>6. /\ IsFiniteSet(Named(b) \cup C)
        /\ Cardinality(Named(b) \cup C)
               = Cardinality(Named(b)) + Cardinality(C) - Cardinality(Named(b) \cap C)
    BY <2>2, FS_Union
  <2>7. Cardinality(Named(b) \cap C) \in Nat
    BY <2>2, FS_Intersection, FS_CardinalityType
  <2>8. Cardinality(Named(b)') <= Cardinality(Named(b) \cup C)
    BY <2>5, <2>6, FS_Subset
  <2>9. Cardinality(R) = Refs(S, b)
    BY <1>0 DEF Refs
  <2> HIDE DEF R, C, f
  <2> QED  BY <2>2, <2>4, <2>6, <2>7, <2>8, <2>9
<1>7. \A b \in Blocks : refCount'[b] >= Cardinality(Named(b)')
  <2>1. SUFFICES ASSUME NEW b \in Blocks
                 PROVE  refCount'[b] >= Cardinality(Named(b)')
    OBVIOUS
  <2>2. refCount[b] >= Cardinality(Named(b)) /\ Cardinality(Named(b)) \in Nat
    <3>1. Named(b) \in SUBSET (Seqs \X Logical)
      BY DEF Named
    <3> QED  BY <3>1, EntriesFinite DEF RefsCover
  <2> QED  BY <2>2, <1>3, <1>6
<1>8. ASSUME NEW b \in free'
      PROVE  Named(b)' = {} /\ refCount'[b] = 0
  <2>1. b \in Blocks /\ Named(b) = {} /\ refCount[b] = 0
    BY <1>1 DEF TypeOK, RefsCover
  <2>2. \A x \in Seqs \X Logical : table[x[1]][x[2]] # b
    BY <2>1 DEF Named
  <2>3. \A l \in Logical : table[src][l] # b
    <3>1. SUFFICES ASSUME NEW l \in Logical PROVE table[src][l] # b
      OBVIOUS
    <3>2. <<src, l>> \in Seqs \X Logical
      OBVIOUS
    <3> QED  BY <2>2, <3>2
  <2>4. Named(b)' = {}
    BY <1>5, <2>2, <2>3 DEF Named
  <2>5. Refs(S, b) = 0
    BY <1>0, <2>3, RefsBounded
  <2> QED  BY <2>1, <2>4, <2>5, <1>3
<1>9. ASSUME NEW b \in Blocks \ free'
      PROVE  refCount'[b] >= 1
  BY <1>1, <1>3 DEF RefsCover
<1>10. RefsCover'
  BY <1>7, <1>8, <1>9 DEF RefsCover
<1> QED  BY <1>2, <1>4, <1>10
(* find_slot_paged() sends every token to a table that exists.             *)
LEMMA PlacementType ==
    ASSUME NEW u \in Ubatch
    PROVE  /\ Placement(u) \in Seq(Token)
           /\ SeqsOf(u) \in SUBSET Seqs
<1>1. u \in Seq(Token) /\ u # <<>> /\ Len(u) \in Nat /\ DOMAIN u = 1 .. Len(u)
  BY LenProperties DEF Ubatch
<1>2. \A i \in DOMAIN u : u[i] \in Token
  BY <1>1, ElementOfSeq
<1>3. SeqsOf(u) \in SUBSET Seqs
  BY <1>2 DEF SeqsOf, Token
<1>4. SeqsOf(u) # {}
  <2>1. 1 \in DOMAIN u
    BY <1>1, EmptySeq
  <2> QED  BY <2>1 DEF SeqsOf
<1> DEFINE first == CHOOSE s \in SeqsOf(u) : \A r \in SeqsOf(u) : s <= r
<1>5. first \in Seqs
  <2>1. SeqsOf(u) \in SUBSET Nat
    BY <1>3
  <2> QED  BY <1>3, <1>4, <2>1, LeastOf
<1> HIDE DEF first
<1>6. Placement(u) = [i \in DOMAIN u |->
          [seq |-> IF unified THEN first ELSE u[i].seq, pos |-> u[i].pos]]
  BY DEF Placement, first
<1>7. \A i \in DOMAIN u :
          [seq |-> IF unified THEN first ELSE u[i].seq, pos |-> u[i].pos] \in Token
  BY <1>2, <1>5 DEF Token
<1>8. Placement(u) \in [1 .. Len(u) -> Token]
  BY <1>1, <1>6, <1>7
<1>9. Placement(u) \in Seq(Token)
  BY <1>1, <1>8
<1> QED  BY <1>3, <1>9

(* One token is placed: its table has the block, takes a free one, or the  *)
(* token is skipped.                                                       *)
LEMMA PlaceTokenKeeps ==
    ASSUME TypeOK, RefsCover, PlaceToken, UNCHANGED unified
    PROVE  TypeOK' /\ RefsCover'
<1> DEFINE t == Head(todo)
           s == t.seq
           p == t.pos
           l == p \div BlockSize
<1>1. t \in Token /\ Tail(todo) \in Seq(Token)
  BY HeadTailProperties DEF TypeOK, PlaceToken
<1>2. s \in Seqs /\ p \in 0 .. MaxBlocks * BlockSize - 1
  BY <1>1 DEF Token
<1>3. l \in Logical
  BY <1>2, LogicalOfPosition
<1>4. /\ present' \subseteq Seqs
      /\ todo' \in Seq(Token)
      /\ UNCHANGED <<phase, trial, batch, ub>>
  BY <1>1, <1>2 DEF PlaceToken, TypeOK
<1>5. Count(s, p) => nTokens' \in [Seqs -> 0 .. MaxBlocks * BlockSize]
  <2>1. p + 1 \in 0 .. MaxBlocks * BlockSize
    BY <1>2
  <2> QED  BY <2>1, <1>2 DEF Count, TypeOK
<1>6. CASE table[s][l] # None /\ Count(s, p) /\ UNCHANGED <<refCount, free, table, gpu>>
  BY <1>4, <1>5, <1>6 DEF TypeOK, RefsCover, Named
<1>7. CASE table[s][l] = None /\ free # {} /\ Allocate(s, l) /\ Count(s, p)
  <2>1. /\ refCount' \in [Blocks -> 0 .. MaxRef]
        /\ free' \subseteq Blocks
        /\ table' \in [Seqs -> [Logical -> Blocks \cup {None}]]
        /\ gpu' \in [Seqs -> [Logical -> Blocks \cup {None}]]
        /\ RefsCover'
    BY <1>2, <1>3, <1>7, AllocateKeeps
  <2> QED  BY <1>4, <1>5, <1>7, <2>1 DEF TypeOK
<1>8. CASE table[s][l] = None /\ free = {} /\ Skip(s, p)
  BY <1>4, <1>8 DEF Skip, TypeOK, RefsCover, Named
<1> QED  BY <1>6, <1>7, <1>8 DEF PlaceToken

(* ComputeFail rolls the failed ubatch back with the same seq_rm.          *)
LEMMA ComputeFailKeeps ==
    ASSUME TypeOK, RefsCover, ComputeFail, UNCHANGED unified
    PROVE  TypeOK' /\ RefsCover'
<1> DEFINE S == {s \in SeqsOf(Head(batch)) : 0 \in PosOf(Head(batch), s)}
<1>1. Head(batch) \in Ubatch
  BY HeadTailProperties DEF ComputeFail, TypeOK
<1>2. S \in SUBSET Seqs
  BY <1>1, PlacementType
<1>3. RemoveSequences(S) /\ batch' = <<>> /\ phase' = "idle" /\ UNCHANGED <<gpu, trial, todo, ub>>
  BY DEF ComputeFail
<1> HIDE DEF S
<1>4. /\ refCount' \in [Blocks -> 0 .. MaxRef]
      /\ free' \subseteq Blocks
      /\ present' \subseteq Seqs
      /\ table' \in [Seqs -> [Logical -> Blocks \cup {None}]]
      /\ nTokens' \in [Seqs -> 0 .. MaxBlocks * BlockSize]
      /\ RefsCover'
  BY <1>2, <1>3, RemoveKeeps
<1>5. batch' \in Seq(Ubatch)
  BY <1>3, EmptySeq
<1> QED  BY <1>3, <1>4, <1>5 DEF TypeOK

(* The constructor leaves every block free and unnamed.                    *)
LEMMA FreshPool ==
    ASSUME Init
    PROVE  TypeOK /\ RefsCover
<1>1. /\ refCount = [b \in Blocks |-> 0]
      /\ free = Blocks
      /\ table = [s \in Seqs |-> NoTable]
  BY DEF Init
<1>2. \A b \in Blocks : Named(b) = {} /\ refCount[b] = 0
  BY <1>1 DEF Named, NoTable, None, Blocks
<1>3. Cardinality({}) = 0
  BY FS_EmptySet
<1>4. RefsCover
  BY <1>1, <1>2, <1>3 DEF RefsCover
<1>5. /\ refCount \in [Blocks -> 0 .. MaxRef]
      /\ nTokens \in [Seqs -> 0 .. MaxBlocks * BlockSize]
  <2>1. 0 \in 0 .. MaxRef /\ 0 \in 0 .. MaxBlocks * BlockSize
    OBVIOUS
  <2> QED  BY <2>1 DEF Init
<1>6. trial \in Seq(Ubatch) /\ batch \in Seq(Ubatch) /\ todo \in Seq(Token)
  BY EmptySeq DEF Init
<1>7. TypeOK
  BY <1>5, <1>6 DEF Init, TypeOK, NoTable
<1> QED  BY <1>4, <1>7

(* Every step keeps the types and the cover of the references.             *)
LEMMA StepKeepsCover ==
    ASSUME TypeOK, RefsCover, [Next]_vars
    PROVE  TypeOK' /\ RefsCover'
<1>0. unified' = unified /\ unified \in BOOLEAN
  BY DEF Next, vars, TypeOK
<1>1. ASSUME NEW u \in Batches, Decode(u)
      PROVE  TypeOK' /\ RefsCover'
  BY <1>0, <1>1, BatchesAssumption DEF Decode, TypeOK, RefsCover, Named, pool
<1>2. CASE PrepareUbatch
  <2>1. Head(trial) \in Ubatch /\ Tail(trial) \in Seq(Ubatch)
    BY <1>2, HeadTailProperties DEF PrepareUbatch, TypeOK
  <2>2. Placement(Head(trial)) \in Seq(Token)
    BY <2>1, PlacementType
  <2> QED  BY <1>0, <1>2, <2>1, <2>2 DEF PrepareUbatch, TypeOK, RefsCover, Named, pool
<1>3. CASE PlaceToken
  BY <1>0, <1>3, PlaceTokenKeeps
<1>4. CASE Apply
  <2>1. Head(batch) \in Ubatch
    BY <1>4, HeadTailProperties DEF Apply, TypeOK
  <2>2. Placement(Head(batch)) \in Seq(Token)
    BY <2>1, PlacementType
  <2> QED  BY <1>0, <1>4, <2>2 DEF Apply, TypeOK, RefsCover, Named, pool
<1>5. CASE ComputeOk
  <2>1. Tail(batch) \in Seq(Ubatch)
    BY <1>5, HeadTailProperties DEF ComputeOk, TypeOK
  <2> QED  BY <1>0, <1>5, <2>1 DEF ComputeOk, TypeOK, RefsCover, Named, pool
<1>6. CASE ComputeFail
  BY <1>0, <1>6, ComputeFailKeeps
<1>7. ASSUME NEW s \in Seqs, SeqRm(s)
      PROVE  TypeOK' /\ RefsCover'
  <2>1. {s} \in SUBSET Seqs /\ RemoveSequences({s})
    BY <1>7 DEF SeqRm
  <2>2. /\ refCount' \in [Blocks -> 0 .. MaxRef]
        /\ free' \subseteq Blocks
        /\ present' \subseteq Seqs
        /\ table' \in [Seqs -> [Logical -> Blocks \cup {None}]]
        /\ nTokens' \in [Seqs -> 0 .. MaxBlocks * BlockSize]
        /\ RefsCover'
    BY <2>1, RemoveKeeps
  <2> QED  BY <1>0, <1>7, <2>2 DEF SeqRm, TypeOK
<1>8. ASSUME NEW keep, RemoveOthers(keep)
      PROVE  TypeOK' /\ RefsCover'
  BY <1>0, <1>8 DEF RemoveOthers, TypeOK, RefsCover, Named, pool
<1>9. ASSUME NEW src \in Seqs, NEW dst \in Seqs, SeqCp(src, dst)
      PROVE  TypeOK' /\ RefsCover'
  <2>1. /\ refCount' \in [Blocks -> 0 .. MaxRef]
        /\ present' \subseteq Seqs
        /\ table' \in [Seqs -> [Logical -> Blocks \cup {None}]]
        /\ nTokens' \in [Seqs -> 0 .. MaxBlocks * BlockSize]
        /\ RefsCover'
    BY <1>9, SeqCpKeeps
  <2> QED  BY <1>0, <1>9, <2>1 DEF SeqCp, TypeOK
<1>10. CASE Restart
  <2>1. Init'
    BY <1>0, <1>10 DEF Restart, Init
  <2> QED  BY <2>1, FreshPool, PTL
<1>11. CASE UNCHANGED vars
  BY <1>11 DEF vars, pool, TypeOK, RefsCover, Named
<1> QED  BY <1>1, <1>2, <1>3, <1>4, <1>5, <1>6, <1>7, <1>8, <1>9, <1>10, <1>11 DEF Next, Step

(* Type correctness of the block pool, its tables and decode().            *)
THEOREM TypeCorrect == Spec => []TypeOK
<1>1. Init => TypeOK /\ RefsCover
  BY FreshPool
<1>2. TypeOK /\ RefsCover /\ [Next]_vars => TypeOK' /\ RefsCover'
  BY StepKeepsCover
<1> QED  BY <1>1, <1>2, PTL DEF Spec

(* No use after free: however batches, copies, removals and failures are   *)
(* interleaved, a free block is named by no table, and free_block() cannot *)
(* release a block that a table still names.                               *)
THEOREM NoUseAfterFree == Spec => []RefsCover
<1>1. Init => TypeOK /\ RefsCover
  BY FreshPool
<1>2. TypeOK /\ RefsCover /\ [Next]_vars => TypeOK' /\ RefsCover'
  BY StepKeepsCover
<1> QED  BY <1>1, <1>2, PTL DEF Spec
-----------------------------------------------------------------------------
(* A step after which every entry of a block has the logical index of an   *)
(* entry it had before keeps shared blocks at one index.                   *)
LEMMA IndexesKept ==
    ASSUME SharedAtSameIndex,
           \A b \in Blocks : \A y \in Named(b)' : \E x \in Named(b) : x[2] = y[2]
    PROVE  SharedAtSameIndex'
<1>1. SUFFICES ASSUME NEW b \in Blocks, NEW y \in Named(b)', NEW z \in Named(b)'
               PROVE  y[2] = z[2]
  BY DEF SharedAtSameIndex
<1>2. PICK x \in Named(b) : x[2] = y[2]
  OBVIOUS
<1>3. PICK w \in Named(b) : w[2] = z[2]
  OBVIOUS
<1>4. x[2] = w[2]
  BY DEF SharedAtSameIndex
<1> QED  BY <1>2, <1>3, <1>4

(* Only a free block, which nothing names, is entered in a table anew;     *)
(* seq_cp() copies entries to the index they had.                          *)
LEMMA StepKeepsIndexes ==
    ASSUME TypeOK, RefsCover, SharedAtSameIndex, [Next]_vars
    PROVE  SharedAtSameIndex'
<1>1. ASSUME table' = table
      PROVE  SharedAtSameIndex'
  BY <1>1 DEF SharedAtSameIndex, Named
<1>2. ASSUME NEW S \in SUBSET Seqs, RemoveSequences(S)
      PROVE  SharedAtSameIndex'
  <2>1. \A x \in Seqs \X Logical :
            table'[x[1]][x[2]] = IF x[1] \in S THEN None ELSE table[x[1]][x[2]]
    BY <1>2 DEF RemoveSequences, NoTable
  <2>2. \A b \in Blocks : Named(b)' \subseteq Named(b)
    BY <2>1 DEF Named, None, Blocks
  <2> QED  BY <2>2, IndexesKept
<1>3. ASSUME NEW src \in Seqs, NEW dst \in Seqs, SeqCp(src, dst)
      PROVE  SharedAtSameIndex'
  <2>1. \A x \in Seqs \X Logical :
            table'[x[1]][x[2]] = IF x[1] = dst THEN table[src][x[2]] ELSE table[x[1]][x[2]]
    BY <1>3 DEF SeqCp, TypeOK
  <2>2. ASSUME NEW b \in Blocks, NEW y \in Named(b)'
        PROVE  \E x \in Named(b) : x[2] = y[2]
    <3>1. y \in Seqs \X Logical /\ table'[y[1]][y[2]] = b
      BY DEF Named
    <3>2. CASE y[1] = dst
      <4>1. <<src, y[2]>> \in Named(b)
        BY <2>1, <3>1, <3>2 DEF Named
      <4> QED  BY <4>1
    <3>3. CASE y[1] # dst
      BY <2>1, <3>1, <3>3 DEF Named
    <3> QED  BY <3>2, <3>3
  <2> QED  BY <2>2, IndexesKept
<1>4. ASSUME NEW s \in Seqs, NEW l \in Logical, free # {}, Allocate(s, l)
      PROVE  SharedAtSameIndex'
  <2>1. PICK f : f = FirstFree /\ f \in free /\ f \in Blocks
    BY <1>4, FirstFreeIsFree DEF TypeOK
  <2>2. \A x \in Seqs \X Logical :
            table'[x[1]][x[2]] = IF x = <<s, l>> THEN f ELSE table[x[1]][x[2]]
    BY <1>4, <2>1 DEF Allocate, TypeOK
  <2>3. Named(f) = {}
    BY <2>1 DEF RefsCover
  <2>4. \A y \in Named(f)' : y = <<s, l>>
    BY <2>2, <2>3 DEF Named
  <2>5. \A b \in Blocks \ {f} : Named(b)' \subseteq Named(b)
    BY <2>2 DEF Named
  <2> QED  BY <2>4, <2>5 DEF SharedAtSameIndex
<1>5. CASE PlaceToken
  <2>1. Head(todo) \in Token
    BY <1>5, HeadTailProperties DEF TypeOK, PlaceToken
  <2>2. Head(todo).seq \in Seqs /\ Head(todo).pos \div BlockSize \in Logical
    BY <2>1, LogicalOfPosition DEF Token
  <2> QED  BY <1>1, <1>4, <1>5, <2>2 DEF PlaceToken, Skip
<1>6. CASE ComputeFail
  <2>1. Head(batch) \in Ubatch
    BY <1>6, HeadTailProperties DEF ComputeFail, TypeOK
  <2>2. {s \in SeqsOf(Head(batch)) : 0 \in PosOf(Head(batch), s)} \in SUBSET Seqs
    BY <2>1, PlacementType
  <2> QED  BY <1>2, <1>6, <2>2 DEF ComputeFail
<1>7. ASSUME NEW s \in Seqs, SeqRm(s)
      PROVE  SharedAtSameIndex'
  <2>1. {s} \in SUBSET Seqs
    OBVIOUS
  <2> QED  BY <1>2, <1>7, <2>1 DEF SeqRm
<1>8. CASE Restart
  BY <1>8 DEF Restart, SharedAtSameIndex, Named, NoTable, None, Blocks
<1>9. CASE \/ \E u \in Batches : Decode(u)
           \/ PrepareUbatch
           \/ Apply
           \/ ComputeOk
           \/ \E keep \in SUBSET Seqs : RemoveOthers(keep)
           \/ UNCHANGED vars
  BY <1>1, <1>9 DEF Decode, PrepareUbatch, Apply, ComputeOk, RemoveOthers, vars, pool
<1>10. RemoveOthers({}) \/ (\E s \in Seqs : RemoveOthers({s}))
           => \E keep \in SUBSET Seqs : RemoveOthers(keep)
  OBVIOUS
<1> QED  BY <1>3, <1>5, <1>6, <1>7, <1>8, <1>9, <1>10 DEF Next, Step

(* A physical block holds the same positions in every sequence that reads  *)
(* it, and occurs once in a table: copies share, and never alias.          *)
THEOREM SharingIsAligned == Spec => []SharedAtSameIndex
<1>1. Init => SharedAtSameIndex
  BY DEF Init, SharedAtSameIndex, Named, NoTable, None, Blocks
<1>2. SharedAtSameIndex /\ TypeOK /\ RefsCover /\ [Next]_vars => SharedAtSameIndex'
  BY StepKeepsIndexes
<1> QED  BY <1>1, <1>2, TypeCorrect, NoUseAfterFree, PTL DEF Spec
-----------------------------------------------------------------------------
(* What the trial of prepare() has placed stays placed: as long as a block *)
(* is free, the tokens of the batch have one or are still to be tried.     *)
Mapped(t) == table[t.seq][t.pos \div BlockSize] # None

Tried ==
    /\ phase # "prepare" => trial = <<>>
    /\ phase = "idle" => todo = <<>>
    /\ ub => phase = "idle"
    /\ free # {} =>
        /\ \A u \in Range(batch) :
              \/ u \in Range(trial)
              \/ \A t \in Range(Placement(u)) : Mapped(t) \/ (phase = "prepare" /\ t \in Range(todo))
        /\ phase = "compute" => \A t \in Range(todo) : Mapped(t)

(* A queue is its first element and the rest.                              *)
LEMMA RangeOfTail ==
    ASSUME NEW T, NEW q \in Seq(T), q # <<>>
    PROVE  Range(q) = {Head(q)} \cup Range(Tail(q))
<1>1. PICK w : w = Tail(q)
  OBVIOUS
<1>2. /\ w \in Seq(T) /\ Len(q) = Len(w) + 1 /\ Len(w) \in Nat /\ Head(q) = q[1]
      /\ \A i \in 1 .. Len(w) : w[i] = q[i + 1]
  BY <1>1, HeadTailProperties, LenProperties
<1>3. DOMAIN q = 1 .. Len(w) + 1 /\ DOMAIN w = 1 .. Len(w)
  BY <1>2, LenProperties
<1>4. \A i \in DOMAIN q : i = 1 \/ (i - 1 \in DOMAIN w /\ q[i] = w[i - 1])
  BY <1>2, <1>3
<1>5. \A i \in DOMAIN w : i + 1 \in DOMAIN q /\ w[i] = q[i + 1]
  BY <1>2, <1>3
<1>6. 1 \in DOMAIN q
  BY <1>2, <1>3
<1>7. Range(q) \subseteq {q[1]} \cup Range(w)
  BY <1>4 DEF Range
<1>8. {q[1]} \cup Range(w) \subseteq Range(q)
  BY <1>5, <1>6 DEF Range
<1> QED  BY <1>1, <1>2, <1>7, <1>8

(* The token that is placed has a block afterwards, unless none was free;  *)
(* no other loses its block.                                               *)
LEMMA PlaceTokenTries ==
    ASSUME TypeOK, Tried, PlaceToken, UNCHANGED unified
    PROVE  Tried'
<1>1. PICK h : h = Head(todo)
  OBVIOUS
<1>2. todo \in Seq(Token) /\ todo # <<>> /\ todo' = Tail(todo) /\ UNCHANGED <<phase, trial, batch, ub>>
  BY DEF PlaceToken, TypeOK
<1>3. h \in Token /\ Range(todo) = {h} \cup Range(todo')
  BY <1>1, <1>2, RangeOfTail, HeadTailProperties
<1>4. h.seq \in Seqs /\ h.pos \div BlockSize \in Logical
  BY <1>3, LogicalOfPosition DEF Token
<1>5. free' # {} => free # {} /\ Mapped(h)' /\ \A t \in Token : Mapped(t) => Mapped(t)'
  <2>1. CASE table[h.seq][h.pos \div BlockSize] # None /\ UNCHANGED <<free, table>>
    BY <2>1 DEF Mapped
  <2>2. CASE free # {} /\ Allocate(h.seq, h.pos \div BlockSize)
    <3>1. PICK f : f = FirstFree
      OBVIOUS
    <3>2. f \in Blocks /\ f # None
      <4>1. f \in free
        BY <2>2, <3>1, FirstFreeIsFree DEF TypeOK
      <4> QED  BY <4>1 DEF TypeOK, Blocks, None
    <3>3. table' = [table EXCEPT ![h.seq] = [@ EXCEPT ![h.pos \div BlockSize] = f]]
      BY <2>2, <3>1 DEF Allocate
    <3>4. \A s \in Seqs, l \in Logical :
              table'[s][l] = IF s = h.seq /\ l = h.pos \div BlockSize THEN f ELSE table[s][l]
      BY <1>4, <3>3 DEF TypeOK
    <3>5. \A t \in Token : t.seq \in Seqs /\ t.pos \div BlockSize \in Logical
      BY LogicalOfPosition DEF Token
    <3> QED  BY <1>3, <2>2, <3>2, <3>4, <3>5 DEF Mapped
  <2>3. CASE free = {} /\ free' = free
    BY <2>3
  <2> QED  BY <1>1, <2>1, <2>2, <2>3 DEF PlaceToken, Skip
<1>6. phase # "idle"
  BY <1>2 DEF Tried
<1>7. ASSUME free' # {}, NEW u \in Range(batch)
      PROVE  \/ u \in Range(trial)
             \/ \A t \in Range(Placement(u)) : Mapped(t)' \/ (phase = "prepare" /\ t \in Range(todo'))
  <2>1. u \in Ubatch
    BY ElementOfSeq, LenProperties DEF TypeOK, Range
  <2>2. \A t \in Range(Placement(u)) : t \in Token
    BY <2>1, PlacementType, ElementOfSeq, LenProperties DEF Range
  <2> QED  BY <1>3, <1>5, <1>7, <2>2 DEF Tried
<1>8. \A t \in Range(todo) : t \in Token
  BY <1>2, ElementOfSeq, LenProperties DEF Range
<1>9. free' # {} /\ phase = "compute" => \A t \in Range(todo') : Mapped(t)'
  BY <1>3, <1>5, <1>8 DEF Tried
<1>10. \A u : Placement(u)' = Placement(u)
  BY DEF Placement
<1> QED  BY <1>2, <1>6, <1>7, <1>9, <1>10 DEF Tried

(* Every step of decode() keeps track of what has been tried.              *)
LEMMA StepTries ==
    ASSUME TypeOK, Tried, [Next]_vars
    PROVE  Tried'
<1>u. unified' = unified
  BY DEF Next, vars
<1>0. unified' = unified /\ (\A u : Placement(u)' = Placement(u))
  BY <1>u DEF Placement
<1>e. Range(<<>>) = {}
  BY DEF Range
<1>1. ASSUME NEW u \in Batches, Decode(u)
      PROVE  Tried'
  BY <1>0, <1>1, <1>e DEF Decode, Idle, Tried, pool, Mapped
<1>2. CASE PrepareUbatch
  <2>1. Range(trial) = {Head(trial)} \cup Range(Tail(trial))
    BY <1>2, RangeOfTail DEF PrepareUbatch, TypeOK
  <2>2. Range(todo) = {} /\ todo' = Placement(Head(trial)) /\ trial' = Tail(trial)
    BY <1>2, <1>e DEF PrepareUbatch
  <2>3. UNCHANGED <<pool, phase, batch, ub>> /\ phase = "prepare" /\ ~ub
    BY <1>2 DEF PrepareUbatch, Tried
  <2>4. \A t : Mapped(t)' = Mapped(t)
    BY <2>3 DEF Mapped, pool
  <2> QED  BY <1>0, <2>1, <2>2, <2>3, <2>4 DEF Tried, pool
<1>3. CASE PlaceToken
  BY <1>0, <1>3, PlaceTokenTries
<1>4. CASE Apply
  <2>1. batch # <<>> /\ Range(batch) = {Head(batch)} \cup Range(Tail(batch))
    <3>1. batch \in Seq(Ubatch) /\ batch # <<>>
      BY <1>4 DEF Apply, TypeOK
    <3> QED  BY <3>1, RangeOfTail
  <2>2. free # {} => \A u \in Range(batch) : \A t \in Range(Placement(u)) : Mapped(t)
    BY <1>4, <1>e DEF Apply, Tried
  <2>3. \A t : Mapped(t)' = Mapped(t)
    BY <1>4 DEF Apply, Mapped, pool
  <2> QED  BY <1>0, <1>4, <2>1, <2>2, <2>3 DEF Apply, Tried, pool
<1>5. CASE ComputeOk
  <2>1. Range(Tail(batch)) \subseteq Range(batch)
    <3>1. batch \in Seq(Ubatch) /\ batch # <<>>
      BY <1>5 DEF ComputeOk, TypeOK
    <3> QED  BY <3>1, RangeOfTail
  <2>2. free # {} => \A u \in Range(batch) : \A t \in Range(Placement(u)) : Mapped(t)
    BY <1>5, <1>e DEF ComputeOk, Tried
  <2>3. \A t : Mapped(t)' = Mapped(t)
    BY <1>5 DEF ComputeOk, Mapped, pool
  <2> QED  BY <1>0, <1>5, <1>e, <2>1, <2>2, <2>3 DEF ComputeOk, Tried, pool
<1>6. CASE ComputeFail
  BY <1>6, <1>e DEF ComputeFail, Tried
<1>7. ASSUME phase = "idle", batch = <<>>, UNCHANGED <<phase, trial, batch, todo, ub>>
      PROVE  Tried'
  BY <1>7, <1>e DEF Tried
<1>8. phase = "idle" => batch = <<>>
  BY DEF TypeOK
<1>9. ASSUME NEW s, SeqRm(s)
      PROVE  Tried'
  BY <1>7, <1>8, <1>9 DEF SeqRm, Idle
<1>10. ASSUME NEW src, NEW dst, SeqCp(src, dst)
      PROVE  Tried'
  BY <1>7, <1>8, <1>10 DEF SeqCp, Idle
<1>11. ASSUME NEW keep, RemoveOthers(keep)
       PROVE  Tried'
  BY <1>8, <1>11, <1>e DEF RemoveOthers, Idle, Tried
<1>12. CASE Restart
  BY <1>12, <1>e DEF Restart, Tried
<1>13. CASE UNCHANGED vars
  BY <1>0, <1>13 DEF vars, pool, Tried, Mapped
<1> QED  BY <1>1, <1>2, <1>3, <1>4, <1>5, <1>6, <1>9, <1>10, <1>11, <1>12, <1>13 DEF Next, Step

(* Applying a ubatch for real takes nothing from the pool: with a free     *)
(* block left every token of it has been placed by the trial, and without  *)
(* one there is nothing to take.                                           *)
THEOREM TrialTakesAll == Spec => ApplyAllocatesNothing
<1>1. Init => Tried
  BY DEF Init, Tried, Range
<1>2. TypeOK /\ Tried /\ [Next]_vars => Tried'
  BY StepTries
<1>3. ASSUME TypeOK, Tried, [Next]_vars, phase = "compute", todo # <<>>
      PROVE  UNCHANGED <<refCount, free, table>>
  <2>1. PlaceToken \/ UNCHANGED vars
    BY <1>3 DEF Next, Step, Decode, PrepareUbatch, Apply, ComputeOk, ComputeFail, SeqRm,
                RemoveOthers, SeqCp, Restart, Idle, Tried
  <2>2. CASE PlaceToken
    <3>1. free # {} => Mapped(Head(todo))
      <4>1. Head(todo) \in Range(todo)
        BY <1>3, RangeOfTail DEF TypeOK
      <4> QED  BY <1>3, <4>1 DEF Tried
    <3> QED  BY <2>2, <3>1 DEF PlaceToken, Mapped, Skip
  <2> QED  BY <2>1, <2>2 DEF vars, pool
<1>4. TypeOK /\ Tried /\ [Next]_vars =>
          [phase = "compute" /\ todo # <<>> => UNCHANGED <<refCount, free, table>>]_vars
  BY <1>3
<1> QED  BY <1>1, <1>2, <1>4, TypeCorrect, PTL DEF Spec, ApplyAllocatesNothing
-----------------------------------------------------------------------------
(* One block table T with n tokens: no entry is missing between a mapped   *)
(* one and the end, none is mapped beyond it, and the last token has one.  *)
Solid(T, n) ==
    /\ \A k, l \in Logical : k < l /\ T[k] # None /\ l * BlockSize < n => T[l] # None
    /\ \A l \in Logical : T[l] # None => l * BlockSize < n
    /\ n > 0 => T[(n - 1) \div BlockSize] # None

(* The tokens that are still to be tried, in order: W[0] is what is left   *)
(* of a ubatch, and W[1] to W[Len(trial)] are the ubatches after it.       *)
Pending == [k \in 0 .. Len(trial) |-> IF k = 0 THEN todo ELSE trial[k]]

Precedes(j, a, k, b) == j < k \/ (j = k /\ a < b)

Earlier(W, k, b) ==
    {x \in (DOMAIN W) \X Nat :
        x[2] \in DOMAIN W[x[1]] /\ Precedes(x[1], x[2], k, b) /\ W[x[1]][x[2]].seq = W[k][b].seq}

(* Every token is at or after the end of its sequence and its predecessors,*)
(* and directly after one of them, unless it begins the sequence.          *)
Follows(W, n, k, b) ==
    /\ n[W[k][b].seq] <= W[k][b].pos + 1
    /\ \A x \in Earlier(W, k, b) : W[x[1]][x[2]].pos <= W[k][b].pos
    /\ \/ W[k][b].pos <= n[W[k][b].seq]
       \/ n[W[k][b].seq] = 0 /\ Earlier(W, k, b) = {}
       \/ \E x \in Earlier(W, k, b) : W[k][b].pos <= W[x[1]][x[2]].pos + 1

Continues(W, n) == \A k \in DOMAIN W : \A b \in DOMAIN W[k] : Follows(W, n, k, b)

Gapless ==
    /\ \A s \in Seqs : Solid(table[s], nTokens[s])
    /\ phase = "prepare" /\ free # {} => Continues(Pending, nTokens)

(* The positions of a block, and that later blocks begin where it ends.    *)
LEMMA BlockBounds ==
    ASSUME NEW p \in Nat
    PROVE  /\ p \div BlockSize \in Nat
           /\ (p \div BlockSize) * BlockSize <= p
           /\ p < (p \div BlockSize) * BlockSize + BlockSize
<1> DEFINE q == p \div BlockSize
           r == p % BlockSize
<1>1. q \in Nat /\ r \in 0 .. BlockSize - 1 /\ p = BlockSize * q + r
  OBVIOUS
<1>2. BlockSize * q = q * BlockSize /\ q * BlockSize \in Nat
  BY <1>1
<1> QED  BY <1>1, <1>2

LEMMA BlockOrder ==
    ASSUME NEW k \in Nat, NEW l \in Nat, k < l
    PROVE  k * BlockSize + BlockSize <= l * BlockSize
<1>1. PICK d \in Nat : l = k + 1 + d
  <2>1. l - k - 1 \in Nat /\ l = k + 1 + (l - k - 1)
    OBVIOUS
  <2> QED  BY <2>1
<1>2. l * BlockSize = k * BlockSize + BlockSize + d * BlockSize
  BY <1>1
<1>3. d * BlockSize \in Nat /\ k * BlockSize \in Nat
  OBVIOUS
<1> QED  BY <1>2, <1>3

(* A token in a mapped block extends the sequence within that block.       *)
LEMMA CountKeepsSolid ==
    ASSUME NEW T \in [Logical -> Blocks \cup {None}], NEW n \in Nat, NEW p \in Nat,
           p \div BlockSize \in Logical, Solid(T, n), T[p \div BlockSize] # None
    PROVE  Solid(T, IF n > p THEN n ELSE p + 1)
<1>1. PICK l \in Logical : l = p \div BlockSize
  OBVIOUS
<1>2. l \in Nat /\ l * BlockSize <= p /\ p < l * BlockSize + BlockSize /\ l * BlockSize < n
  BY <1>1, BlockBounds DEF Solid
<1>3. CASE n > p
  BY <1>3
<1>4. CASE ~(n > p)
  <2>1. ASSUME NEW m \in Logical, m * BlockSize < p + 1
        PROVE  m * BlockSize < n
    <3>1. m \in Nat /\ m * BlockSize \in Nat
      BY DEF Logical
    <3>2. ~(l < m)
      <4>1. l < m => l * BlockSize + BlockSize <= m * BlockSize
        BY <1>2, <3>1, BlockOrder
      <4> QED  BY <1>2, <2>1, <3>1, <4>1
    <3>3. m < l => m * BlockSize + BlockSize <= l * BlockSize
      BY <1>2, <3>1, BlockOrder
    <3> QED  BY <1>2, <3>1, <3>2, <3>3
  <2>2. \A m \in Logical : m * BlockSize \in Nat
    BY DEF Logical
  <2>3. (p + 1) - 1 = p
    OBVIOUS
  <2> QED  BY <1>1, <1>4, <2>1, <2>2, <2>3 DEF Solid
<1> QED  BY <1>3, <1>4

(* A token that comes next gets a block: it is the one after the last.     *)
LEMMA AllocateKeepsSolid ==
    ASSUME NEW T \in [Logical -> Blocks \cup {None}], NEW n \in Nat, NEW p \in Nat,
           p \div BlockSize \in Logical, Solid(T, n), T[p \div BlockSize] = None,
           n <= p + 1, p <= n \/ n = 0,
           NEW f \in Blocks
    PROVE  Solid([T EXCEPT ![p \div BlockSize] = f], IF n > p THEN n ELSE p + 1)
<1>1. PICK l \in Logical : l = p \div BlockSize
  OBVIOUS
<1>2. l \in Nat /\ l * BlockSize <= p /\ p < l * BlockSize + BlockSize /\ l * BlockSize \in Nat
  BY <1>1, BlockBounds
<1>3. ~(n > p)
  <2>1. n > p => n - 1 = p /\ n > 0
    OBVIOUS
  <2> QED  BY <2>1 DEF Solid
<1>4. PICK U : U = [T EXCEPT ![l] = f]
  OBVIOUS
<1>5. f # None /\ \A m \in Logical : U[m] = IF m = l THEN f ELSE T[m]
  BY <1>4 DEF Blocks, None
<1>6. ASSUME NEW m \in Logical
      PROVE  /\ m * BlockSize \in Nat
             /\ m < l => m * BlockSize + BlockSize <= l * BlockSize
             /\ l < m => l * BlockSize + BlockSize <= m * BlockSize
  <2>1. m \in Nat
    BY DEF Logical
  <2> QED  BY <1>2, <2>1, BlockOrder
<1>7. \A m \in Logical : l < m => ~(m * BlockSize < p + 1)
  BY <1>2, <1>6
<1>8. \A m \in Logical : m < l /\ n # 0 => m * BlockSize < n
  BY <1>2, <1>3, <1>6
<1>9. ASSUME NEW k \in Logical, NEW m \in Logical, k < m, U[k] # None, m * BlockSize < p + 1
      PROVE  U[m] # None
  <2>0. k \in Nat /\ m \in Nat
    BY DEF Logical
  <2>1. CASE m = l
    BY <1>5, <2>1
  <2>2. CASE m # l
    <3>1. m < l
      BY <1>2, <1>7, <1>9, <2>0, <2>2
    <3>2. k # l /\ U[k] = T[k] /\ U[m] = T[m]
      BY <1>2, <1>5, <1>9, <2>0, <2>2, <3>1
    <3>3. n # 0
      <4>1. k * BlockSize < n
        BY <1>9, <3>2 DEF Solid
      <4> QED  BY <1>6, <4>1
    <3> QED  BY <1>8, <1>9, <3>1, <3>2, <3>3 DEF Solid
  <2> QED  BY <2>1, <2>2
<1>10. \A m \in Logical : U[m] # None => m * BlockSize < p + 1
  <2>1. \A m \in Logical : T[m] # None => m * BlockSize < n
    BY DEF Solid
  <2> QED  BY <1>2, <1>3, <1>5, <1>6, <2>1
<1>11. U[((p + 1) - 1) \div BlockSize] # None
  BY <1>1, <1>5
<1> QED  BY <1>1, <1>3, <1>4, <1>9, <1>10, <1>11 DEF Solid

(* A sequence without tokens has no blocks.                                *)
LEMMA EmptySolid == Solid(NoTable, 0)
<1>1. \A l \in Logical : NoTable[l] = None
  BY DEF NoTable
<1> QED  BY <1>1 DEF Solid

(* The queues of tokens.                                                   *)
Queues(N) == [0 .. N -> Seq(Token)]

LEMMA TokenOf ==
    ASSUME NEW N \in Nat, NEW W \in Queues(N), NEW k \in DOMAIN W, NEW b \in DOMAIN W[k]
    PROVE  /\ k \in Nat /\ b \in Nat \ {0}
           /\ W[k][b] \in Token /\ W[k][b].seq \in Seqs /\ W[k][b].pos \in Nat
<1>1. k \in 0 .. N /\ W[k] \in Seq(Token)
  BY DEF Queues
<1>2. b \in 1 .. Len(W[k]) /\ W[k][b] \in Token
  BY <1>1, LenProperties, ElementOfSeq
<1> QED  BY <1>1, <1>2 DEF Token

(* The next token goes, and counts if it is placed: the ones after it      *)
(* continue its sequence from there.                                       *)
LEMMA NextGoes ==
    ASSUME NEW N \in Nat, NEW W \in Queues(N), W[0] # <<>>,
           NEW n \in [Seqs -> Nat], Continues(W, n),
           NEW h, h = Head(W[0]),
           NEW V, V = [W EXCEPT ![0] = Tail(W[0])],
           NEW m, m = [n EXCEPT ![h.seq] = IF @ > h.pos THEN @ ELSE h.pos + 1]
    PROVE  Continues(V, m)
<1> DEFINE I(k, b) == IF k = 0 THEN b + 1 ELSE b
<1>1. /\ W[0] \in Seq(Token) /\ Tail(W[0]) \in Seq(Token) /\ h = W[0][1] /\ 1 \in DOMAIN W[0]
      /\ Len(W[0]) = Len(Tail(W[0])) + 1
      /\ \A b \in 1 .. Len(Tail(W[0])) : Tail(W[0])[b] = W[0][b + 1]
      /\ 0 \in DOMAIN W
  <2>1. W[0] \in Seq(Token) /\ 0 \in DOMAIN W
    BY DEF Queues
  <2>2. Tail(W[0]) \in Seq(Token) /\ h = W[0][1] /\ 1 \in 1 .. Len(W[0])
    BY <2>1, TailPicks
  <2> QED  BY <2>1, <2>2, HeadTailProperties, LenProperties
<1>2. /\ V \in Queues(N) /\ DOMAIN V = DOMAIN W
      /\ V[0] = Tail(W[0]) /\ \A k \in DOMAIN W : k # 0 => V[k] = W[k]
  BY <1>1 DEF Queues
<1>3. h \in Token /\ h.seq \in Seqs /\ h.pos \in Nat
  BY <1>1, TokenOf
<1>4. /\ m \in [Seqs -> Nat]
      /\ \A s \in Seqs : m[s] = IF s = h.seq THEN IF n[s] > h.pos THEN n[s] ELSE h.pos + 1 ELSE n[s]
  <2>1. PICK v : v = IF n[h.seq] > h.pos THEN n[h.seq] ELSE h.pos + 1
    OBVIOUS
  <2>2. v \in Nat /\ m = [n EXCEPT ![h.seq] = v]
    BY <1>3, <2>1
  <2> QED  BY <1>3, <2>1, <2>2
<1>5. ASSUME NEW k \in DOMAIN V, NEW b \in DOMAIN V[k]
      PROVE  /\ I(k, b) \in DOMAIN W[k] /\ V[k][b] = W[k][I(k, b)]
             /\ Precedes(0, 1, k, I(k, b))
  <2>1. k \in Nat /\ b \in Nat \ {0} /\ k \in DOMAIN W
    BY <1>2, TokenOf
  <2>2. CASE k = 0
    <3>1. b \in 1 .. Len(Tail(W[0])) /\ DOMAIN W[0] = 1 .. Len(W[0]) /\ Len(Tail(W[0])) \in Nat
      BY <1>1, <1>2, <2>2, LenProperties
    <3> QED  BY <1>1, <1>2, <2>1, <2>2, <3>1 DEF Precedes
  <2>3. CASE k # 0
    BY <1>2, <2>1, <2>3 DEF Precedes
  <2> QED  BY <2>2, <2>3
<1>6. ASSUME NEW k \in DOMAIN W, NEW c \in DOMAIN W[k]
      PROVE  (k = 0 /\ c = 1) \/ (\E b \in DOMAIN V[k] : c = I(k, b))
  <2>1. CASE k = 0
    <3>1. /\ DOMAIN W[0] = 1 .. Len(W[0]) /\ DOMAIN V[0] = 1 .. Len(Tail(W[0]))
          /\ Len(Tail(W[0])) \in Nat
      BY <1>1, <1>2, LenProperties
    <3>2. c = 1 \/ c - 1 \in DOMAIN V[0]
      BY <1>1, <2>1, <3>1
    <3>3. c = (c - 1) + 1
      BY <2>1, <3>1
    <3> QED  BY <2>1, <3>2, <3>3
  <2>2. CASE k # 0
    BY <1>2, <2>2
  <2> QED  BY <2>1, <2>2
<1>7. SUFFICES ASSUME NEW k \in DOMAIN V, NEW b \in DOMAIN V[k],
                      NEW t, t = V[k][b]
               PROVE  Follows(V, m, k, b)
  BY DEF Continues
<1>c. PICK c : c = I(k, b)
  OBVIOUS
<1>8. /\ k \in DOMAIN W /\ c \in DOMAIN W[k] /\ t = W[k][c] /\ Precedes(0, 1, k, c)
      /\ t \in Token /\ t.seq \in Seqs /\ t.pos \in Nat
      /\ k \in Nat /\ b \in Nat \ {0} /\ c \in Nat \ {0} /\ n[t.seq] \in Nat
  <2>1. k \in DOMAIN W /\ c \in DOMAIN W[k] /\ t = W[k][c] /\ Precedes(0, 1, k, c)
    BY <1>2, <1>5, <1>7, <1>c
  <2>2. t \in Token /\ t.seq \in Seqs /\ t.pos \in Nat /\ k \in Nat /\ c \in Nat \ {0}
    BY <2>1, TokenOf
  <2>3. b \in Nat \ {0}
    BY <1>2, TokenOf
  <2> QED  BY <2>1, <2>2, <2>3
<1>9. /\ n[t.seq] <= t.pos + 1
      /\ \A x \in Earlier(W, k, c) : W[x[1]][x[2]].pos <= t.pos
      /\ \/ t.pos <= n[t.seq]
         \/ n[t.seq] = 0 /\ Earlier(W, k, c) = {}
         \/ \E x \in Earlier(W, k, c) : t.pos <= W[x[1]][x[2]].pos + 1
  BY <1>8 DEF Continues, Follows
<1>10. h.seq = t.seq => <<0, 1>> \in Earlier(W, k, c) /\ h.pos <= t.pos
  <2>1. h.seq = t.seq => <<0, 1>> \in Earlier(W, k, c)
    BY <1>1, <1>8 DEF Earlier
  <2> QED  BY <1>1, <1>9, <2>1
<1>11. ASSUME NEW x \in Earlier(V, k, b)
       PROVE  /\ <<x[1], I(x[1], x[2])>> \in Earlier(W, k, c)
              /\ V[x[1]][x[2]] = W[x[1]][I(x[1], x[2])]
  <2>1. x[1] \in DOMAIN V /\ x[2] \in DOMAIN V[x[1]] /\ Precedes(x[1], x[2], k, b)
        /\ V[x[1]][x[2]].seq = t.seq
    BY <1>7 DEF Earlier
  <2>2. x[1] \in Nat /\ x[2] \in Nat
    BY <1>2, <2>1, TokenOf
  <2>3. Precedes(x[1], I(x[1], x[2]), k, c)
    BY <1>7, <1>8, <1>c, <2>1, <2>2 DEF Precedes
  <2> QED  BY <1>2, <1>5, <1>8, <2>1, <2>2, <2>3, SMTT(30) DEF Earlier
<1>12. ASSUME NEW y \in Earlier(W, k, c), y # <<0, 1>>
       PROVE  \E x \in Earlier(V, k, b) : V[x[1]][x[2]] = W[y[1]][y[2]]
  <2>1. y[1] \in DOMAIN W /\ y[2] \in DOMAIN W[y[1]] /\ Precedes(y[1], y[2], k, c)
        /\ W[y[1]][y[2]].seq = t.seq /\ ~(y[1] = 0 /\ y[2] = 1)
    BY <1>8, <1>12 DEF Earlier
  <2>2. PICK a \in DOMAIN V[y[1]] : y[2] = I(y[1], a)
    BY <1>6, <2>1
  <2>3. y[1] \in Nat /\ a \in Nat
    BY <1>2, <2>1, TokenOf
  <2>4. Precedes(y[1], a, k, b)
    BY <1>7, <1>8, <1>c, <2>1, <2>2, <2>3 DEF Precedes
  <2>5. V[y[1]][a] = W[y[1]][y[2]]
    BY <1>2, <1>5, <2>1, <2>2
  <2>6. <<y[1], a>> \in Earlier(V, k, b)
    BY <1>2, <1>7, <2>1, <2>3, <2>4, <2>5 DEF Earlier
  <2> QED  BY <2>5, <2>6
<1> HIDE DEF I
<1>13. m[t.seq] <= t.pos + 1
  BY <1>3, <1>4, <1>8, <1>9, <1>10, SMTT(30)
<1>14. \A x \in Earlier(V, k, b) : V[x[1]][x[2]].pos <= t.pos
  BY <1>9, <1>11
<1>15. CASE t.pos <= n[t.seq]
  <2>1. t.pos <= m[t.seq]
    BY <1>3, <1>4, <1>8, <1>10, <1>15, SMTT(30)
  <2> QED  BY <1>7, <1>13, <1>14, <2>1 DEF Follows
<1>16. CASE n[t.seq] = 0 /\ Earlier(W, k, c) = {}
  <2>1. h.seq # t.seq
    BY <1>10, <1>16
  <2>2. m[t.seq] = 0
    BY <1>4, <1>8, <1>16, <2>1
  <2>3. Earlier(V, k, b) = {}
    BY <1>11, <1>16
  <2> QED  BY <1>7, <1>13, <1>14, <2>2, <2>3 DEF Follows
<1>17. ASSUME NEW y \in Earlier(W, k, c), t.pos <= W[y[1]][y[2]].pos + 1
       PROVE  \/ t.pos <= m[t.seq]
              \/ \E x \in Earlier(V, k, b) : t.pos <= V[x[1]][x[2]].pos + 1
  <2>1. CASE y = <<0, 1>>
    <3>1. t.pos <= h.pos + 1 /\ h.seq = t.seq
      BY <1>1, <1>8, <1>17, <2>1 DEF Earlier
    <3>2. m[t.seq] = IF n[t.seq] > h.pos THEN n[t.seq] ELSE h.pos + 1
      BY <1>4, <1>8, <3>1
    <3> QED  BY <1>3, <1>8, <3>1, <3>2
  <2>2. CASE y # <<0, 1>>
    BY <1>12, <1>17, <2>2
  <2> QED  BY <2>1, <2>2
<1> QED  BY <1>7, <1>9, <1>13, <1>14, <1>15, <1>16, <1>17 DEF Follows

(* The next ubatch takes the place of one that is done.                    *)
LEMMA NextUbatch ==
    ASSUME NEW N \in Nat, NEW M \in Nat, N = M + 1,
           NEW W \in Queues(N), W[0] = <<>>,
           NEW n, Continues(W, n),
           NEW V \in Queues(M), \A k \in 0 .. M : V[k] = W[k + 1]
    PROVE  Continues(V, n)
<1>1. DOMAIN V = 0 .. M /\ DOMAIN W = 0 .. N
  BY DEF Queues
<1>2. SUFFICES ASSUME NEW k \in DOMAIN V, NEW b \in DOMAIN V[k],
                      NEW t, t = V[k][b]
               PROVE  Follows(V, n, k, b)
  BY DEF Continues
<1>3. k + 1 \in DOMAIN W /\ b \in DOMAIN W[k + 1] /\ t = W[k + 1][b] /\ k \in Nat /\ b \in Nat
  <2>1. k \in 0 .. M
    BY <1>1
  <2>2. b \in Nat
    BY TokenOf
  <2> QED  BY <1>1, <1>2, <2>1, <2>2
<1>4. /\ n[t.seq] <= t.pos + 1
      /\ \A x \in Earlier(W, k + 1, b) : W[x[1]][x[2]].pos <= t.pos
      /\ \/ t.pos <= n[t.seq]
         \/ n[t.seq] = 0 /\ Earlier(W, k + 1, b) = {}
         \/ \E x \in Earlier(W, k + 1, b) : t.pos <= W[x[1]][x[2]].pos + 1
  BY <1>3 DEF Continues, Follows
<1>5. ASSUME NEW x \in Earlier(V, k, b)
      PROVE  /\ <<x[1] + 1, x[2]>> \in Earlier(W, k + 1, b)
             /\ V[x[1]][x[2]] = W[x[1] + 1][x[2]]
  <2>1. x[1] \in 0 .. M /\ x[2] \in DOMAIN V[x[1]] /\ Precedes(x[1], x[2], k, b)
        /\ V[x[1]][x[2]].seq = t.seq /\ x[2] \in Nat
    BY <1>1, <1>2 DEF Earlier
  <2>2. x[1] + 1 \in DOMAIN W /\ V[x[1]] = W[x[1] + 1]
    BY <1>1, <2>1
  <2>3. Precedes(x[1] + 1, x[2], k + 1, b)
    BY <1>3, <2>1 DEF Precedes
  <2> QED  BY <1>3, <2>1, <2>2, <2>3 DEF Earlier
<1>6. ASSUME NEW y \in Earlier(W, k + 1, b)
      PROVE  \E x \in Earlier(V, k, b) : V[x[1]][x[2]] = W[y[1]][y[2]]
  <2>1. y[1] \in 0 .. N /\ y[2] \in DOMAIN W[y[1]] /\ Precedes(y[1], y[2], k + 1, b)
        /\ W[y[1]][y[2]].seq = t.seq /\ y[2] \in Nat
    BY <1>1, <1>3 DEF Earlier
  <2>2. y[1] # 0
    <3>1. W[0] = <<>> => DOMAIN W[0] = {}
      OBVIOUS
    <3> QED  BY <2>1, <3>1
  <2>3. y[1] - 1 \in 0 .. M /\ (y[1] - 1) + 1 = y[1]
    BY <2>1, <2>2
  <2>4. V[y[1] - 1] = W[y[1]]
    BY <2>3
  <2>5. Precedes(y[1] - 1, y[2], k, b)
    BY <1>3, <2>1 DEF Precedes
  <2>6. <<y[1] - 1, y[2]>> \in Earlier(V, k, b)
    BY <1>1, <1>2, <2>1, <2>3, <2>4, <2>5 DEF Earlier
  <2> QED  BY <2>4, <2>6
<1>7. \A x \in Earlier(V, k, b) : V[x[1]][x[2]].pos <= t.pos
  BY <1>4, <1>5
<1>8. CASE n[t.seq] = 0 /\ Earlier(W, k + 1, b) = {}
  BY <1>2, <1>4, <1>5, <1>7, <1>8 DEF Follows
<1>9. CASE \E x \in Earlier(W, k + 1, b) : t.pos <= W[x[1]][x[2]].pos + 1
  BY <1>2, <1>4, <1>6, <1>7, <1>9 DEF Follows
<1> QED  BY <1>2, <1>4, <1>7, <1>8, <1>9 DEF Follows

(* What is pending has the type of a list of queues.                       *)
LEMMA PendingType ==
    ASSUME TypeOK
    PROVE  /\ Len(trial) \in Nat /\ Pending \in Queues(Len(trial)) /\ Pending[0] = todo
           /\ nTokens \in [Seqs -> Nat]
<1>1. Len(trial) \in Nat /\ \A k \in 1 .. Len(trial) : trial[k] \in Seq(Token)
  BY LenProperties, ElementOfSeq DEF TypeOK, Ubatch
<1>2. Pending \in Queues(Len(trial))
  BY <1>1 DEF Pending, Queues, TypeOK
<1>3. Pending[0] = todo
  BY <1>1 DEF Pending
<1> QED  BY <1>1, <1>2, <1>3 DEF TypeOK

(* A batch that is accepted and ascends continues every sequence.          *)
LEMMA AcceptedContinues ==
    ASSUME TypeOK, NEW u \in Seq(Ubatch), Accepted(u), Ascending(u),
           NEW W, W = [k \in 0 .. Len(u) |-> IF k = 0 THEN <<>> ELSE u[k]]
    PROVE  Continues(W, nTokens)
<1>1. /\ DOMAIN u = 1 .. Len(u) /\ Len(u) \in Nat
      /\ \A k \in DOMAIN u : u[k] \in Seq(Token)
  BY LenProperties, ElementOfSeq DEF Ubatch
<1>2. W \in Queues(Len(u)) /\ DOMAIN W = 0 .. Len(u)
  <2>1. <<>> \in Seq(Token)
    BY EmptySeq
  <2> QED  BY <1>1, <2>1 DEF Queues
<1>3. /\ \A k \in DOMAIN W : k = 0 \/ (k \in DOMAIN u /\ W[k] = u[k])
      /\ \A k \in DOMAIN u : k \in DOMAIN W /\ W[k] = u[k]
      /\ DOMAIN W[0] = {}
  BY <1>1, <1>2
<1>4. SUFFICES ASSUME NEW k \in DOMAIN W, NEW b \in DOMAIN W[k],
                      NEW t, t = W[k][b]
               PROVE  Follows(W, nTokens, k, b)
  BY DEF Continues
<1>5. /\ k \in DOMAIN u /\ b \in DOMAIN u[k] /\ t = u[k][b]
      /\ k \in Nat /\ b \in Nat /\ t \in Token /\ t.seq \in Seqs /\ t.pos \in Nat
  BY <1>1, <1>2, <1>3, <1>4, TokenOf
<1>6. PICK P : P = UNION {PosOf(v, t.seq) : v \in Range(u)}
  OBVIOUS
<1>7. \A j \in DOMAIN u : \A a \in DOMAIN u[j] :
          u[j][a].seq = t.seq => u[j][a].pos \in P
  BY <1>6 DEF PosOf, Range
<1>8. \A q \in P : \E j \in DOMAIN u : \E a \in DOMAIN u[j] :
          u[j][a].seq = t.seq /\ u[j][a].pos = q
  BY <1>6 DEF PosOf, Range
<1>9. P \subseteq 0 .. MaxBlocks * BlockSize - 1
  <2>1. \A j \in DOMAIN u : \A a \in DOMAIN u[j] : u[j][a] \in Token
    BY <1>1, LenProperties, ElementOfSeq
  <2> QED  BY <1>8, <2>1 DEF Token
<1>10. Cardinality(P) \in Nat
  <2>1. IsFiniteSet(0 .. MaxBlocks * BlockSize - 1)
    BY FS_Interval
  <2>2. IsFiniteSet(P)
    BY <1>9, <2>1, FS_Subset
  <2> QED  BY <2>2, FS_CardinalityType
<1>11. PICK p \in P : /\ \A q \in P : p <= q
                      /\ P = p .. p + Cardinality(P) - 1
                      /\ nTokens[t.seq] > 0 => p = nTokens[t.seq]
  <2>1. t.seq \in UNION {SeqsOf(v) : v \in Range(u)}
    BY <1>5 DEF SeqsOf, Range
  <2> QED  BY <1>6, <2>1 DEF Accepted
<1>n. P \subseteq Nat
  BY <1>9
<1>12. p \in Nat /\ t.pos \in P /\ p <= t.pos /\ nTokens[t.seq] \in Nat
  <2>1. nTokens[t.seq] \in Nat
    BY <1>5, PendingType
  <2> QED  BY <1>5, <1>7, <1>n, <1>11, <2>1
<1>13. nTokens[t.seq] <= t.pos + 1
  BY <1>5, <1>11, <1>12
<1>14. ASSUME NEW x \in Earlier(W, k, b)
       PROVE  /\ x[1] \in DOMAIN u /\ x[2] \in DOMAIN u[x[1]] /\ W[x[1]][x[2]] = u[x[1]][x[2]]
              /\ Precedes(x[1], x[2], k, b) /\ u[x[1]][x[2]].seq = t.seq
  BY <1>3, <1>4 DEF Earlier
<1>15. \A x \in Earlier(W, k, b) : W[x[1]][x[2]].pos <= t.pos
  BY <1>5, <1>14 DEF Ascending, Precedes
<1>16. CASE t.pos = p
  <2>1. CASE nTokens[t.seq] > 0
    <3>1. t.pos <= nTokens[t.seq]
      BY <1>11, <1>12, <1>16, <2>1
    <3> QED  BY <1>4, <1>13, <1>15, <3>1 DEF Follows
  <2>2. CASE nTokens[t.seq] = 0
    <3>1. ASSUME NEW x \in Earlier(W, k, b)
          PROVE  t.pos <= W[x[1]][x[2]].pos + 1
      <4>1. u[x[1]][x[2]].pos \in P
        BY <1>7, <1>14
      <4>2. u[x[1]][x[2]].pos \in Nat /\ p <= u[x[1]][x[2]].pos
        BY <1>n, <1>11, <4>1
      <4>3. W[x[1]][x[2]].pos = u[x[1]][x[2]].pos
        BY <1>14
      <4> QED  BY <1>12, <1>16, <4>2, <4>3
    <3> QED  BY <1>4, <1>13, <1>15, <2>2, <3>1 DEF Follows
  <2> QED  BY <1>12, <2>1, <2>2
<1>17. CASE t.pos # p
  <2>1. t.pos - 1 \in P
    BY <1>10, <1>11, <1>12, <1>17
  <2>2. PICK j \in DOMAIN u : \E a \in DOMAIN u[j] : u[j][a].seq = t.seq /\ u[j][a].pos = t.pos - 1
    BY <1>8, <2>1
  <2>3. PICK a \in DOMAIN u[j] : u[j][a].seq = t.seq /\ u[j][a].pos = t.pos - 1
    BY <2>2
  <2>4. j \in Nat /\ a \in Nat /\ j \in DOMAIN W /\ W[j] = u[j]
    <3>1. j \in DOMAIN W /\ W[j] = u[j]
      BY <1>3
    <3> QED  BY <1>2, <3>1, TokenOf
  <2>5. Precedes(j, a, k, b)
    <3>1. ~(j = k /\ a = b)
      BY <1>5, <2>3
    <3>2. ~(k < j \/ (k = j /\ b < a))
      <4>1. (k < j \/ (k = j /\ b < a)) => t.pos <= t.pos - 1
        BY <1>5, <2>3 DEF Ascending
      <4> QED  BY <1>5, <4>1
    <3> QED  BY <1>5, <2>4, <3>1, <3>2 DEF Precedes
  <2>6. <<j, a>> \in Earlier(W, k, b) /\ t.pos <= W[j][a].pos + 1
    BY <1>4, <1>5, <2>3, <2>4, <2>5 DEF Earlier
  <2> QED  BY <1>4, <1>13, <1>15, <2>6 DEF Follows
<1> QED  BY <1>16, <1>17

(* With a stream of its own, a token stays in its sequence.                *)
LEMMA OwnTable ==
    ASSUME NEW u \in Ubatch, ~unified
    PROVE  Placement(u) = u
<1>1. u \in Seq(Token) /\ DOMAIN u = 1 .. Len(u) /\ u \in [1 .. Len(u) -> Token]
  BY LenProperties DEF Ubatch
<1>2. \A i \in DOMAIN u : [seq |-> u[i].seq, pos |-> u[i].pos] = u[i]
  <2>1. \A i \in DOMAIN u : u[i] \in Token
    BY <1>1
  <2> QED  BY <2>1 DEF Token
<1>3. Placement(u) = [i \in DOMAIN u |-> [seq |-> u[i].seq, pos |-> u[i].pos]]
  BY DEF Placement
<1> QED  BY <1>1, <1>2, <1>3

(* One token is placed in the block of its position, or skipped.           *)
LEMMA PlaceTokenGapless ==
    ASSUME TypeOK, Tried, Gapless, PlaceToken, UNCHANGED unified, TypeOK'
    PROVE  Gapless'
<1>1. PICK h, s, p, l : h = Head(todo) /\ s = h.seq /\ p = h.pos /\ l = p \div BlockSize
  OBVIOUS
<1>2. /\ todo \in Seq(Token) /\ todo # <<>> /\ todo' = Tail(todo)
      /\ UNCHANGED <<phase, trial, batch, ub>> /\ phase # "idle"
  BY DEF PlaceToken, TypeOK, Tried
<1>3. h \in Token /\ s \in Seqs /\ p \in Nat /\ l \in Logical /\ h \in Range(todo) /\ h = todo[1]
      /\ 1 \in 1 .. Len(todo)
  <2>1. h \in Token /\ h \in Range(todo) /\ h = todo[1] /\ 1 \in 1 .. Len(todo)
    BY <1>1, <1>2, HeadTailProperties, RangeOfTail, TailPicks
  <2>2. s \in Seqs /\ p \in 0 .. MaxBlocks * BlockSize - 1
    BY <1>1, <2>1 DEF Token
  <2>3. l \in Logical
    BY <1>1, <2>2, LogicalOfPosition
  <2> QED  BY <2>1, <2>2, <2>3
<1>4. /\ table \in [Seqs -> [Logical -> Blocks \cup {None}]]
      /\ nTokens \in [Seqs -> Nat] /\ Pending \in Queues(Len(trial)) /\ Pending[0] = todo
      /\ Len(trial) \in Nat
  BY PendingType DEF TypeOK
<1>5. \/ table[s][l] # None /\ Count(s, p) /\ UNCHANGED <<free, table>>
      \/ table[s][l] = None /\ free # {} /\ Allocate(s, l) /\ Count(s, p)
      \/ table[s][l] = None /\ free = {} /\ UNCHANGED <<free, table, nTokens>>
  BY <1>1 DEF PlaceToken, Skip
<1>6. Count(s, p) =>
          /\ nTokens' = [nTokens EXCEPT ![s] = IF @ > p THEN @ ELSE p + 1]
          /\ nTokens'[s] = IF nTokens[s] > p THEN nTokens[s] ELSE p + 1
          /\ \A r \in Seqs : r # s => nTokens'[r] = nTokens[r]
  BY <1>3, <1>4 DEF Count
<1>7. \A r \in Seqs : Solid(table'[r], nTokens'[r])
  <2>1. CASE table[s][l] # None /\ Count(s, p) /\ UNCHANGED <<free, table>>
    <3>1. Solid(table[s], IF nTokens[s] > p THEN nTokens[s] ELSE p + 1)
      BY <1>1, <1>3, <1>4, <2>1, CountKeepsSolid DEF Gapless
    <3> QED  BY <1>6, <2>1, <3>1 DEF Gapless
  <2>2. CASE table[s][l] = None /\ free # {} /\ Allocate(s, l) /\ Count(s, p)
    <3>1. phase = "prepare"
      <4>1. phase = "compute" => Mapped(h)
        BY <1>3, <2>2 DEF Tried
      <4> QED  BY <1>1, <1>2, <2>2, <4>1 DEF Mapped, TypeOK
    <3>2. nTokens[s] <= p + 1 /\ (p <= nTokens[s] \/ nTokens[s] = 0)
      <4>1. 0 \in DOMAIN Pending /\ 1 \in DOMAIN Pending[0] /\ Pending[0][1] = h
        BY <1>2, <1>3, <1>4, LenProperties DEF Queues
      <4>2. Follows(Pending, nTokens, 0, 1)
        BY <2>2, <3>1, <4>1 DEF Gapless, Continues
      <4>3. Earlier(Pending, 0, 1) = {}
        <5>1. SUFFICES ASSUME NEW x \in Earlier(Pending, 0, 1) PROVE FALSE
          OBVIOUS
        <5>2. x[1] \in DOMAIN Pending /\ x[2] \in DOMAIN Pending[x[1]] /\ Precedes(x[1], x[2], 0, 1)
          BY DEF Earlier
        <5>3. x[1] \in Nat /\ x[2] \in Nat \ {0}
          BY <1>4, <5>2, TokenOf
        <5> QED  BY <5>2, <5>3 DEF Precedes
      <4> QED  BY <1>1, <4>1, <4>2, <4>3 DEF Follows
    <3>3. PICK f : f = FirstFree
      OBVIOUS
    <3>4. f \in Blocks
      BY <2>2, <3>3, FirstFreeIsFree DEF TypeOK
    <3>5. Solid([table[s] EXCEPT ![l] = f], IF nTokens[s] > p THEN nTokens[s] ELSE p + 1)
      BY <1>1, <1>3, <1>4, <2>2, <3>2, <3>4, AllocateKeepsSolid DEF Gapless
    <3>6. table' = [table EXCEPT ![s] = [@ EXCEPT ![l] = f]]
      BY <2>2, <3>3 DEF Allocate
    <3>7. table'[s] = [table[s] EXCEPT ![l] = f] /\ \A r \in Seqs : r # s => table'[r] = table[r]
      BY <1>3, <1>4, <3>6
    <3> QED  BY <1>6, <2>2, <3>5, <3>7 DEF Gapless
  <2>3. CASE UNCHANGED <<free, table, nTokens>>
    BY <2>3 DEF Gapless
  <2> QED  BY <1>5, <2>1, <2>2, <2>3
<1>8. ASSUME phase' = "prepare", free' # {}
      PROVE  Continues(Pending', nTokens')
  <2>1. free # {} /\ Count(s, p)
    BY <1>5, <1>8 DEF Allocate
  <2>2. Continues(Pending, nTokens)
    BY <1>2, <1>8, <2>1 DEF Gapless
  <2>3. Pending' = [Pending EXCEPT ![0] = Tail(Pending[0])]
    BY <1>2, <1>4 DEF Pending
  <2>4. nTokens' = [nTokens EXCEPT ![h.seq] = IF @ > h.pos THEN @ ELSE h.pos + 1]
    BY <1>1, <1>6, <2>1
  <2>5. h = Head(Pending[0]) /\ Pending[0] # <<>>
    BY <1>1, <1>2, <1>4
  <2> QED  BY <1>4, <2>2, <2>3, <2>4, <2>5, NextGoes
<1> QED  BY <1>7, <1>8 DEF Gapless

LEMMA RemoveGapless ==
    ASSUME Gapless, NEW S, RemoveSequences(S), phase' # "prepare"
    PROVE  Gapless'
<1>1. \A s \in Seqs : /\ table'[s] = IF s \in S THEN NoTable ELSE table[s]
                      /\ nTokens'[s] = IF s \in S THEN 0 ELSE nTokens[s]
  BY DEF RemoveSequences
<1> QED  BY <1>1, EmptySolid DEF Gapless

(* Every step leaves the tables without gaps, with a stream for each       *)
(* sequence and tokens in the order of their positions.                    *)
LEMMA StepGapless ==
    ASSUME TypeOK, Tried, Gapless, ~unified, \A u \in Batches : Ascending(u),
           [Next]_vars, TypeOK'
    PROVE  Gapless'
<1>u. unified' = unified
  BY DEF Next, vars
<1>0. ASSUME UNCHANGED pool, phase' = "prepare" /\ free' # {} => Continues(Pending', nTokens')
      PROVE  Gapless'
  BY <1>0 DEF Gapless, pool
<1>1. ASSUME NEW u \in Batches, Decode(u)
      PROVE  Gapless'
  <2>1. u \in Seq(Ubatch) /\ Accepted(u) /\ Ascending(u)
    BY <1>1, BatchesAssumption DEF Decode
  <2>2. todo' = <<>> /\ trial' = u /\ UNCHANGED pool
    BY <1>1 DEF Decode, Idle, Tried
  <2>3. Pending' = [k \in 0 .. Len(u) |-> IF k = 0 THEN <<>> ELSE u[k]]
    BY <2>2 DEF Pending
  <2>4. Continues(Pending', nTokens)
    BY <2>1, <2>3, AcceptedContinues
  <2> QED  BY <1>0, <2>2, <2>4 DEF pool
<1>2. CASE PrepareUbatch
  <2>1. /\ phase = "prepare" /\ todo = <<>> /\ trial \in Seq(Ubatch) /\ trial # <<>>
        /\ trial' = Tail(trial) /\ todo' = Placement(Head(trial)) /\ UNCHANGED pool
    BY <1>2 DEF PrepareUbatch, TypeOK
  <2>2. PICK M : M = Len(trial')
    OBVIOUS
  <2>3. /\ M \in Nat /\ Len(trial) = M + 1
        /\ \A k \in 1 .. M : trial'[k] = trial[k + 1]
        /\ Head(trial) = trial[1] /\ Head(trial) \in Ubatch
    BY <2>1, <2>2, HeadTailProperties, LenProperties
  <2>4. todo' = trial[1]
    BY <2>1, <2>3, OwnTable
  <2>5. /\ Pending \in Queues(M + 1) /\ Pending[0] = <<>>
        /\ Pending' \in Queues(M)
    <3>1. Pending \in Queues(M + 1) /\ Pending[0] = <<>>
      BY <2>1, <2>3, PendingType
    <3>2. Pending' = [k \in 0 .. M |-> IF k = 0 THEN trial[1] ELSE trial[k + 1]]
      BY <2>2, <2>3, <2>4 DEF Pending
    <3>3. \A k \in 1 .. M + 1 : trial[k] \in Seq(Token)
      BY <2>1, <2>3, ElementOfSeq DEF Ubatch
    <3> QED  BY <2>3, <3>1, <3>2, <3>3 DEF Queues
  <2>6. \A k \in 0 .. M : Pending'[k] = Pending[k + 1]
    BY <2>2, <2>3, <2>4 DEF Pending
  <2>7. free # {} => Continues(Pending, nTokens)
    BY <2>1 DEF Gapless
  <2>8. free # {} => Continues(Pending', nTokens)
    BY <2>3, <2>5, <2>6, <2>7, NextUbatch
  <2> QED  BY <1>0, <2>1, <2>8 DEF pool
<1>3. CASE PlaceToken
  BY <1>u, <1>3, PlaceTokenGapless
<1>4. CASE ComputeOk
  <2>1. todo' = <<>> /\ trial' = <<>> /\ UNCHANGED pool
    BY <1>4 DEF ComputeOk, Tried
  <2>2. Pending' = [k \in 0 .. 0 |-> <<>>]
    BY <2>1 DEF Pending
  <2>3. \A k \in DOMAIN Pending' : DOMAIN Pending'[k] = {}
    BY <2>2
  <2> QED  BY <1>0, <2>1, <2>3 DEF Continues
<1>5. CASE Apply \/ (\E keep : RemoveOthers(keep))
  <2>1. UNCHANGED pool /\ phase' # "prepare"
    BY <1>5 DEF Apply, RemoveOthers, Idle
  <2> QED  BY <1>0, <2>1
<1>6. CASE ComputeFail
  BY <1>6, RemoveGapless DEF ComputeFail
<1>7. ASSUME NEW s \in Seqs, SeqRm(s)
      PROVE  Gapless'
  BY <1>7, RemoveGapless DEF SeqRm, Idle
<1>8. ASSUME NEW src \in Seqs, NEW dst \in Seqs, SeqCp(src, dst)
      PROVE  Gapless'
  <2>1. /\ \A s \in Seqs : /\ table'[s] = IF s = dst THEN table[src] ELSE table[s]
                           /\ nTokens'[s] = IF s = dst THEN nTokens[src] ELSE nTokens[s]
        /\ phase' # "prepare"
    BY <1>8 DEF SeqCp, Idle, TypeOK
  <2> QED  BY <2>1 DEF Gapless
<1>9. CASE Restart
  <2>1. \A s \in Seqs : table'[s] = NoTable /\ nTokens'[s] = 0
    BY <1>9 DEF Restart
  <2> QED  BY <1>9, <2>1, EmptySolid DEF Restart, Gapless
<1>10. CASE UNCHANGED vars
  BY <1>10 DEF vars, pool, Gapless, Pending
<1> QED  BY <1>1, <1>2, <1>3, <1>4, <1>5, <1>6, <1>7, <1>8, <1>9, <1>10 DEF Next, Step

(* Attention, which walks a table up to n_tokens, meets no hole below it,  *)
(* also after blocks ran out, if batches ascend (which batches need not:   *)
(* see Accepted).                                                          *)
THEOREM TablesHaveNoGap ==
    ASSUME \A u \in Batches : Ascending(u)
    PROVE  Spec => []NoGap
<1> DEFINE Inv == TypeOK /\ RefsCover /\ Tried /\ (~unified => Gapless)
<1>1. Init => Inv
  <2>1. Init => Tried /\ Gapless
    BY EmptySolid DEF Init, Tried, Gapless, Range
  <2> QED  BY <2>1, FreshPool
<1>2. Inv /\ [Next]_vars => Inv'
  <2>1. [Next]_vars => unified' = unified
    BY DEF Next, vars
  <2> QED  BY <2>1, StepKeepsCover, StepTries, StepGapless
<1>3. Inv => NoGap
  BY DEF Gapless, Solid, NoGap
<1> QED  BY <1>1, <1>2, <1>3, PTL DEF Spec
=============================================================================
