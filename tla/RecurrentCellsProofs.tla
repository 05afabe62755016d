------------------------ MODULE RecurrentCellsProofs ------------------------
(***************************************************************************)
(* Theorems about RecurrentCells, for any number of cells and any batches. *)
(*                                                                         *)
(* Between two calls the metadata is Rested: a cell names only sequences   *)
(* whose tail it is, an empty cell has no position, each cell reads its    *)
(* own row or none, and used counts the cells that are not empty.  This    *)
(* survives every call, seq_rm(-1) and failed graphs included; that every  *)
(* tail is in its cell (Tailed) and that the rows hold the texts (Tells)   *)
(* do not, and are kept apart from it.                                     *)
(*                                                                         *)
(* find_slot is followed stage by stage.  While it works a tail may be     *)
(* away from the sets of its cell, and a cell may read another's row: each *)
(* stage has a predicate that says where the ubatch stands (Assigned,      *)
(* Spanned, InOrder, Takes) and a lemma that what concerns nobody in the   *)
(* ubatch is as before (Kept).                                             *)
(***************************************************************************)
EXTENDS RecurrentCells, SequenceLemmas, FiniteSetTheorems, TLAPS

LEMMA SizeType == Size \in Nat /\ Size >= 1
BY RecurrentAssumption

LEMMA CellsType ==
    /\ IsFiniteSet(Cells) /\ Cardinality(Cells) = Size /\ Seqs = Cells
    /\ \A c \in Cells : c \in Nat /\ c # None
    /\ 0 \in Cells
<1>1. Cells = 0 .. Size - 1 /\ 0 \in Int /\ Size - 1 \in Int /\ Size >= 1
  BY SizeType DEF Cells
<1>2. IsFiniteSet(Cells) /\ Cardinality(Cells) = Size
  <2>1. PICK n : n = Size - 1
    OBVIOUS
  <2>2. n \in Int /\ ~(0 > n) /\ n - 0 + 1 = Size /\ Cells = 0 .. n
    BY <1>1, <2>1, SizeType
  <2>3. IsFiniteSet(0 .. n) /\ Cardinality(0 .. n) = IF 0 > n THEN 0 ELSE n - 0 + 1
    BY <2>2, FS_Interval
  <2> QED  BY <2>2, <2>3
<1> QED  BY <1>1, <1>2, SizeType DEF Seqs, None

-----------------------------------------------------------------------------
(* What the operators on ubatches are about.                               *)
LEMMA UbatchType ==
    ASSUME NEW u \in Ubatches
    PROVE  /\ Len(u) \in Nat /\ Len(u) >= 1 /\ DOMAIN u = 1 .. Len(u)
           /\ \A i \in 1 .. Len(u) :
                /\ u[i] \in Seq(Seqs) /\ Len(u[i]) \in Nat /\ Len(u[i]) >= 1
                /\ DOMAIN u[i] = 1 .. Len(u[i])
                /\ Owner(u[i]) \in Seqs /\ Owner(u[i]) = u[i][1]
                /\ Owner(u[i]) \in ToSet(u[i]) /\ ToSet(u[i]) \subseteq Seqs
                /\ Owner(u[i]) \notin Joining(u)
                /\ \A s \in ToSet(u[i]) : s = Owner(u[i]) \/ s \in Joining(u)
           /\ \A s \in Joining(u) : \E i \in 1 .. Len(u) : s \in ToSet(u[i])
           /\ \A i, j \in 1 .. Len(u) :
                /\ Owner(u[i]) = Owner(u[j]) => i = j
                /\ (ToSet(u[i]) \cap ToSet(u[j]) # {}) => i = j
           /\ Joining(u) \subseteq Seqs
<1>1. u \in Seq(Seq(Seqs)) /\ u # <<>>
  BY DEF Ubatches
<1>2. Len(u) \in Nat /\ Len(u) >= 1 /\ DOMAIN u = 1 .. Len(u)
  BY <1>1, LenProperties, EmptySeq
<1>3. ASSUME NEW i \in 1 .. Len(u)
      PROVE  /\ u[i] \in Seq(Seqs) /\ Len(u[i]) \in Nat /\ Len(u[i]) >= 1
             /\ DOMAIN u[i] = 1 .. Len(u[i])
             /\ \A j \in 1 .. Len(u[i]) : u[i][j] \in Seqs
  <2>1. u[i] \in Seq(Seqs)
    BY <1>1, ElementOfSeq
  <2>2. u[i] # <<>>
    BY <1>2 DEF Ubatches
  <2>3. Len(u[i]) \in Nat /\ Len(u[i]) >= 1 /\ DOMAIN u[i] = 1 .. Len(u[i])
    BY <2>1, <2>2, LenProperties, EmptySeq
  <2>4. \A j \in 1 .. Len(u[i]) : u[i][j] \in Seqs
    BY <2>1, ElementOfSeq
  <2> QED  BY <2>1, <2>3, <2>4
<1>4. \A i, k \in 1 .. Len(u) : \A j \in 1 .. Len(u[i]), l \in 1 .. Len(u[k]) :
        u[i][j] = u[k][l] => i = k /\ j = l
  BY <1>2, <1>3 DEF Ubatches
<1>5. ASSUME NEW i \in 1 .. Len(u)
      PROVE  Owner(u[i]) = u[i][1] /\ 1 \in 1 .. Len(u[i]) /\ ToSet(u[i]) = {u[i][j] : j \in 1 .. Len(u[i])}
  BY <1>3 DEF Owner, ToSet
<1>6. Joining(u) = UNION {{u[i][j] : j \in 2 .. Len(u[i])} : i \in 1 .. Len(u)}
  BY <1>2 DEF Joining
<1>7. ASSUME NEW i \in 1 .. Len(u)
      PROVE  /\ Owner(u[i]) \in ToSet(u[i]) /\ ToSet(u[i]) \subseteq Seqs /\ Owner(u[i]) \in Seqs
             /\ Owner(u[i]) \notin Joining(u)
             /\ \A s \in ToSet(u[i]) : s = Owner(u[i]) \/ s \in Joining(u)
  <2>0. 1 \in 1 .. Len(u[i])
    BY <1>3
  <2>1. Owner(u[i]) \in ToSet(u[i]) /\ ToSet(u[i]) \subseteq Seqs /\ Owner(u[i]) \in Seqs
    <3>1. Owner(u[i]) \in ToSet(u[i])
      BY <1>5, <2>0
    <3>2. ToSet(u[i]) \subseteq Seqs
      <4>1. ASSUME NEW s \in ToSet(u[i]) PROVE s \in Seqs
        <5>1. PICK j \in 1 .. Len(u[i]) : s = u[i][j]
          BY <1>5, <4>1
        <5> QED  BY <1>3, <5>1
      <4> QED  BY <4>1
    <3> QED  BY <3>1, <3>2
  <2>2. ASSUME Owner(u[i]) \in Joining(u) PROVE FALSE
    <3>1. PICK k \in 1 .. Len(u) : \E j \in 2 .. Len(u[k]) : u[i][1] = u[k][j]
      BY <1>5, <1>6, <2>2
    <3>2. PICK j \in 2 .. Len(u[k]) : u[i][1] = u[k][j]
      BY <3>1
    <3> QED  BY <1>3, <1>4, <1>5, <3>2
  <2>3. ASSUME NEW s \in ToSet(u[i]) PROVE s = Owner(u[i]) \/ s \in Joining(u)
    <3>1. PICK j \in 1 .. Len(u[i]) : s = u[i][j]
      BY <1>5
    <3>2. CASE j = 1
      BY <1>5, <3>1, <3>2
    <3>3. CASE j # 1
      <4>1. j \in 2 .. Len(u[i])
        BY <1>3, <3>3
      <4> QED  BY <1>6, <3>1, <4>1
    <3> QED  BY <3>2, <3>3
  <2> QED  BY <2>1, <2>2, <2>3
<1>8. ASSUME NEW i \in 1 .. Len(u), NEW j \in 1 .. Len(u)
      PROVE  /\ Owner(u[i]) = Owner(u[j]) => i = j
             /\ (ToSet(u[i]) \cap ToSet(u[j]) # {}) => i = j
  <2>1. Owner(u[i]) = Owner(u[j]) => i = j
    BY <1>4, <1>5
  <2>2. ASSUME NEW s \in ToSet(u[i]) \cap ToSet(u[j]) PROVE i = j
    <3>1. PICK k \in 1 .. Len(u[i]) : s = u[i][k]
      BY <1>5, <2>2
    <3>2. PICK l \in 1 .. Len(u[j]) : s = u[j][l]
      BY <1>5, <2>2
    <3> QED  BY <1>4, <3>1, <3>2
  <2> QED  BY <2>1, <2>2
<1>9. Joining(u) \subseteq Seqs /\ \A s \in Joining(u) : \E i \in 1 .. Len(u) : s \in ToSet(u[i])
  <2>1. ASSUME NEW s \in Joining(u) PROVE s \in Seqs /\ \E i \in 1 .. Len(u) : s \in ToSet(u[i])
    <3>1. PICK k \in 1 .. Len(u) : \E j \in 2 .. Len(u[k]) : s = u[k][j]
      BY <1>6
    <3>2. PICK j \in 1 .. Len(u[k]) : s = u[k][j]
      BY <1>3, <3>1
    <3>3. s \in ToSet(u[k])
      BY <1>5, <3>2
    <3> QED  BY <1>3, <3>2, <3>3
  <2> QED  BY <2>1
<1> QED  BY <1>2, <1>3, <1>5, <1>7, <1>8, <1>9
-----------------------------------------------------------------------------
(* The metadata while find_slot works on it.  A cell names only sequences  *)
(* whose tail it is.                                                       *)
Metadata ==
    [pos : [Cells -> Int], src : [Cells -> Cells \cup {None}], seqs : [Cells -> SUBSET Seqs],
     tail : [Seqs -> Cells \cup {None}], head : Int, used : Int]

Named(m) == \A c \in Cells : \A s \in m.seqs[c] : m.tail[s] = c

(* An empty cell has no position, and another has one. *)
Clean(m, c) == m.pos[c] >= -1 /\ (m.seqs[c] = {} <=> m.pos[c] = -1)

(* Between two ubatches each cell reads its own row, or none.              *)
AtHome(m, c) == m.src[c] \in {c, None}

(* The metadata between two operations. *)
Rested ==
    {m \in Metadata :
        /\ Named(m)
        /\ \A c \in Cells : Clean(m, c) /\ AtHome(m, c)
        /\ m.head \in Cells
        /\ m.used = Cardinality(Occupied(m))}

(* The tail of each sequence of S, if it has one, names it.                *)
Tailed(m, S) == \A s \in S : m.tail[s] # None => s \in m.seqs[m.tail[s]]

(* The rows r hold the texts t.                                            *)
Row(m, r, c) == IF m.src[c] = None THEN <<>> ELSE r[m.src[c]]

Tells(m, r, t) ==
    /\ \A s \in Seqs : t[s] = IF m.tail[s] = None THEN <<>> ELSE Row(m, r, m.tail[s])
    /\ \A c \in Cells : m.seqs[c] = {} => Row(m, r, c) = <<>>

(* Where a sequence ends. *)
End(m, s) == IF m.tail[s] # None /\ s \in m.seqs[m.tail[s]] THEN m.pos[m.tail[s]] ELSE -1

LEMMA EndIsPosMax ==
    ASSUME NEW m \in Metadata, Named(m), \A c \in Cells : Clean(m, c), NEW s \in Seqs
    PROVE  PosMax(m, s) = End(m, s) /\ End(m, s) \in Int /\ End(m, s) >= -1
<1>1. PICK S : S = {-1} \cup {m.pos[c] : c \in {d \in Cells : s \in m.seqs[d]}}
  OBVIOUS
<1>2. /\ m.tail \in [Seqs -> Cells \cup {None}] /\ m.pos \in [Cells -> Int]
      /\ \A c \in Cells : s \in m.seqs[c] => c = m.tail[s]
  BY DEF Metadata, Named
<1>3. PosMax(m, s) = CHOOSE x \in S : \A y \in S : x >= y
  BY <1>1 DEF PosMax, Max
<1>4. PICK e : e = End(m, s)
  OBVIOUS
<1>5. CASE m.tail[s] # None /\ s \in m.seqs[m.tail[s]]
  <2>1. m.tail[s] \in Cells /\ e = m.pos[m.tail[s]]
    BY <1>2, <1>4, <1>5 DEF End
  <2>2. e \in Int /\ e >= -1
    BY <1>2, <2>1 DEF Clean
  <2>3. S = {-1, e}
    BY <1>1, <1>2, <1>5, <2>1
  <2> QED  BY <1>3, <1>4, <2>2, <2>3
<1>6. CASE ~(m.tail[s] # None /\ s \in m.seqs[m.tail[s]])
  <2>1. e = -1
    BY <1>4, <1>6 DEF End
  <2>2. \A c \in Cells : s \notin m.seqs[c]
    BY <1>2, <1>6, CellsType
  <2>3. S = {-1}
    BY <1>1, <2>2
  <2> QED  BY <1>3, <1>4, <2>1, <2>3
<1> QED  BY <1>5, <1>6
-----------------------------------------------------------------------------
(* Sequences give up their cells.                                          *)
GivenUp(m, k, who, freed) ==
    /\ \A c \in Cells : /\ k.seqs[c] = m.seqs[c] \ who
                        /\ k.pos[c] = IF c \in freed THEN -1 ELSE m.pos[c]
                        /\ k.src[c] = IF c \in freed THEN None ELSE m.src[c]
    /\ \A s \in Seqs : k.tail[s] = IF s \in who THEN None ELSE m.tail[s]
    /\ k.head = m.head
    /\ k.used = m.used - Cardinality(freed)

LEMMA ReleaseIs ==
    ASSUME NEW m \in Metadata, Named(m), NEW who \in SUBSET Seqs,
           NEW freed, freed = {c \in Cells : m.seqs[c] \ who = {} /\ \E s \in who : m.tail[s] = c},
           NEW k, k = Release(m, who)
    PROVE  k \in Metadata /\ Named(k) /\ GivenUp(m, k, who, freed)
<1>1. /\ m.tail \in [Seqs -> Cells \cup {None}] /\ m.pos \in [Cells -> Int]
      /\ m.src \in [Cells -> Cells \cup {None}] /\ m.seqs \in [Cells -> SUBSET Seqs]
      /\ m.head \in Int /\ m.used \in Int
  BY DEF Metadata
<1>2. ASSUME NEW c \in Cells PROVE m.seqs[c] \ {s \in who : m.tail[s] = c} = m.seqs[c] \ who
  BY DEF Named
<1>3. freed = {c \in Cells : m.seqs[c] \ {s \in who : m.tail[s] = c} = {} /\ \E s \in who : m.tail[s] = c}
  BY <1>2
<1>4. k = [pos  |-> [c \in Cells |-> IF c \in freed THEN -1 ELSE m.pos[c]],
           src  |-> [c \in Cells |-> IF c \in freed THEN None ELSE m.src[c]],
           seqs |-> [c \in Cells |-> m.seqs[c] \ who],
           tail |-> [s \in Seqs |-> IF s \in who THEN None ELSE m.tail[s]],
           head |-> m.head,
           used |-> m.used - Cardinality(freed)]
  <2>1. [c \in Cells |-> m.seqs[c] \ {s \in who : m.tail[s] = c}] = [c \in Cells |-> m.seqs[c] \ who]
    BY <1>2
  <2> QED  BY <1>3, <2>1 DEF Release
<1>5. /\ \A c \in Cells : /\ k.seqs[c] = m.seqs[c] \ who
                          /\ k.pos[c] = IF c \in freed THEN -1 ELSE m.pos[c]
                          /\ k.src[c] = IF c \in freed THEN None ELSE m.src[c]
      /\ \A s \in Seqs : k.tail[s] = IF s \in who THEN None ELSE m.tail[s]
      /\ k.head = m.head /\ k.used = m.used - Cardinality(freed)
  BY <1>4
<1>6. k \in Metadata
  <2>1. Cardinality(freed) \in Int
    <3>1. IsFiniteSet(freed)
      BY CellsType, FS_Subset
    <3> QED  BY <3>1, FS_CardinalityType
  <2>2. /\ [c \in Cells |-> IF c \in freed THEN -1 ELSE m.pos[c]] \in [Cells -> Int]
        /\ [c \in Cells |-> IF c \in freed THEN None ELSE m.src[c]] \in [Cells -> Cells \cup {None}]
        /\ [c \in Cells |-> m.seqs[c] \ who] \in [Cells -> SUBSET Seqs]
        /\ [s \in Seqs |-> IF s \in who THEN None ELSE m.tail[s]] \in [Seqs -> Cells \cup {None}]
        /\ m.used - Cardinality(freed) \in Int
    BY <1>1, <2>1
  <2> QED  BY <1>1, <1>4, <2>2 DEF Metadata
<1>7. Named(k)
  <2>1. ASSUME NEW c \in Cells, NEW s \in k.seqs[c] PROVE k.tail[s] = c
    <3>1. s \in m.seqs[c] /\ s \notin who /\ s \in Seqs
      BY <1>1, <1>5
    <3> QED  BY <1>5, <3>1 DEF Named
  <2> QED  BY <2>1 DEF Named
<1> QED  BY <1>5, <1>6, <1>7 DEF GivenUp

LEMMA ReleaseKeeps ==
    ASSUME NEW m \in Metadata, Named(m), NEW who \in SUBSET Seqs, NEW k, k = Release(m, who)
    PROVE  /\ \A c \in Cells : Clean(m, c) => Clean(k, c)
           /\ \A c \in Cells : AtHome(m, c) => AtHome(k, c)
           /\ \A s \in Seqs \ who : End(k, s) = End(m, s)
           /\ Tailed(m, Seqs) => Tailed(k, Seqs)
           /\ Tailed(m, Seqs) /\ m.used = Cardinality(Occupied(m)) => k.used = Cardinality(Occupied(k))
           /\ \A r, t : Tailed(m, Seqs) /\ Tells(m, r, t) =>
                 Tells(k, r, [s \in Seqs |-> IF s \in who THEN <<>> ELSE t[s]])
<1>1. PICK freed : freed = {c \in Cells : m.seqs[c] \ who = {} /\ \E s \in who : m.tail[s] = c}
  OBVIOUS
<1>2. /\ k \in Metadata /\ Named(k)
      /\ \A c \in Cells : /\ k.seqs[c] = m.seqs[c] \ who
                          /\ k.pos[c] = IF c \in freed THEN -1 ELSE m.pos[c]
                          /\ k.src[c] = IF c \in freed THEN None ELSE m.src[c]
      /\ \A s \in Seqs : k.tail[s] = IF s \in who THEN None ELSE m.tail[s]
      /\ k.head = m.head
      /\ k.used = m.used - Cardinality(freed)
  BY <1>1, ReleaseIs DEF GivenUp
<1>3. /\ m.tail \in [Seqs -> Cells \cup {None}] /\ m.pos \in [Cells -> Int]
      /\ m.seqs \in [Cells -> SUBSET Seqs]
  BY DEF Metadata
<1>4. ASSUME NEW c \in Cells, Clean(m, c) PROVE Clean(k, c)
  <2>1. CASE c \in freed
    BY <1>1, <1>2, <2>1 DEF Clean
  <2>2. CASE c \notin freed /\ m.seqs[c] = {}
    BY <1>2, <1>4, <2>2 DEF Clean
  <2>3. CASE c \notin freed /\ m.seqs[c] # {}
    <3>1. k.seqs[c] # {}
      <4>1. PICK s \in m.seqs[c] : TRUE
        BY <2>3
      <4>2. m.tail[s] = c
        BY DEF Named
      <4> QED  BY <1>1, <1>2, <2>3, <4>1, <4>2
    <3> QED  BY <1>2, <1>4, <2>3, <3>1 DEF Clean
  <2> QED  BY <2>1, <2>2, <2>3
<1>5. \A c \in Cells : AtHome(m, c) => AtHome(k, c)
  BY <1>2 DEF AtHome
<1>6. ASSUME NEW s \in Seqs \ who PROVE End(k, s) = End(m, s)
  <2>1. k.tail[s] = m.tail[s] /\ (m.tail[s] # None => m.tail[s] \in Cells)
    BY <1>2, <1>3
  <2>2. ASSUME m.tail[s] # None PROVE s \in k.seqs[m.tail[s]] <=> s \in m.seqs[m.tail[s]]
    BY <1>2, <2>1, <2>2
  <2>3. ASSUME m.tail[s] # None, s \in m.seqs[m.tail[s]] PROVE k.pos[m.tail[s]] = m.pos[m.tail[s]]
    <3>1. m.tail[s] \notin freed
      BY <1>1, <2>3
    <3> QED  BY <1>2, <2>1, <2>3, <3>1
  <2> QED  BY <2>1, <2>2, <2>3 DEF End
<1>7. ASSUME Tailed(m, Seqs) PROVE Tailed(k, Seqs)
  <2>1. ASSUME NEW s \in Seqs, k.tail[s] # None PROVE s \in k.seqs[k.tail[s]]
    <3>1. s \notin who /\ k.tail[s] = m.tail[s] /\ m.tail[s] \in Cells
      BY <1>2, <1>3, <2>1
    <3> QED  BY <1>2, <1>7, <3>1, <2>1 DEF Tailed
  <2> QED  BY <2>1 DEF Tailed
<1>8. ASSUME Tailed(m, Seqs), m.used = Cardinality(Occupied(m)) PROVE k.used = Cardinality(Occupied(k))
  <2>1. Occupied(k) = Occupied(m) \ freed
    <3>1. ASSUME NEW c \in Cells PROVE c \in Occupied(k) <=> c \in Occupied(m) /\ c \notin freed
      <4>1. CASE m.seqs[c] = {}
        BY <1>2, <4>1 DEF Occupied
      <4>2. CASE m.seqs[c] # {} /\ c \in freed
        BY <1>1, <1>2, <4>2 DEF Occupied
      <4>3. CASE m.seqs[c] # {} /\ c \notin freed
        <5>1. PICK s \in m.seqs[c] : TRUE
          BY <4>3
        <5>2. m.tail[s] = c
          BY DEF Named
        <5> QED  BY <1>1, <1>2, <4>3, <5>1, <5>2 DEF Occupied
      <4> QED  BY <4>1, <4>2, <4>3
    <3> QED  BY <1>1, <3>1 DEF Occupied
  <2>2. freed \subseteq Occupied(m)
    BY <1>1, <1>8, CellsType DEF Occupied, Tailed
  <2>3. IsFiniteSet(Occupied(m))
    BY CellsType, FS_Subset DEF Occupied
  <2>4. IsFiniteSet(freed) /\ Occupied(m) \cap freed = freed
    BY <2>2, <2>3, FS_Subset
  <2>5. Cardinality(Occupied(m) \ freed) = Cardinality(Occupied(m)) - Cardinality(freed)
    BY <2>3, <2>4, FS_Difference
  <2> QED  BY <1>2, <1>8, <2>1, <2>5
<1>9. ASSUME NEW r, NEW t, Tailed(m, Seqs), Tells(m, r, t)
      PROVE  Tells(k, r, [s \in Seqs |-> IF s \in who THEN <<>> ELSE t[s]])
  <2>1. ASSUME NEW s \in Seqs \ who
        PROVE  t[s] = IF k.tail[s] = None THEN <<>> ELSE Row(k, r, k.tail[s])
    <3>1. k.tail[s] = m.tail[s] /\ (m.tail[s] # None => m.tail[s] \in Cells /\ m.tail[s] \notin freed)
      BY <1>1, <1>2, <1>3, <1>9 DEF Tailed
    <3>2. m.tail[s] # None => k.src[m.tail[s]] = m.src[m.tail[s]]
      BY <1>2, <3>1
    <3> QED  BY <1>9, <3>1, <3>2 DEF Tells, Row
  <2>2. ASSUME NEW c \in Cells, k.seqs[c] = {} PROVE Row(k, r, c) = <<>>
    <3>1. CASE c \in freed
      BY <1>2, <3>1 DEF Row
    <3>2. CASE c \notin freed
      <4>1. m.seqs[c] = {}
        <5>1. ASSUME NEW s \in m.seqs[c] PROVE FALSE
          BY <1>1, <1>2, <2>2, <3>2 DEF Named
        <5> QED  BY <5>1
      <4> QED  BY <1>2, <1>9, <3>2, <4>1 DEF Tells, Row
    <3> QED  BY <3>1, <3>2
  <2>3. \A s \in who : k.tail[s] = None
    BY <1>2
  <2> QED  BY <2>1, <2>2, <2>3 DEF Tells
<1> QED  BY <1>4, <1>5, <1>6, <1>7, <1>8, <1>9
-----------------------------------------------------------------------------
(* The empty cells are all there, each once.                               *)
LEMMA EmptiesAre ==
    ASSUME NEW m \in Metadata, m.head \in Cells, NEW E, E = Empties(m)
    PROVE  /\ E \in Seq(Cells) /\ Len(E) \in Nat
           /\ \A i \in 1 .. Len(E) : E[i] \in Cells /\ m.seqs[E[i]] = {}
           /\ \A i, j \in 1 .. Len(E) : E[i] = E[j] => i = j
           /\ Len(E) + Cardinality(Occupied(m)) = Size
<1> DEFINE at(n) == IF n < Size THEN n ELSE n - Size
           h0 == m.head
           O == Occupied(m)
<1>0. Size \in Nat /\ Size >= 1 /\ h0 \in Int /\ 0 <= h0 /\ h0 <= Size - 1 /\ Cells = 0 .. Size - 1
  BY SizeType DEF Cells
<1>1. PICK q : q = [k \in 1 .. Size |-> at(h0 + k - 1)]
  OBVIOUS
<1>2. \A k \in 1 .. Size : q[k] = at(h0 + k - 1) /\ q[k] \in Cells
  BY <1>0, <1>1
<1>3. q \in Seq(Cells) /\ Len(q) = Size
  <2>1. q \in [1 .. Size -> Cells]
    BY <1>1, <1>2
  <2> QED  BY <1>0, <2>1
<1>4. ASSUME NEW k \in 1 .. Size, NEW l \in 1 .. Size, q[k] = q[l] PROVE k = l
  <2>1. at(h0 + k - 1) = at(h0 + l - 1)
    BY <1>2, <1>4
  <2> HIDE DEF h0
  <2> QED  BY <1>0, <2>1
<1>5. ASSUME NEW c \in Cells PROVE \E k \in 1 .. Size : q[k] = c
  <2>1. CASE c >= h0
    <3>1. c - h0 + 1 \in 1 .. Size /\ at(h0 + (c - h0 + 1) - 1) = c
      BY <1>0, <2>1
    <3> QED  BY <1>2, <3>1
  <2>2. CASE c < h0
    <3>1. c - h0 + 1 + Size \in 1 .. Size /\ at(h0 + (c - h0 + 1 + Size) - 1) = c
      BY <1>0, <2>2
    <3> QED  BY <1>2, <3>1
  <2> QED  BY <1>0, <2>1, <2>2
<1>6. E = RemoveIf(q, O)
  BY <1>1 DEF Empties
<1>7. E \in Seq(Cells) /\ \E h : Picks(q, Others(q, O, Len(q)), E, h)
  <2> HIDE DEF O
  <2> QED  BY <1>3, <1>6, RemoveIfPicks
<1>8. PICK h : Picks(q, Others(q, O, Size), E, h)
  BY <1>3, <1>7
<1>9. PICK n : n = Len(E)
  OBVIOUS
<1>10. n \in Nat
  BY <1>7, <1>9, LenProperties
<1>11. \A i \in 1 .. n : h[i] \in 1 .. Size /\ q[h[i]] \notin O /\ E[i] = q[h[i]]
  BY <1>8, <1>9 DEF Picks, Others
<1>12. \A i, j \in 1 .. n : E[i] = E[j] => i = j
  <2>1. ASSUME NEW i \in 1 .. n, NEW j \in 1 .. n, E[i] = E[j] PROVE i = j
    <3>1. h[i] = h[j]
      BY <1>4, <1>11, <2>1
    <3>2. \A a, b \in 1 .. n : a < b => h[a] < h[b]
      BY <1>8, <1>9 DEF Picks
    <3>3. h[i] \in Int
      BY <1>11
    <3> QED  BY <1>10, <3>1, <3>2, <3>3
  <2> QED  BY <2>1
<1>13. \A c \in Cells \ O : \E i \in 1 .. n : E[i] = c
  <2>1. ASSUME NEW c \in Cells \ O PROVE \E i \in 1 .. n : E[i] = c
    <3>1. PICK k \in 1 .. Size : q[k] = c
      BY <1>5
    <3>2. k \in Others(q, O, Size)
      BY <3>1 DEF Others
    <3>3. PICK i \in 1 .. Len(E) : h[i] = k
      BY <1>8, <3>2 DEF Picks
    <3> QED  BY <1>9, <1>11, <3>1, <3>3
  <2> QED  BY <2>1
<1>14. \A i \in 1 .. n : E[i] \in Cells \ O
  BY <1>2, <1>11
<1>15. Cardinality(Cells \ O) = n
  <2>1. PICK f : f = [i \in 1 .. n |-> E[i]]
    OBVIOUS
  <2>2. f \in Bijection(1 .. n, Cells \ O)
    BY <1>12, <1>13, <1>14, <2>1 DEF Bijection, Injection, Surjection, IsInjective
  <2>3. ExistsBijection(1 .. n, Cells \ O)
    BY <2>2 DEF ExistsBijection
  <2> QED  BY <1>10, <2>3, FS_CountingElements
<1>16. Cardinality(Cells \ O) = Size - Cardinality(O) /\ Cardinality(O) \in Nat
  <2>1. O \subseteq Cells
    BY DEF Occupied
  <2>2. Cells \cap O = O /\ IsFiniteSet(O)
    BY <2>1, CellsType, FS_Subset
  <2> QED  BY <2>2, CellsType, FS_Difference, FS_CardinalityType
<1>17. n + Cardinality(O) = Size
  <2> HIDE DEF O
  <2> QED  BY <1>0, <1>10, <1>15, <1>16
<1> QED  BY <1>7, <1>9, <1>10, <1>12, <1>14, <1>17 DEF Occupied
-----------------------------------------------------------------------------
(* Somebody stays in every cell. *)
LEMMA SomebodyStays ==
    ASSUME NEW m \in Metadata, Named(m), NEW u \in Ubatches, NEW c \in Cells, m.seqs[c] # {}
    PROVE  \E s \in m.seqs[c] : \A i \in Lacking(m, u) : s # Owner(u[i])
<1>1. SUFFICES ASSUME \A s \in m.seqs[c] : \E i \in Lacking(m, u) : s = Owner(u[i])
               PROVE  FALSE
  OBVIOUS
<1>2. PICK N : N = Len(u)
  OBVIOUS
<1>3. N \in Nat /\ DOMAIN u = 1 .. N /\ \A i, j \in 1 .. N : Owner(u[i]) = Owner(u[j]) => i = j
  BY <1>2, UbatchType
<1>4. PICK K : K = {i \in 1 .. N : Owner(u[i]) \in m.seqs[c]}
  OBVIOUS
<1>5. Lacking(m, u) \subseteq 1 .. N
  BY <1>3 DEF Lacking
<1>6. K # {} /\ K \in SUBSET (0 .. N)
  BY <1>1, <1>3, <1>4, <1>5
<1>7. PICK i \in K : \A j \in K : j <= i
  BY <1>3, <1>6, GreatestOf
<1>8. i \in Lacking(m, u)
  BY <1>1, <1>3, <1>4, <1>5, <1>7
<1>9. m.tail[Owner(u[i])] = c /\ c # None
  BY <1>4, <1>7, CellsType DEF Named
<1>10. PICK s \in m.seqs[c] : s \notin {Owner(u[j]) : j \in 1 .. i}
  BY <1>8, <1>9 DEF Lacking
<1>11. PICK j \in Lacking(m, u) : s = Owner(u[j])
  BY <1>1
<1>12. j \in K /\ j <= i
  BY <1>4, <1>5, <1>7, <1>11
<1>13. j \in 1 .. i
  BY <1>3, <1>5, <1>12
<1> QED  BY <1>10, <1>11, <1>13

(* So there is an empty cell for every set that needs one. *)
LEMMA RoomForAll ==
    ASSUME NEW m \in Metadata, Named(m), m.head \in Cells, NEW u \in Ubatches
    PROVE  /\ IsFiniteSet(Lacking(m, u)) /\ Lacking(m, u) \subseteq 1 .. Len(u)
           /\ Cardinality(Lacking(m, u)) <= Len(Empties(m))
<1>1. PICK N, O, L, S : /\ N = Len(u) /\ O = Occupied(m) /\ L = Lacking(m, u)
                        /\ S = {Owner(u[i]) : i \in L}
  OBVIOUS
<1>2. /\ N \in Nat /\ DOMAIN u = 1 .. N /\ \A i, j \in 1 .. N : Owner(u[i]) = Owner(u[j]) => i = j
      /\ \A i \in 1 .. N : Owner(u[i]) \in Seqs
  BY <1>1, UbatchType
<1>3. L \subseteq 1 .. N
  BY <1>1, <1>2 DEF Lacking
<1>4. IsFiniteSet(L)
  <2>1. IsFiniteSet(1 .. N)
    BY <1>2, FS_Interval
  <2> QED  BY <1>3, <2>1, FS_Subset
<1>5. S \subseteq Seqs /\ IsFiniteSet(S) /\ Cardinality(S) = Cardinality(L) /\ Cardinality(S) \in Nat
  <2>1. S \subseteq Seqs
    BY <1>1, <1>2, <1>3
  <2>2. PICK f : f = [i \in L |-> Owner(u[i])]
    OBVIOUS
  <2>3. f \in Bijection(L, S)
    BY <1>1, <1>2, <1>3, <2>2 DEF Bijection, Injection, Surjection, IsInjective
  <2>4. ExistsBijection(L, S)
    BY <2>3 DEF ExistsBijection
  <2>5. IsFiniteSet(S) /\ Cardinality(S) = Cardinality(L)
    BY <1>4, <2>4, FS_Bijection
  <2> QED  BY <2>1, <2>5, FS_CardinalityType
<1>6. Cardinality(Seqs \ S) = Size - Cardinality(S) /\ IsFiniteSet(Seqs \ S)
  <2>1. Seqs \cap S = S /\ IsFiniteSet(Seqs) /\ Cardinality(Seqs) = Size
    BY <1>5, CellsType
  <2> QED  BY <2>1, FS_Difference, ZenonT(30)
<1>7. \A c \in O : \E s \in m.seqs[c] : s \notin S
  BY <1>1, SomebodyStays DEF Occupied
<1>8. O \subseteq Cells /\ m.seqs \in [Cells -> SUBSET Seqs]
  BY <1>1 DEF Occupied, Metadata
<1>9. PICK f : f = [c \in O |-> CHOOSE s \in m.seqs[c] : s \notin S]
  OBVIOUS
<1>10. \A c \in O : f[c] \in m.seqs[c] /\ f[c] \notin S
  BY <1>7, <1>9
<1>11. f \in Injection(O, Seqs \ S)
  <2>1. f \in [O -> Seqs \ S]
    BY <1>8, <1>9, <1>10
  <2>2. ASSUME NEW c \in O, NEW d \in O, f[c] = f[d] PROVE c = d
    <3>1. m.tail[f[c]] = c
      BY <1>8, <1>10 DEF Named
    <3>2. m.tail[f[d]] = d
      BY <1>8, <1>10 DEF Named
    <3> QED  BY <2>2, <3>1, <3>2
  <2> QED  BY <2>1, <2>2 DEF Injection, IsInjective
<1>12. Cardinality(O) <= Cardinality(Seqs \ S) /\ IsFiniteSet(O)
  BY <1>6, <1>11, FS_Injection
<1>13. Cardinality(O) \in Nat
  BY <1>12, FS_CardinalityType
<1>14. Len(Empties(m)) + Cardinality(O) = Size /\ Len(Empties(m)) \in Nat
  BY <1>1, EmptiesAre
<1>15. Cardinality(L) <= Len(Empties(m))
  BY <1>5, <1>6, <1>12, <1>13, <1>14, SizeType
<1> QED  BY <1>1, <1>3, <1>4, <1>15
-----------------------------------------------------------------------------
(* Each set of a ubatch has a cell, which names nobody but its owner.      *)
Owners(u)     == {Owner(u[i]) : i \in 1 .. Len(u)}
Cell(m, u, i) == m.tail[Owner(u[i])]
Chosen(m, u)  == {Cell(m, u, i) : i \in 1 .. Len(u)}

Assigned(m, u) ==
    /\ Named(m)
    /\ \A i \in 1 .. Len(u) : Cell(m, u, i) \in Cells /\ m.seqs[Cell(m, u, i)] \subseteq {Owner(u[i])}
    /\ \A i, j \in 1 .. Len(u) : Cell(m, u, i) = Cell(m, u, j) => i = j
    /\ \A c \in Cells \ Chosen(m, u) : Clean(m, c)
    /\ \A s \in Joining(u) : m.tail[s] = None

(* Picking in other words: cell[i] is the cell of the i-th set, and        *)
(* from[c] where the contents of cell c come from.                         *)
Picking(m, u, k, leaves, cell, from) ==
    /\ leaves = {i \in Lacking(m, u) : m.tail[Owner(u[i])] # None}
    /\ cell \in [1 .. Len(u) -> Cells]
    /\ \A i, j \in 1 .. Len(u) : cell[i] = cell[j] => i = j
    /\ \A i \in Lacking(m, u) : m.seqs[cell[i]] = {}
    /\ \A i \in 1 .. Len(u) : i \notin Lacking(m, u) => cell[i] = m.tail[Owner(u[i])]
    /\ \A c \in Cells : from[c] = c \/ \E i \in leaves : cell[i] = c
    /\ \A i \in leaves : from[cell[i]] = m.tail[Owner(u[i])]
    /\ \A c \in Cells :
         /\ k.pos[c] = m.pos[from[c]] /\ k.src[c] = m.src[from[c]]
         /\ k.seqs[c] = (m.seqs[c] \ {Owner(u[i]) : i \in leaves})
                        \cup {Owner(u[i]) : i \in {j \in leaves : cell[j] = c}}
    /\ \A i \in 1 .. Len(u) : k.tail[Owner(u[i])] = cell[i]
    /\ \A s \in Seqs \ Owners(u) : k.tail[s] = m.tail[s]
    /\ k \in Metadata /\ k.head = m.head

LEMMA PickedIs ==
    ASSUME NEW m \in Metadata, Named(m), m.head \in Cells, NEW u \in Ubatches,
           Pickable(m, u), NEW k, k = Picked(m, u)
    PROVE  \E leaves, cell, from : Picking(m, u, k, leaves, cell, from)
<1>1. PICK N, L, E : N = Len(u) /\ L = Lacking(m, u) /\ E = Empties(m)
  OBVIOUS
<1>2. /\ N \in Nat /\ DOMAIN u = 1 .. N /\ \A i, j \in 1 .. N : Owner(u[i]) = Owner(u[j]) => i = j
      /\ \A i \in 1 .. N : Owner(u[i]) \in Seqs
  BY <1>1, UbatchType
<1>3. /\ Len(E) \in Nat
      /\ \A i \in 1 .. Len(E) : E[i] \in Cells /\ m.seqs[E[i]] = {}
      /\ \A i, j \in 1 .. Len(E) : E[i] = E[j] => i = j
  BY <1>1, EmptiesAre
<1>4. IsFiniteSet(L) /\ L \subseteq 1 .. N /\ Cardinality(L) <= Len(E)
  BY <1>1, RoomForAll
<1>5. PICK leaves : leaves = {i \in L : m.tail[Owner(u[i])] # None}
  OBVIOUS
<1>6. PICK cell : cell = [i \in 1 .. N |-> IF i \in L THEN E[Cardinality(L \cap 1 .. i)]
                                          ELSE m.tail[Owner(u[i])]]
  OBVIOUS
<1>7. /\ m.tail \in [Seqs -> Cells \cup {None}] /\ m.pos \in [Cells -> Int]
      /\ m.src \in [Cells -> Cells \cup {None}] /\ m.seqs \in [Cells -> SUBSET Seqs]
      /\ m.head \in Int /\ m.used \in Int
  BY DEF Metadata
<1>8. ASSUME NEW i \in L
      PROVE  Cardinality(L \cap 1 .. i) \in 1 .. Len(E) /\ IsFiniteSet(L \cap 1 .. i)
  <2>1. PICK S : S = L \cap 1 .. i
    OBVIOUS
  <2>2. IsFiniteSet(S) /\ Cardinality(S) <= Cardinality(L) /\ Cardinality(S) \in Nat /\ Cardinality(L) \in Nat
    BY <1>4, <2>1, FS_Subset, FS_CardinalityType
  <2>3. i \in S
    BY <1>2, <1>4, <2>1
  <2>4. Cardinality(S) # 0
    BY <2>2, <2>3, FS_EmptySet
  <2> QED  BY <1>3, <1>4, <2>1, <2>2, <2>4
<1>9. ASSUME NEW i \in L, NEW j \in L, i < j PROVE Cardinality(L \cap 1 .. i) # Cardinality(L \cap 1 .. j)
  <2>1. L \cap 1 .. i \subseteq L \cap 1 .. j /\ j \in L \cap 1 .. j /\ j \notin L \cap 1 .. i
    BY <1>2, <1>4, <1>9
  <2> QED  BY <1>8, <2>1, FS_Subset
<1>10. ASSUME NEW i \in 1 .. N, i \notin L
       PROVE  /\ m.tail[Owner(u[i])] \in Cells
              /\ Owner(u[i]) \in m.seqs[m.tail[Owner(u[i])]]
              /\ m.seqs[m.tail[Owner(u[i])]] \subseteq {Owner(u[j]) : j \in 1 .. i}
  BY <1>1, <1>2, <1>7, <1>10 DEF Lacking, Pickable
<1>11. ASSUME NEW i \in 1 .. N
       PROVE  /\ cell[i] \in Cells
              /\ i \in L => m.seqs[cell[i]] = {} /\ cell[i] = E[Cardinality(L \cap 1 .. i)]
              /\ i \notin L => cell[i] = m.tail[Owner(u[i])]
  <2>1. CASE i \in L
    BY <1>3, <1>6, <1>8, <2>1
  <2>2. CASE i \notin L
    BY <1>6, <1>10, <2>2
  <2> QED  BY <2>1, <2>2
<1>12. ASSUME NEW i \in 1 .. N, NEW j \in 1 .. N, i < j PROVE cell[i] # cell[j]
  <2>1. CASE i \in L /\ j \in L
    <3>1. PICK a, b : a = Cardinality(L \cap 1 .. i) /\ b = Cardinality(L \cap 1 .. j)
      OBVIOUS
    <3>2. a \in 1 .. Len(E) /\ b \in 1 .. Len(E) /\ a # b
      BY <1>8, <1>9, <1>12, <2>1, <3>1
    <3>3. cell[i] = E[a] /\ cell[j] = E[b]
      BY <1>11, <2>1, <3>1
    <3> QED  BY <1>3, <3>2, <3>3
  <2>2. CASE i \in L /\ j \notin L
    <3>1. m.seqs[cell[i]] = {} /\ cell[j] = m.tail[Owner(u[j])]
      BY <1>11, <2>2
    <3> QED  BY <1>10, <2>2, <3>1
  <2>3. CASE i \notin L /\ j \in L
    <3>1. m.seqs[cell[j]] = {} /\ cell[i] = m.tail[Owner(u[i])]
      BY <1>11, <2>3
    <3> QED  BY <1>10, <2>3, <3>1
  <2>4. CASE i \notin L /\ j \notin L
    <3>1. SUFFICES ASSUME m.tail[Owner(u[i])] = m.tail[Owner(u[j])] PROVE FALSE
      BY <1>11, <2>4
    <3>2. Owner(u[j]) \in {Owner(u[l]) : l \in 1 .. i}
      BY <1>10, <2>4, <3>1
    <3>3. PICK l \in 1 .. i : Owner(u[j]) = Owner(u[l])
      BY <3>2
    <3>4. l \in 1 .. N
      BY <1>2
    <3> QED  BY <1>2, <1>12, <3>3, <3>4
  <2> QED  BY <2>1, <2>2, <2>3, <2>4
<1>13. \A i, j \in 1 .. N : cell[i] = cell[j] => i = j
  BY <1>2, <1>12
<1> DEFINE moved(c) == {i \in leaves : cell[i] = c}
           owned(s) == {i \in DOMAIN u : Owner(u[i]) = s}
<1>14. PICK from : from = [c \in Cells |-> IF moved(c) = {} THEN c
                                           ELSE m.tail[Owner(u[CHOOSE i \in moved(c) : TRUE])]]
  OBVIOUS
<1>15. /\ \A c \in Cells :
             /\ k.pos[c] = m.pos[from[c]] /\ k.src[c] = m.src[from[c]]
             /\ k.seqs[c] = (m.seqs[c] \ {Owner(u[i]) : i \in leaves}) \cup {Owner(u[i]) : i \in moved(c)}
       /\ \A s \in Seqs : k.tail[s] = IF owned(s) = {} THEN m.tail[s] ELSE cell[CHOOSE i \in owned(s) : TRUE]
       /\ k.head = m.head /\ k.used = m.used
       /\ k = [pos |-> k.pos, src |-> k.src, seqs |-> k.seqs, tail |-> k.tail, head |-> m.head, used |-> m.used]
       /\ DOMAIN k.pos = Cells /\ DOMAIN k.src = Cells /\ DOMAIN k.seqs = Cells /\ DOMAIN k.tail = Seqs
       /\ k.pos = [c \in Cells |-> k.pos[c]] /\ k.src = [c \in Cells |-> k.src[c]]
       /\ k.seqs = [c \in Cells |-> k.seqs[c]] /\ k.tail = [s \in Seqs |-> k.tail[s]]
  <2> DEFINE leaves0 == {i \in Lacking(m, u) : m.tail[Owner(u[i])] # None}
             cell0 == [i \in DOMAIN u |-> IF i \in Lacking(m, u) THEN Empties(m)[Cardinality(Lacking(m, u) \cap 1 .. i)]
                                          ELSE m.tail[Owner(u[i])]]
             moved0(c) == {i \in leaves0 : cell0[i] = c}
             from0(c)  == IF moved0(c) = {} THEN c ELSE m.tail[Owner(u[CHOOSE i \in moved0(c) : TRUE])]
             pos0 == [c \in Cells |-> m.pos[from0(c)]]
             src0 == [c \in Cells |-> m.src[from0(c)]]
             seqs0 == [c \in Cells |-> (m.seqs[c] \ {Owner(u[i]) : i \in leaves0})
                                       \cup {Owner(u[i]) : i \in moved0(c)}]
             tail0 == [s \in Seqs |-> IF owned(s) = {} THEN m.tail[s]
                                     ELSE cell0[CHOOSE i \in owned(s) : TRUE]]
  <2>1. k = [m EXCEPT !.pos = pos0, !.src = src0, !.seqs = seqs0, !.tail = tail0]
    BY DEF Picked
  <2>2. leaves0 = leaves /\ cell0 = cell
    BY <1>1, <1>2, <1>5, <1>6
  <2>3. \A c : moved0(c) = moved(c)
    BY <2>2
  <2>4. \A c \in Cells : from0(c) = from[c]
    <3> HIDE DEF moved0, moved
    <3> QED  BY <1>14, <2>3
  <2>6. \A c \in Cells : pos0[c] = m.pos[from[c]] /\ src0[c] = m.src[from[c]]
    <3> HIDE DEF from0
    <3> QED  BY <2>4
  <2>7. \A c \in Cells : seqs0[c] = (m.seqs[c] \ {Owner(u[i]) : i \in leaves}) \cup {Owner(u[i]) : i \in moved(c)}
    <3> HIDE DEF moved0, moved, leaves0
    <3> QED  BY <2>2, <2>3
  <2>8. \A s \in Seqs : tail0[s] = IF owned(s) = {} THEN m.tail[s] ELSE cell[CHOOSE i \in owned(s) : TRUE]
    <3> HIDE DEF owned, cell0
    <3> QED  BY <2>2
  <2>9. /\ DOMAIN pos0 = Cells /\ DOMAIN src0 = Cells /\ DOMAIN seqs0 = Cells /\ DOMAIN tail0 = Seqs
        /\ pos0 = [c \in Cells |-> pos0[c]] /\ src0 = [c \in Cells |-> src0[c]]
        /\ seqs0 = [c \in Cells |-> seqs0[c]] /\ tail0 = [s \in Seqs |-> tail0[s]]
    <3> HIDE DEF from0, moved0, leaves0, cell0, owned
    <3>1. DOMAIN pos0 = Cells /\ pos0 = [c \in Cells |-> pos0[c]]
      OBVIOUS
    <3>2. DOMAIN src0 = Cells /\ src0 = [c \in Cells |-> src0[c]]
      OBVIOUS
    <3>3. DOMAIN seqs0 = Cells /\ seqs0 = [c \in Cells |-> seqs0[c]]
      OBVIOUS
    <3>4. DOMAIN tail0 = Seqs /\ tail0 = [s \in Seqs |-> tail0[s]]
      OBVIOUS
    <3> QED  BY <3>1, <3>2, <3>3, <3>4
  <2> HIDE DEF pos0, src0, seqs0, tail0, moved, owned
  <2>10. /\ k.pos = pos0 /\ k.src = src0 /\ k.seqs = seqs0 /\ k.tail = tail0
         /\ k.head = m.head /\ k.used = m.used
         /\ k = [pos |-> pos0, src |-> src0, seqs |-> seqs0, tail |-> tail0, head |-> m.head, used |-> m.used]
    BY <2>1 DEF Metadata
  <2> QED  BY <2>6, <2>7, <2>8, <2>9, <2>10
<1>16. leaves \subseteq L /\ leaves \subseteq 1 .. N
  BY <1>4, <1>5
<1>17. \A c \in Cells : from[c] = c \/ \E i \in leaves : cell[i] = c
  BY <1>14
<1>18. ASSUME NEW i \in leaves PROVE from[cell[i]] = m.tail[Owner(u[i])] /\ m.tail[Owner(u[i])] \in Cells
  <2>1. moved(cell[i]) = {i}
    BY <1>13, <1>16
  <2>2. (CHOOSE j \in moved(cell[i]) : TRUE) = i
    BY <2>1
  <2> HIDE DEF moved
  <2>3. cell[i] \in Cells
    BY <1>11, <1>16
  <2>4. from[cell[i]] = m.tail[Owner(u[i])]
    BY <1>14, <2>1, <2>2, <2>3
  <2> QED  BY <1>2, <1>5, <1>7, <1>16, <2>4
<1>19. \A c \in Cells : from[c] \in Cells
  BY <1>17, <1>18
<1>20. /\ \A c \in Cells :
             /\ k.pos[c] = m.pos[from[c]] /\ k.src[c] = m.src[from[c]]
             /\ k.seqs[c] = (m.seqs[c] \ {Owner(u[i]) : i \in leaves}) \cup {Owner(u[i]) : i \in moved(c)}
       /\ \A s \in Seqs : k.tail[s] = IF owned(s) = {} THEN m.tail[s] ELSE cell[CHOOSE i \in owned(s) : TRUE]
       /\ k.head = m.head
  BY <1>15
<1>21. ASSUME NEW i \in 1 .. N PROVE k.tail[Owner(u[i])] = cell[i]
  <2>1. owned(Owner(u[i])) = {i}
    BY <1>2
  <2>2. (CHOOSE j \in owned(Owner(u[i])) : TRUE) = i
    BY <2>1
  <2> HIDE DEF owned
  <2> QED  BY <1>2, <1>20, <2>1, <2>2
<1>22. ASSUME NEW s \in Seqs \ Owners(u) PROVE k.tail[s] = m.tail[s]
  <2>1. owned(s) = {}
    BY <1>1, <1>2 DEF Owners
  <2> QED  BY <1>20, <2>1
<1>23. k \in Metadata
  <2>1. \A c \in Cells : k.pos[c] \in Int /\ k.src[c] \in Cells \cup {None}
    BY <1>7, <1>15, <1>19
  <2>2. \A c \in Cells : k.seqs[c] \in SUBSET Seqs
    BY <1>2, <1>7, <1>15, <1>16
  <2>3. ASSUME NEW s \in Seqs PROVE k.tail[s] \in Cells \cup {None}
    <3>1. CASE s \in Owners(u)
      <4>1. PICK i \in 1 .. N : s = Owner(u[i])
        BY <1>1, <3>1 DEF Owners
      <4> QED  BY <1>11, <1>21, <4>1
    <3>2. CASE s \notin Owners(u)
      BY <1>7, <1>22, <3>2
    <3> QED  BY <3>1, <3>2
  <2>4. k = [pos |-> k.pos, src |-> k.src, seqs |-> k.seqs, tail |-> k.tail, head |-> m.head, used |-> m.used]
    BY <1>15
  <2>5. /\ k.pos = [c \in Cells |-> k.pos[c]] /\ k.src = [c \in Cells |-> k.src[c]]
        /\ k.seqs = [c \in Cells |-> k.seqs[c]] /\ k.tail = [s \in Seqs |-> k.tail[s]]
    BY <1>15
  <2>6. /\ k.pos \in [Cells -> Int] /\ k.src \in [Cells -> Cells \cup {None}]
        /\ k.seqs \in [Cells -> SUBSET Seqs] /\ k.tail \in [Seqs -> Cells \cup {None}]
    BY <2>1, <2>2, <2>3, <2>5
  <2> QED  BY <1>7, <2>4, <2>6 DEF Metadata
<1>24. cell \in [1 .. N -> Cells]
  <2>1. cell = [i \in 1 .. N |-> cell[i]]
    BY <1>6
  <2> QED  BY <1>11, <2>1
<1>25. Picking(m, u, k, leaves, cell, from)
  <2>1. leaves = {i \in Lacking(m, u) : m.tail[Owner(u[i])] # None}
    BY <1>1, <1>5
  <2>2. \A i \in Lacking(m, u) : m.seqs[cell[i]] = {}
    BY <1>1, <1>4, <1>11
  <2>3. \A i \in 1 .. Len(u) : i \notin Lacking(m, u) => cell[i] = m.tail[Owner(u[i])]
    BY <1>1, <1>11
  <2> QED  BY <2>1, <2>2, <2>3, <1>1, <1>13, <1>17, <1>18, <1>20, <1>21, <1>22, <1>23, <1>24 DEF Picking
<1> QED  BY <1>25

(* What a rearrangement of the cells leaves alone: where the sequences of  *)
(* S end, that their tails name them, a bound on positions, and the rows.  *)
Bounded(m, B) == \A c \in Cells : m.pos[c] <= B

Kept(m, k, S) ==
    /\ \A s \in S : End(k, s) = End(m, s)
    /\ Tailed(m, S) => Tailed(k, S)
    /\ \A B \in Nat : Bounded(m, B) => Bounded(k, B)
    /\ \A r, t : Tailed(m, S) /\ Tells(m, r, t) => Tells(k, r, t)

LEMMA PickedKeeps ==
    ASSUME NEW m \in Metadata, Named(m), m.head \in Cells, NEW u \in Ubatches, Pickable(m, u),
           \A c \in Cells : Clean(m, c) /\ AtHome(m, c),
           \A s \in Joining(u) : m.tail[s] = None, NEW k, k = Picked(m, u)
    PROVE  /\ k \in Metadata /\ Assigned(k, u)
           /\ \A c \in Cells \ Chosen(k, u) : AtHome(k, c)
           /\ Kept(m, k, Seqs \ Owners(u))
<1>1. PICK N, L : N = Len(u) /\ L = Lacking(m, u)
  OBVIOUS
<1>2. /\ N \in Nat /\ DOMAIN u = 1 .. N /\ \A i, j \in 1 .. N : Owner(u[i]) = Owner(u[j]) => i = j
      /\ \A i \in 1 .. N : Owner(u[i]) \in Seqs /\ Owner(u[i]) \notin Joining(u)
      /\ Joining(u) \subseteq Seqs /\ L \subseteq 1 .. N
      /\ Owners(u) = {Owner(u[i]) : i \in 1 .. N}
  <2>1. L \subseteq 1 .. N
    BY <1>1, RoomForAll
  <2> QED  BY <1>1, <2>1, UbatchType DEF Owners
<1>3. PICK leaves, cell, from : Picking(m, u, k, leaves, cell, from)
  BY PickedIs
<1>4. /\ leaves = {i \in L : m.tail[Owner(u[i])] # None} /\ leaves \subseteq L
      /\ cell \in [1 .. N -> Cells]
      /\ \A i, j \in 1 .. N : cell[i] = cell[j] => i = j
      /\ \A i \in L : m.seqs[cell[i]] = {}
      /\ \A i \in 1 .. N : i \notin L => cell[i] = m.tail[Owner(u[i])]
      /\ \A c \in Cells : from[c] = c \/ \E i \in leaves : cell[i] = c
      /\ \A i \in leaves : from[cell[i]] = m.tail[Owner(u[i])]
      /\ \A c \in Cells : k.pos[c] = m.pos[from[c]] /\ k.src[c] = m.src[from[c]]
      /\ \A i \in 1 .. N : k.tail[Owner(u[i])] = cell[i]
      /\ \A s \in Seqs \ Owners(u) : k.tail[s] = m.tail[s]
      /\ k \in Metadata
  BY <1>1, <1>3 DEF Picking
<1>5. ASSUME NEW c \in Cells, NEW s
      PROVE  s \in k.seqs[c] <=> \/ s \in m.seqs[c] /\ \A i \in leaves : s # Owner(u[i])
                                 \/ \E i \in leaves : cell[i] = c /\ s = Owner(u[i])
  <2>1. k.seqs[c] = (m.seqs[c] \ {Owner(u[i]) : i \in leaves})
                    \cup {Owner(u[i]) : i \in {j \in leaves : cell[j] = c}}
    BY <1>3 DEF Picking
  <2> QED  BY <2>1
<1>6. /\ m.tail \in [Seqs -> Cells \cup {None}] /\ m.seqs \in [Cells -> SUBSET Seqs]
      /\ \A c \in Cells : \A s \in m.seqs[c] : s \in Seqs /\ m.tail[s] = c
      /\ \A i \in 1 .. N : m.tail[Owner(u[i])] # None => Owner(u[i]) \in m.seqs[m.tail[Owner(u[i])]]
  BY <1>1, <1>2 DEF Metadata, Named, Pickable
<1>7. ASSUME NEW i \in 1 .. N, i \notin L
      PROVE  /\ m.tail[Owner(u[i])] \in Cells
             /\ m.seqs[m.tail[Owner(u[i])]] \subseteq {Owner(u[j]) : j \in 1 .. i}
  BY <1>1, <1>2, <1>6, <1>7 DEF Lacking
<1>8. Chosen(k, u) = {cell[i] : i \in 1 .. N} /\ \A i \in 1 .. N : Cell(k, u, i) = cell[i]
  BY <1>1, <1>4 DEF Chosen, Cell
<1>9. \A c \in Cells \ Chosen(k, u) : from[c] = c
  BY <1>2, <1>4, <1>8
<1>10. ASSUME NEW c \in Cells, m.seqs[c] # {} PROVE from[c] = c
  BY <1>4, <1>10
<1>11. ASSUME NEW c \in Cells, m.seqs[c] # {} PROVE k.seqs[c] # {} \/ c \in Chosen(k, u)
  <2>1. PICK s \in m.seqs[c] : \A i \in L : s # Owner(u[i])
    BY <1>1, <1>11, SomebodyStays
  <2> QED  BY <1>4, <1>5, <2>1
<1>12. ASSUME NEW i \in 1 .. N, i \notin L PROVE from[cell[i]] = cell[i]
  BY <1>2, <1>4, <1>12
<1>13. Named(k)
  <2>1. ASSUME NEW c \in Cells, NEW s \in k.seqs[c] PROVE k.tail[s] = c
    <3>1. CASE \E i \in leaves : cell[i] = c /\ s = Owner(u[i])
      BY <1>2, <1>4, <3>1
    <3>2. CASE s \in m.seqs[c] /\ \A i \in leaves : s # Owner(u[i])
      <4>1. m.tail[s] = c /\ s \in Seqs /\ c # None
        BY <1>6, <3>2, CellsType
      <4>2. CASE s \in Owners(u)
        <5>1. PICK i \in 1 .. N : s = Owner(u[i])
          BY <1>2, <4>2
        <5>2. i \notin L
          BY <1>4, <3>2, <4>1, <5>1
        <5> QED  BY <1>4, <4>1, <5>1, <5>2
      <4>3. CASE s \notin Owners(u)
        BY <1>4, <4>1, <4>3
      <4> QED  BY <4>2, <4>3
    <3> QED  BY <1>5, <3>1, <3>2
  <2> QED  BY <2>1 DEF Named
<1>14. ASSUME NEW i \in 1 .. N PROVE k.seqs[cell[i]] \subseteq {Owner(u[i])}
  <2>1. ASSUME NEW s \in k.seqs[cell[i]] PROVE s = Owner(u[i])
    <3>0. cell[i] \in Cells
      BY <1>4
    <3>1. CASE \E j \in leaves : cell[j] = cell[i] /\ s = Owner(u[j])
      BY <1>2, <1>4, <3>1
    <3>2. CASE s \in m.seqs[cell[i]] /\ \A j \in leaves : s # Owner(u[j])
      <4>1. i \notin L /\ cell[i] = m.tail[Owner(u[i])]
        BY <1>4, <3>2
      <4>2. PICK j \in 1 .. i : s = Owner(u[j])
        BY <1>7, <3>2, <4>1
      <4>3. j \in 1 .. N /\ j <= i
        BY <1>2
      <4>4. SUFFICES ASSUME j # i PROVE FALSE
        BY <4>2
      <4>5. j \notin L /\ m.tail[s] = cell[i] /\ s \in Seqs
        BY <1>4, <1>6, <3>0, <3>2, <4>2, CellsType
      <4>6. m.seqs[cell[i]] \subseteq {Owner(u[l]) : l \in 1 .. j}
        BY <1>7, <4>2, <4>3, <4>5
      <4>7. Owner(u[i]) \in m.seqs[cell[i]]
        BY <1>6, <1>7, <4>1, CellsType
      <4>8. PICK l \in 1 .. j : Owner(u[i]) = Owner(u[l])
        BY <4>6, <4>7
      <4>9. l \in 1 .. N /\ l # i
        BY <1>2, <4>3, <4>4
      <4> QED  BY <1>2, <4>8, <4>9
    <3> QED  BY <1>5, <3>0, <3>1, <3>2
  <2> QED  BY <2>1
<1>15. Assigned(k, u)
  <2>1. \A c \in Cells \ Chosen(k, u) : Clean(k, c)
    <3>1. ASSUME NEW c \in Cells \ Chosen(k, u) PROVE Clean(k, c)
      <4>1. k.pos[c] = m.pos[c] /\ Clean(m, c)
        BY <1>4, <1>9
      <4>2. m.seqs[c] = {} => k.seqs[c] = {}
        <5>1. ASSUME NEW s \in k.seqs[c], m.seqs[c] = {} PROVE FALSE
          <6>1. PICK i \in leaves : cell[i] = c
            BY <1>5, <5>1
          <6> QED  BY <1>2, <1>4, <1>8, <6>1
        <5> QED  BY <5>1
      <4>3. k.seqs[c] = {} <=> m.seqs[c] = {}
        BY <1>11, <4>2
      <4> QED  BY <4>1, <4>3 DEF Clean
    <3> QED  BY <3>1
  <2>2. \A s \in Joining(u) : k.tail[s] = None
    BY <1>2, <1>4
  <2> QED  BY <1>1, <1>4, <1>8, <1>13, <1>14, <2>1, <2>2 DEF Assigned
<1>16. \A c \in Cells \ Chosen(k, u) : AtHome(k, c)
  BY <1>4, <1>9 DEF AtHome
<1>17. ASSUME NEW s \in Seqs \ Owners(u)
       PROVE  /\ k.tail[s] = m.tail[s] /\ m.tail[s] \in Cells \cup {None}
              /\ m.tail[s] # None => (s \in k.seqs[m.tail[s]] <=> s \in m.seqs[m.tail[s]])
  <2>1. \A i \in leaves : s # Owner(u[i])
    BY <1>2, <1>4
  <2> QED  BY <1>4, <1>5, <1>6, <2>1
<1>18. Kept(m, k, Seqs \ Owners(u))
  <2>1. ASSUME NEW s \in Seqs \ Owners(u) PROVE End(k, s) = End(m, s)
    <3>1. ASSUME m.tail[s] # None, s \in m.seqs[m.tail[s]] PROVE k.pos[m.tail[s]] = m.pos[m.tail[s]]
      BY <1>4, <1>10, <1>17, <3>1
    <3> QED  BY <1>17, <3>1 DEF End
  <2>2. Tailed(m, Seqs \ Owners(u)) => Tailed(k, Seqs \ Owners(u))
    BY <1>17 DEF Tailed
  <2>3. \A c \in Cells : from[c] \in Cells
    <3>1. ASSUME NEW c \in Cells, NEW i \in leaves, cell[i] = c PROVE from[c] \in Cells
      BY <1>2, <1>4, <1>6, <3>1
    <3> QED  BY <1>4, <3>1
  <2>4. \A B \in Nat : Bounded(m, B) => Bounded(k, B)
    BY <1>4, <2>3 DEF Bounded
  <2>5. ASSUME NEW r, NEW t, Tailed(m, Seqs \ Owners(u)), Tells(m, r, t) PROVE Tells(k, r, t)
    <3>0. \A c \in Cells : Row(k, r, c) = Row(m, r, from[c])
      BY <1>4 DEF Row
    <3>1. ASSUME NEW s \in Seqs \ Owners(u)
          PROVE  t[s] = IF k.tail[s] = None THEN <<>> ELSE Row(k, r, k.tail[s])
      <4>1. m.tail[s] # None => from[m.tail[s]] = m.tail[s] /\ m.tail[s] \in Cells
        BY <1>10, <1>17, <2>5 DEF Tailed
      <4> QED  BY <1>17, <2>5, <3>0, <4>1 DEF Tells
    <3>2. ASSUME NEW i \in 1 .. N PROVE t[Owner(u[i])] = Row(k, r, cell[i])
      <4>0. Owner(u[i]) \in Seqs /\ cell[i] \in Cells
        BY <1>2, <1>4
      <4>1. CASE i \in leaves
        BY <1>4, <2>5, <3>0, <4>0, <4>1 DEF Tells
      <4>2. CASE i \in L /\ i \notin leaves
        <5>1. m.tail[Owner(u[i])] = None /\ m.seqs[cell[i]] = {} /\ from[cell[i]] = cell[i]
          BY <1>2, <1>4, <4>2
        <5> QED  BY <2>5, <3>0, <4>0, <5>1 DEF Tells
      <4>3. CASE i \notin L
        <5>1. m.tail[Owner(u[i])] = cell[i] /\ from[cell[i]] = cell[i] /\ cell[i] # None
          BY <1>4, <1>12, <4>0, <4>3, CellsType
        <5> QED  BY <2>5, <3>0, <4>0, <5>1 DEF Tells
      <4> QED  BY <4>1, <4>2, <4>3
    <3>3. ASSUME NEW s \in Seqs PROVE t[s] = IF k.tail[s] = None THEN <<>> ELSE Row(k, r, k.tail[s])
      <4>1. CASE s \in Owners(u)
        <5>1. PICK i \in 1 .. N : s = Owner(u[i])
          BY <1>2, <4>1
        <5>2. k.tail[s] = cell[i] /\ cell[i] # None
          BY <1>4, <5>1, CellsType
        <5> QED  BY <3>2, <5>1, <5>2
      <4>2. CASE s \notin Owners(u)
        BY <3>1, <4>2
      <4> QED  BY <4>1, <4>2
    <3>4. ASSUME NEW c \in Cells, k.seqs[c] = {} PROVE Row(k, r, c) = <<>>
      <4>1. m.seqs[c] = {} /\ from[c] = c
        <5>1. CASE c \in Chosen(k, u)
          <6>1. PICK i \in 1 .. N : c = cell[i]
            BY <1>8, <5>1
          <6>2. i \notin leaves
            BY <1>5, <3>4, <6>1
          <6>3. i \in L
            <7>1. SUFFICES ASSUME i \notin L PROVE FALSE
              OBVIOUS
            <7>2. Owner(u[i]) \in m.seqs[c]
              BY <1>4, <1>6, <6>1, <7>1, CellsType
            <7>3. \A j \in leaves : Owner(u[i]) # Owner(u[j])
              BY <1>2, <1>4, <7>1
            <7> QED  BY <1>5, <3>4, <7>2, <7>3
          <6>4. m.seqs[c] = {}
            BY <1>4, <6>1, <6>3
          <6>5. \A j \in leaves : cell[j] # c
            BY <1>2, <1>4, <6>1, <6>2
          <6> QED  BY <1>4, <6>4, <6>5
        <5>2. CASE c \notin Chosen(k, u)
          BY <1>9, <1>11, <3>4, <5>2
        <5> QED  BY <5>1, <5>2
      <4> QED  BY <2>5, <3>0, <4>1 DEF Tells
    <3> QED  BY <3>3, <3>4 DEF Tells
  <2> QED  BY <2>1, <2>2, <2>4, <2>5 DEF Kept
<1> QED  BY <1>4, <1>15, <1>16, <1>18
-----------------------------------------------------------------------------
(* The chosen cells are brought together.  They all lie between lo and hi, *)
(* and outside every cell reads its own row.                               *)
Spanned(m, u, lo, hi) ==
    /\ m \in Metadata /\ Assigned(m, u)
    /\ \A i \in 1 .. Len(u) : Cell(m, u, i) \in lo .. hi
    /\ \A c \in Cells \ (lo .. hi) : AtHome(m, c)

Exchanged(m, k, u, a, b) ==
    \A i \in 1 .. Len(u) : /\ Cell(m, u, i) = b => Cell(k, u, i) = a
                           /\ Cell(m, u, i) # a /\ Cell(m, u, i) # b => Cell(k, u, i) = Cell(m, u, i)

LEMMA SwapKeeps ==
    ASSUME NEW u \in Ubatches, NEW lo \in Cells, NEW hi \in Cells, NEW m, Spanned(m, u, lo, hi),
           NEW a \in lo .. hi, NEW b \in lo .. hi, NEW k, k = Swap(m, a, b)
    PROVE  /\ Spanned(k, u, lo, hi)
           /\ Kept(m, k, Seqs \ Owners(u))
           /\ Exchanged(m, k, u, a, b)
<1>1. /\ lo .. hi \subseteq Cells /\ a \in Cells /\ b \in Cells
      /\ \A c \in Cells : c # None
      /\ Owners(u) \subseteq Seqs /\ Joining(u) \subseteq Seqs
      /\ \A i \in 1 .. Len(u) : Owner(u[i]) \in Seqs /\ Owner(u[i]) \in Owners(u)
  <2>1. lo .. hi \subseteq Cells
    BY SizeType DEF Cells
  <2> QED  BY <2>1, CellsType, UbatchType DEF Owners
<1>2. PICK o : o = [c \in Cells |-> IF c = a THEN b ELSE IF c = b THEN a ELSE c]
  OBVIOUS
<1>3. /\ \A c \in Cells : /\ o[c] \in Cells /\ o[o[c]] = c
                          /\ o[c] = IF c = a THEN b ELSE IF c = b THEN a ELSE c
      /\ \A c \in Cells : c \in lo .. hi <=> o[c] \in lo .. hi
      /\ \A c \in Cells \ (lo .. hi) : o[c] = c
  BY <1>1, <1>2
<1>4. /\ m.tail \in [Seqs -> Cells \cup {None}] /\ m.pos \in [Cells -> Int]
      /\ m.src \in [Cells -> Cells \cup {None}] /\ m.seqs \in [Cells -> SUBSET Seqs]
      /\ m.head \in Int /\ m.used \in Int
  BY DEF Metadata, Spanned
<1>5. k = [pos  |-> [c \in Cells |-> m.pos[o[c]]],
           src  |-> [c \in Cells |-> m.src[o[c]]],
           seqs |-> [c \in Cells |-> m.seqs[o[c]]],
           tail |-> [s \in Seqs |-> IF m.tail[s] = None THEN None ELSE o[m.tail[s]]],
           head |-> m.head, used |-> m.used]
  <2> DEFINE Other(c) == IF c = a THEN b ELSE IF c = b THEN a ELSE c
             pos0 == [c \in Cells |-> m.pos[Other(c)]]
             src0 == [c \in Cells |-> m.src[Other(c)]]
             seqs0 == [c \in Cells |-> m.seqs[Other(c)]]
             tail0 == [s \in Seqs |-> IF m.tail[s] = None THEN None ELSE Other(m.tail[s])]
             pos1 == [c \in Cells |-> m.pos[o[c]]]
             src1 == [c \in Cells |-> m.src[o[c]]]
             seqs1 == [c \in Cells |-> m.seqs[o[c]]]
             tail1 == [s \in Seqs |-> IF m.tail[s] = None THEN None ELSE o[m.tail[s]]]
  <2>1. k = [m EXCEPT !.pos = pos0, !.src = src0, !.seqs = seqs0, !.tail = tail0]
    BY DEF Swap
  <2>2. \A c \in Cells : Other(c) = o[c]
    BY <1>3
  <2> HIDE DEF Other
  <2>3. pos0 = pos1
    BY <2>2
  <2>4. src0 = src1
    BY <2>2
  <2>5. seqs0 = seqs1
    BY <2>2
  <2>6. tail0 = tail1
    <3>1. \A s \in Seqs : m.tail[s] # None => Other(m.tail[s]) = o[m.tail[s]]
      BY <1>4, <2>2
    <3> QED  BY <3>1
  <2> HIDE DEF pos0, src0, seqs0, tail0, pos1, src1, seqs1, tail1
  <2>7. k = [pos |-> pos0, src |-> src0, seqs |-> seqs0, tail |-> tail0, head |-> m.head, used |-> m.used]
    BY <2>1 DEF Metadata, Spanned
  <2> QED  BY <2>3, <2>4, <2>5, <2>6, <2>7 DEF pos1, src1, seqs1, tail1
<1>6. /\ \A c \in Cells : /\ k.pos[c] = m.pos[o[c]] /\ k.src[c] = m.src[o[c]]
                          /\ k.seqs[c] = m.seqs[o[c]]
      /\ \A s \in Seqs : k.tail[s] = IF m.tail[s] = None THEN None ELSE o[m.tail[s]]
  BY <1>5
<1>7. k \in Metadata
  <2>1. /\ [c \in Cells |-> m.pos[o[c]]] \in [Cells -> Int]
        /\ [c \in Cells |-> m.src[o[c]]] \in [Cells -> Cells \cup {None}]
        /\ [c \in Cells |-> m.seqs[o[c]]] \in [Cells -> SUBSET Seqs]
    BY <1>3, <1>4
  <2>2. [s \in Seqs |-> IF m.tail[s] = None THEN None ELSE o[m.tail[s]]] \in [Seqs -> Cells \cup {None}]
    BY <1>3, <1>4
  <2> QED  BY <1>4, <1>5, <2>1, <2>2 DEF Metadata
<1>8. /\ Named(m) /\ \A s \in Joining(u) : m.tail[s] = None
      /\ \A i \in 1 .. Len(u) : /\ Cell(m, u, i) \in Cells /\ Cell(m, u, i) \in lo .. hi
                                /\ m.seqs[Cell(m, u, i)] \subseteq {Owner(u[i])}
      /\ \A i, j \in 1 .. Len(u) : Cell(m, u, i) = Cell(m, u, j) => i = j
      /\ \A c \in Cells \ Chosen(m, u) : Clean(m, c)
      /\ \A c \in Cells \ (lo .. hi) : AtHome(m, c)
  BY DEF Spanned, Assigned
<1>9. \A i \in 1 .. Len(u) : Cell(k, u, i) = o[Cell(m, u, i)]
  BY <1>1, <1>6, <1>8 DEF Cell
<1>10. \A c \in Cells : c \in Chosen(k, u) <=> o[c] \in Chosen(m, u)
  BY <1>3, <1>8, <1>9, SMTT(30) DEF Chosen
<1>11. Spanned(k, u, lo, hi)
  <2>1. Named(k)
    <3>1. ASSUME NEW c \in Cells, NEW s \in k.seqs[c] PROVE k.tail[s] = c
      <4>1. s \in m.seqs[o[c]] /\ o[c] \in Cells /\ s \in Seqs /\ o[c] # None
        BY <1>1, <1>3, <1>4, <1>6
      <4>2. m.tail[s] = o[c]
        BY <1>8, <4>1 DEF Named
      <4> QED  BY <1>3, <1>6, <4>1, <4>2
    <3> QED  BY <3>1 DEF Named
  <2>2. \A i \in 1 .. Len(u) : Cell(k, u, i) \in Cells /\ k.seqs[Cell(k, u, i)] \subseteq {Owner(u[i])}
    BY <1>3, <1>6, <1>8, <1>9
  <2>3. \A i, j \in 1 .. Len(u) : Cell(k, u, i) = Cell(k, u, j) => i = j
    BY <1>3, <1>8, <1>9
  <2>4. \A c \in Cells \ Chosen(k, u) : Clean(k, c)
    BY <1>3, <1>6, <1>8, <1>10 DEF Clean
  <2>5. \A s \in Joining(u) : k.tail[s] = None
    BY <1>1, <1>6, <1>8
  <2>6. \A i \in 1 .. Len(u) : Cell(k, u, i) \in lo .. hi
    BY <1>3, <1>8, <1>9
  <2>7. \A c \in Cells \ (lo .. hi) : AtHome(k, c)
    BY <1>3, <1>6, <1>8 DEF AtHome
  <2> QED  BY <1>7, <2>1, <2>2, <2>3, <2>4, <2>5, <2>6, <2>7 DEF Spanned, Assigned
<1>12. \A s \in Seqs : /\ k.tail[s] = None <=> m.tail[s] = None
                       /\ m.tail[s] # None => /\ m.tail[s] \in Cells /\ k.tail[s] \in Cells
                                              /\ o[k.tail[s]] = m.tail[s]
  BY <1>1, <1>3, <1>4, <1>6
<1>13. Kept(m, k, Seqs \ Owners(u))
  <2>1. \A s \in Seqs : End(k, s) = End(m, s)
    BY <1>6, <1>12 DEF End
  <2>2. Tailed(m, Seqs \ Owners(u)) => Tailed(k, Seqs \ Owners(u))
    BY <1>6, <1>12 DEF Tailed
  <2>3. \A B \in Nat : Bounded(m, B) => Bounded(k, B)
    BY <1>3, <1>6 DEF Bounded
  <2>4. ASSUME NEW r, NEW t, Tells(m, r, t) PROVE Tells(k, r, t)
    <3>1. \A c \in Cells : Row(k, r, c) = Row(m, r, o[c])
      BY <1>6 DEF Row
    <3>2. \A s \in Seqs : t[s] = IF k.tail[s] = None THEN <<>> ELSE Row(k, r, k.tail[s])
      BY <1>12, <2>4, <3>1 DEF Tells
    <3>3. \A c \in Cells : k.seqs[c] = {} => Row(k, r, c) = <<>>
      BY <1>3, <1>6, <2>4, <3>1 DEF Tells
    <3> QED  BY <3>2, <3>3 DEF Tells
  <2> QED  BY <2>1, <2>2, <2>3, <2>4 DEF Kept
<1>14. Exchanged(m, k, u, a, b)
  BY <1>1, <1>3, <1>8, <1>9 DEF Exchanged
<1> QED  BY <1>11, <1>13, <1>14

InOrder(m, u, lo) == \A i \in 1 .. Len(u) : Cell(m, u, i) = lo + i - 1

LEMMA KeptTwice ==
    ASSUME NEW S, NEW m, NEW k, NEW l, Kept(m, k, S), Kept(k, l, S)
    PROVE  Kept(m, l, S)
BY DEF Kept

LEMMA GatheredKeeps ==
    ASSUME NEW u \in Ubatches, NEW lo \in Cells, NEW hi \in Cells, NEW m, Spanned(m, u, lo, hi),
           lo + Len(u) - 1 <= hi, NEW g, g = Gathered(m, u, lo)
    PROVE  /\ Spanned(g, u, lo, hi)
           /\ Kept(m, g, Seqs \ Owners(u))
           /\ InOrder(g, u, lo)
<1> DEFINE N == Len(u)
           Body(f) == [i \in 0 .. N |-> IF i = 0 THEN m
                                        ELSE Swap(f[i - 1], lo + i - 1, f[i - 1].tail[Owner(u[i])])]
           D == {k \in Metadata : Spanned(k, u, lo, hi)}
<1>1. N \in Nat /\ N >= 1 /\ m \in D /\ lo \in Int /\ hi \in Int
  BY UbatchType, SizeType DEF Spanned, Cells
<1>2. ASSUME NEW i \in 1 .. N, NEW k \in D
      PROVE  /\ lo + i - 1 \in lo .. hi /\ k.tail[Owner(u[i])] \in lo .. hi
             /\ k.tail[Owner(u[i])] = Cell(k, u, i)
  BY <1>1 DEF Spanned, Cell
<1>3. ASSUME NEW i \in 1 .. N, NEW k \in D
      PROVE  Swap(k, lo + i - 1, k.tail[Owner(u[i])]) \in D
  <2>1. PICK a, b, l : a = lo + i - 1 /\ b = k.tail[Owner(u[i])] /\ l = Swap(k, a, b)
    OBVIOUS
  <2>2. a \in lo .. hi /\ b \in lo .. hi /\ Spanned(k, u, lo, hi) /\ l = Swap(k, a, b)
    BY <1>2, <2>1
  <2> HIDE DEF D
  <2>3. Spanned(l, u, lo, hi)
    BY ONLY <2>2, SwapKeeps, u \in Ubatches, lo \in Cells, hi \in Cells
  <2> QED  BY <2>1, <2>3 DEF D, Spanned
<1> HIDE DEF D
<1>4. \E f : f = Body(f)
  <2>1. PICK F : F = [x \in (1 .. N) \X D |-> Swap(x[2], lo + x[1] - 1, x[2].tail[Owner(u[x[1]])])]
    OBVIOUS
  <2>2. \A i \in 1 .. N, k \in D : F[<<i, k>>] = Swap(k, lo + i - 1, k.tail[Owner(u[i])])
    BY <2>1
  <2>3. F \in [(1 .. N) \X D -> D]
    <3>1. \A i \in 1 .. N, k \in D : F[<<i, k>>] \in D
      BY <1>3, <2>2
    <3>2. \A x \in (1 .. N) \X D : F[x] \in D
      BY <3>1
    <3> QED  BY <2>1, <3>2
  <2>4. PICK f \in [0 .. N -> D] : f[0] = m /\ \A i \in 1 .. N : f[i] = F[<<i, f[i - 1]>>]
    <3>1. \E f : f \in Recursive(N, D, m, F)
      BY <1>1, <2>3, Recursion
    <3> QED  BY <3>1 DEF Recursive
  <2>5. \A i \in 0 .. N : i # 0 => i \in 1 .. N /\ f[i - 1] \in D
    BY <2>4
  <2>6. f = Body(f)
    <3>1. \A i \in 0 .. N : f[i] = IF i = 0 THEN m
                                   ELSE Swap(f[i - 1], lo + i - 1, f[i - 1].tail[Owner(u[i])])
      BY <2>2, <2>4, <2>5
    <3> QED  BY <2>4, <3>1
  <2> QED  BY <2>6
<1>5. PICK f : f = CHOOSE h : h = Body(h)
  OBVIOUS
<1>6. f = Body(f)
  <2> HIDE DEF Body
  <2> QED  BY <1>4, <1>5
<1>7. g = f[N]
  BY <1>5 DEF Gathered
<1>8. /\ f[0] = m
      /\ \A i \in 1 .. N : f[i] = Swap(f[i - 1], lo + i - 1, f[i - 1].tail[Owner(u[i])])
  <2>1. \A i \in 0 .. N : f[i] = Body(f)[i]
    BY <1>6
  <2>2. 0 \in 0 .. N /\ \A i \in 1 .. N : i \in 0 .. N /\ i # 0
    BY <1>1
  <2> QED  BY <2>1, <2>2
<1> HIDE DEF Body
<1> DEFINE P == {i \in 0 .. N : /\ f[i] \in D /\ Kept(m, f[i], Seqs \ Owners(u))
                                /\ \A j \in 1 .. i : Cell(f[i], u, j) = lo + j - 1}
<1>9. 0 \in P
  BY <1>1, <1>8 DEF Kept
<1>10. ASSUME NEW i \in 1 .. N, i - 1 \in P PROVE i \in P
  <2>1. PICK k, l : k = f[i - 1] /\ l = f[i]
    OBVIOUS
  <2>2. /\ k \in D /\ Kept(m, k, Seqs \ Owners(u)) /\ i \in 0 .. N
        /\ \A j \in 1 .. i - 1 : Cell(k, u, j) = lo + j - 1
    BY <1>10, <2>1
  <2>3. PICK a, b : a = lo + i - 1 /\ b = Cell(k, u, i)
    OBVIOUS
  <2>4. a \in lo .. hi /\ b \in lo .. hi /\ l = Swap(k, a, b)
    BY <1>2, <1>8, <2>1, <2>2, <2>3
  <2>5. Spanned(k, u, lo, hi)
    BY <2>2 DEF D
  <2>6. /\ Spanned(l, u, lo, hi)
        /\ Kept(k, l, Seqs \ Owners(u))
        /\ Exchanged(k, l, u, a, b)
    BY ONLY <2>4, <2>5, SwapKeeps, u \in Ubatches, lo \in Cells, hi \in Cells
  <2>7. Kept(m, l, Seqs \ Owners(u))
    BY <2>2, <2>6, KeptTwice
  <2>8. l \in D
    BY <2>6 DEF D, Spanned
  <2>9. \A j \in 1 .. i : Cell(l, u, j) = lo + j - 1
    <3>1. \A j, n \in 1 .. N : Cell(k, u, j) = Cell(k, u, n) => j = n
      BY <2>5 DEF Spanned, Assigned
    <3>2. Cell(l, u, i) = a
      BY <2>3, <2>6 DEF Exchanged
    <3>3. ASSUME NEW j \in 1 .. i - 1 PROVE Cell(l, u, j) = lo + j - 1
      <4>1. j \in 1 .. N /\ j # i /\ Cell(k, u, j) = lo + j - 1
        BY <1>1, <2>2
      <4>2. Cell(k, u, j) # a /\ Cell(k, u, j) # b
        BY <1>1, <2>3, <3>1, <4>1
      <4> QED  BY <2>6, <4>1, <4>2 DEF Exchanged
    <3> QED  BY <2>3, <3>2, <3>3
  <2> QED  BY <2>1, <2>2, <2>7, <2>8, <2>9
<1>11. 0 .. N \subseteq P
  <2> HIDE DEF P
  <2> QED  BY <1>1, <1>9, <1>10, UpTo
<1>12. N \in P
  <2>1. N \in 0 .. N
    BY <1>1
  <2> HIDE DEF P
  <2> QED  BY <1>11, <2>1
<1> QED  BY <1>7, <1>12 DEF D, InOrder
-----------------------------------------------------------------------------
(* The cells are taken over: what Placed and Slot make of the cells that   *)
(* were gathered.                                                          *)
Taken(m0, m, u, lo, hi) ==
    LET placed == Placed(m0, m, u, lo) IN Slot(placed, lo, hi, ToZero(placed, lo .. hi))

Takes(m0, m, u, lo, hi, slot) ==
    /\ \A i \in 1 .. Len(u) : /\ slot.m.pos[lo + i - 1] = PosMax(m0, Owner(u[i])) + 1
                              /\ slot.m.seqs[lo + i - 1] = ToSet(u[i])
                              /\ \A s \in ToSet(u[i]) : slot.m.tail[s] = lo + i - 1
    /\ \A c \in Cells \ (lo .. lo + Len(u) - 1) :
          slot.m.pos[c] = m.pos[c] /\ slot.m.seqs[c] = m.seqs[c]
    /\ \A s \in Seqs : (\A i \in 1 .. Len(u) : s \notin ToSet(u[i])) => slot.m.tail[s] = m.tail[s]
    /\ \A c \in Cells : slot.m.src[c] = IF c \in lo .. hi THEN c ELSE m.src[c]
    /\ slot.m.head = lo
    /\ slot.m.used = Cardinality(Occupied(slot.m))
    /\ slot.lo = lo /\ slot.hi = hi
    /\ slot.zero # None => slot.zero \in lo .. hi /\ \A d \in Cells : m.src[d] # slot.zero
    /\ slot.zero = None => \A c \in lo .. hi : \E d \in Cells : m.src[d] = c
    /\ \A c \in lo .. hi : slot.src0[c] = IF m.src[c] = None THEN slot.zero ELSE m.src[c]
    /\ slot.ok = (slot.zero # None \/ \A c \in lo .. hi : m.src[c] # None)

LEMMA TakenIs ==
    ASSUME NEW u \in Ubatches, NEW lo \in Cells, NEW hi \in Cells, lo + Len(u) - 1 <= hi,
           NEW m \in Metadata, NEW m0, \A s \in Seqs : PosMax(m0, s) \in Int,
           NEW slot, slot = Taken(m0, m, u, lo, hi)
    PROVE  slot.m \in Metadata /\ Takes(m0, m, u, lo, hi, slot)
<1> DEFINE n == Len(u)
           set(s) == {i \in 1 .. Len(u) : s \in ToSet(u[i])}
<1>1. /\ lo .. hi \subseteq Cells /\ lo .. lo + n - 1 \subseteq lo .. hi
      /\ lo \in Int /\ hi \in Int /\ n \in Nat /\ n >= 1 /\ lo <= hi
      /\ \A c \in Cells : c # None /\ c \in Int
      /\ \A i \in 1 .. n : ToSet(u[i]) \in SUBSET Seqs /\ Owner(u[i]) \in Seqs
      /\ \A i, j \in 1 .. n : ToSet(u[i]) \cap ToSet(u[j]) # {} => i = j
  <2>1. lo \in Int /\ hi \in Int /\ lo .. hi \subseteq Cells
    BY SizeType DEF Cells
  <2>2. n \in Nat /\ n >= 1
    BY UbatchType
  <2>3. lo .. lo + n - 1 \subseteq lo .. hi /\ lo <= hi
    BY <2>1, <2>2
  <2>4. \A c \in Cells : c # None /\ c \in Int
    BY CellsType
  <2>5. \A i \in 1 .. n : ToSet(u[i]) \in SUBSET Seqs /\ Owner(u[i]) \in Seqs
    BY UbatchType
  <2>6. \A i, j \in 1 .. n : ToSet(u[i]) \cap ToSet(u[j]) # {} => i = j
    BY UbatchType
  <2> QED  BY <2>1, <2>2, <2>3, <2>4, <2>5, <2>6
<1>2. /\ m.tail \in [Seqs -> Cells \cup {None}] /\ m.pos \in [Cells -> Int]
      /\ m.src \in [Cells -> Cells \cup {None}] /\ m.seqs \in [Cells -> SUBSET Seqs]
      /\ m.head \in Int /\ m.used \in Int
  BY DEF Metadata
<1>3. PICK p : p = Placed(m0, m, u, lo)
  OBVIOUS
<1>4. PICK pos, seqs, tail :
        /\ pos = [c \in Cells |-> IF c \in lo .. lo + Len(u) - 1 THEN PosMax(m0, Owner(u[c - lo + 1])) + 1 ELSE m.pos[c]]
        /\ seqs = [c \in Cells |-> IF c \in lo .. lo + Len(u) - 1 THEN ToSet(u[c - lo + 1]) ELSE m.seqs[c]]
        /\ tail = [s \in Seqs |-> IF set(s) = {} THEN m.tail[s] ELSE lo - 1 + Min(set(s))]
  OBVIOUS
<1>5. p = [pos |-> pos, src |-> m.src, seqs |-> seqs, tail |-> tail, head |-> m.head, used |-> m.used]
  <2>1. p = [m EXCEPT !.pos = pos, !.seqs = seqs, !.tail = tail]
    BY <1>3, <1>4 DEF Placed
  <2> QED  BY <2>1 DEF Metadata
<1>6. ASSUME NEW i \in 1 .. n
      PROVE  /\ pos[lo + i - 1] = PosMax(m0, Owner(u[i])) + 1
             /\ seqs[lo + i - 1] = ToSet(u[i])
             /\ \A s \in ToSet(u[i]) : s \in Seqs /\ tail[s] = lo + i - 1
  <2>1. PICK c : c = lo + i - 1
    OBVIOUS
  <2>2. c \in Cells /\ c \in lo .. lo + Len(u) - 1 /\ c - lo + 1 = i
    BY <1>1, <2>1
  <2>3. pos[c] = PosMax(m0, Owner(u[i])) + 1 /\ seqs[c] = ToSet(u[i])
    BY <1>4, <2>2
  <2>4. ASSUME NEW s \in ToSet(u[i]) PROVE s \in Seqs /\ tail[s] = lo + i - 1
    <3>1. set(s) = {i}
      BY <1>1
    <3>2. PICK S : S = {i}
      OBVIOUS
    <3>3. Min(S) = i
      BY <1>1, <3>2 DEF Min
    <3> HIDE DEF set
    <3>4. s \in Seqs /\ set(s) # {} /\ Min(set(s)) = i
      BY <1>1, <3>1, <3>2, <3>3
    <3>5. tail[s] = lo - 1 + Min(set(s))
      BY <1>4, <3>4
    <3> QED  BY <1>1, <3>4, <3>5
  <2> QED  BY <2>1, <2>3, <2>4
<1>7. \A c \in Cells \ (lo .. lo + n - 1) : pos[c] = m.pos[c] /\ seqs[c] = m.seqs[c]
  BY <1>4
<1>8. ASSUME NEW s \in Seqs, \A i \in 1 .. n : s \notin ToSet(u[i]) PROVE tail[s] = m.tail[s]
  <2>1. set(s) = {}
    BY <1>8
  <2> HIDE DEF set
  <2> QED  BY <1>4, <2>1
<1>9. pos \in [Cells -> Int] /\ seqs \in [Cells -> SUBSET Seqs] /\ tail \in [Seqs -> Cells \cup {None}]
  <2>1. \A c \in lo .. lo + n - 1 : c - lo + 1 \in 1 .. n
    BY <1>1
  <2>2. pos \in [Cells -> Int]
    <3>1. ASSUME NEW c \in Cells PROVE pos[c] \in Int
      <4>1. CASE c \in lo .. lo + n - 1
        <5>1. PICK i \in 1 .. n : i = c - lo + 1
          BY <2>1, <4>1
        <5>2. Owner(u[i]) \in Seqs /\ PosMax(m0, Owner(u[i])) \in Int
          BY <1>1
        <5>3. pos[c] = PosMax(m0, Owner(u[i])) + 1
          BY <1>4, <4>1, <5>1
        <5> QED  BY <5>2, <5>3
      <4>2. CASE c \notin lo .. lo + n - 1
        BY <1>2, <1>4, <4>2
      <4> QED  BY <4>1, <4>2
    <3> QED  BY <1>4, <3>1
  <2>3. seqs \in [Cells -> SUBSET Seqs]
    <3>1. \A c \in Cells : seqs[c] \in SUBSET Seqs
      BY <1>1, <1>2, <1>4, <2>1
    <3> QED  BY <1>4, <3>1
  <2>4. tail \in [Seqs -> Cells \cup {None}]
    <3>1. ASSUME NEW s \in Seqs PROVE tail[s] \in Cells \cup {None}
      <4>1. CASE \E i \in 1 .. n : s \in ToSet(u[i])
        <5>1. PICK i \in 1 .. n : s \in ToSet(u[i])
          BY <4>1
        <5>2. lo + i - 1 \in Cells
          BY <1>1
        <5> QED  BY <1>6, <5>1, <5>2
      <4>2. CASE \A i \in 1 .. n : s \notin ToSet(u[i])
        BY <1>2, <1>8, <4>2
      <4> QED  BY <4>1, <4>2
    <3> QED  BY <1>4, <3>1
  <2> QED  BY <2>2, <2>3, <2>4
<1>10. PICK zero : zero = ToZero(p, lo .. hi)
  OBVIOUS
<1>11. /\ zero # None => zero \in lo .. hi /\ \A d \in Cells : m.src[d] # zero
       /\ zero = None => \A c \in lo .. hi : \E d \in Cells : m.src[d] = c
  <2>1. PICK unread : unread = {c \in lo .. hi : \A d \in Cells : m.src[d] # c}
    OBVIOUS
  <2>2. zero = IF unread = {} THEN None ELSE Min(unread)
    BY <1>5, <1>10, <2>1 DEF ToZero
  <2>3. CASE unread = {}
    BY <2>1, <2>2, <2>3
  <2>4. CASE unread # {}
    <3>1. unread \in SUBSET Nat
      BY <1>1, <2>1, CellsType
    <3>2. PICK x \in unread : \A y \in unread : x <= y
      BY <2>4, <3>1, LeastOf
    <3>3. Min(unread) \in unread
      BY <3>2 DEF Min
    <3> QED  BY <1>1, <2>1, <2>2, <2>4, <3>3
  <2> QED  BY <2>3, <2>4
<1>12. PICK src : src = [c \in Cells |-> IF c \in lo .. hi THEN c ELSE m.src[c]]
  OBVIOUS
<1>13. slot = [m |-> [pos |-> pos, src |-> src, seqs |-> seqs, tail |-> tail, head |-> lo,
                      used |-> Cardinality({c \in Cells : seqs[c] # {}})],
               lo |-> lo, hi |-> hi, zero |-> zero,
               src0 |-> [c \in lo .. hi |-> IF m.src[c] = None THEN zero ELSE m.src[c]],
               ok |-> zero # None \/ \A c \in lo .. hi : m.src[c] # None]
  <2>1. slot = Slot(p, lo, hi, zero)
    BY <1>3, <1>10 DEF Taken
  <2>2. p.src = m.src /\ p.seqs = seqs
    BY <1>5
  <2>3. PICK used : used = Cardinality({c \in Cells : seqs[c] # {}})
    OBVIOUS
  <2>4. [p EXCEPT !.src = src, !.head = lo, !.used = used]
        = [pos |-> pos, src |-> src, seqs |-> seqs, tail |-> tail, head |-> lo, used |-> used]
    <3>1. p \in Metadata
      BY <1>2, <1>5, <1>9 DEF Metadata
    <3>2. p.pos = pos /\ p.seqs = seqs /\ p.tail = tail
      BY <1>5
    <3>3. PICK q : q = [p EXCEPT !.src = src, !.head = lo, !.used = used]
      OBVIOUS
    <3>4. q.pos = pos /\ q.src = src /\ q.seqs = seqs /\ q.tail = tail /\ q.head = lo /\ q.used = used
      BY <3>1, <3>2, <3>3 DEF Metadata
    <3>5. q = [pos |-> q.pos, src |-> q.src, seqs |-> q.seqs, tail |-> q.tail, head |-> q.head, used |-> q.used]
      BY <3>1, <3>3 DEF Metadata
    <3> QED  BY <3>3, <3>4, <3>5
  <2>5. [c \in Cells |-> IF c \in lo .. hi THEN c ELSE p.src[c]] = src
    BY <1>12, <2>2
  <2> QED  BY <1>5, <1>12, <2>1, <2>2, <2>3, <2>4, <2>5 DEF Slot
<1>14. /\ slot.m = [pos |-> pos, src |-> src, seqs |-> seqs, tail |-> tail, head |-> lo,
                    used |-> Cardinality({c \in Cells : seqs[c] # {}})]
       /\ slot.lo = lo /\ slot.hi = hi /\ slot.zero = zero
       /\ slot.src0 = [c \in lo .. hi |-> IF m.src[c] = None THEN zero ELSE m.src[c]]
       /\ slot.ok = (zero # None \/ \A c \in lo .. hi : m.src[c] # None)
  BY <1>13
<1>15. src \in [Cells -> Cells \cup {None}]
  <2>1. \A c \in Cells : src[c] \in Cells \cup {None}
    BY <1>2, <1>12
  <2> QED  BY <1>12, <2>1
<1>16. slot.m.used = Cardinality(Occupied(slot.m)) /\ slot.m.used \in Int
  <2>1. PICK O : O = Occupied(slot.m)
    OBVIOUS
  <2>2. O = {c \in Cells : seqs[c] # {}} /\ slot.m.used = Cardinality({c \in Cells : seqs[c] # {}})
    BY <1>14, <2>1 DEF Occupied
  <2>3. O \subseteq Cells
    BY <2>2
  <2>4. IsFiniteSet(O)
    BY <2>3, CellsType, FS_Subset
  <2>5. Cardinality(O) \in Nat
    BY <2>4, FS_CardinalityType
  <2>6. slot.m.used = Cardinality(O)
    BY <2>2
  <2> QED  BY <2>1, <2>5, <2>6
<1>17. slot.m \in Metadata
  BY <1>1, <1>9, <1>14, <1>15, <1>16, SMTT(30) DEF Metadata
<1>18. \A c \in Cells : slot.m.src[c] = IF c \in lo .. hi THEN c ELSE m.src[c]
  BY <1>12, <1>14
<1>19. \A c \in lo .. hi : slot.src0[c] = IF m.src[c] = None THEN slot.zero ELSE m.src[c]
  BY <1>14
<1>20. slot.m.pos = pos /\ slot.m.seqs = seqs /\ slot.m.tail = tail /\ slot.m.head = lo
  BY <1>14
<1> QED  BY <1>6, <1>7, <1>8, <1>11, <1>14, <1>16, <1>17, <1>18, <1>19, <1>20 DEF Takes
-----------------------------------------------------------------------------
(* From the metadata m0 to the cells that are gathered.                    *)
Reached(m0, m, u) ==
    /\ \A s \in Seqs \ (Joining(u) \cup Owners(u)) : End(m, s) = End(m0, s)
    /\ Tailed(m0, Seqs) => Tailed(m, Seqs \ Owners(u))
    /\ \A B \in Nat : Bounded(m0, B) => Bounded(m, B)
    /\ \A r, t : Tailed(m0, Seqs) /\ Tells(m0, r, t) =>
          Tells(m, r, [s \in Seqs |-> IF s \in Joining(u) THEN <<>> ELSE t[s]])

LEMMA AloneKeeps ==
    ASSUME NEW m0 \in Rested, NEW u \in Ubatches, NEW m, m = Alone(Hinted(m0, u), u)
    PROVE  /\ m \in Metadata /\ Named(m) /\ m.head \in Cells
           /\ \A c \in Cells : Clean(m, c) /\ AtHome(m, c)
           /\ \A s \in Joining(u) : m.tail[s] = None
           /\ Tailed(m0, Seqs) => Tailed(m, Seqs)
           /\ \A s \in Seqs \ Joining(u) : End(m, s) = End(m0, s)
           /\ Reached(m0, m, u)
<1>1. PICK h : h = Hinted(m0, u)
  OBVIOUS
<1>2. m0 \in Metadata /\ Named(m0) /\ m0.head \in Cells /\ \A c \in Cells : Clean(m0, c) /\ AtHome(m0, c)
  BY DEF Rested
<1>3. /\ h \in Metadata /\ h.head \in Cells
      /\ h.pos = m0.pos /\ h.src = m0.src /\ h.seqs = m0.seqs /\ h.tail = m0.tail
  <2>1. CASE h = m0
    BY <1>2, <2>1
  <2>2. CASE h = [m0 EXCEPT !.head = 0]
    <3>1. 0 \in Cells /\ 0 \in Int
      BY CellsType
    <3>2. /\ h.pos = m0.pos /\ h.src = m0.src /\ h.seqs = m0.seqs /\ h.tail = m0.tail
          /\ h.head = 0
      BY <1>2, <2>2 DEF Metadata
    <3>3. h \in Metadata
      BY <1>2, <2>2 DEF Metadata
    <3> QED  BY <3>1, <3>2, <3>3
  <2> QED  BY <1>1, <2>1, <2>2 DEF Hinted
<1>4. /\ Named(h) /\ \A c \in Cells : Clean(h, c) /\ AtHome(h, c)
      /\ Tailed(h, Seqs) <=> Tailed(m0, Seqs)
      /\ \A s : End(h, s) = End(m0, s)
      /\ \A r, t : Tells(h, r, t) <=> Tells(m0, r, t)
      /\ \A B : Bounded(h, B) <=> Bounded(m0, B)
  <2>1. Named(h) /\ \A c \in Cells : Clean(h, c) /\ AtHome(h, c)
    BY <1>2, <1>3 DEF Named, Clean, AtHome
  <2>2. \A s : End(h, s) = End(m0, s)
    BY <1>3 DEF End
  <2>3. \A r, t : Tells(h, r, t) <=> Tells(m0, r, t)
    BY <1>3 DEF Tells, Row
  <2>4. (Tailed(h, Seqs) <=> Tailed(m0, Seqs)) /\ \A B : Bounded(h, B) <=> Bounded(m0, B)
    BY <1>3 DEF Tailed, Bounded
  <2> QED  BY <2>1, <2>2, <2>3, <2>4
<1>5. PICK who : who = Joining(u)
  OBVIOUS
<1>6. who \in SUBSET Seqs /\ m = Release(h, who)
  BY <1>1, <1>5, UbatchType DEF Alone
<1>7. /\ m \in Metadata /\ Named(m) /\ m.head = h.head
      /\ \A s \in Seqs : m.tail[s] = IF s \in who THEN None ELSE h.tail[s]
      /\ \A c \in Cells : m.pos[c] \in {h.pos[c], -1}
  <2>1. PICK freed : freed = {c \in Cells : h.seqs[c] \ who = {} /\ \E s \in who : h.tail[s] = c}
    OBVIOUS
  <2>2. /\ m \in Metadata /\ Named(m)
        /\ \A c \in Cells : m.pos[c] = IF c \in freed THEN -1 ELSE h.pos[c]
        /\ \A s \in Seqs : m.tail[s] = IF s \in who THEN None ELSE h.tail[s]
        /\ m.head = h.head
    <3>1. m \in Metadata /\ Named(m) /\ GivenUp(h, m, who, freed)
      BY <1>3, <1>4, <1>6, <2>1, ReleaseIs
    <3> QED  BY <3>1 DEF GivenUp
  <2> QED  BY <2>2
<1>8. /\ \A c \in Cells : Clean(m, c) /\ AtHome(m, c)
      /\ \A s \in Seqs \ who : End(m, s) = End(h, s)
      /\ Tailed(h, Seqs) => Tailed(m, Seqs)
      /\ \A r, t : Tailed(h, Seqs) /\ Tells(h, r, t) =>
            Tells(m, r, [s \in Seqs |-> IF s \in who THEN <<>> ELSE t[s]])
  <2>1. /\ \A c \in Cells : Clean(h, c) => Clean(m, c)
        /\ \A c \in Cells : AtHome(h, c) => AtHome(m, c)
        /\ \A s \in Seqs \ who : End(m, s) = End(h, s)
        /\ Tailed(h, Seqs) => Tailed(m, Seqs)
        /\ \A r, t : Tailed(h, Seqs) /\ Tells(h, r, t) =>
              Tells(m, r, [s \in Seqs |-> IF s \in who THEN <<>> ELSE t[s]])
    BY <1>3, <1>4, <1>6, ReleaseKeeps
  <2> QED  BY <1>4, <2>1
<1>9. \A B \in Nat : Bounded(h, B) => Bounded(m, B)
  BY <1>3, <1>7 DEF Bounded, Metadata
<1>10. Tailed(m, Seqs) => Tailed(m, Seqs \ Owners(u))
  BY DEF Tailed
<1>11. \A s \in Joining(u) : m.tail[s] = None
  BY <1>5, <1>6, <1>7
<1>12. Reached(m0, m, u)
  <2>1. \A s \in Seqs \ (Joining(u) \cup Owners(u)) : End(m, s) = End(m0, s)
    BY <1>4, <1>5, <1>8
  <2>2. \A r, t : Tailed(m0, Seqs) /\ Tells(m0, r, t) =>
          Tells(m, r, [s \in Seqs |-> IF s \in Joining(u) THEN <<>> ELSE t[s]])
    BY <1>4, <1>5, <1>8
  <2> QED  BY <1>4, <1>8, <1>9, <1>10, <2>1, <2>2 DEF Reached
<1> QED  BY <1>3, <1>4, <1>5, <1>7, <1>8, <1>11, <1>12

LEMMA SpanIs ==
    ASSUME NEW u \in Ubatches, NEW m \in Metadata, Assigned(m, u),
           \A c \in Cells \ Chosen(m, u) : AtHome(m, c),
           NEW lo, lo = Min(Chosen(m, u)), NEW hi, hi = Max(Chosen(m, u))
    PROVE  lo \in Cells /\ hi \in Cells /\ Spanned(m, u, lo, hi) /\ lo + Len(u) - 1 <= hi
<1>1. PICK n, C : n = Len(u) /\ C = Chosen(m, u)
  OBVIOUS
<1>2. /\ n \in Nat /\ n >= 1 /\ C = {Cell(m, u, i) : i \in 1 .. n}
      /\ \A i \in 1 .. n : Cell(m, u, i) \in Cells
      /\ \A i, j \in 1 .. n : Cell(m, u, i) = Cell(m, u, j) => i = j
  BY <1>1, UbatchType DEF Chosen, Assigned
<1>3. C # {} /\ C \subseteq Cells /\ C \in SUBSET Nat /\ C \in SUBSET (0 .. Size - 1)
  <2>1. C # {} /\ C \subseteq Cells
    BY <1>2
  <2> QED  BY <2>1, CellsType DEF Cells
<1>4. lo \in C /\ \A c \in C : lo <= c
  <2>1. PICK x \in C : \A y \in C : x <= y
    BY <1>3, LeastOf
  <2>2. lo = CHOOSE z \in C : \A y \in C : z <= y
    BY <1>1 DEF Min
  <2> QED  BY <2>1, <2>2
<1>5. hi \in C /\ \A c \in C : c <= hi
  <2>0. PICK N : N = Size - 1
    OBVIOUS
  <2>1. PICK x \in C : \A y \in C : y <= x
    <3>1. N \in Nat /\ C \in SUBSET (0 .. N) /\ C # {}
      BY <1>3, <2>0, SizeType
    <3> QED  BY <3>1, GreatestOf
  <2>2. \A y \in C : x >= y
    BY <1>3, <2>1
  <2>3. hi = CHOOSE z \in C : \A y \in C : z >= y
    BY <1>1 DEF Max
  <2>4. hi \in C /\ \A y \in C : hi >= y
    BY <2>2, <2>3
  <2> QED  BY <1>3, <2>4
<1>6. lo \in Cells /\ hi \in Cells /\ lo \in Nat /\ hi \in Nat /\ lo <= hi
  BY <1>3, <1>4, <1>5
<1>7. C \subseteq lo .. hi
  BY <1>3, <1>4, <1>5, <1>6
<1>8. lo + n - 1 <= hi
  <2>1. PICK f : f = [i \in 1 .. n |-> Cell(m, u, i)]
    OBVIOUS
  <2>2. f \in Injection(1 .. n, lo .. hi)
    <3>1. \A i \in 1 .. n : Cell(m, u, i) \in lo .. hi
      BY <1>2, <1>7
    <3> QED  BY <1>2, <2>1, <3>1 DEF Injection, IsInjective
  <2>3. IsFiniteSet(lo .. hi) /\ Cardinality(lo .. hi) = hi - lo + 1
    <3>1. Cardinality(lo .. hi) = IF lo > hi THEN 0 ELSE hi - lo + 1
      BY <1>6, FS_Interval
    <3> QED  BY <1>6, <3>1, FS_Interval
  <2>4. Cardinality(1 .. n) = n
    <3>1. Cardinality(1 .. n) = IF 1 > n THEN 0 ELSE n - 1 + 1
      BY <1>2, FS_Interval
    <3> QED  BY <1>2, <3>1
  <2>5. Cardinality(1 .. n) <= Cardinality(lo .. hi)
    BY <2>2, <2>3, FS_Injection
  <2> QED  BY <1>2, <1>6, <2>3, <2>4, <2>5
<1>9. Spanned(m, u, lo, hi)
  <2>1. \A c \in Cells \ (lo .. hi) : AtHome(m, c)
    BY <1>1, <1>7
  <2>2. \A i \in 1 .. Len(u) : Cell(m, u, i) \in lo .. hi
    BY <1>1, <1>2, <1>7
  <2> QED  BY <2>1, <2>2 DEF Spanned
<1> QED  BY <1>1, <1>6, <1>8, <1>9

(* find_slot, if its first assertions hold, takes over cells that have     *)
(* been gathered; and they hold if tails agree.                            *)
LEMMA FindSlotIs ==
    ASSUME NEW m0 \in Rested, NEW u \in Ubatches, NEW slot, slot = FindSlot(m0, u)
    PROVE  slot.ok \/ Tailed(m0, Seqs) =>
              \E lo, hi \in Cells, m \in Metadata :
                 /\ lo + Len(u) - 1 <= hi
                 /\ Spanned(m, u, lo, hi) /\ Reached(m0, m, u)
                 /\ InOrder(m, u, lo)
                 /\ slot = Taken(m0, m, u, lo, hi)
<1>1. SUFFICES ASSUME slot.ok \/ Tailed(m0, Seqs)
               PROVE  \E lo, hi \in Cells, m \in Metadata :
                         /\ lo + Len(u) - 1 <= hi
                         /\ Spanned(m, u, lo, hi) /\ Reached(m0, m, u)
                         /\ InOrder(m, u, lo)
                         /\ slot = Taken(m0, m, u, lo, hi)
  OBVIOUS
<1>2. PICK a : a = Alone(Hinted(m0, u), u)
  OBVIOUS
<1>3. /\ a \in Metadata /\ Named(a) /\ a.head \in Cells
      /\ \A c \in Cells : Clean(a, c) /\ AtHome(a, c)
      /\ \A s \in Joining(u) : a.tail[s] = None
      /\ Tailed(m0, Seqs) => Tailed(a, Seqs)
      /\ Reached(m0, a, u)
  BY <1>2, AloneKeeps
<1>4. slot = SlotFor(m0, a, u)
  BY <1>2 DEF FindSlot
<1>5. Pickable(a, u)
  <2>1. SUFFICES ASSUME ~Pickable(a, u) PROVE FALSE
    OBVIOUS
  <2>2. slot = [ok |-> FALSE]
    BY <1>4, <2>1 DEF SlotFor
  <2>3. Tailed(a, Seqs)
    BY <1>1, <1>3, <2>2
  <2>4. \A i \in DOMAIN u : a.tail[Owner(u[i])] = None \/ Owner(u[i]) \in a.seqs[a.tail[Owner(u[i])]]
    BY <2>3, UbatchType DEF Tailed
  <2>5. Cardinality(Lacking(a, u)) <= Len(Empties(a))
    BY <1>3, RoomForAll
  <2> QED  BY <2>1, <2>4, <2>5 DEF Pickable
<1>6. PICK p : p = Picked(a, u)
  OBVIOUS
<1>7. /\ p \in Metadata /\ Assigned(p, u)
      /\ \A c \in Cells \ Chosen(p, u) : AtHome(p, c)
      /\ Kept(a, p, Seqs \ Owners(u))
  BY <1>3, <1>5, <1>6, PickedKeeps
<1>8. PICK lo, hi : lo = Min(Chosen(p, u)) /\ hi = Max(Chosen(p, u))
  OBVIOUS
<1>9. lo \in Cells /\ hi \in Cells /\ Spanned(p, u, lo, hi) /\ lo + Len(u) - 1 <= hi
  BY <1>7, <1>8, SpanIs
<1>10. PICK m : m = Gathered(p, u, lo)
  OBVIOUS
<1>11. /\ Spanned(m, u, lo, hi) /\ Kept(p, m, Seqs \ Owners(u))
       /\ InOrder(m, u, lo)
  BY <1>9, <1>10, GatheredKeeps, Zenon
<1>12. Kept(a, m, Seqs \ Owners(u))
  BY <1>7, <1>11, KeptTwice
<1>13. Reached(m0, m, u)
  BY <1>3, <1>12 DEF Reached, Kept
<1>14. slot = Taken(m0, m, u, lo, hi)
  <2>1. {p.tail[Owner(u[i])] : i \in DOMAIN u} = Chosen(p, u)
    BY UbatchType DEF Chosen, Cell
  <2>2. slot = SlotOver(m0, p, u, {p.tail[Owner(u[i])] : i \in DOMAIN u})
    BY <1>4, <1>5, <1>6 DEF SlotFor
  <2>3. slot = SlotOver(m0, p, u, Chosen(p, u))
    BY <2>1, <2>2
  <2>4. slot = SlotBetween(m0, p, u, lo, hi)
    BY <1>8, <2>3 DEF SlotOver
  <2> QED  BY <1>10, <2>4 DEF SlotBetween, Taken
<1>15. m \in Metadata
  BY <1>11 DEF Spanned
<1> QED  BY <1>9, <1>11, <1>13, <1>14, <1>15
-----------------------------------------------------------------------------
(* find_slot as a whole.  First what the steps after it rely on.           *)
Ranged(u, lo, hi) ==
    /\ lo .. hi \subseteq Cells
    /\ \A i \in 1 .. Len(u) : lo + i - 1 \in lo .. hi
    /\ \A c \in lo .. lo + Len(u) - 1 : \E i \in 1 .. Len(u) : c = lo + i - 1

LEMMA FoundSlot ==
    ASSUME NEW m0 \in Rested, NEW u \in Ubatches, NEW slot, slot = FindSlot(m0, u),
           slot.ok \/ Tailed(m0, Seqs)
    PROVE  \E lo, hi \in Cells, m \in Metadata :
              /\ Spanned(m, u, lo, hi) /\ Reached(m0, m, u) /\ InOrder(m, u, lo)
              /\ Takes(m0, m, u, lo, hi, slot) /\ slot.m \in Metadata
              /\ Ranged(u, lo, hi)
<1>1. PICK lo \in Cells, hi \in Cells, m \in Metadata :
         /\ lo + Len(u) - 1 <= hi
         /\ Spanned(m, u, lo, hi) /\ Reached(m0, m, u) /\ InOrder(m, u, lo)
         /\ slot = Taken(m0, m, u, lo, hi)
  BY FindSlotIs
<1>2. \A s \in Seqs : PosMax(m0, s) \in Int
  BY EndIsPosMax DEF Rested
<1>3. m \in Metadata
  BY <1>1 DEF Spanned
<1>4. slot.m \in Metadata /\ Takes(m0, m, u, lo, hi, slot)
  BY <1>1, <1>2, <1>3, TakenIs
<1>5. lo \in Int /\ hi \in Int /\ Len(u) \in Nat /\ lo .. hi \subseteq Cells
  BY SizeType, UbatchType DEF Cells
<1>6. \A i \in 1 .. Len(u) : lo + i - 1 \in lo .. hi
  BY <1>1, <1>5
<1>7. ASSUME NEW c \in lo .. lo + Len(u) - 1 PROVE \E i \in 1 .. Len(u) : c = lo + i - 1
  <2>1. c - lo + 1 \in 1 .. Len(u) /\ c = lo + (c - lo + 1) - 1
    BY <1>5
  <2> QED  BY <2>1
<1> QED  BY <1>1, <1>4, <1>5, <1>6, <1>7 DEF Ranged

(* There is a row to be zeroed, or all rows of the range have contents:    *)
(* otherwise each cell of it would be read by one of those that read any,  *)
(* which are too few.                                                      *)
LEMMA SlotIsOk ==
    ASSUME NEW m0 \in Rested, Tailed(m0, Seqs), NEW u \in Ubatches,
           NEW slot, slot = FindSlot(m0, u)
    PROVE  slot.ok
<1>1. PICK lo \in Cells, hi \in Cells, m \in Metadata :
         /\ Spanned(m, u, lo, hi) /\ Takes(m0, m, u, lo, hi, slot) /\ lo .. hi \subseteq Cells
  BY FoundSlot DEF Ranged
<1>2. /\ slot.zero = None => \A c \in lo .. hi : \E d \in Cells : m.src[d] = c
      /\ slot.ok = (slot.zero # None \/ \A c \in lo .. hi : m.src[c] # None)
  BY <1>1 DEF Takes
<1>3. SUFFICES ASSUME slot.zero = None PROVE \A c \in lo .. hi : m.src[c] # None
  BY <1>2
<1>4. PICK R, S : R = lo .. hi /\ S = {d \in R : m.src[d] # None}
  OBVIOUS
<1>5. \A c \in Cells : c # None
  BY CellsType
<1>6. ASSUME NEW c \in R PROVE \E d \in S : m.src[d] = c
  <2>1. PICK d \in Cells : m.src[d] = c
    BY <1>2, <1>3, <1>4
  <2>2. c # None /\ c \in lo .. hi
    BY <1>1, <1>4, <1>5
  <2>3. d \in lo .. hi
    BY <1>1, <2>1, <2>2 DEF Spanned, AtHome
  <2> QED  BY <1>4, <2>1, <2>2, <2>3
<1>7. PICK f : f = [c \in R |-> CHOOSE d \in S : m.src[d] = c]
  OBVIOUS
<1>8. \A c \in R : f[c] \in S /\ m.src[f[c]] = c
  BY <1>6, <1>7
<1>9. f \in Injection(R, S)
  <2>1. f \in [R -> S]
    BY <1>7, <1>8
  <2> QED  BY <1>8, <2>1 DEF Injection, IsInjective
<1>10. IsFiniteSet(R) /\ S \subseteq R
  BY <1>1, <1>4, CellsType, FS_Subset
<1>11. IsFiniteSet(S) /\ Cardinality(S) \in Nat /\ Cardinality(R) \in Nat
  BY <1>10, FS_Subset, FS_CardinalityType
<1>12. Cardinality(R) <= Cardinality(S)
  BY <1>9, <1>11, FS_Injection
<1>13. S = R
  BY <1>10, <1>11, <1>12, FS_Subset
<1> QED  BY <1>4, <1>13

(* One token for each sequence of the ubatch.                              *)
Advanced(m, k, u) ==
    /\ \A i \in 1 .. Len(u) : \A s \in ToSet(u[i]) : End(k, s) = End(m, Owner(u[i])) + 1
    /\ \A s \in Seqs : (\A i \in 1 .. Len(u) : s \notin ToSet(u[i])) => End(k, s) = End(m, s)
    /\ \A B \in Nat : Bounded(m, B) /\ (\A i \in 1 .. Len(u) : End(m, Owner(u[i])) + 1 <= B)
                      => Bounded(k, B)

LEMMA FindSlotKeeps ==
    ASSUME NEW m0 \in Rested, NEW u \in Ubatches, NEW slot, slot = FindSlot(m0, u), slot.ok
    PROVE  /\ slot.m \in Rested /\ slot.m.head \in Cells
           /\ Tailed(m0, Seqs) => Tailed(slot.m, Seqs)
           /\ Advanced(m0, slot.m, u)
<1>1. PICK lo \in Cells, hi \in Cells, m \in Metadata :
         /\ Spanned(m, u, lo, hi) /\ Reached(m0, m, u) /\ InOrder(m, u, lo)
         /\ Takes(m0, m, u, lo, hi, slot) /\ slot.m \in Metadata
         /\ Ranged(u, lo, hi)
  BY FoundSlot
<1> DEFINE n == Len(u)
           T == lo .. lo + Len(u) - 1
<1>2. PICK k : k = slot.m
  OBVIOUS
<1>3. /\ \A i \in 1 .. n : /\ k.pos[lo + i - 1] = PosMax(m0, Owner(u[i])) + 1
                           /\ k.seqs[lo + i - 1] = ToSet(u[i])
                           /\ \A s \in ToSet(u[i]) : k.tail[s] = lo + i - 1
      /\ \A c \in Cells \ T : k.pos[c] = m.pos[c] /\ k.seqs[c] = m.seqs[c]
      /\ \A s \in Seqs : (\A i \in 1 .. n : s \notin ToSet(u[i])) => k.tail[s] = m.tail[s]
      /\ \A c \in Cells : k.src[c] = IF c \in lo .. hi THEN c ELSE m.src[c]
      /\ k.head = lo /\ k.used = Cardinality(Occupied(k))
  <2>1. Takes(m0, m, u, lo, hi, slot)
    BY <1>1
  <2> QED  BY <1>2, <2>1, SMTT(30) DEF Takes
<1>4. /\ \A i \in 1 .. n : /\ lo + i - 1 \in Cells /\ lo + i - 1 # None
                           /\ Owner(u[i]) \in Seqs /\ Owner(u[i]) \in ToSet(u[i])
                           /\ ToSet(u[i]) \subseteq Seqs
                           /\ \A s \in ToSet(u[i]) : s = Owner(u[i]) \/ s \in Joining(u)
      /\ \A s \in Joining(u) : \E i \in 1 .. n : s \in ToSet(u[i])
      /\ Joining(u) \subseteq Seqs
      /\ \A s \in Owners(u) : \E i \in 1 .. n : s = Owner(u[i])
      /\ \A c \in Cells : c # None
  BY <1>1, CellsType, UbatchType DEF Owners, Ranged
<1>5. /\ m \in Metadata /\ Named(m)
      /\ \A i \in 1 .. n : /\ m.tail[Owner(u[i])] = lo + i - 1
                           /\ m.seqs[lo + i - 1] \subseteq {Owner(u[i])}
      /\ Chosen(m, u) = {lo + i - 1 : i \in 1 .. n}
      /\ \A c \in Cells \ Chosen(m, u) : Clean(m, c)
      /\ \A s \in Joining(u) : m.tail[s] = None
      /\ \A c \in Cells \ (lo .. hi) : AtHome(m, c)
  <2>1. \A i \in 1 .. n : Cell(m, u, i) = lo + i - 1
    BY <1>1 DEF InOrder
  <2>2. Chosen(m, u) = {lo + i - 1 : i \in 1 .. n}
    BY <2>1 DEF Chosen
  <2>3. \A i \in 1 .. n : /\ m.tail[Owner(u[i])] = lo + i - 1
                          /\ m.seqs[lo + i - 1] \subseteq {Owner(u[i])}
    BY <1>1, <2>1 DEF Spanned, Assigned, Cell
  <2> QED  BY <1>1, <2>2, <2>3 DEF Spanned, Assigned
<1>6. /\ m.tail \in [Seqs -> Cells \cup {None}] /\ m.pos \in [Cells -> Int]
      /\ m.seqs \in [Cells -> SUBSET Seqs]
  BY <1>5 DEF Metadata
<1>7. \A s \in Seqs : PosMax(m0, s) = End(m0, s) /\ End(m0, s) \in Int /\ End(m0, s) >= -1
  BY EndIsPosMax DEF Rested
<1>8. \A i \in 1 .. n : lo + i - 1 \in T
  <2>1. lo \in Int /\ n \in Nat
    BY SizeType, UbatchType DEF Cells
  <2> QED  BY <2>1
<1> HIDE DEF T
<1>9. \A c \in T : c \in Cells /\ \E i \in 1 .. n : c = lo + i - 1
  BY <1>1 DEF T, Ranged
<1>10. ASSUME NEW c \in Cells \ T, NEW s \in m.seqs[c]
       PROVE  s \in Seqs /\ m.tail[s] = c /\ \A i \in 1 .. n : s \notin ToSet(u[i])
  <2>1. s \in Seqs /\ m.tail[s] = c
    BY <1>5, <1>6 DEF Named
  <2>2. ASSUME NEW i \in 1 .. n, s \in ToSet(u[i]) PROVE FALSE
    <3>1. CASE s = Owner(u[i])
      BY <1>5, <1>8, <2>1, <3>1
    <3>2. CASE s \in Joining(u)
      BY <1>4, <1>5, <2>1, <3>2
    <3> QED  BY <1>4, <2>2, <3>1, <3>2
  <2> QED  BY <2>1, <2>2
<1>11. ASSUME NEW s \in Seqs, \A i \in 1 .. n : s \notin ToSet(u[i])
       PROVE  /\ s \notin Owners(u) /\ s \notin Joining(u)
              /\ k.tail[s] = m.tail[s] /\ m.tail[s] \in Cells \cup {None}
              /\ \A c \in T : s \notin m.seqs[c] /\ s \notin k.seqs[c]
  <2>1. s \notin Owners(u) /\ s \notin Joining(u)
    BY <1>4, <1>11
  <2>2. \A c \in T : s \notin m.seqs[c] /\ s \notin k.seqs[c]
    BY <1>3, <1>4, <1>5, <1>9, <1>11
  <2> QED  BY <1>3, <1>6, <1>11, <2>1, <2>2
<1>12. Named(k)
  <2>1. ASSUME NEW c \in Cells, NEW s \in k.seqs[c] PROVE k.tail[s] = c
    <3>1. CASE c \in T
      BY <1>3, <1>9, <3>1
    <3>2. CASE c \notin T
      <4>1. s \in m.seqs[c]
        BY <1>3, <3>2 DEF T
      <4> QED  BY <1>10, <1>11, <3>2, <4>1
    <3> QED  BY <3>1, <3>2
  <2> QED  BY <2>1 DEF Named
<1>13. \A c \in Cells : Clean(k, c)
  <2>1. ASSUME NEW c \in Cells PROVE Clean(k, c)
    <3>1. CASE c \in T
      <4>1. PICK i \in 1 .. n : c = lo + i - 1
        BY <1>9, <3>1
      <4>2. k.pos[c] = End(m0, Owner(u[i])) + 1 /\ Owner(u[i]) \in k.seqs[c]
        <5>1. k.pos[c] = PosMax(m0, Owner(u[i])) + 1 /\ k.seqs[c] = ToSet(u[i])
          BY <1>3, <4>1, Zenon
        <5>2. /\ PosMax(m0, Owner(u[i])) = End(m0, Owner(u[i]))
              /\ Owner(u[i]) \in ToSet(u[i])
          BY <1>4, <1>7, Zenon
        <5> QED  BY <5>1, <5>2, Zenon
      <4>3. End(m0, Owner(u[i])) \in Int /\ End(m0, Owner(u[i])) >= -1
        BY <1>4, <1>7
      <4>4. k.pos[c] # -1 /\ k.pos[c] >= -1 /\ k.seqs[c] # {}
        BY <4>2, <4>3
      <4> QED  BY <4>4 DEF Clean
    <3>2. CASE c \notin T
      <4>1. c \notin Chosen(m, u)
        BY <1>5, <1>8, <3>2
      <4>2. k.pos[c] = m.pos[c] /\ k.seqs[c] = m.seqs[c] /\ Clean(m, c)
        BY <1>3, <1>5, <3>2, <4>1 DEF T
      <4> QED  BY <4>2 DEF Clean
    <3> QED  BY <3>1, <3>2
  <2> QED  BY <2>1
<1>14. \A c \in Cells : AtHome(k, c)
  <2>1. ASSUME NEW c \in Cells PROVE AtHome(k, c)
    <3>1. CASE c \in lo .. hi
      BY <1>3, <3>1 DEF AtHome
    <3>2. CASE c \notin lo .. hi
      BY <1>3, <1>5, <3>2 DEF AtHome
    <3> QED  BY <3>1, <3>2
  <2> QED  BY <2>1
<1>15. k \in Rested /\ k.head \in Cells
  BY <1>1, <1>2, <1>3, <1>12, <1>13, <1>14 DEF Rested
<1>16. ASSUME Tailed(m0, Seqs) PROVE Tailed(k, Seqs)
  <2>1. Tailed(m, Seqs \ Owners(u))
    BY <1>1, <1>16 DEF Reached
  <2>2. ASSUME NEW s \in Seqs, k.tail[s] # None PROVE s \in k.seqs[k.tail[s]]
    <3>1. CASE \E i \in 1 .. n : s \in ToSet(u[i])
      BY <1>3, <3>1
    <3>2. CASE \A i \in 1 .. n : s \notin ToSet(u[i])
      <4>1. k.tail[s] = m.tail[s] /\ s \in m.seqs[m.tail[s]] /\ m.tail[s] \in Cells
        BY <1>11, <2>1, <2>2, <3>2 DEF Tailed
      <4>2. m.tail[s] \notin T
        BY <1>11, <3>2, <4>1
      <4> QED  BY <1>3, <4>1, <4>2 DEF T
    <3> QED  BY <3>1, <3>2
  <2> QED  BY <2>2 DEF Tailed
<1>17. ASSUME NEW i \in 1 .. n, NEW s \in ToSet(u[i]) PROVE End(k, s) = End(m0, Owner(u[i])) + 1
  <2>1. PICK c : c = lo + i - 1
    OBVIOUS
  <2>2. k.tail[s] = c /\ c # None /\ s \in k.seqs[c] /\ k.pos[c] = End(m0, Owner(u[i])) + 1
    <3>1. k.tail[s] = c /\ k.seqs[c] = ToSet(u[i]) /\ k.pos[c] = PosMax(m0, Owner(u[i])) + 1
      BY <1>3, <2>1, Zenon
    <3>2. c # None /\ Owner(u[i]) \in Seqs
      BY <1>4, <2>1, Zenon
    <3>3. PosMax(m0, Owner(u[i])) = End(m0, Owner(u[i]))
      BY <1>7, <3>2, Zenon
    <3> QED  BY <3>1, <3>2, <3>3, Zenon
  <2> QED  BY <2>2 DEF End
<1>18. ASSUME NEW s \in Seqs, \A i \in 1 .. n : s \notin ToSet(u[i]) PROVE End(k, s) = End(m0, s)
  <2>1. End(m, s) = End(m0, s)
    BY <1>1, <1>11, <1>18 DEF Reached
  <2>2. k.tail[s] = m.tail[s] /\ m.tail[s] \in Cells \cup {None}
    BY <1>11, <1>18
  <2>3. CASE m.tail[s] = None
    BY <2>1, <2>2, <2>3 DEF End
  <2>4. CASE m.tail[s] \in T
    <3>1. s \notin m.seqs[m.tail[s]] /\ s \notin k.seqs[m.tail[s]]
      BY <1>11, <1>18, <2>4
    <3> QED  BY <2>1, <2>2, <3>1 DEF End
  <2>5. CASE m.tail[s] \in Cells \ T
    <3>1. k.seqs[m.tail[s]] = m.seqs[m.tail[s]] /\ k.pos[m.tail[s]] = m.pos[m.tail[s]]
      BY <1>3, <2>5 DEF T
    <3> QED  BY <2>1, <2>2, <3>1 DEF End
  <2> QED  BY <2>2, <2>3, <2>4, <2>5
<1>19. ASSUME NEW B \in Nat, Bounded(m0, B), \A i \in 1 .. n : End(m0, Owner(u[i])) + 1 <= B
       PROVE  Bounded(k, B)
  <2>1. Bounded(m, B)
    BY <1>1, <1>19 DEF Reached
  <2>2. ASSUME NEW c \in Cells PROVE k.pos[c] <= B
    <3>1. CASE c \in T
      <4>1. PICK i \in 1 .. n : c = lo + i - 1
        BY <1>9, <3>1
      <4>2. k.pos[c] = PosMax(m0, Owner(u[i])) + 1
        BY <1>3, <4>1, Zenon
      <4>3. PosMax(m0, Owner(u[i])) = End(m0, Owner(u[i]))
        BY <1>4, <1>7, Zenon
      <4> QED  BY <1>19, <4>2, <4>3
    <3>2. CASE c \notin T
      BY <1>3, <2>1, <3>2 DEF T, Bounded
    <3> QED  BY <3>1, <3>2
  <2> QED  BY <2>2 DEF Bounded
<1> QED  BY <1>2, <1>15, <1>16, <1>17, <1>18, <1>19 DEF Advanced

(* The graph appends the token of each set to the row of its cell.         *)
Extended(t, t2, u) ==
    /\ \A i \in 1 .. Len(u) : \A s \in ToSet(u[i]) : t2[s] = Append(t[Owner(u[i])], Owner(u[i]))
    /\ \A s \in Seqs : (\A i \in 1 .. Len(u) : s \notin ToSet(u[i])) => t2[s] = t[s]

LEMMA ComputeTells ==
    ASSUME NEW m0 \in Rested, NEW u \in Ubatches, NEW slot, slot = FindSlot(m0, u), slot.ok,
           NEW r \in [Cells -> Seq(Seqs)], NEW r2, r2 = Compute(r, u, slot)
    PROVE  /\ r2 \in [Cells -> Seq(Seqs)]
           /\ \A t, t2 : Tailed(m0, Seqs) /\ Tells(m0, r, t) /\ Extended(t, t2, u)
                         => Tells(slot.m, r2, t2)
<1>1. PICK lo \in Cells, hi \in Cells, m \in Metadata :
         /\ Spanned(m, u, lo, hi) /\ Reached(m0, m, u) /\ InOrder(m, u, lo)
         /\ Takes(m0, m, u, lo, hi, slot) /\ slot.m \in Metadata
         /\ Ranged(u, lo, hi)
  BY FoundSlot
<1> DEFINE n == Len(u)
           T == lo .. lo + Len(u) - 1
<1>2. PICK k : k = slot.m
  OBVIOUS
<1>3. /\ \A i \in 1 .. n : /\ k.seqs[lo + i - 1] = ToSet(u[i])
                           /\ \A s \in ToSet(u[i]) : k.tail[s] = lo + i - 1
      /\ \A c \in Cells \ T : k.seqs[c] = m.seqs[c]
      /\ \A s \in Seqs : (\A i \in 1 .. n : s \notin ToSet(u[i])) => k.tail[s] = m.tail[s]
      /\ \A c \in Cells : k.src[c] = IF c \in lo .. hi THEN c ELSE m.src[c]
      /\ slot.lo = lo /\ slot.hi = hi
      /\ slot.zero # None => \A d \in Cells : m.src[d] # slot.zero
      /\ \A c \in lo .. hi : slot.src0[c] = IF m.src[c] = None THEN slot.zero ELSE m.src[c]
  <2>1. Takes(m0, m, u, lo, hi, slot)
    BY <1>1
  <2> QED  BY <1>2, <2>1, SMTT(30) DEF Takes
<1>4. /\ \A i \in 1 .. n : /\ lo + i - 1 \in lo .. hi /\ lo + i - 1 \in Cells
                           /\ Owner(u[i]) \in Seqs /\ Owner(u[i]) \in ToSet(u[i])
                           /\ Owner(u[i]) \notin Joining(u)
      /\ \A s \in Joining(u) : \E i \in 1 .. n : s \in ToSet(u[i])
      /\ \A s \in Owners(u) : \E i \in 1 .. n : s = Owner(u[i])
      /\ \A c \in Cells : c # None
      /\ lo .. hi \subseteq Cells /\ lo \in Int /\ n \in Nat
  <2>1. lo \in Int
    BY SizeType DEF Cells
  <2> QED  BY <1>1, <2>1, CellsType, UbatchType DEF Owners, Ranged
<1>5. /\ m.tail \in [Seqs -> Cells \cup {None}] /\ m.src \in [Cells -> Cells \cup {None}]
      /\ \A i \in 1 .. n : /\ m.tail[Owner(u[i])] = lo + i - 1
                           /\ m.seqs[lo + i - 1] \subseteq {Owner(u[i])}
      /\ \A c \in Cells \ (lo .. hi) : AtHome(m, c)
  <2>1. \A i \in 1 .. n : Cell(m, u, i) = lo + i - 1
    BY <1>1 DEF InOrder
  <2>2. \A i \in 1 .. n : /\ m.tail[Owner(u[i])] = lo + i - 1
                          /\ m.seqs[lo + i - 1] \subseteq {Owner(u[i])}
    BY <1>1, <2>1 DEF Spanned, Assigned, Cell
  <2> QED  BY <1>1, <2>2 DEF Spanned, Metadata
<1>6. /\ \A i \in 1 .. n : lo + i - 1 \in T /\ lo + i - 1 - lo + 1 = i
      /\ \A c \in T : c \in Cells /\ c \in lo .. hi /\ \E i \in 1 .. n : c = lo + i - 1
      /\ \A c \in lo .. hi : c \in T <=> c < lo + Len(u)
  <2>1. \A i \in 1 .. n : lo + i - 1 \in T /\ lo + i - 1 - lo + 1 = i
    BY <1>4
  <2>2. \A c \in lo .. hi : c \in T <=> c < lo + Len(u)
    BY <1>4
  <2>3. \A c \in T : \E i \in 1 .. n : c = lo + i - 1
    BY <1>1 DEF Ranged
  <2> HIDE DEF T
  <2> QED  BY <1>4, <2>1, <2>2, <2>3
<1> HIDE DEF T
<1> DEFINE Old(c) == IF slot.src0[c] = slot.zero THEN <<>> ELSE r[slot.src0[c]]
<1>7. ASSUME NEW c \in lo .. hi PROVE Old(c) = Row(m, r, c) /\ Old(c) \in Seq(Seqs)
  <2>1. c \in Cells /\ m.src[c] \in Cells \cup {None}
    BY <1>4, <1>5
  <2>2. CASE m.src[c] = None
    <3>1. Old(c) = <<>>
      BY <1>3, <2>2
    <3> QED  BY <2>2, <3>1, EmptySeq DEF Row
  <2>3. CASE m.src[c] # None
    <3>1. slot.src0[c] = m.src[c]
      BY <1>3, <2>3
    <3>2. m.src[c] # slot.zero
      BY <1>3, <2>1, <2>3
    <3>3. Old(c) = r[m.src[c]] /\ m.src[c] \in Cells
      BY <2>1, <2>3, <3>1, <3>2
    <3> QED  BY <2>3, <3>3 DEF Row
  <2> QED  BY <2>2, <2>3
<1>8. r2 = [c \in Cells |-> IF c \notin lo .. hi THEN r[c]
                            ELSE IF c < lo + Len(u) THEN Append(Old(c), Owner(u[c - lo + 1]))
                            ELSE Old(c)]
  BY <1>3 DEF Compute
<1> HIDE DEF Old
<1>9. ASSUME NEW i \in 1 .. n
      PROVE  r2[lo + i - 1] = Append(Row(m, r, lo + i - 1), Owner(u[i])) /\ r2[lo + i - 1] \in Seq(Seqs)
  <2>1. PICK c : c = lo + i - 1
    OBVIOUS
  <2>2. c \in lo .. hi /\ c \in Cells /\ c < lo + Len(u) /\ c - lo + 1 = i
    BY <1>4, <1>6, <2>1
  <2>3. r2[c] = Append(Old(c), Owner(u[i]))
    BY <1>8, <2>2
  <2>4. Old(c) = Row(m, r, c) /\ Old(c) \in Seq(Seqs)
    BY <1>7, <2>2
  <2>5. Append(Old(c), Owner(u[i])) \in Seq(Seqs)
    BY <1>4, <2>4, AppendProperties
  <2> QED  BY <2>1, <2>3, <2>4, <2>5
<1>10. \A c \in (lo .. hi) \ T : r2[c] = Row(m, r, c) /\ r2[c] \in Seq(Seqs)
  BY <1>4, <1>6, <1>7, <1>8
<1>11. \A c \in Cells \ (lo .. hi) : r2[c] = r[c]
  BY <1>8
<1>12. r2 \in [Cells -> Seq(Seqs)]
  <2>1. ASSUME NEW c \in Cells PROVE r2[c] \in Seq(Seqs)
    <3>1. CASE c \in T
      BY <1>6, <1>9, <3>1
    <3>2. CASE c \in (lo .. hi) \ T
      BY <1>10, <3>2
    <3>3. CASE c \notin lo .. hi
      BY <1>11, <3>3
    <3> QED  BY <3>1, <3>2, <3>3
  <2> QED  BY <1>8, <2>1
<1>13. ASSUME NEW c \in Cells \ T PROVE Row(k, r2, c) = Row(m, r, c)
  <2>1. CASE c \in lo .. hi
    <3>1. k.src[c] = c /\ c # None
      BY <1>3, <1>4, <2>1
    <3> QED  BY <1>10, <2>1, <3>1 DEF Row
  <2>2. CASE c \notin lo .. hi
    <3>1. k.src[c] = m.src[c] /\ (m.src[c] = c \/ m.src[c] = None)
      BY <1>3, <1>5, <2>2 DEF AtHome
    <3> QED  BY <1>11, <2>2, <3>1 DEF Row
  <2> QED  BY <2>1, <2>2
<1>14. ASSUME NEW i \in 1 .. n
       PROVE  Row(k, r2, lo + i - 1) = Append(Row(m, r, lo + i - 1), Owner(u[i]))
  <2>1. k.src[lo + i - 1] = lo + i - 1 /\ lo + i - 1 # None
    BY <1>3, <1>4
  <2> QED  BY <1>9, <2>1 DEF Row
<1>15. ASSUME NEW t, NEW t2, Tailed(m0, Seqs), Tells(m0, r, t), Extended(t, t2, u)
       PROVE  Tells(k, r2, t2)
  <2>1. PICK t1 : t1 = [s \in Seqs |-> IF s \in Joining(u) THEN <<>> ELSE t[s]]
    OBVIOUS
  <2>2. Tells(m, r, t1) /\ Tailed(m, Seqs \ Owners(u))
    BY <1>1, <1>15, <2>1 DEF Reached
  <2>3. ASSUME NEW i \in 1 .. n, NEW s \in ToSet(u[i])
        PROVE  t2[s] = Row(k, r2, lo + i - 1) /\ k.tail[s] = lo + i - 1
    <3>1. t2[s] = Append(t[Owner(u[i])], Owner(u[i]))
      BY <1>15 DEF Extended
    <3>2. t1[Owner(u[i])] = t[Owner(u[i])]
      BY <1>4, <2>1
    <3>3. t1[Owner(u[i])] = Row(m, r, lo + i - 1)
      <4>1. Owner(u[i]) \in Seqs /\ m.tail[Owner(u[i])] = lo + i - 1 /\ lo + i - 1 # None
        BY <1>4, <1>5
      <4> QED  BY <2>2, <4>1 DEF Tells
    <3>4. Row(k, r2, lo + i - 1) = Append(Row(m, r, lo + i - 1), Owner(u[i]))
      BY <1>14
    <3>5. k.tail[s] = lo + i - 1
      BY <1>3
    <3> QED  BY <3>1, <3>2, <3>3, <3>4, <3>5
  <2>4. ASSUME NEW s \in Seqs, \A i \in 1 .. n : s \notin ToSet(u[i])
        PROVE  t2[s] = IF k.tail[s] = None THEN <<>> ELSE Row(k, r2, k.tail[s])
    <3>1. s \notin Joining(u) /\ s \notin Owners(u)
      BY <1>4, <2>4
    <3>2. t2[s] = t[s] /\ t[s] = t1[s] /\ k.tail[s] = m.tail[s]
      BY <1>3, <1>15, <2>1, <2>4, <3>1 DEF Extended
    <3>3. m.tail[s] # None => m.tail[s] \in Cells \ T
      <4>1. SUFFICES ASSUME m.tail[s] # None, m.tail[s] \in T PROVE FALSE
        BY <1>5
      <4>2. s \in m.seqs[m.tail[s]]
        BY <2>2, <3>1, <4>1 DEF Tailed
      <4>3. PICK i \in 1 .. n : m.tail[s] = lo + i - 1
        BY <1>6, <4>1
      <4>4. s = Owner(u[i])
        BY <1>5, <4>2, <4>3
      <4> QED  BY <1>4, <2>4, <4>4
    <3>4. m.tail[s] # None => Row(k, r2, m.tail[s]) = Row(m, r, m.tail[s])
      BY <1>13, <3>3
    <3>5. t1[s] = IF m.tail[s] = None THEN <<>> ELSE Row(m, r, m.tail[s])
      BY <2>2 DEF Tells
    <3> QED  BY <3>2, <3>4, <3>5
  <2>5. ASSUME NEW s \in Seqs PROVE t2[s] = IF k.tail[s] = None THEN <<>> ELSE Row(k, r2, k.tail[s])
    <3>1. CASE \E i \in 1 .. n : s \in ToSet(u[i])
      <4>1. PICK i \in 1 .. n : s \in ToSet(u[i])
        BY <3>1
      <4>2. t2[s] = Row(k, r2, lo + i - 1) /\ k.tail[s] = lo + i - 1 /\ lo + i - 1 # None
        BY <1>4, <2>3, <4>1
      <4> QED  BY <4>2
    <3>2. CASE \A i \in 1 .. n : s \notin ToSet(u[i])
      BY <2>4, <3>2
    <3> QED  BY <3>1, <3>2
  <2>6. ASSUME NEW c \in Cells, k.seqs[c] = {} PROVE Row(k, r2, c) = <<>>
    <3>1. c \notin T
      <4>1. SUFFICES ASSUME c \in T PROVE FALSE
        OBVIOUS
      <4>2. PICK i \in 1 .. n : c = lo + i - 1
        BY <1>6, <4>1
      <4>3. k.seqs[lo + i - 1] = ToSet(u[i]) /\ Owner(u[i]) \in ToSet(u[i])
        BY <1>3, <1>4
      <4> QED  BY <2>6, <4>2, <4>3
    <3>2. m.seqs[c] = {}
      BY <1>3, <2>6, <3>1
    <3>3. Row(m, r, c) = <<>>
      BY <2>2, <3>2 DEF Tells
    <3> QED  BY <1>13, <3>1, <3>3
  <2> QED  BY <2>5, <2>6 DEF Tells
<1> QED  BY <1>2, <1>12, <1>15
-----------------------------------------------------------------------------
(* The trial: each ubatch finds a slot after those before it.              *)
Runs(m, w) ==
    \E f : f[0] = m /\ \A i \in 1 .. Len(w) : /\ FindSlot(f[i - 1], w[i]).ok
                                             /\ f[i] = FindSlot(f[i - 1], w[i]).m

LEMMA UbatchesOf ==
    ASSUME NEW w \in Seq(Ubatches)
    PROVE  /\ Len(w) \in Nat /\ DOMAIN w = 1 .. Len(w) /\ \A i \in 1 .. Len(w) : w[i] \in Ubatches
           /\ w # <<>> => /\ Head(w) = w[1] /\ Len(w) >= 1 /\ w[1] \in Ubatches
                          /\ Tail(w) \in Seq(Ubatches) /\ Len(Tail(w)) = Len(w) - 1
                          /\ \A i \in 1 .. Len(w) - 1 : Tail(w)[i] = w[i + 1]
<1>1. Len(w) \in Nat /\ DOMAIN w = 1 .. Len(w) /\ \A i \in 1 .. Len(w) : w[i] \in Ubatches
  BY LenProperties, ElementOfSeq
<1>2. ASSUME w # <<>>
      PROVE  /\ Head(w) = w[1] /\ Len(w) >= 1 /\ w[1] \in Ubatches
             /\ Tail(w) \in Seq(Ubatches) /\ Len(Tail(w)) = Len(w) - 1
             /\ \A i \in 1 .. Len(w) - 1 : Tail(w)[i] = w[i + 1]
  <2>1. Len(w) >= 1
    BY <1>1, <1>2, EmptySeq
  <2>2. Head(w) = w[1]
    BY <1>2, HeadTailProperties
  <2>3. Tail(w) \in Seq(Ubatches) /\ Len(Tail(w)) = Len(w) - 1
    BY <1>2, HeadTailProperties
  <2>4. \A i \in 1 .. Len(Tail(w)) : Tail(w)[i] = w[i + 1]
    BY <1>2, HeadTailProperties
  <2> QED  BY <1>1, <2>1, <2>2, <2>3, <2>4
<1> QED  BY <1>1, <1>2

LEMMA RunsNone == \A m : Runs(m, <<>>)
<1>1. ASSUME NEW m PROVE Runs(m, <<>>)
  <2>1. PICK f : f = [i \in {0} |-> m]
    OBVIOUS
  <2>2. f[0] = m /\ Len(<<>>) = 0
    BY <2>1
  <2> QED  BY <2>2 DEF Runs
<1> QED  BY <1>1

LEMMA RunsTail ==
    ASSUME NEW w \in Seq(Ubatches), w # <<>>, NEW m, Runs(m, w)
    PROVE  FindSlot(m, w[1]).ok /\ Runs(FindSlot(m, w[1]).m, Tail(w))
<1>1. PICK f : f[0] = m /\ \A i \in 1 .. Len(w) : /\ FindSlot(f[i - 1], w[i]).ok
                                                 /\ f[i] = FindSlot(f[i - 1], w[i]).m
  BY DEF Runs
<1>2. /\ Len(w) \in Nat /\ Len(w) >= 1 /\ Len(Tail(w)) = Len(w) - 1
      /\ \A i \in 1 .. Len(w) - 1 : Tail(w)[i] = w[i + 1]
  BY UbatchesOf
<1>3. PICK n : n = Len(w) - 1
  OBVIOUS
<1>4. n \in Nat /\ Len(w) = n + 1 /\ Len(Tail(w)) = n
  BY <1>2, <1>3
<1>5. 1 \in 1 .. Len(w) /\ f[1 - 1] = m
  BY <1>1, <1>2
<1>6. FindSlot(m, w[1]).ok /\ f[1] = FindSlot(m, w[1]).m
  BY <1>1, <1>5
<1>7. PICK g : g = [i \in 0 .. n |-> f[i + 1]]
  OBVIOUS
<1>8. \A i \in 0 .. n : g[i] = f[i + 1]
  BY <1>7
<1>9. g[0] = FindSlot(m, w[1]).m
  <2>1. 0 \in 0 .. n /\ 0 + 1 = 1
    BY <1>4
  <2> QED  BY <1>6, <1>8, <2>1
<1>10. ASSUME NEW i \in 1 .. n
       PROVE  FindSlot(g[i - 1], Tail(w)[i]).ok /\ g[i] = FindSlot(g[i - 1], Tail(w)[i]).m
  <2>1. PICK j : j = i + 1
    OBVIOUS
  <2>2. j \in 1 .. Len(w) /\ i - 1 \in 0 .. n /\ i \in 0 .. n /\ i - 1 + 1 = i /\ j - 1 = i
    BY <1>4, <2>1
  <2>3. g[i - 1] = f[i] /\ g[i] = f[j] /\ Tail(w)[i] = w[j]
    BY <1>2, <1>3, <1>8, <2>1, <2>2
  <2>4. FindSlot(f[i], w[j]).ok /\ f[j] = FindSlot(f[i], w[j]).m
    BY <1>1, <2>2
  <2> QED  BY <2>3, <2>4
<1> QED  BY <1>4, <1>6, <1>9, <1>10 DEF Runs

(* One round of prepare(). *)
Try(x, u) ==
    IF ~x.ok THEN x
    ELSE LET slot == FindSlot(x.m, u)
         IN  IF slot.ok THEN [m |-> slot.m, ok |-> TRUE] ELSE [m |-> x.m, ok |-> FALSE]

LEMMA TrialIs ==
    ASSUME NEW m \in Rested, NEW w \in Seq(Ubatches)
    PROVE  \E f \in [0 .. Len(w) -> [m : Rested, ok : BOOLEAN]] :
              /\ f[0] = [m |-> m, ok |-> TRUE]
              /\ \A i \in 1 .. Len(w) : f[i] = Try(f[i - 1], w[i])
              /\ Trial(m, w) = f[Len(w)]
<1> DEFINE N == Len(w)
           b == [m |-> m, ok |-> TRUE]
           Body(f) == [i \in 0 .. N |->
                          IF i = 0 THEN b
                          ELSE IF ~f[i - 1].ok THEN f[i - 1]
                          ELSE LET slot == FindSlot(f[i - 1].m, w[i])
                               IN  IF slot.ok THEN [m |-> slot.m, ok |-> TRUE]
                                   ELSE [m |-> f[i - 1].m, ok |-> FALSE]]
           Turn(f) == [i \in 0 .. N |-> IF i = 0 THEN b ELSE Try(f[i - 1], w[i])]
<1>0. \A f : Body(f) = Turn(f)
  BY DEF Try
<1>1. PICK D : D = [m : Rested, ok : BOOLEAN]
  OBVIOUS
<1>2. N \in Nat /\ b \in D /\ \A i \in 1 .. N : w[i] \in Ubatches
  BY <1>1, UbatchesOf
<1>3. ASSUME NEW x \in D, NEW u \in Ubatches PROVE Try(x, u) \in D
  <2>1. x.m \in Rested /\ x.ok \in BOOLEAN
    BY <1>1
  <2>2. PICK slot : slot = FindSlot(x.m, u)
    OBVIOUS
  <2>3. slot.ok => slot.m \in Rested
    BY <2>1, <2>2, FindSlotKeeps
  <2>4. Try(x, u) = IF ~x.ok THEN x
                    ELSE IF slot.ok THEN [m |-> slot.m, ok |-> TRUE] ELSE [m |-> x.m, ok |-> FALSE]
    BY <2>2 DEF Try
  <2> QED  BY <1>1, <2>1, <2>3, <2>4
<1> HIDE DEF b, Body
<1>4. \E f \in [0 .. N -> D] : f = Turn(f)
  <2>1. PICK F : F = [x \in (1 .. N) \X D |-> Try(x[2], w[x[1]])]
    OBVIOUS
  <2>2. \A i \in 1 .. N, x \in D : F[<<i, x>>] = Try(x, w[i])
    BY <2>1
  <2>3. F \in [(1 .. N) \X D -> D]
    <3>1. \A i \in 1 .. N, x \in D : F[<<i, x>>] \in D
      BY <1>2, <1>3, <2>2
    <3>2. \A y \in (1 .. N) \X D : F[y] \in D
      BY <3>1
    <3> QED  BY <2>1, <3>2
  <2>4. PICK f \in [0 .. N -> D] : f[0] = b /\ \A i \in 1 .. N : f[i] = F[<<i, f[i - 1]>>]
    <3>1. \E f : f \in Recursive(N, D, b, F)
      BY <1>2, <2>3, Recursion
    <3> QED  BY <3>1 DEF Recursive
  <2>5. \A i \in 0 .. N : i # 0 => i \in 1 .. N /\ f[i - 1] \in D
    BY <2>4
  <2>6. f = Turn(f)
    <3>1. \A i \in 0 .. N : f[i] = IF i = 0 THEN b ELSE Try(f[i - 1], w[i])
      BY <2>2, <2>4, <2>5
    <3> QED  BY <2>4, <3>1
  <2> QED  BY <2>6
<1>5. PICK f : f = CHOOSE h : h = Body(h)
  OBVIOUS
<1>6. f = Turn(f)
  <2> HIDE DEF Turn
  <2>1. \E h : h = Body(h)
    BY <1>0, <1>4
  <2>2. f = Body(f)
    BY <1>5, <2>1
  <2> QED  BY <1>0, <2>2
<1>7. Trial(m, w) = f[N]
  BY <1>5 DEF Trial, Body, b
<1>8. f[0] = b /\ \A i \in 1 .. N : f[i] = Try(f[i - 1], w[i])
  <2>1. \A i \in 0 .. N : f[i] = Turn(f)[i]
    BY <1>6
  <2>2. 0 \in 0 .. N /\ \A i \in 1 .. N : i \in 0 .. N /\ i # 0
    BY <1>2
  <2> QED  BY <2>1, <2>2
<1>9. f \in [0 .. N -> D]
  <2>1. f = [i \in 0 .. N |-> f[i]]
    BY <1>6
  <2> HIDE DEF Turn
  <2> DEFINE P == {i \in 0 .. N : f[i] \in D}
  <2>2. 0 \in P
    BY <1>2, <1>8
  <2>3. ASSUME NEW i \in 1 .. N, i - 1 \in P PROVE i \in P
    <3>1. f[i] \in D
      BY <1>2, <1>3, <1>8, <2>3
    <3>2. i \in 0 .. N
      BY <1>2
    <3> QED  BY <3>1, <3>2
  <2>4. 0 .. N \subseteq P
    <3> HIDE DEF P
    <3> QED  BY <1>2, <2>2, <2>3, UpTo
  <2> QED  BY <2>1, <2>4
<1> QED  BY <1>1, <1>7, <1>8, <1>9 DEF b

LEMMA TrialRuns ==
    ASSUME NEW m \in Rested, NEW w \in Seq(Ubatches)
    PROVE  /\ Trial(m, w).ok \in BOOLEAN
           /\ Trial(m, w).ok => Runs(m, w)
           /\ Tailed(m, Seqs) => Trial(m, w).ok
<1> DEFINE N == Len(w)
<1>1. PICK f \in [0 .. N -> [m : Rested, ok : BOOLEAN]] :
         /\ f[0] = [m |-> m, ok |-> TRUE]
         /\ \A i \in 1 .. N : f[i] = Try(f[i - 1], w[i])
         /\ Trial(m, w) = f[N]
  BY TrialIs
<1>2. /\ N \in Nat /\ \A i \in 1 .. N : w[i] \in Ubatches /\ i \in 0 .. N /\ i - 1 \in 0 .. N
      /\ \A i \in 0 .. N : f[i].m \in Rested /\ f[i].ok \in BOOLEAN
      /\ 0 \in 0 .. N /\ N \in 0 .. N
  BY <1>1, UbatchesOf
<1>3. ASSUME NEW i \in 1 .. N, f[i].ok
      PROVE  /\ f[i - 1].ok /\ FindSlot(f[i - 1].m, w[i]).ok
             /\ f[i].m = FindSlot(f[i - 1].m, w[i]).m
  <2>1. f[i] = Try(f[i - 1], w[i])
    BY <1>1
  <2>2. CASE ~f[i - 1].ok
    BY <1>3, <2>1, <2>2 DEF Try
  <2>3. CASE f[i - 1].ok
    <3>1. f[i] = IF FindSlot(f[i - 1].m, w[i]).ok THEN [m |-> FindSlot(f[i - 1].m, w[i]).m, ok |-> TRUE]
                 ELSE [m |-> f[i - 1].m, ok |-> FALSE]
      BY <2>1, <2>3 DEF Try
    <3> QED  BY <1>3, <2>3, <3>1
  <2> QED  BY <2>2, <2>3
<1>4. ASSUME f[N].ok PROVE Runs(m, w)
  <2> DEFINE P == {j \in 0 .. N : f[j].ok => \A i \in 0 .. j : f[i].ok}
  <2>1. 0 \in P
    BY <1>2
  <2>2. ASSUME NEW j \in 1 .. N, j - 1 \in P PROVE j \in P
    <3>1. ASSUME f[j].ok, NEW i \in 0 .. j PROVE f[i].ok
      <4>1. CASE i = j
        BY <3>1, <4>1
      <4>2. CASE i # j
        <5>1. i \in 0 .. j - 1
          BY <1>2, <4>2
        <5> QED  BY <1>3, <2>2, <3>1, <5>1
      <4> QED  BY <4>1, <4>2
    <3> QED  BY <1>2, <3>1
  <2>3. 0 .. N \subseteq P
    <3> HIDE DEF P
    <3> QED  BY <1>2, <2>1, <2>2, UpTo
  <2>4. \A i \in 0 .. N : f[i].ok
    BY <1>2, <1>4, <2>3
  <2>5. PICK g : g = [i \in 0 .. N |-> f[i].m]
    OBVIOUS
  <2>6. \A i \in 0 .. N : g[i] = f[i].m
    BY <2>5
  <2>7. g[0] = m
    BY <1>1, <1>2, <2>6
  <2>8. ASSUME NEW i \in 1 .. N
        PROVE  FindSlot(g[i - 1], w[i]).ok /\ g[i] = FindSlot(g[i - 1], w[i]).m
    <3>1. g[i - 1] = f[i - 1].m /\ g[i] = f[i].m /\ f[i].ok
      BY <1>2, <2>4, <2>6
    <3> QED  BY <1>3, <3>1
  <2> QED  BY <2>7, <2>8 DEF Runs
<1>5. ASSUME Tailed(m, Seqs) PROVE f[N].ok
  <2> DEFINE P == {j \in 0 .. N : f[j].ok /\ Tailed(f[j].m, Seqs)}
  <2>1. 0 \in P
    BY <1>1, <1>2, <1>5
  <2>2. ASSUME NEW j \in 1 .. N, j - 1 \in P PROVE j \in P
    <3>1. PICK slot : slot = FindSlot(f[j - 1].m, w[j])
      OBVIOUS
    <3>2. f[j - 1].m \in Rested /\ w[j] \in Ubatches /\ f[j - 1].ok /\ Tailed(f[j - 1].m, Seqs)
      BY <1>2, <2>2
    <3>3. slot.ok
      BY <3>1, <3>2, SlotIsOk
    <3>4. Tailed(slot.m, Seqs)
      BY <3>1, <3>2, <3>3, FindSlotKeeps
    <3>5. f[j] = [m |-> slot.m, ok |-> TRUE]
      BY <1>1, <3>1, <3>2, <3>3 DEF Try
    <3> QED  BY <1>2, <3>4, <3>5
  <2>3. 0 .. N \subseteq P
    <3> HIDE DEF P
    <3> QED  BY <1>2, <2>1, <2>2, UpTo
  <2> QED  BY <1>2, <2>3
<1> QED  BY <1>1, <1>2, <1>4, <1>5
-----------------------------------------------------------------------------
(* What decode() accepts holds of what is left after each ubatch.          *)
Has(u, s) == \E i \in 1 .. Len(u) : s \in ToSet(u[i])

(* The ubatches up to the n-th with a token of s. *)
Having(w, n, s) == {i \in 1 .. n : Has(w[i], s)}

LEMMA TokensAre ==
    ASSUME NEW w \in Seq(Ubatches), NEW s, NEW n \in 0 .. Len(w)
    PROVE  /\ Tokens(w, n, s) = Cardinality(Having(w, n, s))
           /\ Tokens(w, n, s) \in Nat /\ IsFiniteSet(Having(w, n, s))
           /\ Tokens(w, 0, s) = 0
<1>1. \A i \in 1 .. Len(w) : DOMAIN w[i] = 1 .. Len(w[i])
  BY UbatchesOf, UbatchType
<1>2. n \in Nat /\ n <= Len(w) /\ Len(w) \in Nat
  BY UbatchesOf
<1>3. {i \in 1 .. n : \E j \in DOMAIN w[i] : s \in ToSet(w[i][j])} = Having(w, n, s)
  <2>1. ASSUME NEW i \in 1 .. n PROVE DOMAIN w[i] = 1 .. Len(w[i])
    BY <1>1, <1>2
  <2> QED  BY <2>1 DEF Having, Has
<1>4. IsFiniteSet(Having(w, n, s))
  <2>1. Having(w, n, s) \subseteq 1 .. n /\ IsFiniteSet(1 .. n)
    BY <1>2, FS_Interval DEF Having
  <2> QED  BY <2>1, FS_Subset
<1>5. Tokens(w, 0, s) = 0
  <2>1. {i \in 1 .. 0 : \E j \in DOMAIN w[i] : s \in ToSet(w[i][j])} = {}
    OBVIOUS
  <2> QED  BY <2>1, FS_EmptySet DEF Tokens
<1> QED  BY <1>3, <1>4, <1>5, FS_CardinalityType DEF Tokens

LEMMA TokensShift ==
    ASSUME NEW w \in Seq(Ubatches), w # <<>>, NEW s, NEW n \in 0 .. Len(w) - 1
    PROVE  /\ Has(w[1], s) => Tokens(w, n + 1, s) = Tokens(Tail(w), n, s) + 1
           /\ ~Has(w[1], s) => Tokens(w, n + 1, s) = Tokens(Tail(w), n, s)
<1>1. PICK N : N = Len(w) - 1
  OBVIOUS
<1>2. /\ N \in Nat /\ Len(w) = N + 1 /\ Tail(w) \in Seq(Ubatches) /\ Len(Tail(w)) = N
      /\ n \in 0 .. N /\ n + 1 \in 0 .. Len(w)
      /\ \A i \in 1 .. N : Tail(w)[i] = w[i + 1]
  BY <1>1, UbatchesOf
<1>3. PICK A : A = Having(w, n + 1, s)
  OBVIOUS
<1>4. PICK B : B = Having(Tail(w), n, s)
  OBVIOUS
<1>5. Tokens(w, n + 1, s) = Cardinality(A) /\ IsFiniteSet(A)
  BY <1>2, <1>3, TokensAre
<1>6. Tokens(Tail(w), n, s) = Cardinality(B) /\ IsFiniteSet(B) /\ Cardinality(B) \in Nat
  BY <1>2, <1>4, TokensAre
<1>7. \A i \in 1 .. n : i \in B <=> i + 1 \in A
  <2>1. ASSUME NEW i \in 1 .. n PROVE i \in B <=> i + 1 \in A
    <3>1. i + 1 \in 1 .. n + 1 /\ Tail(w)[i] = w[i + 1]
      BY <1>2
    <3> QED  BY <1>3, <1>4, <3>1 DEF Having
  <2> QED  BY <2>1
<1>8. B \subseteq 1 .. n /\ A \subseteq 1 .. n + 1 /\ (1 \in A <=> Has(w[1], s))
  BY <1>2, <1>3, <1>4 DEF Having
<1>9. Cardinality(A \ {1}) = Cardinality(B)
  <2>1. PICK f : f = [i \in B |-> i + 1]
    OBVIOUS
  <2>2. ASSUME NEW i \in B PROVE f[i] = i + 1 /\ i + 1 \in A \ {1} /\ i \in Int
    BY <1>2, <1>7, <1>8, <2>1
  <2>3. ASSUME NEW a \in A \ {1} PROVE a - 1 \in B /\ (a - 1) + 1 = a
    <3>1. a - 1 \in 1 .. n /\ a - 1 + 1 = a
      BY <1>2, <1>8
    <3> QED  BY <1>7, <3>1
  <2>4. f \in Bijection(B, A \ {1})
    <3>1. f \in [B -> A \ {1}]
      BY <2>1, <2>2
    <3>2. \A i, j \in B : f[i] = f[j] => i = j
      BY <2>2
    <3>3. \A a \in A \ {1} : \E i \in B : f[i] = a
      <4>1. ASSUME NEW a \in A \ {1} PROVE \E i \in B : f[i] = a
        <5>1. a - 1 \in B /\ f[a - 1] = a
          BY <2>2, <2>3
        <5> QED  BY <5>1
      <4> QED  BY <4>1
    <3> QED  BY <3>1, <3>2, <3>3 DEF Bijection, Injection, Surjection, IsInjective
  <2>5. ExistsBijection(B, A \ {1})
    BY <2>4 DEF ExistsBijection
  <2> QED  BY <1>6, <2>5, FS_Bijection
<1>10. IsFiniteSet(A \ {1}) /\ Cardinality(A \ {1}) = IF 1 \in A THEN Cardinality(A) - 1 ELSE Cardinality(A)
  BY <1>5, FS_RemoveElement
<1>11. Cardinality(A) \in Nat
  BY <1>5, FS_CardinalityType
<1> QED  BY <1>5, <1>6, <1>8, <1>9, <1>10, <1>11

(* The sequences of a token end in the same place, and there is room for   *)
(* the tokens of each of them.                                             *)
Level(m, w, i) ==
    \A j \in 1 .. Len(w[i]) : \A s, t \in ToSet(w[i][j]) :
        End(m, s) + Tokens(w, i - 1, s) = End(m, t) + Tokens(w, i - 1, t)

Follows(m, w) ==
    /\ \A i \in 1 .. Len(w) : Level(m, w, i)
    /\ \A s \in Seqs : End(m, s) + Tokens(w, Len(w), s) <= MaxPos

LEMMA EndType ==
    ASSUME NEW m \in Rested, NEW s \in Seqs
    PROVE  PosMax(m, s) = End(m, s) /\ End(m, s) \in Int /\ End(m, s) >= -1
<1>1. m \in Metadata /\ Named(m) /\ \A c \in Cells : Clean(m, c)
  BY DEF Rested
<1> QED  BY <1>1, EndIsPosMax

LEMMA EndsShift ==
    ASSUME NEW w \in Seq(Ubatches), w # <<>>, NEW m \in Rested, NEW k \in Rested,
           Follows(m, w), Advanced(m, k, w[1]), NEW s \in Seqs, NEW n \in 0 .. Len(w) - 1
    PROVE  /\ End(k, s) + Tokens(Tail(w), n, s) = End(m, s) + Tokens(w, n + 1, s)
           /\ Has(w[1], s) => End(k, s) = End(m, s) + 1
<1>1. /\ Len(w) \in Nat /\ Len(w) >= 1 /\ w[1] \in Ubatches
      /\ Tail(w) \in Seq(Ubatches) /\ Len(Tail(w)) = Len(w) - 1
  BY UbatchesOf
<1>2. End(k, s) \in Int /\ End(m, s) \in Int
  BY EndType
<1>3. Tokens(Tail(w), n, s) \in Nat
  BY <1>1, TokensAre
<1>4. CASE Has(w[1], s)
  <2>1. PICK i \in 1 .. Len(w[1]) : s \in ToSet(w[1][i])
    BY <1>4 DEF Has
  <2>2. Owner(w[1][i]) \in ToSet(w[1][i])
    BY <1>1, UbatchType
  <2>3. Tokens(w, 0, s) = 0 /\ Tokens(w, 0, Owner(w[1][i])) = 0
    <3>1. 0 \in 0 .. Len(w)
      BY <1>1
    <3> QED  BY <3>1, TokensAre
  <2>4. Level(m, w, 1)
    BY <1>1 DEF Follows
  <2>5. End(m, s) + Tokens(w, 1 - 1, s) = End(m, Owner(w[1][i])) + Tokens(w, 1 - 1, Owner(w[1][i]))
    BY <2>1, <2>2, <2>4 DEF Level
  <2>6. 1 - 1 = 0
    OBVIOUS
  <2>7. End(m, s) + 0 = End(m, Owner(w[1][i])) + 0
    BY <2>3, <2>5, <2>6
  <2>8. End(m, Owner(w[1][i])) \in Int
    <3>1. Owner(w[1][i]) \in Seqs
      BY <1>1, UbatchType
    <3> QED  BY <3>1, EndType
  <2>9. End(k, s) = End(m, s) + 1
    <3>1. End(k, s) = End(m, Owner(w[1][i])) + 1
      BY <2>1 DEF Advanced
    <3> QED  BY <1>2, <2>7, <2>8, <3>1
  <2>10. Tokens(w, n + 1, s) = Tokens(Tail(w), n, s) + 1
    BY <1>4, TokensShift
  <2> QED  BY <1>2, <1>3, <2>9, <2>10
<1>5. CASE ~Has(w[1], s)
  <2>1. End(k, s) = End(m, s)
    BY <1>5 DEF Has, Advanced
  <2>2. Tokens(w, n + 1, s) = Tokens(Tail(w), n, s)
    BY <1>5, TokensShift
  <2> QED  BY <1>5, <2>1, <2>2
<1> QED  BY <1>4, <1>5

LEMMA FollowsTail ==
    ASSUME NEW w \in Seq(Ubatches), w # <<>>, NEW m \in Rested, NEW k \in Rested,
           Follows(m, w), Advanced(m, k, w[1])
    PROVE  /\ Follows(k, Tail(w))
           /\ \A i \in 1 .. Len(w[1]) : End(m, Owner(w[1][i])) + 1 <= MaxPos
<1>1. PICK N : N = Len(w) - 1
  OBVIOUS
<1>2. /\ N \in Nat /\ Len(w) = N + 1 /\ w[1] \in Ubatches
      /\ Tail(w) \in Seq(Ubatches) /\ Len(Tail(w)) = N
      /\ \A i \in 1 .. N : Tail(w)[i] = w[i + 1]
  BY <1>1, UbatchesOf
<1>3. ASSUME NEW i \in 1 .. N PROVE Level(k, Tail(w), i)
  <2>0. i - 1 \in 0 .. Len(w) - 1 /\ i - 1 + 1 = i /\ i + 1 \in 1 .. Len(w) /\ i + 1 - 1 = i
    BY <1>2
  <2>1. Tail(w)[i] = w[i + 1] /\ Tail(w)[i] \in Ubatches
    BY <1>2, UbatchesOf
  <2>2. Level(m, w, i + 1)
    BY <2>0 DEF Follows
  <2>3. ASSUME NEW j \in 1 .. Len(Tail(w)[i]), NEW s \in ToSet(Tail(w)[i][j]), NEW t \in ToSet(Tail(w)[i][j])
        PROVE  End(k, s) + Tokens(Tail(w), i - 1, s) = End(k, t) + Tokens(Tail(w), i - 1, t)
    <3>1. s \in Seqs /\ t \in Seqs
      BY <2>1, UbatchType
    <3>2. /\ End(k, s) + Tokens(Tail(w), i - 1, s) = End(m, s) + Tokens(w, i, s)
          /\ End(k, t) + Tokens(Tail(w), i - 1, t) = End(m, t) + Tokens(w, i, t)
      BY <2>0, <3>1, EndsShift
    <3>3. End(m, s) + Tokens(w, i, s) = End(m, t) + Tokens(w, i, t)
      BY <2>0, <2>1, <2>2 DEF Level
    <3> QED  BY <3>2, <3>3
  <2> QED  BY <2>3 DEF Level
<1>4. ASSUME NEW s \in Seqs
      PROVE  /\ End(k, s) + Tokens(Tail(w), Len(Tail(w)), s) <= MaxPos
             /\ Has(w[1], s) => End(m, s) + 1 <= MaxPos
  <2>1. N \in 0 .. Len(w) - 1 /\ N + 1 = Len(w) /\ N \in 0 .. Len(Tail(w))
    BY <1>2
  <2>2. /\ End(k, s) + Tokens(Tail(w), N, s) = End(m, s) + Tokens(w, Len(w), s)
        /\ Has(w[1], s) => End(k, s) = End(m, s) + 1
    BY <2>1, EndsShift
  <2>3. End(m, s) + Tokens(w, Len(w), s) <= MaxPos
    BY DEF Follows
  <2>4. Tokens(Tail(w), N, s) \in Nat /\ End(k, s) \in Int /\ MaxPos \in Nat
    BY <1>2, <2>1, TokensAre, EndType, RecurrentAssumption
  <2> QED  BY <1>2, <2>2, <2>3, <2>4
<1>5. ASSUME NEW i \in 1 .. Len(w[1]) PROVE End(m, Owner(w[1][i])) + 1 <= MaxPos
  <2>1. Owner(w[1][i]) \in ToSet(w[1][i]) /\ Owner(w[1][i]) \in Seqs
    BY <1>2, UbatchType
  <2> QED  BY <1>4, <2>1 DEF Has
<1> QED  BY <1>2, <1>3, <1>4, <1>5 DEF Follows

(* Accepted speaks of the memory when the call comes. *)
LEMMA AcceptedFollows ==
    ASSUME mem \in Rested, Bounded(mem, MaxPos), NEW w \in Seq(Ubatches), Accepted(w)
    PROVE  Follows(mem, w)
<1>1. /\ Len(w) \in Nat /\ DOMAIN w = 1 .. Len(w) /\ \A i \in 1 .. Len(w) : w[i] \in Ubatches
  BY UbatchesOf
<1>2. \A s \in Seqs : PosMax(mem, s) = End(mem, s) /\ End(mem, s) \in Int
  BY EndType
<1>3. ASSUME NEW i \in 1 .. Len(w) PROVE Level(mem, w, i)
  <2>1. w[i] \in Ubatches /\ DOMAIN w[i] = 1 .. Len(w[i])
    BY <1>1, UbatchType
  <2>2. ASSUME NEW j \in 1 .. Len(w[i]), NEW s \in ToSet(w[i][j]), NEW t \in ToSet(w[i][j])
        PROVE  End(mem, s) + Tokens(w, i - 1, s) = End(mem, t) + Tokens(w, i - 1, t)
    <3>1. s \in Seqs /\ t \in Seqs
      BY <2>1, UbatchType
    <3>2. PosMax(mem, s) = PosMax(mem, t) /\ Tokens(w, i - 1, s) = Tokens(w, i - 1, t)
      BY <1>1, <2>1 DEF Accepted
    <3> QED  BY <1>2, <3>1, <3>2
  <2> QED  BY <2>2 DEF Level
<1>4. ASSUME NEW s \in Seqs PROVE End(mem, s) + Tokens(w, Len(w), s) <= MaxPos
  <2>1. Tokens(w, Len(w), s) \in Nat /\ MaxPos \in Nat
    BY <1>1, TokensAre, RecurrentAssumption
  <2>2. CASE Tokens(w, Len(w), s) > 0
    BY <1>2, <2>2 DEF Accepted
  <2>3. CASE Tokens(w, Len(w), s) = 0
    <3>1. End(mem, s) <= MaxPos
      <4>1. mem.tail \in [Seqs -> Cells \cup {None}]
        BY DEF Rested, Metadata
      <4>2. mem.tail[s] # None => mem.tail[s] \in Cells
        BY <4>1
      <4> QED  BY <2>1, <4>2 DEF End, Bounded
    <3> QED  BY <1>2, <2>3, <3>1
  <2> QED  BY <2>1, <2>2, <2>3
<1> QED  BY <1>3, <1>4 DEF Follows
-----------------------------------------------------------------------------
(* Cells are freed: by seq_rm and by seq_keep.                             *)
LEMMA HeadAfterType ==
    ASSUME NEW m, m.head \in Cells, NEW freed \in SUBSET Cells
    PROVE  HeadAfter(m, freed) \in Cells
<1>1. CASE freed = {}
  BY <1>1 DEF HeadAfter
<1>2. CASE freed # {}
  <2>1. freed \in SUBSET Nat
    BY CellsType
  <2>2. PICK c \in freed : \A d \in freed : c <= d
    BY <1>2, <2>1, LeastOf
  <2>3. \E x \in freed : \A y \in freed : x <= y
    BY <2>2
  <2>4. Min(freed) \in freed
    BY <2>3 DEF Min
  <2> QED  BY <1>2, <2>4 DEF HeadAfter
<1> QED  BY <1>1, <1>2

Freeing(m, k, freed) ==
    /\ k \in Metadata /\ k.head \in Cells
    /\ k.used = Cardinality(Occupied(m) \ freed)
    /\ \A c \in freed : k.pos[c] = -1 /\ k.src[c] = None /\ k.seqs[c] = {}
    /\ \A c \in Cells \ freed :
         /\ k.pos[c] = m.pos[c] /\ k.src[c] = m.src[c]
         /\ k.seqs[c] \subseteq m.seqs[c] /\ (k.seqs[c] = {} => m.seqs[c] = {})
         /\ \A s \in k.seqs[c] : k.tail[s] = m.tail[s]
    /\ \A s \in Seqs : k.tail[s] \in {m.tail[s], None}

LEMMA FreeingKeeps ==
    ASSUME NEW m \in Rested, NEW freed \in SUBSET Cells, NEW k, Freeing(m, k, freed)
    PROVE  /\ k \in Rested
           /\ Bounded(m, MaxPos) => Bounded(k, MaxPos)
           /\ \A r, t, t2 :
                /\ Tailed(k, Seqs) /\ Tells(m, r, t)
                /\ \A s \in Seqs : t2[s] = IF k.tail[s] = None THEN <<>> ELSE t[s]
                => Tells(k, r, t2)
<1>1. /\ m \in Metadata /\ Named(m) /\ \A c \in Cells : Clean(m, c) /\ AtHome(m, c)
      /\ m.tail \in [Seqs -> Cells \cup {None}] /\ m.seqs \in [Cells -> SUBSET Seqs]
  BY DEF Rested, Metadata
<1>2. k.tail \in [Seqs -> Cells \cup {None}] /\ k.seqs \in [Cells -> SUBSET Seqs]
  BY DEF Freeing, Metadata
<1>3. Named(k)
  <2>1. ASSUME NEW c \in Cells, NEW s \in k.seqs[c] PROVE k.tail[s] = c
    <3>1. c \notin freed
      BY <2>1 DEF Freeing
    <3>2. s \in m.seqs[c] /\ k.tail[s] = m.tail[s]
      BY <2>1, <3>1 DEF Freeing
    <3> QED  BY <1>1, <3>2 DEF Named
  <2> QED  BY <2>1 DEF Named
<1>4. ASSUME NEW c \in Cells PROVE Clean(k, c) /\ AtHome(k, c)
  <2>1. CASE c \in freed
    BY <2>1 DEF Freeing, Clean, AtHome
  <2>2. CASE c \notin freed
    <3>1. /\ k.pos[c] = m.pos[c] /\ k.src[c] = m.src[c]
          /\ k.seqs[c] = {} <=> m.seqs[c] = {}
      BY <2>2 DEF Freeing
    <3> QED  BY <1>1, <3>1 DEF Clean, AtHome
  <2> QED  BY <2>1, <2>2
<1>5. k.used = Cardinality(Occupied(k))
  <2>1. \A c \in Cells : c \in freed => k.seqs[c] = {}
    BY DEF Freeing
  <2>2. \A c \in Cells : c \notin freed => (k.seqs[c] = {} <=> m.seqs[c] = {})
    BY DEF Freeing
  <2>3. Occupied(k) = Occupied(m) \ freed
    BY <2>1, <2>2 DEF Occupied
  <2> QED  BY <2>3 DEF Freeing
<1>6. k \in Rested
  BY <1>3, <1>4, <1>5 DEF Freeing, Rested
<1>7. ASSUME Bounded(m, MaxPos) PROVE Bounded(k, MaxPos)
  <2>1. ASSUME NEW c \in Cells PROVE k.pos[c] <= MaxPos
    <3>1. CASE c \in freed
      BY <3>1, RecurrentAssumption DEF Freeing
    <3>2. CASE c \notin freed
      BY <1>7, <3>2 DEF Freeing, Bounded
    <3> QED  BY <3>1, <3>2
  <2> QED  BY <2>1 DEF Bounded
<1>8. ASSUME NEW r, NEW t, NEW t2, Tailed(k, Seqs), Tells(m, r, t),
             \A s \in Seqs : t2[s] = IF k.tail[s] = None THEN <<>> ELSE t[s]
      PROVE  Tells(k, r, t2)
  <2>1. ASSUME NEW s \in Seqs PROVE t2[s] = IF k.tail[s] = None THEN <<>> ELSE Row(k, r, k.tail[s])
    <3>1. CASE k.tail[s] = None
      BY <1>8, <3>1
    <3>2. CASE k.tail[s] # None
      <4>1. k.tail[s] \in Cells /\ s \in k.seqs[k.tail[s]] /\ k.tail[s] = m.tail[s]
        BY <1>2, <1>8, <3>2 DEF Tailed, Freeing
      <4>2. k.tail[s] \notin freed
        BY <4>1 DEF Freeing
      <4>3. k.src[k.tail[s]] = m.src[m.tail[s]]
        BY <4>1, <4>2 DEF Freeing
      <4>4. t[s] = Row(m, r, m.tail[s])
        BY <1>8, <3>2, <4>1 DEF Tells
      <4> QED  BY <1>8, <3>2, <4>1, <4>3, <4>4 DEF Row
    <3> QED  BY <3>1, <3>2
  <2>2. ASSUME NEW c \in Cells, k.seqs[c] = {} PROVE Row(k, r, c) = <<>>
    <3>1. CASE c \in freed
      BY <3>1 DEF Freeing, Row
    <3>2. CASE c \notin freed
      <4>1. m.seqs[c] = {} /\ k.src[c] = m.src[c]
        BY <2>2, <3>2 DEF Freeing
      <4>2. Row(m, r, c) = <<>>
        BY <1>8, <4>1 DEF Tells
      <4> QED  BY <4>1, <4>2 DEF Row
    <3> QED  BY <3>1, <3>2
  <2> QED  BY <2>1, <2>2 DEF Tells
<1> QED  BY <1>6, <1>7, <1>8

(* The number of cells left, when some are freed. *)
LEMMA OccupiedLess ==
    ASSUME NEW m \in Rested, NEW freed \in SUBSET Occupied(m)
    PROVE  /\ m.used - Cardinality(freed) = Cardinality(Occupied(m) \ freed)
           /\ Cardinality(freed) \in Nat /\ Cardinality(Occupied(m) \ freed) \in Nat
           /\ m.used \in 0 .. Size
<1>1. IsFiniteSet(Occupied(m)) /\ Occupied(m) \subseteq Cells /\ Cardinality(Occupied(m)) <= Size
  BY CellsType, FS_Subset DEF Occupied
<1>2. IsFiniteSet(freed) /\ Occupied(m) \cap freed = freed /\ IsFiniteSet(Occupied(m) \ freed)
  BY <1>1, FS_Subset
<1>3. Cardinality(Occupied(m) \ freed) = Cardinality(Occupied(m)) - Cardinality(freed)
  BY <1>1, <1>2, FS_Difference
<1>4. /\ Cardinality(freed) \in Nat /\ Cardinality(Occupied(m) \ freed) \in Nat
      /\ Cardinality(Occupied(m)) \in Nat
  BY <1>1, <1>2, FS_CardinalityType
<1>5. m.used = Cardinality(Occupied(m))
  BY DEF Rested
<1> QED  BY <1>1, <1>3, <1>4, <1>5, SizeType

LEMMA WithoutSeqsKeeps ==
    ASSUME NEW m \in Rested, NEW who \in SUBSET Seqs, NEW k, k = WithoutSeqs(m, who)
    PROVE  /\ k \in Rested
           /\ Bounded(m, MaxPos) => Bounded(k, MaxPos)
           /\ Tailed(m, Seqs) => Tailed(k, Seqs)
           /\ \A r, t : Tailed(m, Seqs) /\ Tells(m, r, t) =>
                 Tells(k, r, [s \in Seqs |-> IF s \in who THEN <<>> ELSE t[s]])
<1>1. /\ m \in Metadata /\ Named(m) /\ \A c \in Cells : Clean(m, c)
      /\ m.tail \in [Seqs -> Cells \cup {None}] /\ m.seqs \in [Cells -> SUBSET Seqs]
      /\ m.pos \in [Cells -> Int] /\ m.src \in [Cells -> Cells \cup {None}]
      /\ m.head \in Cells
  BY DEF Rested, Metadata
<1>2. PICK hit : hit = {c \in Cells : m.pos[c] >= 0 /\ m.seqs[c] \cap who # {}}
  OBVIOUS
<1>3. PICK freed : freed = {c \in hit : m.seqs[c] \subseteq who}
  OBVIOUS
<1>4. k = [pos  |-> [c \in Cells |-> IF c \in freed THEN -1 ELSE m.pos[c]],
           src  |-> [c \in Cells |-> IF c \in freed THEN None ELSE m.src[c]],
           seqs |-> [c \in Cells |-> IF c \in hit THEN m.seqs[c] \ who ELSE m.seqs[c]],
           tail |-> [s \in Seqs |-> IF s \in who /\ (m.tail[s] # None /\ m.pos[m.tail[s]] >= 0)
                                     THEN None ELSE m.tail[s]],
           head |-> HeadAfter(m, freed),
           used |-> m.used - Cardinality(freed)]
  BY <1>2, <1>3 DEF WithoutSeqs
<1>5. freed \in SUBSET Cells /\ freed \in SUBSET Occupied(m)
  BY <1>2, <1>3 DEF Occupied
<1>6. \A c \in Cells : /\ k.seqs[c] = m.seqs[c] \ who
                       /\ (c \in freed <=> m.seqs[c] # {} /\ m.seqs[c] \subseteq who)
  <2>1. ASSUME NEW c \in Cells PROVE c \in hit <=> m.seqs[c] \cap who # {}
    BY <1>1, <1>2 DEF Clean
  <2> QED  BY <1>3, <1>4, <2>1
<1>7. \A s \in Seqs : /\ k.tail[s] \in {m.tail[s], None}
                      /\ s \notin who => k.tail[s] = m.tail[s]
                      /\ s \in who /\ k.tail[s] # None => m.tail[s] # None /\ ~(m.pos[m.tail[s]] >= 0)
  BY <1>4
<1>8. k \in Metadata
  <2>1. m.used - Cardinality(freed) \in Int /\ HeadAfter(m, freed) \in Int
    <3>1. m.used \in 0 .. Size /\ Cardinality(freed) \in Nat
      BY <1>5, OccupiedLess
    <3>2. HeadAfter(m, freed) \in Cells
      BY <1>1, <1>5, HeadAfterType
    <3> QED  BY <3>1, <3>2, CellsType
  <2>2. /\ [c \in Cells |-> IF c \in freed THEN -1 ELSE m.pos[c]] \in [Cells -> Int]
        /\ [c \in Cells |-> IF c \in freed THEN None ELSE m.src[c]] \in [Cells -> Cells \cup {None}]
        /\ [c \in Cells |-> IF c \in hit THEN m.seqs[c] \ who ELSE m.seqs[c]] \in [Cells -> SUBSET Seqs]
        /\ [s \in Seqs |-> IF s \in who /\ (m.tail[s] # None /\ m.pos[m.tail[s]] >= 0)
                            THEN None ELSE m.tail[s]] \in [Seqs -> Cells \cup {None}]
    BY <1>1
  <2> QED  BY <1>4, <2>1, <2>2 DEF Metadata
<1>9. Freeing(m, k, freed)
  <2>1. k.head \in Cells /\ k.used = Cardinality(Occupied(m) \ freed)
    BY <1>1, <1>4, <1>5, OccupiedLess, HeadAfterType
  <2>2. \A c \in freed : k.pos[c] = -1 /\ k.src[c] = None /\ k.seqs[c] = {}
    BY <1>4, <1>5, <1>6
  <2>3. ASSUME NEW c \in Cells \ freed
        PROVE  /\ k.pos[c] = m.pos[c] /\ k.src[c] = m.src[c]
               /\ k.seqs[c] \subseteq m.seqs[c] /\ (k.seqs[c] = {} => m.seqs[c] = {})
               /\ \A s \in k.seqs[c] : k.tail[s] = m.tail[s]
    <3>1. k.pos[c] = m.pos[c] /\ k.src[c] = m.src[c]
      BY <1>4, <2>3
    <3>2. k.seqs[c] \subseteq m.seqs[c] /\ (k.seqs[c] = {} => m.seqs[c] = {})
      BY <1>6, <2>3
    <3>3. \A s \in k.seqs[c] : s \in Seqs /\ s \notin who
      BY <1>1, <1>6, <2>3
    <3> QED  BY <1>7, <3>1, <3>2, <3>3
  <2> QED  BY <1>7, <1>8, <2>1, <2>2, <2>3 DEF Freeing
<1>10. ASSUME Tailed(m, Seqs) PROVE Tailed(k, Seqs) /\ \A s \in who : k.tail[s] = None
  <2>1. ASSUME NEW s \in who PROVE k.tail[s] = None
    <3>1. s \in Seqs
      OBVIOUS
    <3>2. ASSUME m.tail[s] # None PROVE m.pos[m.tail[s]] >= 0
      <4>1. m.tail[s] \in Cells /\ s \in m.seqs[m.tail[s]]
        BY <1>1, <1>10, <3>1, <3>2 DEF Tailed
      <4> QED  BY <1>1, <4>1 DEF Clean
    <3> QED  BY <1>7, <3>1, <3>2
  <2>2. ASSUME NEW s \in Seqs, k.tail[s] # None PROVE s \in k.seqs[k.tail[s]]
    <3>1. s \notin who /\ k.tail[s] = m.tail[s]
      BY <1>7, <2>1, <2>2
    <3>2. k.tail[s] \in Cells /\ s \in m.seqs[k.tail[s]]
      BY <1>1, <1>10, <2>2, <3>1 DEF Tailed
    <3> QED  BY <1>6, <3>1, <3>2
  <2> QED  BY <2>1, <2>2 DEF Tailed
<1>11. ASSUME NEW r, NEW t, Tailed(m, Seqs), Tells(m, r, t)
       PROVE  Tells(k, r, [s \in Seqs |-> IF s \in who THEN <<>> ELSE t[s]])
  <2>1. PICK t2 : t2 = [s \in Seqs |-> IF s \in who THEN <<>> ELSE t[s]]
    OBVIOUS
  <2>2. ASSUME NEW s \in Seqs PROVE t2[s] = IF k.tail[s] = None THEN <<>> ELSE t[s]
    <3>1. CASE s \in who
      BY <1>10, <1>11, <2>1, <3>1
    <3>2. CASE s \notin who
      <4>1. k.tail[s] = m.tail[s] /\ t2[s] = t[s]
        BY <1>7, <2>1, <3>2
      <4>2. m.tail[s] = None => t[s] = <<>>
        BY <1>11 DEF Tells
      <4> QED  BY <4>1, <4>2
    <3> QED  BY <3>1, <3>2
  <2>3. Tells(k, r, t2)
    BY <1>5, <1>9, <1>10, <1>11, <2>2, FreeingKeeps
  <2> QED  BY <2>1, <2>3
<1>12. k \in Rested /\ (Bounded(m, MaxPos) => Bounded(k, MaxPos))
  BY <1>5, <1>9, FreeingKeeps
<1> QED  BY <1>10, <1>11, <1>12

(* seq_cp: dst gives up its cell, and joins the cell of src. *)
LEMMA ReleaseRests ==
    ASSUME NEW m \in Rested, Tailed(m, Seqs), NEW who \in SUBSET Seqs, NEW k, k = Release(m, who)
    PROVE  /\ k \in Rested /\ Tailed(k, Seqs)
           /\ \A s \in Seqs : k.tail[s] = IF s \in who THEN None ELSE m.tail[s]
           /\ Bounded(m, MaxPos) => Bounded(k, MaxPos)
           /\ \A r, t : Tells(m, r, t) => Tells(k, r, [s \in Seqs |-> IF s \in who THEN <<>> ELSE t[s]])
<1>1. /\ m \in Metadata /\ Named(m) /\ \A c \in Cells : Clean(m, c) /\ AtHome(m, c)
      /\ m.used = Cardinality(Occupied(m)) /\ m.head \in Cells
  BY DEF Rested
<1>2. PICK freed : freed = {c \in Cells : m.seqs[c] \ who = {} /\ \E s \in who : m.tail[s] = c}
  OBVIOUS
<1>3. k \in Metadata /\ Named(k) /\ GivenUp(m, k, who, freed)
  BY <1>1, <1>2, ReleaseIs
<1>4. /\ \A c \in Cells : Clean(k, c) /\ AtHome(k, c)
      /\ Tailed(k, Seqs) /\ k.used = Cardinality(Occupied(k))
      /\ \A r, t : Tells(m, r, t) => Tells(k, r, [s \in Seqs |-> IF s \in who THEN <<>> ELSE t[s]])
  BY <1>1, ReleaseKeeps
<1>5. k \in Rested
  BY <1>1, <1>3, <1>4 DEF GivenUp, Rested
<1>6. ASSUME Bounded(m, MaxPos) PROVE Bounded(k, MaxPos)
  <2>1. ASSUME NEW c \in Cells PROVE k.pos[c] <= MaxPos
    <3>1. k.pos[c] = -1 \/ k.pos[c] = m.pos[c]
      BY <1>3 DEF GivenUp
    <3> QED  BY <1>6, <3>1, RecurrentAssumption DEF Bounded
  <2> QED  BY <2>1 DEF Bounded
<1> QED  BY <1>3, <1>4, <1>5, <1>6 DEF GivenUp

Joined(m, dst, t) == [m EXCEPT !.seqs[t] = @ \cup {dst}, !.tail[dst] = t]

LEMMA JoinKeeps ==
    ASSUME NEW m \in Rested, Tailed(m, Seqs), NEW src \in Seqs, NEW dst \in Seqs, m.tail[dst] = None,
           NEW t \in Cells, m.tail[src] = t,
           NEW k, k = Joined(m, dst, t)
    PROVE  /\ k \in Rested /\ Tailed(k, Seqs)
           /\ Bounded(m, MaxPos) => Bounded(k, MaxPos)
           /\ \A r, x : x \in [Seqs -> Seq(Seqs)] /\ Tells(m, r, x) => Tells(k, r, [x EXCEPT ![dst] = x[src]])
<1>1. /\ m \in Metadata /\ Named(m) /\ \A c \in Cells : Clean(m, c) /\ AtHome(m, c)
      /\ m.tail \in [Seqs -> Cells \cup {None}] /\ m.seqs \in [Cells -> SUBSET Seqs]
      /\ m.pos \in [Cells -> Int] /\ m.src \in [Cells -> Cells \cup {None}]
      /\ m.head \in Cells /\ m.head \in Int /\ m.used \in Int /\ m.used = Cardinality(Occupied(m))
  BY DEF Rested, Metadata
<1>2. src \in m.seqs[t] /\ src # dst
  BY <1>1, CellsType DEF Tailed
<1>3. PICK seqs : seqs = [m.seqs EXCEPT ![t] = @ \cup {dst}]
  OBVIOUS
<1>4. PICK tail : tail = [m.tail EXCEPT ![dst] = t]
  OBVIOUS
<1>5. k = [m EXCEPT !.seqs = seqs, !.tail = tail]
  BY <1>1, <1>3, <1>4 DEF Metadata, Joined
<1>6. /\ k.pos = m.pos /\ k.src = m.src /\ k.head = m.head /\ k.used = m.used
      /\ k.seqs = seqs /\ k.tail = tail /\ k \in Metadata
  <2>1. seqs \in [Cells -> SUBSET Seqs] /\ tail \in [Seqs -> Cells \cup {None}]
    BY <1>1, <1>3, <1>4
  <2> QED  BY <1>1, <1>5, <2>1 DEF Metadata
<1>7. /\ \A c \in Cells : k.seqs[c] = IF c = t THEN m.seqs[t] \cup {dst} ELSE m.seqs[c]
      /\ \A s \in Seqs : k.tail[s] = IF s = dst THEN t ELSE m.tail[s]
  BY <1>1, <1>3, <1>4, <1>6
<1>8. \A c \in Cells : dst \notin m.seqs[c]
  BY <1>1, CellsType DEF Named
<1>9. Named(k)
  <2>1. ASSUME NEW c \in Cells, NEW s \in k.seqs[c] PROVE k.tail[s] = c
    <3>1. CASE s = dst
      BY <1>7, <1>8, <2>1, <3>1
    <3>2. CASE s # dst
      <4>1. s \in m.seqs[c] /\ s \in Seqs
        BY <1>1, <1>7, <2>1, <3>2
      <4> QED  BY <1>1, <1>7, <3>2, <4>1 DEF Named
    <3> QED  BY <3>1, <3>2
  <2> QED  BY <2>1 DEF Named
<1>10. \A c \in Cells : k.seqs[c] = {} <=> m.seqs[c] = {}
  BY <1>2, <1>7
<1>11. Occupied(k) = Occupied(m)
  BY <1>10 DEF Occupied
<1>12. k \in Rested
  <2>1. \A c \in Cells : Clean(k, c) /\ AtHome(k, c)
    BY <1>1, <1>6, <1>10 DEF Clean, AtHome
  <2> QED  BY <1>1, <1>6, <1>9, <1>11, <2>1 DEF Rested
<1>13. Tailed(k, Seqs)
  <2>1. ASSUME NEW s \in Seqs, k.tail[s] # None PROVE s \in k.seqs[k.tail[s]]
    <3>1. CASE s = dst
      BY <1>7, <3>1
    <3>2. CASE s # dst
      <4>1. k.tail[s] = m.tail[s] /\ m.tail[s] \in Cells
        BY <1>1, <1>7, <2>1, <3>2
      <4>2. s \in m.seqs[m.tail[s]]
        BY <2>1, <4>1 DEF Tailed
      <4> QED  BY <1>7, <4>1, <4>2
    <3> QED  BY <3>1, <3>2
  <2> QED  BY <2>1 DEF Tailed
<1>14. Bounded(m, MaxPos) => Bounded(k, MaxPos)
  BY <1>6 DEF Bounded
<1>15. ASSUME NEW r, NEW x \in [Seqs -> Seq(Seqs)], Tells(m, r, x) PROVE Tells(k, r, [x EXCEPT ![dst] = x[src]])
  <2>1. PICK y : y = [x EXCEPT ![dst] = x[src]]
    OBVIOUS
  <2>2. \A s \in Seqs : y[s] = IF s = dst THEN x[src] ELSE x[s]
    BY <2>1
  <2>3. \A c \in Cells : Row(k, r, c) = Row(m, r, c)
    BY <1>6 DEF Row
  <2>4. x[src] = Row(m, r, t)
    BY <1>15, CellsType DEF Tells
  <2>5. ASSUME NEW s \in Seqs PROVE y[s] = IF k.tail[s] = None THEN <<>> ELSE Row(k, r, k.tail[s])
    <3>1. CASE s = dst
      <4>1. k.tail[s] = t /\ t # None /\ y[s] = x[src]
        BY <1>7, <2>2, <3>1, CellsType
      <4> QED  BY <2>3, <2>4, <4>1
    <3>2. CASE s # dst
      <4>1. k.tail[s] = m.tail[s] /\ y[s] = x[s] /\ (m.tail[s] # None => m.tail[s] \in Cells)
        BY <1>1, <1>7, <2>2, <3>2
      <4>2. x[s] = IF m.tail[s] = None THEN <<>> ELSE Row(m, r, m.tail[s])
        BY <1>15 DEF Tells
      <4> QED  BY <2>3, <4>1, <4>2
    <3> QED  BY <3>1, <3>2
  <2>6. \A c \in Cells : k.seqs[c] = {} => Row(k, r, c) = <<>>
    BY <1>10, <1>15, <2>3 DEF Tells
  <2> QED  BY <2>1, <2>5, <2>6 DEF Tells
<1> QED  BY <1>12, <1>13, <1>14, <1>15

(* seq_keep. *)
KeptOnly(m, s) ==
    LET drop == {c \in Cells : s \notin m.seqs[c]}
    IN  [pos  |-> [c \in Cells |-> IF c \in drop THEN -1 ELSE m.pos[c]],
         src  |-> [c \in Cells |-> IF c \in drop THEN None ELSE m.src[c]],
         seqs |-> [c \in Cells |-> IF c \in drop THEN {} ELSE {s}],
         tail |-> [r \in Seqs |-> IF r = s THEN m.tail[r] ELSE None],
         head |-> HeadAfter(m, drop),
         used |-> m.used - Cardinality({c \in drop : m.pos[c] >= 0})]

LEMMA KeptOnlyKeeps ==
    ASSUME NEW m \in Rested, Tailed(m, Seqs), NEW s \in Seqs, NEW k, k = KeptOnly(m, s)
    PROVE  /\ k \in Rested /\ Tailed(k, Seqs)
           /\ Bounded(m, MaxPos) => Bounded(k, MaxPos)
           /\ \A r, t : Tells(m, r, t) => Tells(k, r, [q \in Seqs |-> IF q = s THEN t[q] ELSE <<>>])
<1>1. /\ m \in Metadata /\ Named(m) /\ \A c \in Cells : Clean(m, c)
      /\ m.tail \in [Seqs -> Cells \cup {None}] /\ m.seqs \in [Cells -> SUBSET Seqs]
      /\ m.pos \in [Cells -> Int] /\ m.src \in [Cells -> Cells \cup {None}]
      /\ m.head \in Cells
  BY DEF Rested, Metadata
<1>2. PICK drop : drop = {c \in Cells : s \notin m.seqs[c]}
  OBVIOUS
<1>3. PICK freed : freed = {c \in drop : m.pos[c] >= 0}
  OBVIOUS
<1>4. k = [pos  |-> [c \in Cells |-> IF c \in drop THEN -1 ELSE m.pos[c]],
           src  |-> [c \in Cells |-> IF c \in drop THEN None ELSE m.src[c]],
           seqs |-> [c \in Cells |-> IF c \in drop THEN {} ELSE {s}],
           tail |-> [r \in Seqs |-> IF r = s THEN m.tail[r] ELSE None],
           head |-> HeadAfter(m, drop),
           used |-> m.used - Cardinality(freed)]
  BY <1>2, <1>3 DEF KeptOnly
<1>5. freed \in SUBSET Occupied(m) /\ Occupied(m) \ freed = Occupied(m) \ drop /\ drop \in SUBSET Cells
  BY <1>1, <1>2, <1>3 DEF Occupied, Clean
<1>6. k.used = Cardinality(Occupied(m) \ drop) /\ k.used \in Int /\ k.head \in Cells
  <2>1. /\ m.used - Cardinality(freed) = Cardinality(Occupied(m) \ freed)
        /\ Cardinality(Occupied(m) \ freed) \in Nat
    BY <1>5, OccupiedLess
  <2>2. HeadAfter(m, drop) \in Cells
    BY <1>1, <1>5, HeadAfterType
  <2>3. k.used = m.used - Cardinality(freed) /\ k.head = HeadAfter(m, drop)
    BY <1>4
  <2> QED  BY <1>5, <2>1, <2>2, <2>3
<1>7. k \in Metadata
  <2>1. k.head \in Int
    BY <1>6, CellsType
  <2>2. /\ [c \in Cells |-> IF c \in drop THEN -1 ELSE m.pos[c]] \in [Cells -> Int]
        /\ [c \in Cells |-> IF c \in drop THEN None ELSE m.src[c]] \in [Cells -> Cells \cup {None}]
        /\ [c \in Cells |-> IF c \in drop THEN {} ELSE {s}] \in [Cells -> SUBSET Seqs]
        /\ [r \in Seqs |-> IF r = s THEN m.tail[r] ELSE None] \in [Seqs -> Cells \cup {None}]
    BY <1>1
  <2>3. k.used = m.used - Cardinality(freed) /\ k.head = HeadAfter(m, drop)
    BY <1>4
  <2> QED  BY <1>4, <1>6, <2>1, <2>2, <2>3 DEF Metadata
<1>8. /\ \A c \in Cells : k.seqs[c] = IF c \in drop THEN {} ELSE {s}
      /\ \A r \in Seqs : k.tail[r] = IF r = s THEN m.tail[r] ELSE None
  BY <1>4
<1>9. Freeing(m, k, drop)
  <2>1. \A c \in drop : k.pos[c] = -1 /\ k.src[c] = None /\ k.seqs[c] = {}
    BY <1>4, <1>5
  <2>2. ASSUME NEW c \in Cells \ drop
        PROVE  /\ k.pos[c] = m.pos[c] /\ k.src[c] = m.src[c]
               /\ k.seqs[c] \subseteq m.seqs[c] /\ (k.seqs[c] = {} => m.seqs[c] = {})
               /\ \A r \in k.seqs[c] : k.tail[r] = m.tail[r]
    <3>1. k.pos[c] = m.pos[c] /\ k.src[c] = m.src[c] /\ k.seqs[c] = {s} /\ s \in m.seqs[c]
      BY <1>2, <1>4, <2>2
    <3> QED  BY <1>8, <3>1
  <2>3. \A r \in Seqs : k.tail[r] \in {m.tail[r], None}
    BY <1>8
  <2> QED  BY <1>6, <1>7, <2>1, <2>2, <2>3 DEF Freeing
<1>10. Tailed(k, Seqs)
  <2>1. ASSUME NEW r \in Seqs, k.tail[r] # None PROVE r \in k.seqs[k.tail[r]]
    <3>1. r = s /\ k.tail[r] = m.tail[r] /\ m.tail[r] \in Cells
      BY <1>1, <1>8, <2>1
    <3>2. m.tail[r] \notin drop
      BY <1>2, <2>1, <3>1 DEF Tailed
    <3> QED  BY <1>8, <3>1, <3>2
  <2> QED  BY <2>1 DEF Tailed
<1>11. ASSUME NEW r, NEW t, Tells(m, r, t)
       PROVE  Tells(k, r, [q \in Seqs |-> IF q = s THEN t[q] ELSE <<>>])
  <2>1. PICK t2 : t2 = [q \in Seqs |-> IF q = s THEN t[q] ELSE <<>>]
    OBVIOUS
  <2>2. ASSUME NEW q \in Seqs PROVE t2[q] = IF k.tail[q] = None THEN <<>> ELSE t[q]
    <3>1. CASE q = s
      <4>1. k.tail[q] = m.tail[q] /\ t2[q] = t[q]
        BY <1>8, <2>1, <3>1
      <4>2. m.tail[q] = None => t[q] = <<>>
        BY <1>11 DEF Tells
      <4> QED  BY <4>1, <4>2
    <3>2. CASE q # s
      BY <1>8, <2>1, <3>2
    <3> QED  BY <3>1, <3>2
  <2>3. Tells(k, r, t2)
    BY <1>5, <1>9, <1>10, <1>11, <2>2, FreeingKeeps
  <2> QED  BY <2>1, <2>3
<1>12. k \in Rested /\ (Bounded(m, MaxPos) => Bounded(k, MaxPos))
  BY <1>5, <1>9, FreeingKeeps
<1> QED  BY <1>10, <1>11, <1>12

(* seq_add and seq_div. *)
LEMMA MoveKeeps ==
    ASSUME NEW m \in Rested, NEW t \in Cells, m.seqs[t] # {}, NEW p \in 0 .. MaxPos,
           NEW k, k = [m EXCEPT !.pos[t] = p]
    PROVE  /\ k \in Rested
           /\ Tailed(m, Seqs) => Tailed(k, Seqs)
           /\ Bounded(m, MaxPos) => Bounded(k, MaxPos)
           /\ \A r, x : Tells(m, r, x) => Tells(k, r, x)
<1>1. /\ m \in Metadata /\ Named(m) /\ \A c \in Cells : Clean(m, c) /\ AtHome(m, c)
      /\ m.pos \in [Cells -> Int] /\ m.head \in Cells /\ m.used = Cardinality(Occupied(m))
  BY DEF Rested, Metadata
<1>2. /\ k \in Metadata /\ k.src = m.src /\ k.seqs = m.seqs /\ k.tail = m.tail
      /\ k.head = m.head /\ k.used = m.used
      /\ k.pos = [m.pos EXCEPT ![t] = p]
  <2>1. PICK pos : pos = [m.pos EXCEPT ![t] = p]
    OBVIOUS
  <2>2. pos \in [Cells -> Int]
    BY <1>1, <2>1
  <2>3. k = [m EXCEPT !.pos = pos]
    BY <2>1
  <2> QED  BY <1>1, <2>1, <2>2, <2>3 DEF Metadata
<1>3. \A c \in Cells : k.pos[c] = IF c = t THEN p ELSE m.pos[c]
  BY <1>1, <1>2
<1>4. \A c \in Cells : Clean(k, c) /\ AtHome(k, c)
  BY <1>1, <1>2, <1>3 DEF Clean, AtHome
<1>5. Named(k) /\ Occupied(k) = Occupied(m)
  BY <1>1, <1>2 DEF Named, Occupied
<1>6. k \in Rested
  BY <1>1, <1>2, <1>4, <1>5 DEF Rested
<1>7. Tailed(m, Seqs) => Tailed(k, Seqs)
  BY <1>2 DEF Tailed
<1>8. Bounded(m, MaxPos) => Bounded(k, MaxPos)
  BY <1>3 DEF Bounded
<1>9. \A c : \A r : Row(k, r, c) = Row(m, r, c)
  BY <1>2 DEF Row
<1>10. \A r, x : Tells(m, r, x) => Tells(k, r, x)
  BY <1>2, <1>9 DEF Tells
<1> QED  BY <1>6, <1>7, <1>8, <1>10

(* The memory as clear() leaves it. *)
LEMMA NoCellsIsRested ==
    /\ NoCells \in Rested /\ Tailed(NoCells, Seqs) /\ Bounded(NoCells, MaxPos)
    /\ \A r : Tells(NoCells, r, [s \in Seqs |-> <<>>])
<1>1. /\ \A c \in Cells : NoCells.pos[c] = -1 /\ NoCells.src[c] = None /\ NoCells.seqs[c] = {}
      /\ \A s \in Seqs : NoCells.tail[s] = None
      /\ NoCells.head = 0 /\ NoCells.used = 0
  BY DEF NoCells
<1>2. NoCells \in Metadata
  BY DEF NoCells, Metadata
<1>3. Occupied(NoCells) = {}
  BY <1>1 DEF Occupied
<1>4. Cardinality(Occupied(NoCells)) = 0
  BY <1>3, FS_EmptySet
<1>5. NoCells \in Rested
  BY <1>1, <1>2, <1>4, CellsType DEF Rested, Named, Clean, AtHome
<1>6. Tailed(NoCells, Seqs) /\ Bounded(NoCells, MaxPos)
  BY <1>1, RecurrentAssumption DEF Tailed, Bounded
<1>7. \A r : Tells(NoCells, r, [s \in Seqs |-> <<>>])
  BY <1>1 DEF Tells, Row
<1> QED  BY <1>5, <1>6, <1>7

(* seq_rm(-1). *)
AllRemoved(m) ==
    LET hit == {c \in Cells : m.pos[c] >= 0}
    IN  [NoCells EXCEPT !.tail = m.tail,
                        !.src = [c \in Cells |-> IF c \in hit THEN None ELSE m.src[c]],
                        !.head = HeadAfter(m, hit),
                        !.used = m.used - Cardinality(hit)]

LEMMA AllRemovedKeeps ==
    ASSUME NEW m \in Rested, NEW k, k = AllRemoved(m)
    PROVE  /\ k \in Rested /\ Bounded(k, MaxPos)
           /\ (\A s \in Seqs : m.tail[s] = None) => Tailed(k, Seqs)
           /\ (\A s \in Seqs : m.tail[s] = None) =>
                 \A r, t : Tells(m, r, t) => Tells(k, r, [s \in Seqs |-> <<>>])
<1>1. /\ m \in Metadata /\ \A c \in Cells : Clean(m, c) /\ AtHome(m, c)
      /\ m.tail \in [Seqs -> Cells \cup {None}] /\ m.pos \in [Cells -> Int]
      /\ m.src \in [Cells -> Cells \cup {None}] /\ m.head \in Cells
  BY DEF Rested, Metadata
<1>2. PICK hit : hit = {c \in Cells : m.pos[c] >= 0}
  OBVIOUS
<1>3. hit = Occupied(m)
  BY <1>1, <1>2 DEF Occupied, Clean
<1>4. m.used - Cardinality(hit) = 0
  <2>1. /\ m.used - Cardinality(hit) = Cardinality(Occupied(m) \ hit)
        /\ Occupied(m) \ hit = {}
    BY <1>3, OccupiedLess
  <2> QED  BY <2>1, FS_EmptySet
<1>5. HeadAfter(m, hit) \in Cells
  BY <1>1, <1>2, HeadAfterType
<1>6. k = [pos |-> [c \in Cells |-> -1],
           src |-> [c \in Cells |-> IF c \in hit THEN None ELSE m.src[c]],
           seqs |-> [c \in Cells |-> {}], tail |-> m.tail,
           head |-> HeadAfter(m, hit), used |-> m.used - Cardinality(hit)]
  BY <1>2 DEF AllRemoved, NoCells
<1>7. /\ \A c \in Cells : /\ k.pos[c] = -1 /\ k.seqs[c] = {}
                          /\ k.src[c] = IF c \in hit THEN None ELSE m.src[c]
      /\ k.tail = m.tail /\ k.head \in Cells /\ k.used = 0
  BY <1>4, <1>5, <1>6
<1>8. k \in Metadata
  <2>1. k.head \in Int
    BY <1>7, CellsType
  <2>2. k.head = HeadAfter(m, hit) /\ k.used = m.used - Cardinality(hit)
    BY <1>6
  <2>3. /\ [c \in Cells |-> -1] \in [Cells -> Int]
        /\ [c \in Cells |-> IF c \in hit THEN None ELSE m.src[c]] \in [Cells -> Cells \cup {None}]
        /\ [c \in Cells |-> {}] \in [Cells -> SUBSET Seqs]
    BY <1>1
  <2> QED  BY <1>1, <1>6, <1>7, <2>1, <2>2, <2>3 DEF Metadata
<1>9. Occupied(k) = {}
  BY <1>7 DEF Occupied
<1>10. k \in Rested
  <2>1. \A c \in Cells : Clean(k, c) /\ AtHome(k, c)
    BY <1>1, <1>7 DEF Clean, AtHome
  <2>2. k.used = Cardinality(Occupied(k))
    BY <1>7, <1>9, FS_EmptySet
  <2> QED  BY <1>7, <1>8, <2>1, <2>2 DEF Rested, Named
<1>11. Bounded(k, MaxPos)
  BY <1>7, RecurrentAssumption DEF Bounded
<1>12. ASSUME \A s \in Seqs : m.tail[s] = None, NEW r, NEW t, Tells(m, r, t)
       PROVE  Tells(k, r, [s \in Seqs |-> <<>>])
  <2>1. ASSUME NEW c \in Cells PROVE Row(k, r, c) = <<>>
    <3>1. CASE c \in hit
      BY <1>7, <3>1 DEF Row
    <3>2. CASE c \notin hit
      <4>1. m.seqs[c] = {} /\ k.src[c] = m.src[c]
        BY <1>3, <1>7, <3>2 DEF Occupied
      <4> QED  BY <1>12, <4>1 DEF Tells, Row
    <3> QED  BY <3>1, <3>2
  <2> QED  BY <1>7, <1>12, <2>1 DEF Tells
<1>13. (\A s \in Seqs : m.tail[s] = None) => Tailed(k, Seqs)
  BY <1>7 DEF Tailed
<1> QED  BY <1>10, <1>11, <1>12, <1>13
-----------------------------------------------------------------------------
(* The inductive invariant.  Of what has been decoded the memory tells     *)
(* only while no graph has failed and no tail has lost its cell; the       *)
(* ubatches that wait have slots, and follow on each other.                *)
Stored ==
    /\ mem \in Rested /\ Bounded(mem, MaxPos)
    /\ ~wiped => Tailed(mem, Seqs)
    /\ ~wiped /\ ~failed => Tells(mem, rows, text)

Kinds ==
    /\ rows \in [Cells -> Seq(Seqs)] /\ text \in [Seqs -> Seq(Seqs)]
    /\ aborted \in BOOLEAN /\ wiped \in BOOLEAN /\ failed \in BOOLEAN

Waiting(m, w) == w \in Seq(Ubatches) /\ Runs(m, w) /\ Follows(m, w)

IInv == Stored /\ Kinds /\ Waiting(mem, todo) /\ NeverAborts

LEMMA NothingWaits ==
    ASSUME NEW m \in Rested, Bounded(m, MaxPos)
    PROVE  Waiting(m, <<>>)
<1>1. <<>> \in Seq(Ubatches) /\ Len(<<>>) = 0
  BY EmptySeq
<1>2. ASSUME NEW s \in Seqs PROVE End(m, s) + Tokens(<<>>, Len(<<>>), s) <= MaxPos
  <2>1. Tokens(<<>>, 0, s) = 0
    <3>1. 0 \in 0 .. Len(<<>>)
      BY <1>1
    <3> QED  BY <1>1, <3>1, TokensAre
  <2>2. End(m, s) \in Int
    BY EndType
  <2>3. End(m, s) <= MaxPos
    <3>1. m.tail \in [Seqs -> Cells \cup {None}]
      BY DEF Rested, Metadata
    <3>2. m.tail[s] # None => m.tail[s] \in Cells
      BY <3>1
    <3> QED  BY <3>2, RecurrentAssumption DEF End, Bounded
  <2> QED  BY <1>1, <2>1, <2>2, <2>3
<1>3. Follows(m, <<>>)
  BY <1>1, <1>2 DEF Follows
<1> QED  BY <1>1, <1>3, RunsNone DEF Waiting

LEMMA ClearIsStored ==
    ASSUME mem' = NoCells, rows' \in [Cells -> Seq(Seqs)], text' = [s \in Seqs |-> <<>>],
           wiped' = FALSE, failed' = FALSE, aborted' = FALSE, todo' = <<>>
    PROVE  IInv'
<1>1. Stored'
  BY NoCellsIsRested DEF Stored
<1>2. Kinds'
  <2>1. text' \in [Seqs -> Seq(Seqs)]
    BY EmptySeq
  <2> QED  BY <2>1 DEF Kinds
<1>3. Waiting(mem', todo')
  BY NoCellsIsRested, NothingWaits
<1> QED  BY <1>1, <1>2, <1>3 DEF IInv, NeverAborts

LEMMA InitIInv == Init => IInv
<1>1. SUFFICES ASSUME Init PROVE IInv
  OBVIOUS
<1>2. Stored
  BY <1>1, NoCellsIsRested DEF Init, Stored
<1>3. Kinds
  <2>1. <<>> \in Seq(Seqs)
    BY EmptySeq
  <2> QED  BY <1>1, <2>1 DEF Init, Kinds
<1>4. Waiting(mem, todo)
  BY <1>1, NoCellsIsRested, NothingWaits DEF Init
<1> QED  BY <1>1, <1>2, <1>3, <1>4 DEF Init, IInv, NeverAborts
-----------------------------------------------------------------------------
(* One lemma for each action. *)
LEMMA CallKeeps ==
    ASSUME IInv, Sound, mem' \in Rested, Bounded(mem, MaxPos) => Bounded(mem', MaxPos),
           Tailed(mem', Seqs), ~failed => Tells(mem', rows, text'), text' \in [Seqs -> Seq(Seqs)],
           UNCHANGED <<rows, todo, aborted, wiped, failed>>
    PROVE  IInv'
<1>1. Stored'
  BY DEF IInv, Stored
<1>2. Kinds'
  BY DEF IInv, Kinds
<1>3. Waiting(mem', todo')
  BY NothingWaits DEF IInv, Stored, Sound, Idle
<1> QED  BY <1>1, <1>2, <1>3 DEF IInv, NeverAborts, Sound, Idle

LEMMA SeqRmKeeps ==
    ASSUME IInv, NEW s \in Seqs, SeqRm(s)
    PROVE  IInv'
<1>1. /\ mem \in Rested /\ Tailed(mem, Seqs) /\ (~failed => Tells(mem, rows, text))
      /\ text \in [Seqs -> Seq(Seqs)] /\ Sound
  BY DEF IInv, Stored, Kinds, SeqRm, Sound
<1>2. /\ mem' = WithoutSeqs(mem, {s}) /\ text' = [text EXCEPT ![s] = <<>>]
      /\ UNCHANGED <<rows, todo, aborted, wiped, failed>>
  BY DEF SeqRm
<1>3. PICK who : who = {s}
  OBVIOUS
<1>4. /\ text' = [q \in Seqs |-> IF q \in who THEN <<>> ELSE text[q]]
      /\ text' \in [Seqs -> Seq(Seqs)] /\ who \in SUBSET Seqs /\ mem' = WithoutSeqs(mem, who)
  BY <1>1, <1>2, <1>3, EmptySeq
<1>5. /\ mem' \in Rested /\ (Bounded(mem, MaxPos) => Bounded(mem', MaxPos)) /\ Tailed(mem', Seqs)
      /\ \A r, t : Tells(mem, r, t) => Tells(mem', r, [q \in Seqs |-> IF q \in who THEN <<>> ELSE t[q]])
  BY <1>1, <1>4, WithoutSeqsKeeps
<1>6. ~failed => Tells(mem', rows, text')
  BY <1>1, <1>4, <1>5
<1> QED  BY <1>1, <1>2, <1>4, <1>5, <1>6, CallKeeps

LEMMA SeqCpKeeps ==
    ASSUME IInv, NEW src \in Seqs, NEW dst \in Seqs, SeqCp(src, dst)
    PROVE  IInv'
<1>1. /\ mem \in Rested /\ Tailed(mem, Seqs) /\ (~failed => Tells(mem, rows, text))
      /\ text \in [Seqs -> Seq(Seqs)] /\ Sound
  BY DEF IInv, Stored, Kinds, SeqCp, Sound
<1>0. PICK who : who = {dst}
  OBVIOUS
<1>2. PICK freed : freed = Release(mem, who)
  OBVIOUS
<1>3. /\ mem' = IF freed.tail[src] = None THEN freed
                ELSE [freed EXCEPT !.seqs[freed.tail[src]] = @ \cup {dst}, !.tail[dst] = freed.tail[src]]
      /\ text' = [text EXCEPT ![dst] = text[src]] /\ src # dst
      /\ UNCHANGED <<rows, todo, aborted, wiped, failed>>
  BY <1>0, <1>2 DEF SeqCp
<1>4. who \in SUBSET Seqs
  BY <1>0
<1>5. /\ freed \in Rested /\ Tailed(freed, Seqs)
      /\ \A s \in Seqs : freed.tail[s] = IF s \in who THEN None ELSE mem.tail[s]
      /\ Bounded(mem, MaxPos) => Bounded(freed, MaxPos)
      /\ \A r, t : Tells(mem, r, t) => Tells(freed, r, [s \in Seqs |-> IF s \in who THEN <<>> ELSE t[s]])
  BY <1>1, <1>2, <1>4, ReleaseRests
<1>6. PICK left : left = [s \in Seqs |-> IF s \in who THEN <<>> ELSE text[s]]
  OBVIOUS
<1>7. left \in [Seqs -> Seq(Seqs)] /\ (~failed => Tells(freed, rows, left))
  BY <1>1, <1>5, <1>6, EmptySeq
<1>8. text' = [left EXCEPT ![dst] = left[src]] /\ text' \in [Seqs -> Seq(Seqs)]
  BY <1>0, <1>1, <1>3, <1>6
<1>9. freed.tail[dst] = None /\ freed.tail[src] = mem.tail[src]
  BY <1>0, <1>3, <1>5
<1>10. CASE freed.tail[src] = None
  <2>1. mem' = freed
    BY <1>3, <1>10
  <2>2. ~failed => left[src] = <<>>
    BY <1>7, <1>10 DEF Tells
  <2>3. ~failed => text' = left
    BY <1>0, <1>6, <1>7, <1>8, <2>2
  <2> QED  BY <1>1, <1>3, <1>5, <1>7, <1>8, <2>1, <2>3, CallKeeps
<1>11. CASE freed.tail[src] # None
  <2>1. PICK t : t = freed.tail[src]
    OBVIOUS
  <2>2. t \in Cells
    BY <1>5, <1>11, <2>1 DEF Rested, Metadata
  <2>3. mem' = Joined(freed, dst, t)
    BY <1>3, <1>11, <2>1 DEF Joined
  <2>4. /\ mem' \in Rested /\ Tailed(mem', Seqs)
        /\ Bounded(freed, MaxPos) => Bounded(mem', MaxPos)
        /\ \A r, x : x \in [Seqs -> Seq(Seqs)] /\ Tells(freed, r, x)
                     => Tells(mem', r, [x EXCEPT ![dst] = x[src]])
    BY <1>5, <1>9, <2>1, <2>2, <2>3, JoinKeeps
  <2>5. ~failed => Tells(mem', rows, text')
    BY <1>7, <1>8, <2>4
  <2> QED  BY <1>1, <1>3, <1>5, <1>8, <2>4, <2>5, CallKeeps
<1> QED  BY <1>10, <1>11

LEMMA SeqKeepKeeps ==
    ASSUME IInv, NEW s \in Seqs, SeqKeep(s)
    PROVE  IInv'
<1>1. /\ mem \in Rested /\ Tailed(mem, Seqs) /\ (~failed => Tells(mem, rows, text))
      /\ text \in [Seqs -> Seq(Seqs)] /\ Sound
  BY DEF IInv, Stored, Kinds, SeqKeep, Sound
<1>2. /\ mem' = KeptOnly(mem, s) /\ text' = [q \in Seqs |-> IF q = s THEN text[q] ELSE <<>>]
      /\ UNCHANGED <<rows, todo, aborted, wiped, failed>>
  BY DEF SeqKeep, KeptOnly
<1>3. text' \in [Seqs -> Seq(Seqs)]
  BY <1>1, <1>2, EmptySeq
<1>4. /\ mem' \in Rested /\ Tailed(mem', Seqs) /\ (Bounded(mem, MaxPos) => Bounded(mem', MaxPos))
      /\ \A r, t : Tells(mem, r, t) => Tells(mem', r, [q \in Seqs |-> IF q = s THEN t[q] ELSE <<>>])
  BY <1>1, <1>2, KeptOnlyKeeps
<1> QED  BY <1>1, <1>2, <1>3, <1>4, CallKeeps

LEMMA MovePosKeeps ==
    ASSUME IInv, NEW s \in Seqs, NEW move, MovePos(s, move)
    PROVE  IInv'
<1>1. /\ mem \in Rested /\ Tailed(mem, Seqs) /\ (~failed => Tells(mem, rows, text))
      /\ text \in [Seqs -> Seq(Seqs)] /\ Sound
  BY DEF IInv, Stored, Kinds, MovePos, Sound
<1>2. PICK t : t = mem.tail[s]
  OBVIOUS
<1>3. PICK p : p = move[mem.pos[t]]
  OBVIOUS
<1>4. /\ t # None /\ s \in mem.seqs[t] /\ p \in 0 .. MaxPos /\ mem' = [mem EXCEPT !.pos[t] = move[@]]
      /\ UNCHANGED <<rows, todo, aborted, text, wiped, failed>>
  BY <1>2, <1>3 DEF MovePos
<1>5. t \in Cells /\ mem.seqs[t] # {}
  BY <1>1, <1>2, <1>4 DEF Rested, Metadata
<1>6. mem' = [mem EXCEPT !.pos[t] = p]
  BY <1>3, <1>4
<1>7. /\ mem' \in Rested /\ (Tailed(mem, Seqs) => Tailed(mem', Seqs))
      /\ Bounded(mem, MaxPos) => Bounded(mem', MaxPos)
      /\ \A r, x : Tells(mem, r, x) => Tells(mem', r, x)
  BY <1>1, <1>4, <1>5, <1>6, MoveKeeps
<1> QED  BY <1>1, <1>4, <1>7, CallKeeps

LEMMA SeqRmAllKeeps ==
    ASSUME IInv, SeqRmAll
    PROVE  IInv'
<1>1. /\ mem \in Rested /\ Tailed(mem, Seqs) /\ (~failed => Tells(mem, rows, text))
      /\ todo = <<>> /\ ~aborted
  BY DEF IInv, Stored, SeqRmAll, Sound, Idle
<1>2. /\ mem' = AllRemoved(mem) /\ text' = [s \in Seqs |-> <<>>]
      /\ wiped' = (\E s \in Seqs : mem.tail[s] # None)
      /\ UNCHANGED <<rows, todo, aborted, failed>>
  BY DEF SeqRmAll, AllRemoved
<1>3. /\ mem' \in Rested /\ Bounded(mem', MaxPos)
      /\ (\A s \in Seqs : mem.tail[s] = None) => Tailed(mem', Seqs)
      /\ (\A s \in Seqs : mem.tail[s] = None) =>
            \A r, t : Tells(mem, r, t) => Tells(mem', r, [s \in Seqs |-> <<>>])
  BY <1>1, <1>2, AllRemovedKeeps
<1>4. Stored'
  BY <1>1, <1>2, <1>3 DEF Stored
<1>5. Kinds'
  <2>1. text' \in [Seqs -> Seq(Seqs)]
    BY <1>2, EmptySeq
  <2> QED  BY <1>2, <2>1 DEF IInv, Kinds
<1>6. Waiting(mem', todo')
  BY <1>1, <1>2, <1>3, NothingWaits
<1> QED  BY <1>1, <1>2, <1>4, <1>5, <1>6 DEF IInv, NeverAborts

LEMMA DecodeKeeps ==
    ASSUME IInv, NEW w \in Batches, Decode(w)
    PROVE  IInv'
<1>1. /\ mem \in Rested /\ Bounded(mem, MaxPos) /\ (~wiped => Tailed(mem, Seqs))
      /\ (aborted => wiped)
  BY DEF IInv, Stored, NeverAborts
<1>2. /\ aborted' = ~Trial(mem, w).ok /\ todo' = IF Trial(mem, w).ok THEN w ELSE <<>>
      /\ UNCHANGED <<mem, rows, text, wiped, failed>> /\ Accepted(w)
  BY DEF Decode
<1>3. w \in Seq(Ubatches)
  BY BatchesAssumption
<1>4. /\ Trial(mem, w).ok \in BOOLEAN
      /\ Trial(mem, w).ok => Runs(mem, w)
      /\ Tailed(mem, Seqs) => Trial(mem, w).ok
  BY <1>1, <1>3, TrialRuns
<1>5. Follows(mem, w)
  BY <1>1, <1>2, <1>3, AcceptedFollows
<1>6. Stored'
  <2>1. mem' = mem /\ rows' = rows /\ text' = text /\ wiped' = wiped /\ failed' = failed
    BY <1>2
  <2> QED  BY <2>1 DEF IInv, Stored
<1>7. Kinds'
  <2>1. rows' = rows /\ text' = text /\ wiped' = wiped /\ failed' = failed /\ aborted' \in BOOLEAN
    BY <1>2
  <2> QED  BY <2>1 DEF IInv, Kinds
<1>8. Waiting(mem', todo')
  <2>1. CASE Trial(mem, w).ok
    <3>1. mem' = mem /\ todo' = w
      BY <1>2, <2>1
    <3> QED  BY <1>3, <1>4, <1>5, <2>1, <3>1 DEF Waiting
  <2>2. CASE ~Trial(mem, w).ok
    <3>1. mem' = mem /\ todo' = <<>>
      BY <1>2, <2>2
    <3> QED  BY <1>1, <3>1, NothingWaits
  <2> QED  BY <2>1, <2>2
<1>9. NeverAborts'
  BY <1>1, <1>2, <1>4 DEF NeverAborts
<1> QED  BY <1>6, <1>7, <1>8, <1>9 DEF IInv

(* What find_slot and the waiting ubatches have in common. *)
LEMMA NextSlot ==
    ASSUME IInv, todo # <<>>, NEW u, u = Head(todo), NEW slot, slot = FindSlot(mem, u)
    PROVE  /\ u \in Ubatches /\ u = todo[1] /\ slot.ok
           /\ slot.m \in Rested /\ Bounded(slot.m, MaxPos)
           /\ ~wiped => Tailed(slot.m, Seqs)
           /\ Waiting(slot.m, Tail(todo))
<1>1. /\ mem \in Rested /\ Bounded(mem, MaxPos) /\ (~wiped => Tailed(mem, Seqs))
      /\ todo \in Seq(Ubatches) /\ Runs(mem, todo) /\ Follows(mem, todo)
  BY DEF IInv, Stored, Waiting
<1>2. u \in Ubatches /\ u = todo[1] /\ Tail(todo) \in Seq(Ubatches)
  BY <1>1, UbatchesOf
<1>3. slot.ok /\ Runs(slot.m, Tail(todo))
  BY <1>1, <1>2, RunsTail
<1>4. /\ slot.m \in Rested /\ (Tailed(mem, Seqs) => Tailed(slot.m, Seqs))
      /\ Advanced(mem, slot.m, todo[1])
  BY <1>1, <1>2, <1>3, FindSlotKeeps
<1>5. /\ Follows(slot.m, Tail(todo))
      /\ \A i \in 1 .. Len(todo[1]) : End(mem, Owner(todo[1][i])) + 1 <= MaxPos
  BY <1>1, <1>4, FollowsTail
<1>6. Bounded(slot.m, MaxPos)
  BY <1>1, <1>4, <1>5, RecurrentAssumption DEF Advanced
<1> QED  BY <1>1, <1>2, <1>3, <1>4, <1>5, <1>6 DEF Waiting

LEMMA ProcessOkKeeps ==
    ASSUME IInv, ProcessOk
    PROVE  IInv'
<1>1. PICK u : u = Head(todo)
  OBVIOUS
<1>2. PICK slot : slot = FindSlot(mem, u)
  OBVIOUS
<1>3. PICK set : set = [s \in Seqs |-> CHOOSE x \in ToSet(u) : s \in ToSet(x)]
  OBVIOUS
<1>4. /\ todo # <<>> /\ mem' = slot.m /\ rows' = Compute(rows, u, slot) /\ todo' = Tail(todo)
      /\ text' = [s \in Seqs |-> IF \E x \in ToSet(u) : s \in ToSet(x)
                                 THEN Append(text[Owner(set[s])], Owner(set[s])) ELSE text[s]]
      /\ UNCHANGED <<aborted, wiped, failed>>
  BY <1>1, <1>2, <1>3 DEF ProcessOk
<1>5. /\ u \in Ubatches /\ slot.ok
      /\ slot.m \in Rested /\ Bounded(slot.m, MaxPos) /\ (~wiped => Tailed(slot.m, Seqs))
      /\ Waiting(slot.m, Tail(todo))
  BY <1>1, <1>2, <1>4, NextSlot
<1>6. /\ mem \in Rested /\ (~wiped => Tailed(mem, Seqs))
      /\ (~wiped /\ ~failed => Tells(mem, rows, text))
      /\ rows \in [Cells -> Seq(Seqs)] /\ text \in [Seqs -> Seq(Seqs)]
  BY DEF IInv, Stored, Kinds
<1>7. ToSet(u) = {u[i] : i \in 1 .. Len(u)}
  BY <1>5, UbatchType DEF ToSet
<1>8. ASSUME NEW i \in 1 .. Len(u), NEW s \in ToSet(u[i])
      PROVE  s \in Seqs /\ set[s] = u[i] /\ \E x \in ToSet(u) : s \in ToSet(x)
  <2>1. s \in Seqs
    BY <1>5, UbatchType
  <2>2. \A x \in ToSet(u) : s \in ToSet(x) => x = u[i]
    <3>1. ASSUME NEW x \in ToSet(u), s \in ToSet(x) PROVE x = u[i]
      <4>1. PICK k \in 1 .. Len(u) : x = u[k]
        BY <1>7
      <4>2. ToSet(u[k]) \cap ToSet(u[i]) # {}
        BY <1>8, <3>1, <4>1
      <4> QED  BY <1>5, <4>1, <4>2, UbatchType
    <3> QED  BY <3>1
  <2>3. u[i] \in ToSet(u)
    BY <1>7
  <2> QED  BY <1>3, <1>8, <2>1, <2>2, <2>3
<1>9. ASSUME NEW s \in Seqs, \A i \in 1 .. Len(u) : s \notin ToSet(u[i])
      PROVE  ~\E x \in ToSet(u) : s \in ToSet(x)
  BY <1>7, <1>9
<1>10. Extended(text, text', u)
  <2>1. ASSUME NEW i \in 1 .. Len(u), NEW s \in ToSet(u[i])
        PROVE  text'[s] = Append(text[Owner(u[i])], Owner(u[i]))
    BY <1>4, <1>8
  <2>2. ASSUME NEW s \in Seqs, \A i \in 1 .. Len(u) : s \notin ToSet(u[i]) PROVE text'[s] = text[s]
    BY <1>4, <1>9, <2>2
  <2> QED  BY <2>1, <2>2 DEF Extended
<1>11. text' \in [Seqs -> Seq(Seqs)]
  <2>1. ASSUME NEW s \in Seqs PROVE text'[s] \in Seq(Seqs)
    <3>1. CASE \E i \in 1 .. Len(u) : s \in ToSet(u[i])
      <4>1. PICK i \in 1 .. Len(u) : s \in ToSet(u[i])
        BY <3>1
      <4>2. Owner(u[i]) \in Seqs
        BY <1>5, UbatchType
      <4>3. Append(text[Owner(u[i])], Owner(u[i])) \in Seq(Seqs)
        BY <1>6, <4>2, AppendProperties
      <4>4. text'[s] = Append(text[Owner(u[i])], Owner(u[i]))
        BY <1>10, <4>1 DEF Extended
      <4> QED  BY <4>3, <4>4
    <3>2. CASE \A i \in 1 .. Len(u) : s \notin ToSet(u[i])
      BY <1>6, <1>10, <3>2 DEF Extended
    <3> QED  BY <3>1, <3>2
  <2> QED  BY <1>4, <2>1
<1>12. /\ rows' \in [Cells -> Seq(Seqs)]
       /\ \A t, t2 : Tailed(mem, Seqs) /\ Tells(mem, rows, t) /\ Extended(t, t2, u)
                     => Tells(slot.m, rows', t2)
  BY <1>2, <1>4, <1>5, <1>6, ComputeTells
<1>13. ~wiped /\ ~failed => Tells(mem', rows', text')
  BY <1>4, <1>6, <1>10, <1>12
<1>14. Stored' /\ Kinds' /\ Waiting(mem', todo')
  <2>1. Stored'
    BY <1>4, <1>5, <1>13 DEF Stored
  <2>2. Kinds'
    BY <1>4, <1>11, <1>12 DEF IInv, Kinds
  <2> QED  BY <1>4, <1>5, <2>1, <2>2
<1> QED  BY <1>4, <1>14 DEF IInv, NeverAborts

LEMMA ProcessFailKeeps ==
    ASSUME IInv, ProcessFail
    PROVE  IInv'
<1>1. PICK u : u = Head(todo)
  OBVIOUS
<1>2. PICK slot : slot = FindSlot(mem, u)
  OBVIOUS
<1>3. PICK first : first = {Owner(u[i]) : i \in {k \in DOMAIN u : slot.m.pos[slot.m.tail[Owner(u[k])]] = 0}}
  OBVIOUS
<1>4. /\ todo # <<>> /\ mem' = WithoutSeqs(slot.m, first) /\ todo' = <<>> /\ failed' = TRUE
      /\ text' = [s \in Seqs |-> IF s \in first THEN <<>> ELSE text[s]]
      /\ UNCHANGED <<rows, aborted, wiped>>
  BY <1>1, <1>2, <1>3 DEF ProcessFail
<1>5. /\ u \in Ubatches
      /\ slot.m \in Rested /\ Bounded(slot.m, MaxPos) /\ (~wiped => Tailed(slot.m, Seqs))
  BY <1>1, <1>2, <1>4, NextSlot
<1>6. first \in SUBSET Seqs
  <2>1. \A i \in DOMAIN u : Owner(u[i]) \in Seqs
    BY <1>5, UbatchType
  <2> QED  BY <1>3, <2>1
<1>7. /\ mem' \in Rested /\ (Bounded(slot.m, MaxPos) => Bounded(mem', MaxPos))
      /\ Tailed(slot.m, Seqs) => Tailed(mem', Seqs)
  BY <1>4, <1>5, <1>6, WithoutSeqsKeeps
<1>8. Stored'
  BY <1>4, <1>5, <1>7 DEF Stored
<1>9. Kinds'
  <2>1. text' \in [Seqs -> Seq(Seqs)]
    BY <1>4, EmptySeq DEF IInv, Kinds
  <2> QED  BY <1>4, <2>1 DEF IInv, Kinds
<1>10. Waiting(mem', todo')
  BY <1>4, <1>5, <1>7, NothingWaits
<1> QED  BY <1>4, <1>8, <1>9, <1>10 DEF IInv, NeverAborts

LEMMA ClearKeeps ==
    ASSUME IInv, NEW data \in BOOLEAN, Clear(data)
    PROVE  IInv'
<1>1. rows' \in [Cells -> Seq(Seqs)]
  BY EmptySeq DEF Clear, IInv, Kinds
<1>2. /\ mem' = NoCells /\ text' = [s \in Seqs |-> <<>>] /\ wiped' = FALSE /\ failed' = FALSE
      /\ aborted' = FALSE /\ todo' = <<>>
  BY DEF Clear, Idle, IInv, Kinds
<1> QED  BY <1>1, <1>2, ClearIsStored

LEMMA RestartKeeps ==
    ASSUME IInv, Restart
    PROVE  IInv'
<1>1. rows' \in [Cells -> Seq(Seqs)]
  BY EmptySeq DEF Restart
<1>2. /\ mem' = NoCells /\ text' = [s \in Seqs |-> <<>>] /\ wiped' = FALSE /\ failed' = FALSE
      /\ aborted' = FALSE /\ todo' = <<>>
  BY DEF Restart
<1> QED  BY <1>1, <1>2, ClearIsStored

LEMMA StutterKeeps ==
    ASSUME IInv, UNCHANGED vars
    PROVE  IInv'
<1>1. /\ mem' = mem /\ rows' = rows /\ todo' = todo /\ aborted' = aborted /\ text' = text
      /\ wiped' = wiped /\ failed' = failed
  BY DEF vars
<1> QED  BY <1>1 DEF IInv, Stored, Kinds, Waiting, NeverAborts

LEMMA NextKeeps == IInv /\ [Next]_vars => IInv'
<1>1. SUFFICES ASSUME IInv, [Next]_vars PROVE IInv'
  OBVIOUS
<1>2. CASE \E b \in Batches : Decode(b)
  BY <1>1, <1>2, DecodeKeeps
<1>3. CASE ProcessOk
  BY <1>1, <1>3, ProcessOkKeeps
<1>4. CASE ProcessFail
  BY <1>1, <1>4, ProcessFailKeeps
<1>5. CASE \E s \in Seqs : SeqRm(s)
  BY <1>1, <1>5, SeqRmKeeps
<1>6. CASE SeqRmAll
  BY <1>1, <1>6, SeqRmAllKeeps
<1>7. CASE \E src, dst \in Seqs : SeqCp(src, dst)
  BY <1>1, <1>7, SeqCpKeeps
<1>8. CASE \E s \in Seqs : SeqKeep(s)
  BY <1>1, <1>8, SeqKeepKeeps
<1>9. CASE \E s \in Seqs, d \in Shifts : SeqAdd(s, d)
  BY <1>1, <1>9, MovePosKeeps DEF SeqAdd
<1>10. CASE \E s \in Seqs : SeqDiv(s)
  BY <1>1, <1>10, MovePosKeeps DEF SeqDiv
<1>11. CASE \E data \in BOOLEAN : Clear(data)
  BY <1>1, <1>11, ClearKeeps
<1>12. CASE Restart
  BY <1>1, <1>12, RestartKeeps
<1>13. CASE UNCHANGED vars
  BY <1>1, <1>13, StutterKeeps
<1> QED  BY <1>1, <1>2, <1>3, <1>4, <1>5, <1>6, <1>7, <1>8, <1>9, <1>10, <1>11, <1>12, <1>13 DEF Next

LEMMA Inductive == Spec => []IInv
<1>1. Init => IInv
  BY InitIInv
<1>2. IInv /\ [Next]_vars => IInv'
  BY NextKeeps
<1> QED  BY <1>1, <1>2, PTL DEF Spec
-----------------------------------------------------------------------------
(* All state components have their types: find_slot always returns cells   *)
(* of the memory, positions stay within what decode() has accepted, and no *)
(* call leaves used negative or beyond the number of cells, also after     *)
(* seq_rm(-1) and after failed graphs.                                     *)
THEOREM TypeCorrect == Spec => []TypeOK
<1>1. IInv => TypeOK
  <2>1. SUFFICES ASSUME IInv PROVE TypeOK
    OBVIOUS
  <2>2. /\ mem \in Rested /\ mem \in Metadata /\ Bounded(mem, MaxPos)
        /\ \A c \in Cells : Clean(mem, c)
        /\ mem.head \in Cells /\ todo \in Seq(Ubatches)
    BY <2>1 DEF IInv, Stored, Waiting, Rested
  <2>3. /\ mem.pos \in [Cells -> Int] /\ mem.src \in [Cells -> Cells \cup {None}]
        /\ mem.seqs \in [Cells -> SUBSET Seqs] /\ mem.tail \in [Seqs -> Cells \cup {None}]
    BY <2>2 DEF Metadata
  <2>4. mem.pos \in [Cells -> -1 .. MaxPos]
    <3>1. \A c \in Cells : mem.pos[c] \in -1 .. MaxPos
      BY <2>2, <2>3, RecurrentAssumption DEF Clean, Bounded
    <3> QED  BY <2>3, <3>1
  <2>5. mem.used \in 0 .. Size
    <3>1. {} \in SUBSET Occupied(mem)
      OBVIOUS
    <3> QED  BY <2>2, <3>1, OccupiedLess
  <2>6. todo \in Seq(Seq(Seq(Seqs)))
    <3>1. \A i \in 1 .. Len(todo) : todo[i] \in Seq(Seq(Seqs))
      BY <2>2, UbatchesOf DEF Ubatches
    <3>2. Len(todo) \in Nat /\ todo = [i \in 1 .. Len(todo) |-> todo[i]]
      BY <2>2, LenProperties
    <3> QED  BY <3>1, <3>2, SeqDef
  <2> QED  BY <2>1, <2>2, <2>3, <2>4, <2>5, <2>6 DEF IInv, Kinds, TypeOK
<1> QED  BY <1>1, Inductive, PTL

(* Through sharing, taking a cell of one's own, swaps, failed graphs and   *)
(* removals the tail of a sequence is the one cell that names it, whatever *)
(* the number of cells and sequences, until seq_rm(-1) is called.          *)
THEOREM TailIsTheCell == Spec => []TailsAgree
<1>1. IInv => TailsAgree
  <2>1. SUFFICES ASSUME IInv, ~wiped, NEW s \in Seqs, NEW c \in Cells
                 PROVE  mem.tail[s] = c <=> s \in mem.seqs[c]
    BY DEF TailsAgree
  <2>2. Named(mem) /\ Tailed(mem, Seqs)
    BY <2>1 DEF IInv, Stored, Rested
  <2> QED  BY <2>2, CellsType DEF Named, Tailed
<1> QED  BY <1>1, Inductive, PTL

(* used, from which find_slot decides where it searches, is the number of  *)
(* occupied cells after every call, and an empty cell has no position.     *)
THEOREM UsedCells == Spec => []UsedIsCount
<1>1. IInv => UsedIsCount
  <2>1. SUFFICES ASSUME IInv PROVE UsedIsCount
    OBVIOUS
  <2>2. mem.used = Cardinality(Occupied(mem)) /\ \A c \in Cells : Clean(mem, c)
    BY <2>1 DEF IInv, Stored, Rested
  <2> QED  BY <2>2 DEF UsedIsCount, Occupied, Clean
<1> QED  BY <1>1, Inductive, PTL

(* The row a sequence will be continued from holds its tokens, all of them *)
(* and in order, and the row of an empty cell is zero: the copies that a   *)
(* graph makes undo the renamings of find_slot, for every ubatch.          *)
THEOREM RowsHoldTheTokens == Spec => []StateIsText
<1>1. IInv => StateIsText
  <2>1. SUFFICES ASSUME IInv, ~wiped, ~failed
                 PROVE  /\ \A s \in Seqs : text[s] = IF mem.tail[s] = None THEN <<>> ELSE RowOf(mem.tail[s])
                        /\ \A c \in Cells : mem.seqs[c] = {} => RowOf(c) = <<>>
    BY DEF StateIsText
  <2>2. Tells(mem, rows, text)
    BY <2>1 DEF IInv, Stored
  <2> QED  BY <2>2 DEF Tells, Row, RowOf
<1> QED  BY <1>1, Inductive, PTL

(* The assertions of find_slot hold until seq_rm(-1) has been called: an   *)
(* empty cell is there whenever one is needed, because there are as many   *)
(* cells as sequences and each occupied cell keeps a sequence that lacks   *)
(* none; and so is a row to be zeroed.                                     *)
THEOREM NoAssertionFails == Spec => []NeverAborts
<1>1. IInv => NeverAborts
  BY DEF IInv
<1> QED  BY <1>1, Inductive, PTL
=============================================================================
