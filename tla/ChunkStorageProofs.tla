------------------------ MODULE ChunkStorageProofs ------------------------
(***************************************************************************)
(* The safety of the two tiers of the chunk storage, for any keys, limits  *)
(* and sizes, with kills, power failures and restarts.  Inv says that each *)
(* list names what its map holds (TierL2, TierL3), what the file holds     *)
(* (Written, Same), and what the loop that runs has found out before and   *)
(* relies on (Control): that put() still has its key in no tier when it    *)
(* inserts, though it may have evicted any number of chunks meanwhile.     *)
(***************************************************************************)
EXTENDS ChunkStorage, SequenceLemmas, FiniteSetTheorems, TLAPS

(* The loops that may run: evict_one_l2_to_l3, its part that has chosen a  *)
(* chunk, put() once it has made sure that its key is in no tier, and all  *)
(* of put().                                                               *)
Evicting == pc \in {"scan2", "write", "scan3", "append"}
Writing  == pc \in {"write", "scan3", "append"}
Fitting  == pc = "fit" \/ (Evicting /\ caller = "fit")
Putting  == pc \in {"lookup", "fit"} \/ (Evicting /\ caller \in {"lookup", "fit"})

(* What the running loop relies on.                                        *)
Control ==
    /\ Putting => cur \in Chunk
    /\ Fitting => cur.key \notin InL2 \cup InL3
    /\ pc = "scan2" => l2lru # <<>>
    /\ pc = "scan3" => l3lru # <<>>
    /\ Writing => victim \in InL2

(* Each chunk of L2 is under its key and has one node in the list.         *)
TierL2 ==
    \A k \in Keys :
        /\ Once(l2lru, k)
        /\ Holds(l2lru, k) <=> k \in InL2
        /\ k \in InL2 => l2[k].key = k

(* Each chunk of L3 has a record below the end of the file, where no other *)
(* is written over it, and a node that its index names.                    *)
TierL3 ==
    \A k \in Keys :
        /\ Once(l3lru, Live(k))
        /\ k \in InL3 => /\ Holds(l3lru, Live(k))
                         /\ l3[k] < next
                         /\ disk[l3[k]] \in Record
                         /\ disk[l3[k]].form = "v3" => disk[l3[k]].key = k

(* A record that can be read has data; a slot that a power failure may     *)
(* still take was written.                                                 *)
Written ==
    \A n \in Slot :
        /\ disk[n].form = "v3" => disk[n].data \in Data
        /\ n \notin durable => disk[n] \in Record

(* Without an old file, the copy a key has is that of its last put().      *)
Same ==
    ~KeepFile =>
        /\ \A k \in InL2 : l2[k].data = latest[k]
        /\ \A k \in InL3 : disk[l3[k]].form = "v3" => disk[l3[k]].data = latest[k]

Inv == TypeOK /\ Exclusive /\ Control /\ TierL2 /\ TierL3 /\ Written /\ Same
-----------------------------------------------------------------------------
(* The helpers.                                                            *)
LEMMA Arithmetic ==
    ASSUME NEW a \in Int, NEW b \in Int
    PROVE  Plus(a, b) \in 0 .. Wrap - 1 /\ Minus(a, b) \in 0 .. Wrap - 1
BY StorageAssumption DEF Plus, Minus

(* The records of the file.                                                *)
LEMMA Sizing ==
    /\ Slots \in Nat \ {0} /\ Slot = 1 .. Slots
    /\ FileLimit \in Nat /\ InitSize \in 1 .. FileLimit /\ RecordSize = 10
    /\ 10 * Slots <= FileLimit /\ FileLimit < 10 * (Slots + 1)
    /\ \A size \in 0 .. FileLimit : Whole(size) \in 0 .. Slots /\ 10 * Whole(size) <= size
BY StorageAssumption DEF Slots, Slot, Whole, RecordSize

LEMMA Sized == \A s \in Sizes : s \in Int /\ s > 0
BY StorageAssumption

LEMMA Chunks ==
    /\ NoChunk \notin Chunk
    /\ \A c \in Chunk : /\ c.key \in Keys /\ c.data \in Data /\ c.size \in Sizes
                        /\ c = [key |-> c.key, data |-> c.data, size |-> c.size]
BY StorageAssumption DEF Chunk, NoChunk

LEMMA Records ==
    /\ Blank \notin Record /\ Blank.form = "blank"
    /\ \A r \in Record : /\ r.key \in Keys /\ r.data \in Data \cup {None} /\ r.size \in Sizes
                         /\ r.form \in {"v3", "v2", "torn"}
BY DEF Record, Blank

LEMMA HeldErase ==
    ASSUME NEW T, NEW q \in Seq(T), NEW e, NEW x
    PROVE  /\ Erase(q, e) \in Seq(T)
           /\ Once(q, x) => Once(Erase(q, e), x)
           /\ Once(q, e) => (Holds(Erase(q, e), x) <=> Holds(q, x) /\ x # e)
<1>0. DOMAIN q = 1 .. Len(q)
  BY LenProperties
<1>1. CASE Holds(q, e)
  <2>1. PICK i \in 1 .. Len(q) : q[i] = e /\ Erase(q, e) = RemoveAt(q, i)
    BY <1>0, <1>1 DEF Erase, Holds
  <2>2. /\ Erase(q, e) \in Seq(T)
        /\ Holds(q, x) <=> Holds(Erase(q, e), x) \/ x = e
        /\ Once(q, x) => Once(Erase(q, e), x) /\ (x = e => ~Holds(Erase(q, e), x))
    BY <2>1, HeldRemoveAt
  <2> QED  BY <2>2
<1>2. CASE ~Holds(q, e)
  <2>1. Erase(q, e) = q
    BY <1>0, <1>2 DEF Erase, Holds
  <2> QED  BY <1>2, <2>1
<1> QED  BY <1>1, <1>2

(* The entry is moved to the front, or put there.                          *)
LEMMA HeldFirst ==
    ASSUME NEW T, NEW q \in Seq(T), NEW e \in T, NEW x, Once(q, e)
    PROVE  /\ <<e>> \o Erase(q, e) \in Seq(T) /\ <<e>> \o Erase(q, e) # <<>>
           /\ Holds(<<e>> \o Erase(q, e), x) <=> Holds(q, x) \/ x = e
           /\ Once(q, x) => Once(<<e>> \o Erase(q, e), x)
<1>1. PICK w : w = Erase(q, e)
  OBVIOUS
<1>2. /\ w \in Seq(T)
      /\ Once(q, x) => Once(w, x)
      /\ Holds(w, x) <=> Holds(q, x) /\ x # e
  BY <1>1, HeldErase
<1>3. /\ <<e>> \o w \in Seq(T) /\ <<e>> \o w # <<>>
      /\ Holds(<<e>> \o w, x) <=> Holds(w, x) \/ x = e
      /\ Once(w, x) /\ (x = e => ~Holds(w, x)) => Once(<<e>> \o w, x)
  BY <1>2, HeldCons
<1> QED  BY <1>1, <1>2, <1>3

LEMMA Nodes == \A k \in Keys : Live(k) \in Node /\ \A j : Live(j) = Live(k) => j = k
BY DEF Live, Node

LEMMA HeldOrphan ==
    ASSUME NEW q \in Seq(Node), NEW k \in Keys, NEW j \in Keys
    PROVE  /\ Orphan(q, k) \in Seq(Node)
           /\ Holds(Orphan(q, k), Live(j)) <=> Holds(q, Live(j)) /\ j # k
           /\ Once(q, Live(j)) => Once(Orphan(q, k), Live(j))
<1>1. PICK w : w = Orphan(q, k)
  OBVIOUS
<1>2. PICK n : n = Len(q)
  OBVIOUS
<1>3. n \in Nat /\ DOMAIN q = 1 .. n /\ \A i \in 1 .. n : q[i] \in Node
  BY <1>2, LenProperties, ElementOfSeq
<1>4. w = [i \in 1 .. n |-> IF q[i] = Live(k) THEN [key |-> k, live |-> FALSE] ELSE q[i]]
  BY <1>1, <1>3 DEF Orphan
<1>5. \A i \in 1 .. n : w[i] \in Node
  BY <1>3, <1>4 DEF Node
<1>6. w \in Seq(Node) /\ Len(w) = n
  <2>1. w \in [1 .. n -> Node]
    BY <1>4, <1>5
  <2> QED  BY <1>3, <2>1
<1>7. ASSUME NEW i \in 1 .. n PROVE w[i] = Live(j) <=> q[i] = Live(j) /\ j # k
  <2>1. w[i] = IF q[i] = Live(k) THEN [key |-> k, live |-> FALSE] ELSE q[i]
    BY <1>4
  <2>2. [key |-> k, live |-> FALSE] # Live(j) /\ (j = k <=> Live(j) = Live(k))
    BY DEF Live
  <2> QED  BY <2>1, <2>2
<1>8. Holds(w, Live(j)) <=> Holds(q, Live(j)) /\ j # k
  BY <1>2, <1>6, <1>7 DEF Holds
<1>9. Once(q, Live(j)) => Once(w, Live(j))
  BY <1>2, <1>6, <1>7 DEF Once
<1> QED  BY <1>1, <1>6, <1>8, <1>9
-----------------------------------------------------------------------------
(* What a step leaves alone.                                               *)
LEMMA FrameL2 == TierL2 /\ UNCHANGED <<l2, l2lru>> => TierL2'
BY DEF TierL2, InL2

LEMMA FrameL3 == TierL3 /\ UNCHANGED <<l3, l3lru, disk, next>> => TierL3'
BY DEF TierL3, InL3

LEMMA FrameFile == Written /\ UNCHANGED disk /\ durable' \in {durable, Slot} => Written'
BY DEF Written

LEMMA FrameSame == Same /\ UNCHANGED <<l2, l3, disk, latest>> => Same'
BY DEF Same, InL2, InL3

LEMMA FrameKeys ==
    /\ UNCHANGED l2 => UNCHANGED InL2
    /\ UNCHANGED l3 => UNCHANGED InL3
BY DEF InL2, InL3

(* The list and the map after the node of k was moved or put first.        *)
LEMMA FirstL2 ==
    ASSUME TypeOK, NEW k \in Keys, TierL2, l2lru' = <<k>> \o Erase(l2lru, k),
           InL2' = InL2 \cup {k}, \A j \in InL2' : l2'[j].key = j
    PROVE  TierL2' /\ l2lru' \in Seq(Keys) /\ l2lru' # <<>>
<1>1. ASSUME NEW j \in Keys
      PROVE  /\ Once(l2lru', j)
             /\ Holds(l2lru', j) <=> j \in InL2'
             /\ l2lru' \in Seq(Keys) /\ l2lru' # <<>>
  <2>1. l2lru \in Seq(Keys) /\ Once(l2lru, k) /\ Once(l2lru, j) /\ (Holds(l2lru, j) <=> j \in InL2)
    BY DEF TypeOK, TierL2
  <2>2. /\ <<k>> \o Erase(l2lru, k) \in Seq(Keys) /\ <<k>> \o Erase(l2lru, k) # <<>>
        /\ Holds(<<k>> \o Erase(l2lru, k), j) <=> Holds(l2lru, j) \/ j = k
        /\ Once(l2lru, j) => Once(<<k>> \o Erase(l2lru, k), j)
    BY <2>1, HeldFirst
  <2> QED  BY <2>1, <2>2
<1>2. ASSUME NEW j \in Keys PROVE j \in InL2' => l2'[j].key = j
  OBVIOUS
<1> QED  BY <1>1, <1>2 DEF TierL2

(* A key that is not in the list.                                          *)
LEMMA EraseNothing == ASSUME NEW q, NEW T, q \in Seq(T), NEW e, ~Holds(q, e) PROVE Erase(q, e) = q
<1>1. DOMAIN q = 1 .. Len(q)
  BY LenProperties
<1> QED  BY <1>1 DEF Erase, Holds
-----------------------------------------------------------------------------
LEMMA GetFromL2Keeps ==
    ASSUME Inv, NEW k \in Keys, GetFromL2(k)
    PROVE  Inv'
<1> USE DEF Inv
<1>1. UNCHANGED <<InL2, InL3>>
  BY FrameKeys DEF GetFromL2, index3
<1>2. TierL2' /\ l2lru' \in Seq(Keys) /\ l2lru' # <<>>
  <2>1. InL2' = InL2 \cup {k}
    BY <1>1 DEF GetFromL2
  <2>2. \A j \in InL2' : l2'[j].key = j
    BY <1>1 DEF GetFromL2, TierL2, InL2
  <2> QED  BY <2>1, <2>2, FirstL2 DEF GetFromL2
<1>3. TypeOK'
  <2>1. freq' \in [Keys -> 0 .. MaxFreq]
    BY StorageAssumption DEF GetFromL2, Accessed, TypeOK
  <2> QED  BY <1>2, <2>1 DEF GetFromL2, TypeOK, index3, file, control
<1>4. Control'
  BY <1>1 DEF GetFromL2, control, Control, Putting, Fitting, Evicting, Writing
<1>5. Exclusive' /\ TierL3' /\ Written' /\ Same'
  BY <1>1, FrameL3, FrameFile, FrameSame DEF GetFromL2, index3, file, Exclusive
<1> QED  BY <1>2, <1>3, <1>4, <1>5

LEMMA PromoteKeeps ==
    ASSUME Inv, NEW k \in Keys, Promote(k)
    PROVE  Inv'
<1> USE DEF Inv
<1>1. PICK r : r = disk[l3[k]]
  OBVIOUS
<1>2. /\ k \in InL3 /\ k \notin InL2 /\ pc = "idle"
      /\ l3[k] \in Slot /\ r \in Record /\ r.form = "v3" /\ r.key = k /\ r.data \in Data
  <2>1. l3[k] \in Slot
    BY DEF Promote, InL3, TypeOK
  <2>2. r \in Record
    BY <1>1, <2>1, Records DEF Promote, Readable, TypeOK
  <2> QED  BY <1>1, <2>1, <2>2 DEF Promote, Readable, TierL3, Written
<1>3. PICK c : c = [key |-> r.key, data |-> r.data, size |-> r.size]
  OBVIOUS
<1>4. c \in Chunk /\ c # NoChunk /\ c.key = k /\ c.data = r.data
  BY <1>2, <1>3, Chunks, Records DEF Chunk
<1>5. l2' = [l2 EXCEPT ![k] = c] /\ l3' = [l3 EXCEPT ![k] = NoOffset]
  BY <1>1, <1>3 DEF Promote
<1>6. InL2' = InL2 \cup {k} /\ InL3' = InL3 \ {k}
  BY <1>4, <1>5 DEF InL2, InL3, TypeOK
<1>7. TierL2' /\ l2lru' \in Seq(Keys) /\ l2lru' # <<>>
  <2>1. l2lru' = <<k>> \o Erase(l2lru, k)
    <3>1. ~Holds(l2lru, k) /\ l2lru \in Seq(Keys)
      BY <1>2 DEF TierL2, TypeOK
    <3> QED  BY <3>1, EraseNothing DEF Promote
  <2>2. \A j \in InL2' : l2'[j].key = j
    BY <1>4, <1>5, <1>6 DEF TierL2, InL2, TypeOK
  <2> QED  BY <1>6, <2>1, <2>2, FirstL2
<1>8. TierL3' /\ l3lru' \in Seq(Node)
  <2>1. l3lru' = Erase(l3lru, Live(k)) /\ l3lru \in Seq(Node)
    BY DEF Promote, TypeOK
  <2>2. ASSUME NEW j \in Keys
        PROVE  /\ Once(l3lru', Live(j))
               /\ j \in InL3' => /\ Holds(l3lru', Live(j))
                                 /\ l3'[j] < next'
                                 /\ disk'[l3'[j]] \in Record
                                 /\ disk'[l3'[j]].form = "v3" => disk'[l3'[j]].key = j
    <3>1. Once(l3lru, Live(j)) /\ Once(l3lru, Live(k))
      BY DEF TierL3
    <3>2. /\ Once(l3lru', Live(j))
          /\ Holds(l3lru', Live(j)) <=> Holds(l3lru, Live(j)) /\ Live(j) # Live(k)
      BY <2>1, <3>1, HeldErase
    <3>3. j \in InL3' => /\ j \in InL3 /\ j # k /\ Live(j) # Live(k)
                         /\ l3'[j] = l3[j] /\ UNCHANGED <<disk, next>>
      BY <1>5, <1>6, Nodes DEF Promote, file, TypeOK
    <3> QED  BY <3>2, <3>3 DEF TierL3
  <2>3. l3lru' \in Seq(Node)
    BY <2>1, HeldErase
  <2> QED  BY <2>2, <2>3 DEF TierL3
<1>9. TypeOK'
  <2>1. freq' \in [Keys -> 0 .. MaxFreq]
    BY StorageAssumption DEF Promote, Accessed, TypeOK
  <2>2. l2usage' \in 0 .. Wrap - 1 /\ l3usage' \in 0 .. Wrap - 1
    <3>1. r.size \in Int /\ l2usage \in Int /\ l3usage \in Int
      <4>1. r.size \in Sizes
        BY <1>2, Records
      <4>2. l2usage \in Int /\ l3usage \in Int
        BY DEF TypeOK
      <4> QED  BY <4>1, <4>2, Sized
    <3>2. l2usage' = Plus(l2usage, r.size) /\ l3usage' = Minus(l3usage, r.size)
      BY <1>1 DEF Promote
    <3> QED  BY <3>1, <3>2, Arithmetic
  <2>3. l2' \in [Keys -> Chunk \cup {NoChunk}] /\ l3' \in [Keys -> {NoOffset} \cup Slot]
    BY <1>4, <1>5 DEF TypeOK
  <2> QED  BY <1>7, <1>8, <2>1, <2>2, <2>3 DEF Promote, TypeOK, file, control
<1>10. Control'
  BY <1>2 DEF Promote, control, Control, Putting, Fitting, Evicting, Writing
<1>11. Exclusive' /\ Written'
  BY <1>6, FrameFile DEF Promote, file, Exclusive
<1>12. Same'
  BY <1>1, <1>2, <1>4, <1>5, <1>6 DEF Same, Promote, file, TypeOK, InL2, InL3
<1> QED  BY <1>7, <1>8, <1>9, <1>10, <1>11, <1>12

LEMMA GetTooFullKeeps ==
    ASSUME Inv, NEW k \in Keys, GetTooFull(k)
    PROVE  Inv'
<1> USE DEF Inv
<1>1. UNCHANGED <<InL2, InL3>>
  BY FrameKeys DEF GetTooFull, memory
<1>2. TierL3' /\ l3lru' \in Seq(Node)
  <2>1. Live(k) \in Node /\ Once(l3lru, Live(k)) /\ l3lru \in Seq(Node)
    BY Nodes DEF TierL3, TypeOK
  <2>2. ASSUME NEW j \in Keys
        PROVE  /\ l3lru' \in Seq(Node)
               /\ Once(l3lru', Live(j))
               /\ Holds(l3lru, Live(j)) => Holds(l3lru', Live(j))
    <3>1. Once(l3lru, Live(j))
      BY DEF TierL3
    <3>2. CASE l3lru' = <<Live(k)>> \o Erase(l3lru, Live(k))
      BY <2>1, <3>1, <3>2, HeldFirst
    <3>3. CASE l3lru' = l3lru
      BY <2>1, <3>1, <3>3
    <3> QED  BY <3>2, <3>3 DEF GetTooFull
  <2> QED  BY <1>1, <2>2 DEF TierL3, GetTooFull, file
<1>3. TypeOK'
  <2>1. freq' \in [Keys -> 0 .. MaxFreq]
    BY StorageAssumption DEF GetTooFull, Accessed, TypeOK
  <2> QED  BY <1>2, <2>1 DEF GetTooFull, TypeOK, memory, file, control
<1>4. Control'
  BY <1>1 DEF GetTooFull, memory, control, Control, Putting, Fitting, Evicting, Writing
<1>5. Exclusive' /\ TierL2' /\ Written' /\ Same'
  BY <1>1, FrameL2, FrameFile, FrameSame DEF GetTooFull, memory, file, Exclusive
<1> QED  BY <1>2, <1>3, <1>4, <1>5

LEMMA GetUnreadableKeeps ==
    ASSUME Inv, NEW k \in Keys, GetUnreadable(k)
    PROVE  Inv'
<1> USE DEF Inv, GetUnreadable, memory, index3, file, control
<1>1. UNCHANGED <<InL2, InL3>>
  BY FrameKeys
<1>2. TypeOK'
  <2>1. freq' \in [Keys -> 0 .. MaxFreq]
    BY StorageAssumption DEF Accessed, TypeOK
  <2> QED  BY <2>1 DEF TypeOK
<1>3. Control'
  BY <1>1 DEF Control, Putting, Fitting, Evicting, Writing
<1>4. Exclusive' /\ TierL2' /\ TierL3' /\ Written' /\ Same'
  BY <1>1, FrameL2, FrameL3, FrameFile, FrameSame DEF Exclusive
<1> QED  BY <1>2, <1>3, <1>4

LEMMA PutKeeps ==
    ASSUME Inv, NEW k \in Keys, NEW d \in Data, NEW s \in Sizes, Put(k, d, s)
    PROVE  Inv'
<1> USE DEF Inv, Put, memory, index3, file
<1>1. cur' \in Chunk
  BY DEF Chunk
<1>2. TypeOK'
  BY <1>1 DEF TypeOK
<1>3. Control'
  BY <1>1 DEF Control, Putting, Fitting, Evicting, Writing
<1>4. Exclusive' /\ TierL2' /\ TierL3' /\ Written' /\ Same'
  BY FrameKeys, FrameL2, FrameL3, FrameFile, FrameSame DEF Exclusive
<1> QED  BY <1>2, <1>3, <1>4

LEMMA EvictL2Keeps ==
    ASSUME Inv, NEW c \in {"lookup", "fit"}, pc = c, EvictL2(c)
    PROVE  Inv'
<1> USE DEF Inv, EvictL2, memory, index3, file
<1>1. left' \in 0 .. ScanDepth
  <2>1. Len(l2lru) \in Nat /\ ScanDepth \in Nat
    BY StorageAssumption, LenProperties DEF TypeOK
  <2> QED  BY <2>1 DEF Least
<1>2. TypeOK'
  BY <1>1 DEF TypeOK
<1>3. Control'
  BY FrameKeys DEF Control, Putting, Fitting, Evicting, Writing
<1>4. Exclusive' /\ TierL2' /\ TierL3' /\ Written' /\ Same'
  BY FrameKeys, FrameL2, FrameL3, FrameFile, FrameSame DEF Exclusive
<1> QED  BY <1>2, <1>3, <1>4

LEMMA IdleKeeps ==
    ASSUME Inv, SafeUnmount \/ Shutdown \/ Refuse
    PROVE  Inv'
<1> USE DEF Inv, SafeUnmount, Shutdown, Refuse, Return, memory, index3, file, control
<1>1. TypeOK'
  BY DEF TypeOK
<1>2. Control'
  BY FrameKeys DEF Control, Putting, Fitting, Evicting, Writing
<1>3. Exclusive' /\ TierL2' /\ TierL3' /\ Written' /\ Same'
  BY FrameKeys, FrameL2, FrameL3, FrameFile, FrameSame DEF Exclusive
<1> QED  BY <1>1, <1>2, <1>3

LEMMA OverwriteKeeps ==
    ASSUME Inv, Overwrite
    PROVE  Inv'
<1> USE DEF Inv, Return, index3, file
<1>1. cur \in Chunk /\ cur.key \in InL2 /\ cur.key \in Keys /\ cur # NoChunk /\ cur.data \in Data
  BY Chunks DEF Overwrite, Control, Putting
<1>2. PICK k \in Keys : k = cur.key
  BY <1>1
<1>3. InL2' = InL2 /\ InL3' = InL3
  BY <1>1, FrameKeys DEF Overwrite, InL2, TypeOK
<1>4. TierL2' /\ l2lru' \in Seq(Keys)
  <2>1. InL2' = InL2 \cup {k} /\ l2lru' = <<k>> \o Erase(l2lru, k)
    BY <1>1, <1>2, <1>3 DEF Overwrite
  <2>2. \A j \in InL2' : l2'[j].key = j
    BY <1>1, <1>2, <1>3 DEF Overwrite, TierL2, InL2, TypeOK
  <2> QED  BY <2>1, <2>2, FirstL2
<1>5. TypeOK'
  BY <1>1, <1>4 DEF Overwrite, TypeOK
<1>6. Control'
  BY DEF Overwrite, Control, Putting, Fitting, Evicting, Writing
<1>7. Exclusive' /\ TierL3' /\ Written'
  BY <1>3, FrameL3, FrameFile DEF Overwrite, Exclusive
<1>8. Same'
  BY <1>1, <1>3 DEF Overwrite, Same, Exclusive, TypeOK, InL2, InL3
<1> QED  BY <1>4, <1>5, <1>6, <1>7, <1>8

(* An entry of L3 goes, with the node it names.                            *)
LEMMA EraseFromL3 ==
    ASSUME TypeOK, TierL3, NEW k \in Keys, l3' = [l3 EXCEPT ![k] = NoOffset],
           l3lru' = Erase(l3lru, Live(k)), UNCHANGED <<disk, next>>
    PROVE  TierL3' /\ l3lru' \in Seq(Node) /\ InL3' = InL3 \ {k} /\ l3' \in [Keys -> {NoOffset} \cup Slot]
<1>1. InL3' = InL3 \ {k} /\ \A j \in Keys : j # k => l3'[j] = l3[j]
  BY DEF InL3, TypeOK
<1>2. ASSUME NEW j \in Keys
      PROVE  /\ l3lru' \in Seq(Node)
             /\ Once(l3lru', Live(j))
             /\ j \in InL3' => Holds(l3lru', Live(j))
  <2>1. Once(l3lru, Live(j)) /\ Once(l3lru, Live(k)) /\ l3lru \in Seq(Node)
    BY DEF TierL3, TypeOK
  <2>2. /\ l3lru' \in Seq(Node) /\ Once(l3lru', Live(j))
        /\ Holds(l3lru', Live(j)) <=> Holds(l3lru, Live(j)) /\ Live(j) # Live(k)
    BY <2>1, HeldErase
  <2>3. j \in InL3' => j \in InL3 /\ Live(j) # Live(k)
    BY <1>1, Nodes
  <2> QED  BY <2>2, <2>3 DEF TierL3
<1>3. TierL3'
  BY <1>1, <1>2 DEF TierL3
<1> QED  BY <1>1, <1>2, <1>3 DEF TypeOK

LEMMA EraseL3Keeps ==
    ASSUME Inv, EraseL3
    PROVE  Inv'
<1> USE DEF Inv, memory, file, control
<1>1. cur \in Chunk /\ cur.key \in Keys /\ cur.key \notin InL2 /\ cur.size \in Int
  BY Chunks, Sized DEF EraseL3, Control, Putting
<1>2. /\ TierL3' /\ l3lru' \in Seq(Node) /\ InL3' = InL3 \ {cur.key}
      /\ l3' \in [Keys -> {NoOffset} \cup Slot] /\ l3usage' \in 0 .. Wrap - 1
      /\ \A j \in InL3' : l3'[j] = l3[j]
  <2>1. CASE cur.key \in InL3
    <3>1. /\ l3' = [l3 EXCEPT ![cur.key] = NoOffset] /\ l3lru' = Erase(l3lru, Live(cur.key))
          /\ UNCHANGED <<disk, next>> /\ l3usage' = Minus(l3usage, cur.size)
      BY <2>1 DEF EraseL3
    <3>2. l3usage \in Int
      BY DEF TypeOK
    <3>3. l3usage' \in 0 .. Wrap - 1
      BY <1>1, <3>1, <3>2, Arithmetic
    <3>4. TierL3' /\ l3lru' \in Seq(Node) /\ InL3' = InL3 \ {cur.key} /\ l3' \in [Keys -> {NoOffset} \cup Slot]
      BY <1>1, <3>1, EraseFromL3
    <3>5. \A j \in InL3' : l3'[j] = l3[j]
      BY <3>1, <3>4 DEF TypeOK, InL3
    <3> QED  BY <3>3, <3>4, <3>5
  <2>2. CASE cur.key \notin InL3
    BY <2>2, FrameL3, FrameKeys DEF EraseL3, index3, TypeOK
  <2> QED  BY <2>1, <2>2
<1>3. TypeOK'
  BY <1>2 DEF EraseL3, TypeOK
<1>4. InL2' = InL2 /\ TierL2' /\ Written'
  BY FrameKeys, FrameL2, FrameFile DEF EraseL3
<1>5. Control'
  BY <1>1, <1>2, <1>4 DEF EraseL3, Control, Putting, Fitting, Evicting, Writing
<1>6. Exclusive'
  BY <1>2, <1>4 DEF Exclusive
<1>7. Same'
  BY <1>2, <1>4 DEF EraseL3, Same
<1> QED  BY <1>2, <1>3, <1>4, <1>5, <1>6, <1>7

LEMMA InsertKeeps ==
    ASSUME Inv, Insert
    PROVE  Inv'
<1> USE DEF Inv, Return, index3, file
<1>1. /\ cur \in Chunk /\ cur.key \in Keys /\ cur # NoChunk /\ cur.data \in Data /\ cur.size \in Int
      /\ cur.key \notin InL2 \cup InL3
  <2>1. cur \in Chunk /\ cur.key \notin InL2 \cup InL3
    BY DEF Insert, Control, Putting, Fitting
  <2> QED  BY <2>1, Chunks, Sized
<1>2. PICK k \in Keys : k = cur.key
  BY <1>1
<1>3. InL2' = InL2 \cup {k} /\ InL3' = InL3
  BY <1>1, <1>2, FrameKeys DEF Insert, InL2, TypeOK
<1>4. TierL2' /\ l2lru' \in Seq(Keys)
  <2>1. l2lru' = <<k>> \o Erase(l2lru, k)
    <3>1. ~Holds(l2lru, k) /\ l2lru \in Seq(Keys)
      BY <1>1, <1>2 DEF TierL2, TypeOK
    <3> QED  BY <1>2, <3>1, EraseNothing DEF Insert
  <2>2. \A j \in InL2' : l2'[j].key = j
    BY <1>1, <1>2, <1>3 DEF Insert, TierL2, InL2, TypeOK
  <2> QED  BY <1>3, <2>1, <2>2, FirstL2
<1>5. TypeOK'
  <2>1. l2usage' \in 0 .. Wrap - 1
    <3>1. l2usage \in Int
      BY DEF TypeOK
    <3> QED  BY <1>1, <3>1, Arithmetic DEF Insert
  <2> QED  BY <1>1, <1>4, <2>1 DEF Insert, TypeOK
<1>6. Control'
  BY DEF Insert, Control, Putting, Fitting, Evicting, Writing
<1>7. Exclusive' /\ TierL3' /\ Written'
  BY <1>1, <1>2, <1>3, FrameL3, FrameFile DEF Insert, Exclusive
<1>8. Same'
  BY <1>1, <1>2, <1>3 DEF Insert, Same, TypeOK, InL2, InL3
<1> QED  BY <1>4, <1>5, <1>6, <1>7, <1>8
-----------------------------------------------------------------------------
LEMMA SpareL2Keeps ==
    ASSUME Inv, SpareL2
    PROVE  Inv'
<1> USE DEF Inv, index3, file
<1>1. PICK k : k = Last(l2lru)
  OBVIOUS
<1>2. l2lru \in Seq(Keys) /\ l2lru # <<>> /\ UNCHANGED <<InL2, InL3>>
  BY FrameKeys DEF SpareL2, TypeOK, Control
<1>3. k \in Keys /\ Len(l2lru) \in Nat
  BY <1>1, <1>2, HeldFront
<1>4. TierL2' /\ l2lru' \in Seq(Keys) /\ l2lru' # <<>>
  <2>1. ASSUME NEW j \in Keys
        PROVE  /\ l2lru' \in Seq(Keys) /\ l2lru' # <<>>
               /\ Once(l2lru', j)
               /\ Holds(l2lru', j) <=> Holds(l2lru, j)
    <3>1. PICK w : w = Front(l2lru)
      OBVIOUS
    <3>2. /\ w \in Seq(Keys)
          /\ Holds(l2lru, j) <=> Holds(w, j) \/ j = k
          /\ Once(l2lru, j) => Once(w, j) /\ (j = k => ~Holds(w, j))
      BY <1>1, <1>2, <3>1, HeldFront
    <3>3. Once(l2lru, j)
      BY DEF TierL2
    <3>4. /\ <<k>> \o w \in Seq(Keys) /\ <<k>> \o w # <<>>
          /\ Holds(<<k>> \o w, j) <=> Holds(w, j) \/ j = k
          /\ Once(w, j) /\ (j = k => ~Holds(w, j)) => Once(<<k>> \o w, j)
      BY <1>3, <3>2, HeldCons
    <3>5. l2lru' = <<k>> \o w
      BY <1>1, <3>1 DEF SpareL2
    <3> QED  BY <3>2, <3>3, <3>4, <3>5
  <2>2. \E j : j \in Keys
    BY <1>3
  <2> QED  BY <1>2, <2>1, <2>2 DEF TierL2, SpareL2
<1>5. TypeOK'
  <2>1. freq' \in [Keys -> 0 .. MaxFreq]
    <3>1. freq \in [Keys -> 0 .. MaxFreq] /\ freq' = [freq EXCEPT ![k] = freq[k] \div 2]
      BY <1>1 DEF SpareL2, Halve, TypeOK
    <3>2. freq[k] \in 0 .. MaxFreq /\ MaxFreq \in Nat
      BY <1>3, <3>1, StorageAssumption
    <3>3. freq[k] \div 2 \in 0 .. MaxFreq
      BY <3>2
    <3> QED  BY <3>1, <3>3
  <2>2. left' \in 0 .. ScanDepth
    BY StorageAssumption DEF SpareL2, TypeOK
  <2> QED  BY <1>4, <2>1, <2>2 DEF SpareL2, TypeOK
<1>6. Control'
  BY <1>2, <1>4 DEF SpareL2, Control, Putting, Fitting, Evicting, Writing
<1>7. Exclusive' /\ TierL3' /\ Written' /\ Same'
  BY <1>2, FrameL3, FrameFile, FrameSame DEF SpareL2, Exclusive
<1> QED  BY <1>4, <1>5, <1>6, <1>7

(* The list has no node without a chunk.                                   *)
LEMMA VictimChosen ==
    ASSUME Inv, ChooseVictim
    PROVE  /\ pc = "scan2" /\ pc' = "write" /\ left' = 0
           /\ Last(l2lru) \in InL2 /\ victim' = Last(l2lru)
           /\ UNCHANGED <<memory, index3, file, freq, indexed, cur, caller, latest>>
<1>1. l2lru \in Seq(Keys) /\ l2lru # <<>> /\ pc = "scan2"
  BY DEF ChooseVictim, Inv, TypeOK, Control
<1>2. Last(l2lru) \in Keys /\ Holds(l2lru, Last(l2lru))
  BY <1>1, HeldFront
<1>3. Last(l2lru) \in InL2
  BY <1>2 DEF Inv, TierL2
<1> QED  BY <1>1, <1>3 DEF ChooseVictim, memory

LEMMA ChooseVictimKeeps ==
    ASSUME Inv, ChooseVictim
    PROVE  Inv'
<1> USE DEF Inv, memory, index3, file
<1>1. /\ pc = "scan2" /\ pc' = "write" /\ left' = 0
      /\ Last(l2lru) \in InL2 /\ victim' = Last(l2lru)
      /\ UNCHANGED <<memory, index3, file, freq, indexed, cur, caller, latest>>
  BY VictimChosen
<1>2. Last(l2lru) \in Keys /\ left' \in 0 .. ScanDepth
  BY <1>1, StorageAssumption DEF InL2
<1>3. TypeOK'
  BY <1>1, <1>2 DEF TypeOK
<1>4. Control'
  BY <1>1, FrameKeys DEF Control, Putting, Fitting, Evicting, Writing
<1>5. Exclusive' /\ TierL2' /\ TierL3' /\ Written' /\ Same'
  BY <1>1, FrameKeys, FrameL2, FrameL3, FrameFile, FrameSame DEF Exclusive
<1> QED  BY <1>3, <1>4, <1>5

LEMMA PersistKeeps ==
    ASSUME Inv, NEW k \in Keys, Persist(k)
    PROVE  Inv'
<1> USE DEF Inv, Persist, memory, index3, file
<1>1. TypeOK'
  BY DEF TypeOK
<1>2. Control'
  BY FrameKeys DEF Control, Putting, Fitting, Evicting, Writing
<1>3. Exclusive' /\ TierL2' /\ TierL3' /\ Written' /\ Same'
  BY FrameKeys, FrameL2, FrameL3, FrameFile, FrameSame DEF Exclusive
<1> QED  BY <1>1, <1>2, <1>3

(* The chunk leaves L2, and the loop that wanted room goes on.             *)
LEMMA Leaving ==
    ASSUME Inv, pc \in {"write", "append"}, LeaveL2
    PROVE  /\ victim \in Keys /\ victim \in InL2 /\ InL2' = InL2 \ {victim}
           /\ l2' \in [Keys -> Chunk \cup {NoChunk}] /\ \A j \in InL2' : l2'[j] = l2[j]
           /\ l2lru' \in Seq(Keys) /\ l2usage' \in 0 .. Wrap - 1
           /\ TierL2'
           /\ pc' \in {"lookup", "fit", "persist"} /\ caller' = "fit" /\ victim' = None
           /\ pc' \in {"lookup", "fit"} => cur \in Chunk
           /\ pc' = "fit" => cur.key \notin InL2 \cup InL3
<1> USE DEF Inv, LeaveL2
<1>1. victim \in Keys /\ victim \in InL2
  BY DEF Control, Writing, InL2
<1>2. InL2' = InL2 \ {victim} /\ l2' \in [Keys -> Chunk \cup {NoChunk}] /\ \A j \in InL2' : l2'[j] = l2[j]
  BY <1>1 DEF InL2, TypeOK
<1>3. ASSUME NEW j \in Keys
      PROVE  /\ l2lru' \in Seq(Keys)
             /\ Once(l2lru', j)
             /\ Holds(l2lru', j) <=> j \in InL2'
  <2>1. l2lru \in Seq(Keys) /\ Once(l2lru, victim) /\ Once(l2lru, j) /\ (Holds(l2lru, j) <=> j \in InL2)
    BY <1>1 DEF TypeOK, TierL2
  <2>2. /\ l2lru' \in Seq(Keys) /\ Once(l2lru', j)
        /\ Holds(l2lru', j) <=> Holds(l2lru, j) /\ j # victim
    BY <2>1, HeldErase
  <2> QED  BY <1>2, <2>1, <2>2
<1>4. TierL2'
  BY <1>2, <1>3 DEF TierL2
<1>5. l2usage' \in 0 .. Wrap - 1
  <2>1. l2[victim] \in Chunk /\ l2usage \in Int
    BY <1>1 DEF InL2, TypeOK
  <2>2. l2[victim].size \in Int
    BY <2>1, Chunks, Sized
  <2> QED  BY <2>1, <2>2, Arithmetic
<1>6. /\ pc' \in {"lookup", "fit", "persist"} /\ caller' = "fit" /\ victim' = None
      /\ pc' \in {"lookup", "fit"} => cur \in Chunk
      /\ pc' = "fit" => cur.key \notin InL2 \cup InL3
  BY DEF TypeOK, Control, Putting, Fitting, Evicting
<1> QED  BY <1>1, <1>2, <1>3, <1>4, <1>5, <1>6

LEMMA NotWrittenKeeps ==
    ASSUME Inv, WriteRefused \/ AppendFails
    PROVE  Inv'
<1> USE DEF Inv, index3, file
<1>1. /\ pc \in {"write", "append"} /\ LeaveL2 /\ UNCHANGED <<index3, file>>
      /\ UNCHANGED <<freq, indexed, cur, left, latest>>
  BY DEF WriteRefused, AppendFails, LeaveL2
<1>2. /\ victim \in Keys /\ victim \in InL2 /\ InL2' = InL2 \ {victim}
      /\ l2' \in [Keys -> Chunk \cup {NoChunk}] /\ \A j \in InL2' : l2'[j] = l2[j]
      /\ l2lru' \in Seq(Keys) /\ l2usage' \in 0 .. Wrap - 1
      /\ TierL2'
      /\ pc' \in {"lookup", "fit", "persist"} /\ caller' = "fit" /\ victim' = None
      /\ pc' \in {"lookup", "fit"} => cur \in Chunk
      /\ pc' = "fit" => cur.key \notin InL2 \cup InL3
  BY <1>1, Leaving
<1>3. InL3' = InL3
  BY <1>1, FrameKeys
<1>4. TypeOK'
  BY <1>1, <1>2 DEF TypeOK
<1>5. Control'
  BY <1>1, <1>2, <1>3 DEF Control, Putting, Fitting, Evicting, Writing
<1>6. Exclusive' /\ TierL3' /\ Written'
  BY <1>1, <1>2, <1>3, FrameL3, FrameFile DEF Exclusive
<1>7. Same'
  BY <1>1, <1>2, <1>3 DEF Same
<1> QED  BY <1>2, <1>4, <1>5, <1>6, <1>7

LEMMA EvictL3Keeps ==
    ASSUME Inv, EvictL3
    PROVE  Inv'
<1> USE DEF Inv, EvictL3, memory, index3, file
<1>1. left' \in 0 .. ScanDepth
  <2>1. Len(l3lru) \in Nat /\ ScanDepth \in Nat
    BY StorageAssumption, LenProperties DEF TypeOK
  <2> QED  BY <2>1 DEF Least
<1>2. TypeOK'
  BY <1>1 DEF TypeOK
<1>3. Control'
  BY FrameKeys DEF Control, Putting, Fitting, Evicting, Writing
<1>4. Exclusive' /\ TierL2' /\ TierL3' /\ Written' /\ Same'
  BY FrameKeys, FrameL2, FrameL3, FrameFile, FrameSame DEF Exclusive
<1> QED  BY <1>2, <1>3, <1>4

(* The node at the tail of l3lru_ taken away, and the others of its key    *)
(* orphaned.                                                               *)
LEMMA TailL3 ==
    ASSUME TypeOK, TierL3, l3lru # <<>>, NEW k, k = Last(l3lru).key, NEW j \in Keys
    PROVE  /\ k \in Keys /\ Orphan(Front(l3lru), k) \in Seq(Node)
           /\ Once(Orphan(Front(l3lru), k), Live(j))
           /\ Holds(Orphan(Front(l3lru), k), Live(j)) => j # k
           /\ Holds(l3lru, Live(j)) /\ j # k => Holds(Orphan(Front(l3lru), k), Live(j))
<1>1. PICK w : w = Front(l3lru)
  OBVIOUS
<1>2. l3lru \in Seq(Node) /\ Once(l3lru, Live(j))
  BY DEF TypeOK, TierL3
<1>3. /\ w \in Seq(Node) /\ Last(l3lru) \in Node
      /\ Holds(l3lru, Live(j)) <=> Holds(w, Live(j)) \/ Live(j) = Last(l3lru)
      /\ Once(l3lru, Live(j)) => Once(w, Live(j)) /\ (Live(j) = Last(l3lru) => ~Holds(w, Live(j)))
  BY <1>1, <1>2, HeldFront
<1>4. k \in Keys /\ (Live(j) = Last(l3lru) => j = k)
  BY <1>3 DEF Node, Live
<1>5. /\ Orphan(w, k) \in Seq(Node)
      /\ Holds(Orphan(w, k), Live(j)) <=> Holds(w, Live(j)) /\ j # k
      /\ Once(w, Live(j)) => Once(Orphan(w, k), Live(j))
  BY <1>3, <1>4, HeldOrphan
<1> QED  BY <1>1, <1>2, <1>3, <1>4, <1>5

LEMMA SpareL3Keeps ==
    ASSUME Inv, SpareL3
    PROVE  Inv'
<1> USE DEF Inv, memory, file
<1>1. PICK k : k = Last(l3lru).key
  OBVIOUS
<1>2. PICK w : w = Orphan(Front(l3lru), k)
  OBVIOUS
<1>3. l3lru # <<>> /\ UNCHANGED <<InL2, InL3>> /\ l3lru' = <<Live(k)>> \o w
  BY <1>1, <1>2, FrameKeys DEF SpareL3, Control
<1>4. l3lru \in Seq(Node) /\ Len(l3lru) \in Nat /\ k \in Keys
  <2>1. l3lru \in Seq(Node)
    BY DEF TypeOK
  <2>2. Last(l3lru) \in Node /\ Len(l3lru) \in Nat
    BY <1>3, <2>1, HeldFront
  <2> QED  BY <1>1, <2>1, <2>2 DEF Node
<1>5. TierL3' /\ l3lru' \in Seq(Node) /\ l3lru' # <<>>
  <2>1. ASSUME NEW j \in Keys
        PROVE  /\ l3lru' \in Seq(Node) /\ l3lru' # <<>>
               /\ Once(l3lru', Live(j))
               /\ Holds(l3lru, Live(j)) => Holds(l3lru', Live(j))
    <3>1. /\ w \in Seq(Node) /\ Once(w, Live(j))
          /\ Holds(w, Live(j)) => j # k
          /\ Holds(l3lru, Live(j)) /\ j # k => Holds(w, Live(j))
      BY <1>1, <1>2, <1>3, TailL3
    <3>2. Live(k) \in Node /\ (Live(j) = Live(k) => j = k)
      BY <1>4, Nodes
    <3>3. /\ <<Live(k)>> \o w \in Seq(Node) /\ <<Live(k)>> \o w # <<>>
          /\ Holds(<<Live(k)>> \o w, Live(j)) <=> Holds(w, Live(j)) \/ Live(j) = Live(k)
          /\ Once(w, Live(j)) /\ (Live(j) = Live(k) => ~Holds(w, Live(j))) => Once(<<Live(k)>> \o w, Live(j))
      BY <3>1, <3>2, HeldCons
    <3> QED  BY <1>3, <3>1, <3>2, <3>3
  <2> QED  BY <1>3, <1>4, <2>1 DEF TierL3, SpareL3
<1>6. TypeOK'
  <2>1. freq' \in [Keys -> 0 .. MaxFreq]
    <3>1. freq \in [Keys -> 0 .. MaxFreq] /\ freq' = [freq EXCEPT ![k] = freq[k] \div 2]
      BY <1>1 DEF SpareL3, Halve, TypeOK
    <3>2. freq[k] \in 0 .. MaxFreq /\ MaxFreq \in Nat
      BY <1>4, <3>1, StorageAssumption
    <3>3. freq[k] \div 2 \in 0 .. MaxFreq
      BY <3>2
    <3> QED  BY <3>1, <3>3
  <2>2. left' \in 0 .. ScanDepth
    BY StorageAssumption DEF SpareL3, TypeOK
  <2> QED  BY <1>5, <2>1, <2>2 DEF SpareL3, TypeOK
<1>7. Control'
  BY <1>3, <1>5 DEF SpareL3, Control, Putting, Fitting, Evicting, Writing
<1>8. Exclusive' /\ TierL2' /\ Written' /\ Same'
  BY <1>3, FrameL2, FrameFile, FrameSame DEF SpareL3, Exclusive
<1> QED  BY <1>5, <1>6, <1>7, <1>8

LEMMA DropTailKeeps ==
    ASSUME Inv, DropTail
    PROVE  Inv'
<1> USE DEF Inv, memory, file
<1>1. PICK k : k = Last(l3lru).key
  OBVIOUS
<1>2. /\ l3lru # <<>> /\ l3' = [l3 EXCEPT ![k] = NoOffset]
      /\ l3lru' = Orphan(Front(l3lru), k)
  BY <1>1 DEF DropTail, Control
<1>3. l3lru \in Seq(Node) /\ k \in Keys
  <2>1. l3lru \in Seq(Node)
    BY DEF TypeOK
  <2>2. Last(l3lru) \in Node
    BY <1>2, <2>1, HeldFront
  <2> QED  BY <1>1, <2>1, <2>2 DEF Node
<1>4. InL2' = InL2 /\ InL3' = InL3 \ {k} /\ \A j \in InL3' : l3'[j] = l3[j]
  BY <1>2, <1>3, FrameKeys DEF DropTail, InL3, TypeOK
<1>5. TierL3' /\ l3lru' \in Seq(Node)
  <2>1. ASSUME NEW j \in Keys
        PROVE  /\ l3lru' \in Seq(Node)
               /\ Once(l3lru', Live(j))
               /\ j \in InL3' => Holds(l3lru', Live(j))
    <3>1. /\ l3lru' \in Seq(Node) /\ Once(l3lru', Live(j))
          /\ Holds(l3lru, Live(j)) /\ j # k => Holds(l3lru', Live(j))
      BY <1>1, <1>2, TailL3
    <3> QED  BY <1>4, <3>1 DEF TierL3
  <2> QED  BY <1>3, <1>4, <2>1 DEF TierL3, DropTail
<1>6. TypeOK'
  <2>1. l3usage' \in 0 .. Wrap - 1
    <3>1. CASE k \in InL3 /\ Readable(l3[k])
      <4>1. l3usage' = Minus(l3usage, disk[l3[k]].size)
        BY <1>1, <3>1 DEF DropTail
      <4>2. l3[k] \in Slot /\ l3usage \in Int
        BY <1>3, <3>1 DEF InL3, TypeOK
      <4>3. disk[l3[k]] \in Record
        BY <3>1, <4>2, Records DEF Readable, TypeOK
      <4>4. disk[l3[k]].size \in Int
        <5>1. disk[l3[k]].size \in Sizes
          BY <4>3, Records
        <5> QED  BY <5>1, Sized
      <4> QED  BY <4>1, <4>2, <4>4, Arithmetic
    <3>2. CASE ~(k \in InL3 /\ Readable(l3[k]))
      BY <1>1, <3>2 DEF DropTail, TypeOK
    <3> QED  BY <3>1, <3>2
  <2>2. l3' \in [Keys -> {NoOffset} \cup Slot]
    BY <1>2 DEF TypeOK
  <2>3. indexed' \subseteq Keys
    BY DEF DropTail, TypeOK
  <2>4. left' \in 0 .. ScanDepth
    BY StorageAssumption DEF DropTail
  <2> QED  BY <1>5, <2>1, <2>2, <2>3, <2>4 DEF DropTail, TypeOK
<1>7. Control'
  BY <1>4 DEF DropTail, Control, Putting, Fitting, Evicting, Writing
<1>8. Exclusive' /\ TierL2' /\ Written'
  BY <1>4, FrameL2, FrameFile DEF DropTail, Exclusive
<1>9. Same'
  BY <1>4 DEF Same, DropTail
<1> QED  BY <1>5, <1>6, <1>7, <1>8, <1>9
-----------------------------------------------------------------------------
LEMMA CompactKeeps ==
    ASSUME Inv, pc = "write", Cardinality(Kept) <= 1, Compact
    PROVE  /\ l3' \in [Keys -> {NoOffset} \cup Slot] /\ disk' \in [Slot -> Record \cup {Blank}]
           /\ fileSize' \in 0 .. FileLimit /\ mapped' \in BOOLEAN /\ next' \in 1 .. Slots + 1
           /\ durable' \subseteq Slot /\ UNCHANGED <<l3lru, l3usage, enabled>>
           /\ InL3' \subseteq InL3
           /\ \A j \in InL3' : l3'[j] < next' /\ disk'[l3'[j]] \in Record
           /\ \A n \in Slot : disk'[n].form # "v3"
<1> USE DEF Inv
<1>1. Kept \subseteq Keys /\ IsFiniteSet(Kept) /\ Slots \in Nat \ {0} /\ Slot = 1 .. Slots
  <2>1. Kept \subseteq Keys
    BY DEF Kept, InL3
  <2> QED  BY <2>1, FS_Subset, StorageAssumption, Sizing
<1>2. CASE Kept = {}
  <2>1. Cardinality(Kept) = 0
    BY <1>2, FS_EmptySet
  <2>2. /\ l3' = [x \in Keys |-> NoOffset] /\ disk' = [m \in Slot |-> Blank]
        /\ fileSize' = 0 /\ mapped' \in BOOLEAN /\ next' = 1
        /\ durable' = Slot /\ UNCHANGED <<l3lru, l3usage, enabled>>
    <3>1. \A m \in Slot : ~(m <= 0)
      BY <1>1
    <3>2. \A k : disk' = [m \in Slot |-> IF m <= 0 THEN [disk[l3[k]] EXCEPT !.form = "v2"] ELSE Blank]
                  => disk' = [m \in Slot |-> Blank]
      BY <3>1
    <3> QED  BY <1>2, <2>1, <3>2, Sizing DEF Compact
  <2>3. InL3' = {}
    BY <2>2 DEF InL3
  <2> QED  BY <1>1, <2>2, <2>3, Records, Sizing
<1>3. CASE Kept # {}
  <2>1. PICK k : k = CHOOSE x \in Kept : TRUE
    OBVIOUS
  <2>2. k \in Kept
    BY <1>3, <2>1
  <2>3. Cardinality(Kept) = 1
    <3>1. Cardinality(Kept) \in Nat /\ Cardinality(Kept) # 0
      BY <1>1, <1>3, FS_CardinalityType, FS_EmptySet
    <3> QED  BY <3>1
  <2>4. PICK r : r = [disk[l3[k]] EXCEPT !.form = "v2"]
    OBVIOUS
  <2>5. r \in Record /\ r.form = "v2"
    <3>1. l3[k] \in Slot /\ disk[l3[k]].form = "v3"
      BY <2>2 DEF Kept, InL3, Readable, TypeOK
    <3>2. disk[l3[k]] \in Record
      BY <3>1, Records DEF TypeOK
    <3> QED  BY <2>4, <3>2 DEF Record
  <2>6. /\ l3' = [x \in Keys |-> IF x \in Kept THEN 1 ELSE NoOffset]
        /\ disk' = [m \in Slot |-> IF m <= 1 THEN r ELSE Blank]
        /\ fileSize' = 10 /\ mapped' \in BOOLEAN /\ next' = 2
        /\ durable' = Slot /\ UNCHANGED <<l3lru, l3usage, enabled>>
    <3>1. l3' = [x \in Keys |-> IF x \in Kept THEN 1 ELSE NoOffset]
      BY DEF Compact
    <3>2. disk' = [m \in Slot |-> IF m <= 1 THEN r ELSE Blank]
      BY <2>1, <2>3, <2>4 DEF Compact
    <3>3. /\ fileSize' = 10 /\ mapped' \in BOOLEAN /\ next' = 2
          /\ durable' = Slot /\ UNCHANGED <<l3lru, l3usage, enabled>>
      BY <2>3, Sizing DEF Compact
    <3> QED  BY <3>1, <3>2, <3>3
  <2>7. /\ \A n \in Slot : disk'[n] \in Record \cup {Blank} /\ disk'[n].form # "v3"
        /\ disk'[1] \in Record
    BY <1>1, <2>5, <2>6, Records
  <2>8. InL3' \subseteq Kept /\ \A j \in InL3' : l3'[j] = 1
    BY <2>6 DEF InL3, NoOffset
  <2>9. l3' \in [Keys -> {NoOffset} \cup Slot]
    BY <1>1, <2>6
  <2>10. fileSize' \in 0 .. FileLimit /\ next' \in 1 .. Slots + 1
    BY <2>6, Sizing
  <2>11. \A j \in InL3' : l3'[j] < next' /\ disk'[l3'[j]] \in Record
    BY <2>6, <2>7, <2>8
  <2>12. disk' \in [Slot -> Record \cup {Blank}]
    BY <2>6, <2>7
  <2>13. InL3' \subseteq InL3
    BY <2>8 DEF Kept
  <2> QED  BY <2>6, <2>7, <2>9, <2>10, <2>11, <2>12, <2>13
<1> QED  BY <1>2, <1>3

LEMMA WriteFitsKeeps ==
    ASSUME Inv, WriteFits
    PROVE  Inv'
<1> USE DEF Inv, memory, control
<1>1. UNCHANGED InL2
  BY FrameKeys DEF WriteFits
<1>2. CASE UNCHANGED <<index3, file>>
  <2>1. TypeOK'
    BY <1>2 DEF WriteFits, TypeOK, index3, file
  <2>2. Control'
    BY <1>1, <1>2, FrameKeys DEF WriteFits, Control, Putting, Fitting, Evicting, Writing, index3
  <2>3. Exclusive' /\ TierL2' /\ TierL3' /\ Written' /\ Same'
    BY <1>2, FrameKeys, FrameL2, FrameL3, FrameFile, FrameSame DEF WriteFits, Exclusive, index3, file
  <2> QED  BY <2>1, <2>2, <2>3
<1>3. CASE Cardinality(Kept) <= 1 /\ Compact
  <2>1. /\ l3' \in [Keys -> {NoOffset} \cup Slot] /\ disk' \in [Slot -> Record \cup {Blank}]
        /\ fileSize' \in 0 .. FileLimit /\ mapped' \in BOOLEAN /\ next' \in 1 .. Slots + 1
        /\ durable' \subseteq Slot /\ UNCHANGED <<l3lru, l3usage, enabled>>
        /\ InL3' \subseteq InL3
        /\ \A j \in InL3' : l3'[j] < next' /\ disk'[l3'[j]] \in Record
        /\ \A n \in Slot : disk'[n].form # "v3"
    BY <1>3, CompactKeeps DEF WriteFits
  <2>2. TypeOK'
    BY <2>1 DEF WriteFits, TypeOK
  <2>3. Control'
    BY <1>1, <2>1 DEF WriteFits, Control, Putting, Fitting, Evicting, Writing
  <2>4. Exclusive' /\ TierL2' /\ Written'
    BY <1>1, <1>3, <2>1, FrameL2 DEF WriteFits, Exclusive, Written, Compact
  <2>5. \A j \in InL3' : l3'[j] \in Slot
    BY <2>1 DEF InL3
  <2>6. TierL3'
    BY <2>1, <2>5 DEF TierL3
  <2>7. Same'
    BY <1>1, <2>1, <2>5 DEF WriteFits, Same
  <2> QED  BY <2>2, <2>3, <2>4, <2>6, <2>7
<1> QED  BY <1>2, <1>3 DEF WriteFits

(* ensure_disk_space: the file does not shrink, stays within the limit and *)
(* has room for the record that is appended.                               *)
LEMMA Ensuring ==
    ASSUME Inv
    PROVE  /\ Ensured \in 0 .. FileLimit /\ fileSize <= Ensured
           /\ Required \in Int /\ Required = 10 * next
           /\ Required <= Ensured => next \in Slot
<1>1. fileSize \in 0 .. FileLimit /\ next \in 1 .. Slots + 1
  BY DEF Inv, TypeOK
<1>2. Ensured \in 0 .. FileLimit /\ fileSize <= Ensured /\ Required \in Int /\ Required = 10 * next
  BY <1>1, Sizing DEF Ensured, Grown, Required, Least, Greatest
<1> QED  BY <1>1, <1>2, Sizing

LEMMA AppendRecordKeeps ==
    ASSUME Inv, AppendRecord
    PROVE  Inv'
<1> USE DEF Inv
<1>1. /\ victim \in Keys /\ victim \in InL2 /\ InL2' = InL2 \ {victim}
      /\ l2' \in [Keys -> Chunk \cup {NoChunk}] /\ \A j \in InL2' : l2'[j] = l2[j]
      /\ l2lru' \in Seq(Keys) /\ l2usage' \in 0 .. Wrap - 1
      /\ TierL2'
      /\ pc' \in {"lookup", "fit", "persist"} /\ caller' = "fit" /\ victim' = None
      /\ pc' \in {"lookup", "fit"} => cur \in Chunk
      /\ pc' = "fit" => cur.key \notin InL2 \cup InL3
  BY Leaving DEF AppendRecord
<1>2. PICK c, r : /\ c = l2[victim]
                  /\ r = [key |-> c.key, data |-> c.data, size |-> c.size, form |-> "v3"]
  OBVIOUS
<1>3. /\ c \in Chunk /\ c.key = victim /\ c.size \in Int /\ next \in Slot
      /\ r \in Record /\ r.form = "v3" /\ r.key = victim /\ r.data = c.data /\ c.data \in Data
  <2>1. c \in Chunk /\ c.key = victim
    BY <1>1, <1>2 DEF InL2, TypeOK, TierL2
  <2>2. c.size \in Sizes /\ c.data \in Data
    BY <2>1, Chunks
  <2>3. next \in Slot
    BY Ensuring DEF AppendRecord
  <2> QED  BY <1>1, <1>2, <2>1, <2>2, <2>3, Sized DEF Record
<1>4. /\ disk' = [disk EXCEPT ![next] = r] /\ l3usage' = Plus(l3usage, c.size)
      /\ l3' = [l3 EXCEPT ![victim] = next] /\ next' = next + 1
      /\ l3lru' = <<Live(victim)>> \o Orphan(l3lru, victim)
      /\ durable' = durable \ {next} /\ UNCHANGED <<mapped, enabled, freq, indexed, cur, left, latest>>
  BY <1>2 DEF AppendRecord, LeaveL2
<1>5. InL3' = InL3 \cup {victim}
  <2>1. next # NoOffset
    BY <1>3, Sizing DEF NoOffset
  <2> QED  BY <1>1, <1>4, <2>1 DEF InL3, TypeOK
<1>6. \A j \in InL3' : /\ j # victim => /\ j \in InL3 /\ l3'[j] = l3[j] /\ l3[j] \in Slot /\ l3[j] < next
                                        /\ disk'[l3'[j]] = disk[l3[j]]
                       /\ j = victim => l3'[j] = next /\ disk'[l3'[j]] = r
  <2>1. \A j \in InL3 : l3[j] \in Slot /\ l3[j] < next
    BY DEF InL3, TypeOK, TierL3
  <2>2. next \in Int /\ \A j \in InL3 : l3[j] # next
    BY <2>1 DEF TypeOK, Slot
  <2> QED  BY <1>1, <1>3, <1>4, <1>5, <2>1, <2>2 DEF TypeOK, InL3
<1>7. TierL3' /\ l3lru' \in Seq(Node)
  <2>1. ASSUME NEW j \in Keys
        PROVE  /\ l3lru' \in Seq(Node)
               /\ Once(l3lru', Live(j))
               /\ j \in InL3' => Holds(l3lru', Live(j))
    <3>1. PICK w : w = Orphan(l3lru, victim)
      OBVIOUS
    <3>2. l3lru \in Seq(Node) /\ Once(l3lru, Live(j)) /\ (j \in InL3 => Holds(l3lru, Live(j)))
      BY DEF TypeOK, TierL3
    <3>3. /\ w \in Seq(Node) /\ Once(w, Live(j))
          /\ Holds(w, Live(j)) <=> Holds(l3lru, Live(j)) /\ j # victim
      BY <1>1, <3>1, <3>2, HeldOrphan
    <3>4. Live(victim) \in Node /\ (Live(j) = Live(victim) => j = victim)
      BY <1>1, Nodes
    <3>5. /\ <<Live(victim)>> \o w \in Seq(Node)
          /\ Holds(<<Live(victim)>> \o w, Live(j)) <=> Holds(w, Live(j)) \/ Live(j) = Live(victim)
          /\ Once(w, Live(j)) /\ (Live(j) = Live(victim) => ~Holds(w, Live(j)))
                => Once(<<Live(victim)>> \o w, Live(j))
      BY <3>3, <3>4, HeldCons
    <3> QED  BY <1>4, <1>5, <3>1, <3>2, <3>3, <3>4, <3>5
  <2>2. next \in Int /\ next < next' /\ \A j \in InL3' : l3'[j] < next'
    <3>1. next \in Int /\ next' = next + 1
      BY <1>4 DEF TypeOK
    <3>2. \A j \in InL3' : l3'[j] \in Int
      BY <1>6, <3>1 DEF Slot
    <3> QED  BY <1>6, <3>1, <3>2
  <2>3. ASSUME NEW j \in Keys, j \in InL3'
        PROVE  disk'[l3'[j]] \in Record /\ (disk'[l3'[j]].form = "v3" => disk'[l3'[j]].key = j)
    BY <1>3, <1>6, <2>3 DEF TierL3
  <2> QED  BY <1>1, <2>1, <2>2, <2>3 DEF TierL3
<1>8. TypeOK'
  <2>1. fileSize' \in 0 .. FileLimit
    BY Ensuring DEF AppendRecord
  <2>2. next' \in 1 .. Slots + 1
    BY <1>3, <1>4, Sizing
  <2>3. l3usage' \in 0 .. Wrap - 1
    <3>1. l3usage \in Int
      BY DEF TypeOK
    <3> QED  BY <1>3, <1>4, <3>1, Arithmetic
  <2>4. l3' \in [Keys -> {NoOffset} \cup Slot] /\ disk' \in [Slot -> Record \cup {Blank}]
    BY <1>3, <1>4 DEF TypeOK
  <2> QED  BY <1>1, <1>4, <1>7, <2>1, <2>2, <2>3, <2>4 DEF TypeOK
<1>9. Control'
  <2>1. pc' = "fit" => cur'.key \notin InL2' \cup InL3'
    BY <1>1, <1>4, <1>5
  <2> QED  BY <1>1, <1>4, <2>1 DEF Control, Putting, Fitting, Evicting, Writing
<1>10. Exclusive'
  BY <1>1, <1>5 DEF Exclusive
<1>11. Written'
  BY <1>3, <1>4 DEF Written, TypeOK
<1>12. Same'
  <2>1. ASSUME ~KeepFile, NEW j \in InL3', disk'[l3'[j]].form = "v3" PROVE disk'[l3'[j]].data = latest'[j]
    BY <1>1, <1>2, <1>3, <1>4, <1>6, <2>1 DEF Same
  <2> QED  BY <1>1, <1>4, <2>1 DEF Same
<1> QED  BY <1>1, <1>7, <1>8, <1>9, <1>10, <1>11, <1>12
LEMMA AppendPastKeeps ==
    ASSUME Inv, AppendPast
    PROVE  Inv'
<1> USE DEF Inv, AppendPast, memory, index3, control
<1>1. TypeOK'
  BY Ensuring DEF TypeOK
<1>2. Control'
  BY FrameKeys DEF Control, Putting, Fitting, Evicting, Writing
<1>3. TierL3' /\ Written'
  BY FrameKeys DEF TierL3, Written, InL3
<1>4. Exclusive' /\ TierL2' /\ Same'
  BY FrameKeys, FrameL2, FrameSame DEF Exclusive
<1> QED  BY <1>1, <1>2, <1>3, <1>4
-----------------------------------------------------------------------------
(* The constructor.  What is scanned is an initial part of the file.       *)
LEMMA ScannedPart ==
    ASSUME NEW d, NEW slots \in Nat
    PROVE  \E m \in 0 .. slots : /\ Scanned(d, slots) = 1 .. m
                                 /\ Cardinality(Scanned(d, slots)) = m
                                 /\ \A n \in 1 .. m : d[n].form \in {"v3", "torn"}
<1> DEFINE Stops == {n \in 1 .. slots : d[n].form \notin {"v3", "torn"}}
<1>1. \E m \in 0 .. slots : /\ \A n \in 1 .. m : d[n].form \in {"v3", "torn"}
                            /\ m < slots => d[m + 1].form \notin {"v3", "torn"}
  <2>1. CASE Stops = {}
    BY <2>1
  <2>2. CASE Stops # {}
    <3>1. PICK s \in Stops : \A i \in Stops : s <= i
      <4>1. Stops \in SUBSET Nat
        OBVIOUS
      <4> HIDE DEF Stops
      <4> QED  BY <2>2, <4>1, LeastOf
    <3>2. s - 1 \in 0 .. slots /\ \A n \in 1 .. s - 1 : n \in 1 .. slots /\ ~(s <= n)
      OBVIOUS
    <3>3. \A n \in 1 .. s - 1 : d[n].form \in {"v3", "torn"}
      BY <3>1, <3>2
    <3>4. s - 1 + 1 = s
      OBVIOUS
    <3> QED  BY <3>2, <3>3, <3>4
  <2> QED  BY <2>1, <2>2
<1>2. PICK m \in 0 .. slots : /\ \A n \in 1 .. m : d[n].form \in {"v3", "torn"}
                              /\ m < slots => d[m + 1].form \notin {"v3", "torn"}
  BY <1>1
<1>3. Scanned(d, slots) = 1 .. m
  <2>1. ASSUME NEW n \in 1 .. m PROVE n \in Scanned(d, slots)
    <3>1. \A i \in 1 .. n : i \in 1 .. m
      OBVIOUS
    <3> QED  BY <1>2, <3>1 DEF Scanned
  <2>2. ASSUME NEW n \in Scanned(d, slots) PROVE n \in 1 .. m
    <3>1. n \in 1 .. slots /\ \A i \in 1 .. n : d[i].form \in {"v3", "torn"}
      BY DEF Scanned
    <3>2. CASE m < n
      <4>1. m + 1 \in 1 .. n /\ m < slots
        BY <3>1, <3>2
      <4> QED  BY <1>2, <3>1, <4>1
    <3> QED  BY <3>1, <3>2
  <2> QED  BY <2>1, <2>2
<1>4. Cardinality(1 .. m) = m
  <2>1. Cardinality(1 .. m) = IF 1 > m THEN 0 ELSE m - 1 + 1
    BY FS_Interval
  <2> QED  BY <2>1
<1> QED  BY <1>2, <1>3, <1>4

LEMMA UsageOfType ==
    ASSUME NEW d, NEW N \in Nat, \A n \in 1 .. N : d[n].size \in Int
    PROVE  UsageOf(d, N) \in 0 .. Wrap - 1 /\ (N = 0 => UsageOf(d, N) = 0)
<1> DEFINE Body(g) == [m \in 0 .. N |-> IF m = 0 THEN 0 ELSE Plus(g[m - 1], d[m].size)]
<1>0. PICK D : D = 0 .. Wrap - 1
  OBVIOUS
<1>1. 0 \in D /\ D \subseteq Int
  BY <1>0, StorageAssumption
<1>2. \E g : g = Body(g)
  <2>1. PICK F : F = [x \in (1 .. N) \X D |-> Plus(x[2], d[x[1]].size)]
    OBVIOUS
  <2>2. \A n \in 1 .. N, u \in D : F[<<n, u>>] = Plus(u, d[n].size)
    BY <2>1
  <2>3. ASSUME NEW n \in 1 .. N, NEW u \in D PROVE F[<<n, u>>] \in D
    BY <1>0, <1>1, <2>2, Arithmetic
  <2>4. F \in [(1 .. N) \X D -> D]
    <3>1. \A x \in (1 .. N) \X D : F[x] \in D
      BY <2>3
    <3> QED  BY <2>1, <3>1
  <2>5. PICK g \in [0 .. N -> D] : g[0] = 0 /\ \A n \in 1 .. N : g[n] = F[<<n, g[n - 1]>>]
    <3>1. \E g : g \in Recursive(N, D, 0, F)
      BY <1>1, <2>4, Recursion
    <3> QED  BY <3>1 DEF Recursive
  <2>6. \A n \in 0 .. N : n # 0 => n \in 1 .. N /\ g[n - 1] \in D
    BY <2>5
  <2>7. g = Body(g)
    <3>1. \A n \in 0 .. N : g[n] = IF n = 0 THEN 0 ELSE Plus(g[n - 1], d[n].size)
      BY <2>2, <2>5, <2>6
    <3> QED  BY <2>5, <3>1
  <2> QED  BY <2>7
<1>3. PICK f : f = CHOOSE g : g = Body(g)
  OBVIOUS
<1>4. f = Body(f)
  <2> HIDE DEF Body
  <2> QED  BY <1>2, <1>3
<1>5. UsageOf(d, N) = f[N]
  BY <1>3 DEF UsageOf
<1>6. f[0] = 0 /\ \A n \in 1 .. N : f[n] = Plus(f[n - 1], d[n].size)
  <2>1. \A n \in 0 .. N : f[n] = Body(f)[n]
    BY <1>4
  <2>2. 0 \in 0 .. N /\ \A n \in 1 .. N : n \in 0 .. N /\ n # 0
    OBVIOUS
  <2> QED  BY <2>1, <2>2
<1> HIDE DEF Body
<1> DEFINE P == {n \in 0 .. N : f[n] \in D}
<1>7. 0 \in P
  BY <1>1, <1>6
<1>8. ASSUME NEW n \in 1 .. N, n - 1 \in P PROVE n \in P
  <2>1. f[n - 1] \in Int /\ f[n] = Plus(f[n - 1], d[n].size) /\ n \in 0 .. N
    <3>1. f[n - 1] \in D
      BY <1>8
    <3>2. f[n - 1] \in Int
      BY <1>1, <3>1
    <3>3. f[n] = Plus(f[n - 1], d[n].size)
      BY <1>6
    <3> QED  BY <3>2, <3>3
  <2>2. Plus(f[n - 1], d[n].size) \in 0 .. Wrap - 1
    BY <2>1, Arithmetic
  <2> QED  BY <1>0, <2>1, <2>2
<1>9. N \in P
  <2> HIDE DEF P
  <2>1. 0 .. N \subseteq P
    BY <1>7, <1>8, UpTo
  <2> QED  BY <2>1
<1> QED  BY <1>0, <1>5, <1>6, <1>9

(* The index that the constructor builds from the file d.                  *)
LEMMA Loading ==
    ASSUME NEW d \in [Slot -> Record \cup {Blank}], NEW size \in 0 .. FileLimit, LoadFrom(d, size)
    PROVE  \E m \in 0 .. Whole(size) :
             /\ disk' = d /\ fileSize' = size /\ next' = m + 1
             /\ \A n \in 1 .. m : n \in Slot /\ d[n] \in Record
             /\ \A k \in Keys : /\ \A n \in 1 .. m : d[n].key = k => l3'[k] \in 1 .. m
                                /\ l3'[k] # NoOffset => l3'[k] \in 1 .. m /\ d[l3'[k]].key = k
             /\ DOMAIN l3' = Keys /\ l3' = [k \in Keys |-> l3'[k]]
             /\ l3lru' = [n \in 1 .. m |-> [key |-> d[n].key, live |-> l3'[d[n].key] = n]]
             /\ l3usage' = UsageOf(d, m)
<1>0. PICK slots : slots = Whole(size) /\ slots \in 0 .. Slots /\ slots \in Nat /\ Slots \in Nat
  BY Sizing
<1>1. PICK m \in 0 .. slots : /\ Scanned(d, slots) = 1 .. m
                              /\ Cardinality(Scanned(d, slots)) = m
                              /\ \A n \in 1 .. m : d[n].form \in {"v3", "torn"}
  BY <1>0, ScannedPart
<1>2. ASSUME NEW n \in 1 .. m PROVE n \in Slot /\ d[n] \in Record
  <2>1. n \in Slot
    BY <1>0 DEF Slot
  <2> QED  BY <1>1, <2>1, Records
<1>5. ASSUME NEW k \in Keys
      PROVE  /\ \A n \in 1 .. m : d[n].key = k => l3'[k] \in 1 .. m
             /\ l3'[k] # NoOffset => l3'[k] \in 1 .. m /\ d[l3'[k]].key = k
  <2> DEFINE O == {n \in Scanned(d, slots) : d[n].key = k}
  <2>1. l3'[k] = IF O = {} THEN NoOffset ELSE CHOOSE n \in O : \A i \in O : i <= n
    BY <1>0 DEF LoadFrom
  <2>2. O = {n \in 1 .. m : d[n].key = k}
    BY <1>1
  <2>3. O \in SUBSET (0 .. m) /\ m \in Nat
    BY <2>2
  <2> HIDE DEF O
  <2>4. CASE O = {}
    BY <2>1, <2>2, <2>4
  <2>5. CASE O # {}
    <3>1. \E n \in O : \A i \in O : i <= n
      BY <2>3, <2>5, GreatestOf
    <3>2. l3'[k] \in O
      BY <2>1, <2>5, <3>1
    <3> QED  BY <2>2, <3>2
  <2> QED  BY <2>4, <2>5
<1>6. /\ disk' = d /\ fileSize' = size /\ next' = m + 1
      /\ l3lru' = [n \in 1 .. m |-> [key |-> d[n].key, live |-> l3'[d[n].key] = n]]
      /\ l3usage' = UsageOf(d, m)
  BY <1>0, <1>1 DEF LoadFrom
<1>7. DOMAIN l3' = Keys /\ l3' = [k \in Keys |-> l3'[k]]
  BY DEF LoadFrom
<1> QED  BY <1>0, <1>2, <1>5, <1>6, <1>7

(* A process that starts finds nothing, or the file of the last one.       *)
LEMMA Starting ==
    ASSUME Inv, NEW d \in [Slot -> Record \cup {Blank}], Start(d),
           \A n \in Slot : d[n].form = "v3" => d[n].data \in Data,
           durable' \subseteq Slot,
           durable' = Slot \/ (KeepFile /\ \A n \in Slot \ durable' : d[n] \in Record)
    PROVE  Inv'
<1> USE DEF Inv
<1>0. Slots \in Nat /\ InitSize \in 1 .. FileLimit /\ FileLimit \in Nat /\ Slot = 1 .. Slots
  BY Sizing
<1>1. PICK e, size : /\ LoadFrom(e, size)
                     /\ KeepFile => e = d
                     /\ ~KeepFile => e = [n \in Slot |-> Blank]
                     /\ size \in 0 .. FileLimit
                     /\ latest' \in [Keys -> Data \cup {None}]
  <2>1. CASE KeepFile
    <3>1. LoadFrom(d, Greatest(fileSize, InitSize)) /\ latest' = latest
      BY <2>1 DEF Start
    <3>2. Greatest(fileSize, InitSize) \in 0 .. FileLimit
      BY <1>0 DEF TypeOK, Greatest
    <3> QED  BY <2>1, <3>1, <3>2 DEF TypeOK
  <2>2. CASE ~KeepFile
    <3>1. LoadFrom([n \in Slot |-> Blank], InitSize) /\ latest' = [k \in Keys |-> None]
      BY <2>2 DEF Start
    <3> QED  BY <1>0, <2>2, <3>1
  <2> QED  BY <2>1, <2>2
<1>2. /\ e \in [Slot -> Record \cup {Blank}]
      /\ \A n \in Slot : e[n].form = "v3" => e[n].data \in Data
      /\ ~KeepFile => \A n \in Slot : e[n] \notin Record
  BY <1>1, Records
<1>3. PICK m \in 0 .. Whole(size) :
        /\ disk' = e /\ fileSize' = size /\ next' = m + 1
        /\ \A n \in 1 .. m : n \in Slot /\ e[n] \in Record
        /\ \A k \in Keys : /\ \A n \in 1 .. m : e[n].key = k => l3'[k] \in 1 .. m
                           /\ l3'[k] # NoOffset => l3'[k] \in 1 .. m /\ e[l3'[k]].key = k
        /\ DOMAIN l3' = Keys /\ l3' = [k \in Keys |-> l3'[k]]
        /\ l3lru' = [n \in 1 .. m |-> [key |-> e[n].key, live |-> l3'[e[n].key] = n]]
        /\ l3usage' = UsageOf(e, m)
  BY <1>1, <1>2, Loading
<1>4. m \in Nat /\ m <= Slots
  BY <1>0, <1>1, Sizing
<1>5. InL2' = {} /\ l2lru' = <<>>
  BY DEF Start, InL2
<1>6. TierL2'
  BY <1>5 DEF TierL2, Once, Holds
<1>7. \A n \in 1 .. m : /\ l3lru'[n] \in Node
                        /\ l3lru'[n].key = e[n].key
                        /\ l3lru'[n].live <=> l3'[e[n].key] = n
  BY <1>3, Records DEF Node
<1>8. l3lru' \in Seq(Node) /\ Len(l3lru') = m
  <2>1. l3lru' \in [1 .. m -> Node]
    BY <1>3, <1>7
  <2> QED  BY <1>4, <2>1
<1>9. \A k \in Keys, n \in 1 .. m : l3lru'[n] = Live(k) <=> e[n].key = k /\ l3'[k] = n
  BY <1>3, <1>7 DEF Live
<1>10. \A k \in InL3' : k \in Keys /\ l3'[k] \in 1 .. m /\ e[l3'[k]].key = k
  BY <1>3 DEF InL3
<1>11. TierL3'
  <2>1. ASSUME NEW k \in Keys PROVE Once(l3lru', Live(k))
    BY <1>8, <1>9 DEF Once
  <2>2. ASSUME NEW k \in InL3'
        PROVE  Holds(l3lru', Live(k)) /\ l3'[k] < next' /\ disk'[l3'[k]] \in Record /\ disk'[l3'[k]].key = k
    <3>1. k \in Keys /\ l3'[k] \in 1 .. m /\ e[l3'[k]].key = k
      BY <1>10
    <3>2. disk'[l3'[k]] \in Record /\ disk'[l3'[k]].key = k /\ l3'[k] < next'
      BY <1>3, <1>4, <3>1
    <3> QED  BY <1>8, <1>9, <3>1, <3>2 DEF Holds
  <2> QED  BY <2>1, <2>2 DEF TierL3
<1>12. l3' \in [Keys -> {NoOffset} \cup Slot]
  BY <1>3
<1>13. TypeOK'
  <2>1. l3usage' \in 0 .. Wrap - 1
    <3>1. \A n \in 1 .. m : e[n].size \in Int
      BY <1>3, Records, Sized
    <3> QED  BY <1>3, <1>4, <3>1, UsageOfType
  <2>2. next' \in 1 .. Slots + 1
    BY <1>0, <1>3, <1>4
  <2>3. freq' \in [Keys -> 0 .. MaxFreq] /\ l2' \in [Keys -> Chunk \cup {NoChunk}]
    BY StorageAssumption DEF Start
  <2>4. 0 \in 0 .. Wrap - 1 /\ 0 \in 0 .. ScanDepth
    BY StorageAssumption
  <2> QED  BY <1>1, <1>2, <1>3, <1>5, <1>8, <1>12, <2>1, <2>2, <2>3, <2>4 DEF TypeOK, Start
<1>14. Control'
  BY DEF Start, Control, Putting, Fitting, Evicting, Writing
<1>15. Exclusive' /\ Written'
  BY <1>1, <1>2, <1>3, <1>5 DEF Exclusive, Written
<1>16. Same'
  BY <1>2, <1>3, <1>5, <1>10 DEF Same
<1> QED  BY <1>6, <1>11, <1>13, <1>14, <1>15, <1>16

LEMMA RestartKeeps ==
    ASSUME Inv, Exit \/ Kill \/ PowerFailure
    PROVE  Inv'
<1> USE DEF Inv
<1>1. disk \in [Slot -> Record \cup {Blank}] /\ \A n \in Slot : disk[n].form = "v3" => disk[n].data \in Data
  BY DEF TypeOK, Written
<1>2. CASE Exit
  BY <1>1, <1>2, Starting DEF Exit
<1>3. CASE Kill
  <2>1. durable' \subseteq Slot /\ (durable' = Slot \/ (KeepFile /\ \A n \in Slot \ durable' : disk[n] \in Record))
    BY <1>3 DEF Kill, TypeOK, Written
  <2> QED  BY <1>1, <1>3, <2>1, Starting DEF Kill
<1>4. CASE PowerFailure
  <2>0. PICK lost \in SUBSET (Slot \ durable) : \E headerless \in SUBSET lost :
            /\ Start([n \in Slot |->
                     CASE n \in headerless     -> Blank
                       [] n \in lost \ headerless -> [disk[n] EXCEPT !.data = None, !.form = "torn"]
                       [] OTHER                -> disk[n]])
            /\ durable' = Slot
    BY <1>4 DEF PowerFailure
  <2>a. PICK headerless \in SUBSET lost :
            /\ Start([n \in Slot |->
                     CASE n \in headerless     -> Blank
                       [] n \in lost \ headerless -> [disk[n] EXCEPT !.data = None, !.form = "torn"]
                       [] OTHER                -> disk[n]])
            /\ durable' = Slot
    BY <2>0
  <2>1. PICK d :
            /\ d = [n \in Slot |->
                     CASE n \in headerless     -> Blank
                       [] n \in lost \ headerless -> [disk[n] EXCEPT !.data = None, !.form = "torn"]
                       [] OTHER                -> disk[n]]
            /\ Start(d)
            /\ durable' = Slot
    BY <2>a
  <2>2. ASSUME NEW n \in Slot
        PROVE  d[n] \in Record \cup {Blank} /\ (d[n].form = "v3" => d[n].data \in Data)
    <3>1. CASE n \in headerless
      BY <2>1, <3>1, Records
    <3>2. CASE n \in lost /\ n \notin headerless
      <4>1. d[n] = [disk[n] EXCEPT !.data = None, !.form = "torn"]
        BY <2>1, <3>2
      <4>2. disk[n] \in Record
        BY <3>2 DEF Written
      <4> QED  BY <4>1, <4>2 DEF Record
    <3>3. CASE n \notin lost
      <4>1. d[n] = disk[n]
        BY <2>1, <3>3
      <4> QED  BY <1>1, <4>1
    <3> QED  BY <3>1, <3>2, <3>3
  <2>3. d \in [Slot -> Record \cup {Blank}]
    BY <2>1, <2>2
  <2> QED  BY <2>1, <2>2, <2>3, Starting
<1> QED  BY <1>2, <1>3, <1>4
-----------------------------------------------------------------------------
LEMMA Initially == Init => Inv
<1> SUFFICES ASSUME Init PROVE Inv
  OBVIOUS
<1> USE DEF Init
<1>0. Slots \in Nat \ {0} /\ InitSize \in 1 .. FileLimit /\ Slot = 1 .. Slots
  BY Sizing
<1>1. InL2 = {} /\ InL3 = {}
  BY DEF InL2, InL3
<1>2. TypeOK
  <2>1. 0 \in 0 .. Wrap - 1 /\ 0 \in 0 .. ScanDepth /\ 0 \in 0 .. MaxFreq
    BY StorageAssumption
  <2>2. InitSize \in 0 .. FileLimit /\ 1 \in 1 .. Slots + 1
    BY <1>0, Sizing
  <2> QED  BY <2>1, <2>2 DEF TypeOK
<1>3. Control
  BY DEF Control, Putting, Fitting, Evicting, Writing
<1>4. TierL2 /\ TierL3
  BY <1>1 DEF TierL2, TierL3, Once, Holds
<1>5. Exclusive /\ Written /\ Same
  BY <1>1, Records DEF Exclusive, Written, Same
<1> QED  BY <1>2, <1>3, <1>4, <1>5 DEF Inv

LEMMA NextKeeps == Inv /\ [Next]_vars => Inv'
<1> SUFFICES ASSUME Inv, [Next]_vars PROVE Inv'
  OBVIOUS
<1>1. CASE \E k \in Keys, d \in Data, s \in Sizes : Put(k, d, s)
  BY <1>1, PutKeeps
<1>2. CASE \E k \in Keys : GetFromL2(k) \/ Promote(k) \/ GetTooFull(k) \/ GetUnreadable(k)
  BY <1>2, GetFromL2Keeps, PromoteKeeps, GetTooFullKeeps, GetUnreadableKeeps
<1>3. CASE SafeUnmount \/ Shutdown \/ Refuse
  BY <1>3, IdleKeeps
<1>4. CASE Expire \/ MakeRoom
  BY <1>4, EvictL2Keeps DEF Expire, MakeRoom
<1>5. CASE Overwrite \/ EraseL3 \/ Insert
  BY <1>5, OverwriteKeeps, EraseL3Keeps, InsertKeeps
<1>6. CASE SpareL2 \/ ChooseVictim \/ \E k \in Keys : Persist(k)
  BY <1>6, SpareL2Keeps, ChooseVictimKeeps, PersistKeeps
<1>7. CASE WriteRefused \/ AppendFails \/ EvictL3 \/ SpareL3 \/ DropTail
  BY <1>7, NotWrittenKeeps, EvictL3Keeps, SpareL3Keeps, DropTailKeeps
<1>8. CASE WriteFits \/ AppendRecord \/ AppendPast
  BY <1>8, WriteFitsKeeps, AppendRecordKeeps, AppendPastKeeps
<1>9. CASE Exit \/ Kill \/ PowerFailure
  BY <1>9, RestartKeeps
<1>10. CASE UNCHANGED vars
  <2> USE <1>10 DEF Inv, vars, memory, index3, file, control
  <2>1. TypeOK' /\ Exclusive'
    BY FrameKeys DEF TypeOK, Exclusive
  <2>2. Control'
    BY FrameKeys DEF Control, Putting, Fitting, Evicting, Writing
  <2>3. TierL2' /\ TierL3' /\ Written' /\ Same'
    BY FrameL2, FrameL3, FrameFile, FrameSame
  <2> QED  BY <2>1, <2>2, <2>3
<1> QED  BY <1>1, <1>2, <1>3, <1>4, <1>5, <1>6, <1>7, <1>8, <1>9, <1>10 DEF Next, Running

LEMMA Invariance == Spec => []Inv
BY Initially, NextKeeps, PTL DEF Spec
-----------------------------------------------------------------------------
(* Every variable keeps its type, whatever is put, evicted, promoted,      *)
(* compacted, lost by the disk and loaded again.                           *)
THEOREM TypeCorrect == Spec => []TypeOK
<1>1. Inv => TypeOK
  BY DEF Inv
<1> QED  BY <1>1, Invariance, PTL

(* The nodes at which a list has an entry, counted.                        *)
LEMMA Counted ==
    ASSUME NEW q, NEW T, q \in Seq(T), NEW x, Once(q, x)
    PROVE  Cardinality({i \in DOMAIN q : q[i] = x}) = IF Holds(q, x) THEN 1 ELSE 0
<1>0. DOMAIN q = 1 .. Len(q)
  BY LenProperties
<1>1. CASE Holds(q, x)
  <2>1. PICK i \in 1 .. Len(q) : q[i] = x
    BY <1>1 DEF Holds
  <2>2. {j \in DOMAIN q : q[j] = x} = {i}
    BY <1>0, <2>1 DEF Once
  <2> QED  BY <1>1, <2>2, FS_Singleton
<1>2. CASE ~Holds(q, x)
  <2>1. {j \in DOMAIN q : q[j] = x} = {}
    BY <1>0, <1>2 DEF Holds
  <2> QED  BY <1>2, <2>1, FS_EmptySet
<1> QED  BY <1>1, <1>2

(* Whatever order gets, puts and evictions come in, each chunk of L2 has   *)
(* one node in l2_lru_, and each chunk of L3 one that l3_lru_index_ names, *)
(* after a restart with several records of a key too.                      *)
THEOREM ListsFollowMaps == Spec => []LruAgrees
<1>1. Inv => LruAgrees
  <2> SUFFICES ASSUME Inv, NEW k \in Keys
               PROVE  /\ Cardinality({i \in DOMAIN l2lru : l2lru[i] = k}) = IF k \in InL2 THEN 1 ELSE 0
                      /\ k \in InL3 => Cardinality({i \in DOMAIN l3lru : l3lru[i] = Live(k)}) = 1
    BY DEF LruAgrees
  <2>1. l2lru \in Seq(Keys) /\ Once(l2lru, k) /\ (Holds(l2lru, k) <=> k \in InL2)
    BY DEF Inv, TypeOK, TierL2
  <2>2. l3lru \in Seq(Node) /\ Once(l3lru, Live(k)) /\ (k \in InL3 => Holds(l3lru, Live(k)))
    BY DEF Inv, TypeOK, TierL3
  <2>3. Cardinality({i \in DOMAIN l2lru : l2lru[i] = k}) = IF Holds(l2lru, k) THEN 1 ELSE 0
    BY <2>1, Counted
  <2>4. Cardinality({i \in DOMAIN l3lru : l3lru[i] = Live(k)}) = IF Holds(l3lru, Live(k)) THEN 1 ELSE 0
    BY <2>2, Counted
  <2> QED  BY <2>1, <2>2, <2>3, <2>4
<1> QED  BY <1>1, Invariance, PTL

(* No key is in L2 and L3 at once: a put erases the copy in L3 before it   *)
(* makes room, and nothing brings it back before the chunk is inserted.    *)
THEOREM OneTier == Spec => []Exclusive
<1>1. Inv => Exclusive
  BY DEF Inv
<1> QED  BY <1>1, Invariance, PTL

(* What L2 returns under a key was put under it and is not data that the   *)
(* disk lost, across kills, power failures and loads of the old file.      *)
THEOREM OwnChunk == Spec => []RightChunk
<1>1. Inv => RightChunk
  BY Chunks DEF Inv, RightChunk, TypeOK, TierL2, InL2
<1> QED  BY <1>1, Invariance, PTL

(* In a process that starts on no file, get() returns the data of the last *)
(* put() of its key or nothing.  A process that loads the file of another  *)
(* is excluded for a reason: see Overwritten.                              *)
THEOREM LastPutReturned ==
    ASSUME ~KeepFile
    PROVE  Spec => []Current
<1>1. Inv => Current
  BY DEF Inv, Current, TierL2, TierL3, Same, Readable, InL2, InL3
<1> QED  BY <1>1, Invariance, PTL
-----------------------------------------------------------------------------
(* In a process that starts on no file no record of L3 is past the end of  *)
(* the file, where it would come back when the file grows, and no put() is *)
(* left over when none runs.                                               *)
Resting ==
    /\ \A k \in InL3 : RecordSize * l3[k] <= fileSize
    /\ pc = "idle" => cur = NoChunk

Files == <<l3, disk, mapped, fileSize>>

(* A process that starts on no file.                                       *)
LEMMA StartsEmpty ==
    ASSUME ~KeepFile, NEW d, Start(d)
    PROVE  InL2' = {} /\ InL3' = {} /\ cur' = NoChunk /\ latest' = [k \in Keys |-> None]
<1>1. PICK e : e = [n \in Slot |-> Blank] /\ LoadFrom(e, InitSize)
  BY DEF Start
<1>2. InitSize \in 0 .. FileLimit /\ Whole(InitSize) \in 0 .. Slots /\ e \in [Slot -> Record \cup {Blank}] /\ \A n \in Slot : e[n] \notin Record
  BY <1>1, Sizing, Records
<1>3. PICK m \in 0 .. Whole(InitSize) :
        /\ \A n \in 1 .. m : n \in Slot /\ e[n] \in Record
        /\ \A k \in Keys : l3'[k] # NoOffset => l3'[k] \in 1 .. m
  BY <1>1, <1>2, Loading
<1>4. m = 0
  <2>1. 1 \notin 1 .. m
    BY <1>2, <1>3
  <2> QED  BY <1>2, <2>1
<1> QED  BY <1>3, <1>4 DEF InL3, InL2, Start

LEMMA RestingInit == Init => Resting
BY DEF Init, Resting, InL3

LEMMA RestingNext ==
    ASSUME ~KeepFile, Inv, Resting, [Next]_vars
    PROVE  Resting'
<1> USE Sizing DEF Resting, Files
<1>1. CASE \/ \E k \in Keys, d \in Data, s \in Sizes : Put(k, d, s)
           \/ \E k \in Keys : GetFromL2(k) \/ GetTooFull(k) \/ GetUnreadable(k) \/ Persist(k)
           \/ SafeUnmount \/ Shutdown \/ Refuse \/ Overwrite \/ Insert
  <2>1. UNCHANGED <<l3, fileSize>> /\ (pc' = "idle" => cur' = NoChunk)
    BY <1>1 DEF Put, GetFromL2, GetTooFull, GetUnreadable, Persist, SafeUnmount, Shutdown, Refuse,
                Overwrite, Insert, Return, index3, file, control
  <2> QED  BY <2>1 DEF InL3
<1>2. CASE Expire \/ MakeRoom \/ SpareL2 \/ ChooseVictim \/ EvictL3 \/ SpareL3
           \/ WriteRefused \/ AppendFails \/ UNCHANGED vars
  <2>1. UNCHANGED <<l3, fileSize>>
    BY <1>2, VictimChosen
       DEF Expire, MakeRoom, EvictL2, SpareL2, EvictL3, SpareL3, WriteRefused, AppendFails, vars, index3, file
  <2>2. pc' = "idle" => cur' = NoChunk
    BY <1>2, VictimChosen
       DEF Expire, MakeRoom, EvictL2, SpareL2, EvictL3, SpareL3, WriteRefused, AppendFails, LeaveL2, vars, control, Inv, TypeOK
  <2> QED  BY <2>1, <2>2 DEF InL3
<1>3. CASE EraseL3 \/ DropTail \/ \E k \in Keys : Promote(k)
  <2>1. \A j \in Keys : l3'[j] \in {NoOffset, l3[j]}
    BY <1>3 DEF EraseL3, DropTail, Promote, index3, Inv, TypeOK
  <2>2. fileSize' = fileSize /\ (pc' = "idle" => cur' = NoChunk)
    BY <1>3 DEF EraseL3, DropTail, Promote, file, control
  <2> QED  BY <2>1, <2>2 DEF InL3
<1>4. CASE WriteFits
  <2>1. pc' # "idle"
    BY <1>4 DEF WriteFits
  <2>2. ASSUME NEW k \in InL3' PROVE 10 * l3'[k] <= fileSize'
    <3>1. CASE UNCHANGED <<index3, file>>
      BY <2>2, <3>1 DEF index3, file, InL3
    <3>2. CASE Cardinality(Kept) <= 1 /\ Compact
      <4>1. k \in Kept /\ l3'[k] = 1
        BY <2>2, <3>2 DEF Compact, InL3
      <4>2. Cardinality(Kept) \in Nat /\ Cardinality(Kept) # 0
        <5>1. IsFiniteSet(Kept)
          BY FS_Subset, StorageAssumption DEF Kept, InL3
        <5> QED  BY <4>1, <5>1, FS_CardinalityType, FS_EmptySet
      <4>3. fileSize' = 10 * Cardinality(Kept)
        BY <3>2, Sizing DEF Compact
      <4> QED  BY <3>2, <4>1, <4>2, <4>3
    <3> QED  BY <1>4, <3>1, <3>2 DEF WriteFits
  <2> QED  BY <2>1, <2>2
<1>5. CASE AppendRecord
  <2>1. pc' # "idle"
    BY <1>5 DEF AppendRecord, LeaveL2, Inv, TypeOK
  <2>2. 10 * next <= fileSize' /\ fileSize <= fileSize' /\ fileSize \in Int /\ fileSize' \in Int
    <3>1. fileSize' = Ensured /\ Required <= Ensured
      BY <1>5 DEF AppendRecord
    <3>2. Ensured \in 0 .. FileLimit /\ fileSize <= Ensured /\ Required = 10 * next
      BY Ensuring
    <3>3. fileSize \in Int
      BY DEF Inv, TypeOK
    <3> QED  BY <3>1, <3>2, <3>3, Sizing
  <2>3. l3' = [l3 EXCEPT ![victim] = next]
    BY <1>5 DEF AppendRecord
  <2>4. ASSUME NEW k \in InL3' PROVE 10 * l3'[k] <= fileSize'
    <3>1. k \in Keys /\ (k = victim => l3'[k] = next)
      BY <2>3, <2>4 DEF InL3, Inv, TypeOK
    <3>2. k # victim => l3'[k] = l3[k] /\ k \in InL3
      BY <2>3, <2>4 DEF InL3, Inv, TypeOK
    <3>3. k # victim => l3[k] \in Int /\ 10 * l3[k] <= fileSize
      BY <3>2 DEF Inv, TypeOK, InL3, Slot
    <3> QED  BY <2>2, <3>1, <3>2, <3>3
  <2> QED  BY <2>1, <2>4
<1>7. CASE AppendPast
  <2>1. UNCHANGED l3 /\ pc' = "undefined" /\ fileSize <= fileSize'
    BY <1>7, Ensuring DEF AppendPast, index3
  <2>2. fileSize \in Int /\ fileSize' \in Int
    BY <1>7, Ensuring DEF AppendPast, Inv, TypeOK
  <2>3. \A k \in InL3 : l3[k] \in Int
    BY DEF Inv, TypeOK, InL3, Slot
  <2> QED  BY <2>1, <2>2, <2>3 DEF InL3
<1>6. CASE Exit \/ Kill \/ PowerFailure
  BY <1>6, StartsEmpty DEF Exit, Kill, PowerFailure
<1> QED  BY <1>1, <1>2, <1>3, <1>4, <1>5, <1>6, <1>7 DEF Next, Running

-----------------------------------------------------------------------------
(* Chunks of one size: usage is counted exactly in L2, and from above in   *)
(* L3, because no addition or subtraction wraps around.                    *)
LEMMA Times ==
    /\ \A s \in Nat, n \in Int : s * (n + 1) = s * n + s /\ s * (n - 1) = s * n - s
    /\ \A s, n \in Nat : s * n \in Nat /\ (n > 0 => s <= s * n)
    /\ \A s, m, n \in Nat : m <= n => s * m <= s * n
<1>1. \A s \in Nat, n \in Int : s * (n + 1) = s * n + s /\ s * (n - 1) = s * n - s
  OBVIOUS
<1>2. \A s, n \in Nat : s * n \in Nat /\ (n > 0 => s <= s * n)
  OBVIOUS
<1>3. \A s, m, n \in Nat : m <= n => s * m <= s * n
  OBVIOUS
<1> QED  BY <1>1, <1>2, <1>3

(* A sum that FoldSet forms, by choosing elements until none is left.      *)
LEMMA Multiples ==
    ASSUME NEW S, IsFiniteSet(S), NEW s \in Nat
    PROVE  \A t \in SUBSET S : t # {} =>
              s * Cardinality(t) = s * Cardinality(t \ {CHOOSE k \in t : TRUE}) + s
<1> SUFFICES ASSUME NEW t \in SUBSET S, t # {}
             PROVE  s * Cardinality(t) = s * Cardinality(t \ {CHOOSE k \in t : TRUE}) + s
  OBVIOUS
<1>1. PICK k : k = CHOOSE j \in t : TRUE
  OBVIOUS
<1>2. k \in t /\ IsFiniteSet(t)
  BY <1>1, FS_Subset
<1>3. Cardinality(t \ {k}) = Cardinality(t) - 1 /\ Cardinality(t) \in Nat
  BY <1>2, FS_RemoveElement, FS_CardinalityType
<1> QED  BY <1>1, <1>3, Times

LEMMA Summed ==
    ASSUME NEW S, IsFiniteSet(S), NEW s \in Nat, NEW f,
           \A t \in SUBSET S : f[t] = IF t = {} THEN 0 ELSE f[t \ {CHOOSE k \in t : TRUE}] + s
    PROVE  f[S] = s * Cardinality(S)
<1> DEFINE P == {n \in 0 .. Cardinality(S) : \A t \in SUBSET S : Cardinality(t) = n => f[t] = s * n}
<1>0. Cardinality(S) \in Nat
  BY FS_CardinalityType
<1>1. 0 \in P
  <2>1. ASSUME NEW t \in SUBSET S, Cardinality(t) = 0 PROVE f[t] = s * 0
    <3>1. t = {}
      BY <2>1, FS_Subset, FS_EmptySet
    <3> QED  BY <3>1
  <2> QED  BY <1>0, <2>1
<1>2. ASSUME NEW n \in 1 .. Cardinality(S), n - 1 \in P PROVE n \in P
  <2>1. ASSUME NEW t \in SUBSET S, Cardinality(t) = n PROVE f[t] = s * n
    <3>1. PICK k : k = CHOOSE j \in t : TRUE
      OBVIOUS
    <3>2. t # {}
      <4>1. n # 0 /\ Cardinality({}) = 0
        BY <1>0, FS_EmptySet
      <4> QED  BY <2>1, <4>1
    <3>3. k \in t /\ IsFiniteSet(t)
      BY <3>1, <3>2, FS_Subset
    <3>4. Cardinality(t \ {k}) = n - 1
      BY <2>1, <3>3, FS_RemoveElement
    <3>5. f[t \ {k}] = s * (n - 1)
      BY <1>2, <3>4
    <3>6. f[t] = f[t \ {k}] + s
      BY <3>1, <3>2
    <3>7. s * (n - 1) = s * n - s /\ s * n \in Nat
      BY Times
    <3> QED  BY <3>5, <3>6, <3>7
  <2> QED  BY <2>1
<1>3. Cardinality(S) \in P
  <2> HIDE DEF P
  <2>1. 0 .. Cardinality(S) \subseteq P
    BY <1>0, <1>1, <1>2, UpTo
  <2> QED  BY <1>0, <2>1
<1> QED  BY <1>3

LEMMA SummedL2 ==
    ASSUME NEW s \in Nat, IsFiniteSet(InL2), \A k \in InL2 : l2[k].size = s
    PROVE  SizeInL2 = s * Cardinality(InL2)
<1> DEFINE Body(g) == [t \in SUBSET InL2 |->
                          IF t = {} THEN 0
                          ELSE g[t \ {CHOOSE k \in t : TRUE}] + l2[CHOOSE k \in t : TRUE].size]
<1>1. PICK f : f = CHOOSE g : g = Body(g)
  OBVIOUS
<1>2. SizeInL2 = f[InL2]
  BY <1>1 DEF SizeInL2, Sum, FoldSet, MapThenFoldSet
<1>3. \A t \in SUBSET InL2 : t # {} => l2[CHOOSE k \in t : TRUE].size = s
  OBVIOUS
<1>4. \E g : g = Body(g)
  <2>1. PICK g : g = [t \in SUBSET InL2 |-> s * Cardinality(t)]
    OBVIOUS
  <2>2. ASSUME NEW t \in SUBSET InL2
        PROVE  g[t] = IF t = {} THEN 0
                      ELSE g[t \ {CHOOSE k \in t : TRUE}] + l2[CHOOSE k \in t : TRUE].size
    <3>1. CASE t = {}
      BY <2>1, <3>1, FS_EmptySet
    <3>2. CASE t # {}
      <4>1. t \ {CHOOSE k \in t : TRUE} \in SUBSET InL2
        OBVIOUS
      <4> QED  BY <1>3, <2>1, <3>2, <4>1, Multiples
    <3> QED  BY <3>1, <3>2
  <2>3. g = Body(g)
    BY <2>1, <2>2
  <2> QED  BY <2>3
<1>5. f = Body(f)
  <2> HIDE DEF Body
  <2> QED  BY <1>1, <1>4
<1>6. ASSUME NEW t \in SUBSET InL2
      PROVE  f[t] = IF t = {} THEN 0 ELSE f[t \ {CHOOSE k \in t : TRUE}] + s
  <2>1. f[t] = Body(f)[t]
    BY <1>5
  <2> QED  BY <1>3, <2>1
<1> HIDE DEF Body
<1> QED  BY <1>2, <1>6, Summed

LEMMA SummedL3 ==
    ASSUME NEW s \in Nat, IsFiniteSet(InL3), \A k \in InL3 : disk[l3[k]].size = s
    PROVE  SizeInL3 = s * Cardinality(InL3)
<1> DEFINE Body(g) == [t \in SUBSET InL3 |->
                          IF t = {} THEN 0
                          ELSE g[t \ {CHOOSE k \in t : TRUE}] + disk[l3[CHOOSE k \in t : TRUE]].size]
<1>1. PICK f : f = CHOOSE g : g = Body(g)
  OBVIOUS
<1>2. SizeInL3 = f[InL3]
  BY <1>1 DEF SizeInL3, Sum, FoldSet, MapThenFoldSet
<1>3. \A t \in SUBSET InL3 : t # {} => disk[l3[CHOOSE k \in t : TRUE]].size = s
  OBVIOUS
<1>4. \E g : g = Body(g)
  <2>1. PICK g : g = [t \in SUBSET InL3 |-> s * Cardinality(t)]
    OBVIOUS
  <2>2. ASSUME NEW t \in SUBSET InL3
        PROVE  g[t] = IF t = {} THEN 0
                      ELSE g[t \ {CHOOSE k \in t : TRUE}] + disk[l3[CHOOSE k \in t : TRUE]].size
    <3>1. CASE t = {}
      BY <2>1, <3>1, FS_EmptySet
    <3>2. CASE t # {}
      <4>1. t \ {CHOOSE k \in t : TRUE} \in SUBSET InL3
        OBVIOUS
      <4> QED  BY <1>3, <2>1, <3>2, <4>1, Multiples
    <3> QED  BY <3>1, <3>2
  <2>3. g = Body(g)
    BY <2>1, <2>2
  <2> QED  BY <2>3
<1>5. f = Body(f)
  <2> HIDE DEF Body
  <2> QED  BY <1>1, <1>4
<1>6. ASSUME NEW t \in SUBSET InL3
      PROVE  f[t] = IF t = {} THEN 0 ELSE f[t \ {CHOOSE k \in t : TRUE}] + s
  <2>1. f[t] = Body(f)[t]
    BY <1>5
  <2> QED  BY <1>3, <2>1
<1> HIDE DEF Body
<1> QED  BY <1>2, <1>6, Summed

(* The counters in chunks of size s; between the decision to write and the *)
(* write there is room for one more.                                       *)
Limits(s) ==
    /\ l2usage = s * Cardinality(InL2)
    /\ l2usage <= L2Limit
    /\ s * Cardinality(InL3) <= l3usage
    /\ l3usage <= L3Limit
    /\ pc = "append" => l3usage + s <= L3Limit

LEMMA Finite ==
    /\ IsFiniteSet(InL2) /\ Cardinality(InL2) \in Nat
    /\ IsFiniteSet(InL3) /\ Cardinality(InL3) \in Nat
<1>1. InL2 \in SUBSET Keys /\ InL3 \in SUBSET Keys
  BY DEF InL2, InL3
<1> QED  BY <1>1, StorageAssumption, FS_Subset, FS_CardinalityType

(* While neither sum reaches Wrap, size_t arithmetic is that of numbers.   *)
LEMMA Exact ==
    ASSUME NEW s \in Sizes, NEW u \in Nat
    PROVE  /\ s \in Nat \ {0}
           /\ u <= L2Limit \/ u <= L3Limit => Plus(u, s) = u + s
           /\ s <= u /\ (u <= L2Limit \/ u <= L3Limit) => Minus(u, s) = u - s
<1>1. s \in Nat \ {0} /\ L2Limit \in Nat /\ L3Limit \in Nat /\ Wrap \in Nat \ {0}
      /\ L2Limit + s < Wrap /\ L3Limit + s < Wrap
  BY StorageAssumption
<1>2. \A a \in Nat : a < Wrap => a % Wrap = a
  BY <1>1
<1>3. u <= L2Limit \/ u <= L3Limit => u + s < Wrap /\ u < Wrap
  BY <1>1
<1> QED  BY <1>1, <1>2, <1>3 DEF Plus, Minus

LEMMA OneSize ==
    ASSUME Inv, NEW s, Sizes = {s}
    PROVE  /\ \A k \in InL2 : l2[k].size = s
           /\ \A k \in InL3 : disk[l3[k]].size = s
           /\ Putting => cur.size = s
           /\ Writing => victim \in InL2 /\ l2[victim].size = s
<1>1. \A k \in InL2 : l2[k].size \in Sizes
  BY Chunks DEF Inv, TypeOK, InL2
<1>2. \A k \in InL3 : disk[l3[k]].size \in Sizes
  <2>1. \A k \in InL3 : disk[l3[k]] \in Record
    BY DEF Inv, TierL3, InL3
  <2> QED  BY <2>1, Records
<1>3. Putting => cur.size \in Sizes
  BY Chunks DEF Inv, Control
<1>4. Writing => victim \in InL2
  BY DEF Inv, Control
<1> QED  BY <1>1, <1>2, <1>3, <1>4

LEMMA LimitsFrame ==
    ASSUME NEW s, Limits(s), UNCHANGED <<l2, l3, l2usage, l3usage>>, pc' # "append"
    PROVE  Limits(s)'
BY FrameKeys DEF Limits

(* One chunk more or less in L2, or in L3.                                 *)
LEMMA MoreL2 ==
    ASSUME Inv, NEW s \in Sizes, Limits(s), NEW k, k \notin InL2, InL2' = InL2 \cup {k},
           l2usage' = Plus(l2usage, s), Plus(l2usage, s) <= L2Limit
    PROVE  l2usage' = s * Cardinality(InL2)' /\ l2usage' <= L2Limit
<1>1. l2usage \in Nat
  BY DEF Inv, TypeOK
<1>2. Cardinality(InL2') = Cardinality(InL2) + 1 /\ Cardinality(InL2) \in Nat
  BY Finite, FS_AddElement
<1>3. s \in Nat /\ l2usage' = l2usage + s
  BY <1>1, Exact DEF Limits
<1>4. s * (Cardinality(InL2) + 1) = s * Cardinality(InL2) + s
  BY <1>2, <1>3, Times
<1> QED  BY <1>2, <1>3, <1>4 DEF Limits

LEMMA LessL2 ==
    ASSUME Inv, NEW s \in Sizes, Limits(s), NEW k \in InL2, InL2' = InL2 \ {k},
           l2usage' = Minus(l2usage, s)
    PROVE  l2usage' = s * Cardinality(InL2)' /\ l2usage' <= L2Limit
<1>1. l2usage \in Nat /\ L2Limit \in Nat
  BY StorageAssumption DEF Inv, TypeOK
<1>2. Cardinality(InL2') = Cardinality(InL2) - 1 /\ Cardinality(InL2) \in Nat /\ Cardinality(InL2) > 0
  <2>1. Cardinality(InL2) # 0 /\ Cardinality(InL2) \in Nat
    BY Finite, FS_EmptySet
  <2>2. Cardinality(InL2 \ {k}) = Cardinality(InL2) - 1
    BY Finite, FS_RemoveElement
  <2> QED  BY <2>1, <2>2
<1>3. s \in Nat
  BY <1>1, Exact
<1>4. s * (Cardinality(InL2) - 1) = s * Cardinality(InL2) - s /\ s <= s * Cardinality(InL2)
  BY <1>2, <1>3, Times
<1>5. l2usage' = l2usage - s
  BY <1>1, <1>4, Exact DEF Limits
<1> QED  BY <1>1, <1>2, <1>3, <1>4, <1>5 DEF Limits

LEMMA LessL3 ==
    ASSUME Inv, NEW s \in Sizes, Limits(s), NEW k \in InL3, InL3' = InL3 \ {k},
           l3usage' \in {l3usage, Minus(l3usage, s)}
    PROVE  s * Cardinality(InL3)' <= l3usage' /\ l3usage' <= L3Limit
<1>1. l3usage \in Nat /\ L3Limit \in Nat
  BY StorageAssumption DEF Inv, TypeOK
<1>2. Cardinality(InL3') = Cardinality(InL3) - 1 /\ Cardinality(InL3) \in Nat /\ Cardinality(InL3) > 0
  <2>1. Cardinality(InL3) # 0 /\ Cardinality(InL3) \in Nat
    BY Finite, FS_EmptySet
  <2>2. Cardinality(InL3 \ {k}) = Cardinality(InL3) - 1
    BY Finite, FS_RemoveElement
  <2> QED  BY <2>1, <2>2
<1>3. s \in Nat
  BY <1>1, Exact
<1>4. s * (Cardinality(InL3) - 1) = s * Cardinality(InL3) - s /\ s <= s * Cardinality(InL3)
      /\ s * Cardinality(InL3) \in Nat
  BY <1>2, <1>3, Times
<1>5. Minus(l3usage, s) = l3usage - s
  <2>1. s <= l3usage
    BY <1>1, <1>3, <1>4 DEF Limits
  <2> QED  BY <1>1, <2>1, Exact DEF Limits
<1> QED  BY <1>1, <1>2, <1>3, <1>4, <1>5 DEF Limits

LEMMA PromoteLimits ==
    ASSUME Inv, NEW s \in Sizes, Sizes = {s}, Limits(s), NEW k \in Keys, Promote(k)
    PROVE  Limits(s)'
<1>1. k \in InL3 /\ k \notin InL2 /\ disk[l3[k]] \in Record /\ disk[l3[k]].key = k /\ disk[l3[k]].size = s
  <2>1. k \in InL3 /\ k \notin InL2
    BY DEF Promote
  <2>2. disk[l3[k]] \in Record /\ disk[l3[k]].key = k
    BY <2>1 DEF Inv, TierL3, Promote, Readable
  <2> QED  BY <2>1, <2>2, Records
<1>2. PICK c : c = [key |-> disk[l3[k]].key, data |-> disk[l3[k]].data, size |-> disk[l3[k]].size]
  OBVIOUS
<1>3. c # NoChunk
  BY <1>1, <1>2, StorageAssumption DEF NoChunk
<1>4. l2' = [l2 EXCEPT ![k] = c] /\ l3' = [l3 EXCEPT ![k] = NoOffset]
  BY <1>2 DEF Promote
<1>5. InL2' = InL2 \cup {k} /\ InL3' = InL3 \ {k}
  BY <1>3, <1>4 DEF InL2, InL3, Inv, TypeOK
<1>6. /\ l2usage' = Plus(l2usage, s) /\ Plus(l2usage, s) <= L2Limit
      /\ l3usage' = Minus(l3usage, s) /\ pc' = "idle"
  BY <1>1 DEF Promote
<1>7. l2usage' = s * Cardinality(InL2)' /\ l2usage' <= L2Limit
  BY <1>1, <1>5, <1>6, MoreL2
<1>8. s * Cardinality(InL3)' <= l3usage' /\ l3usage' <= L3Limit
  BY <1>1, <1>5, <1>6, LessL3
<1> QED  BY <1>6, <1>7, <1>8 DEF Limits

LEMMA PutLimits ==
    ASSUME Inv, NEW s \in Sizes, Sizes = {s}, Limits(s), Overwrite \/ EraseL3 \/ Insert
    PROVE  Limits(s)'
<1>1. cur \in Chunk /\ cur.size = s /\ cur # NoChunk /\ cur.key \in Keys
  BY OneSize, Chunks DEF Inv, Overwrite, EraseL3, Insert, Control, Putting
<1>2. CASE Overwrite
  <2>1. InL2' = InL2 /\ UNCHANGED <<l2usage, l3usage>> /\ InL3' = InL3 /\ pc' = "idle"
    BY <1>1, <1>2, FrameKeys DEF Overwrite, InL2, Inv, TypeOK, index3, Return
  <2> QED  BY <2>1 DEF Limits
<1>3. CASE EraseL3
  <2>1. InL2' = InL2 /\ UNCHANGED l2usage /\ pc' = "fit"
    BY <1>3, FrameKeys DEF EraseL3, memory
  <2>2. CASE cur.key \in InL3
    <3>1. l3' = [l3 EXCEPT ![cur.key] = NoOffset] /\ l3usage' = Minus(l3usage, s)
      BY <1>1, <1>3, <2>2 DEF EraseL3
    <3>2. InL3' = InL3 \ {cur.key}
      BY <1>1, <3>1 DEF InL3, Inv, TypeOK
    <3>3. s * Cardinality(InL3)' <= l3usage' /\ l3usage' <= L3Limit
      BY <2>2, <3>1, <3>2, LessL3
    <3> QED  BY <2>1, <3>3 DEF Limits
  <2>3. CASE cur.key \notin InL3
    <3>1. UNCHANGED l3usage /\ InL3' = InL3
      BY <1>3, <2>3, FrameKeys DEF EraseL3, index3
    <3> QED  BY <2>1, <3>1 DEF Limits
  <2> QED  BY <2>2, <2>3
<1>4. CASE Insert
  <2>1. PICK k \in Keys : k = cur.key
    BY <1>1
  <2>2. k \notin InL2
    BY <1>4, <2>1 DEF Inv, Insert, Control, Fitting
  <2>3. l2' = [l2 EXCEPT ![k] = cur] /\ InL2' = InL2 \cup {k}
    BY <1>1, <1>4, <2>1 DEF Insert, InL2, Inv, TypeOK
  <2>4. l2usage' = Plus(l2usage, s) /\ Plus(l2usage, s) <= L2Limit
    <3>1. Plus(l2usage, s) \in Int /\ L2Limit \in Int
      BY StorageAssumption, Exact DEF Inv, TypeOK, Limits
    <3> QED  BY <1>1, <1>4, <3>1 DEF Insert, Full
  <2>5. l2usage' = s * Cardinality(InL2)' /\ l2usage' <= L2Limit
    BY <2>2, <2>3, <2>4, MoreL2
  <2>6. UNCHANGED l3usage /\ InL3' = InL3 /\ pc' = "idle"
    BY <1>4, FrameKeys DEF Insert, index3, Return
  <2> QED  BY <2>5, <2>6 DEF Limits
<1> QED  BY <1>2, <1>3, <1>4

LEMMA EvictionLimits ==
    ASSUME Inv, NEW s \in Sizes, Sizes = {s}, Limits(s), LeaveL2, pc \in {"write", "append"}
    PROVE  /\ l2usage' = s * Cardinality(InL2)' /\ l2usage' <= L2Limit
           /\ victim \in InL2 /\ l2[victim].size = s /\ pc' # "append"
<1>1. victim \in InL2 /\ l2[victim].size = s
  BY OneSize DEF Writing
<1>2. InL2' = InL2 \ {victim} /\ pc' # "append"
  BY Leaving
<1>3. l2usage' = Minus(l2usage, s)
  BY <1>1 DEF LeaveL2
<1> QED  BY <1>1, <1>2, <1>3, LessL2

LEMMA WriteLimits ==
    ASSUME Inv, NEW s \in Sizes, Sizes = {s}, Limits(s),
           WriteRefused \/ AppendFails \/ DropTail \/ WriteFits \/ AppendRecord
    PROVE  Limits(s)'
<1>0. l3usage \in Nat /\ s \in Nat /\ L3Limit \in Nat
  BY StorageAssumption, Exact DEF Inv, TypeOK
<1>1. CASE WriteRefused \/ AppendFails
  <2>1. pc \in {"write", "append"} /\ LeaveL2 /\ UNCHANGED l3usage /\ InL3' = InL3
    BY <1>1, FrameKeys DEF WriteRefused, AppendFails, index3
  <2>2. l2usage' = s * Cardinality(InL2)' /\ l2usage' <= L2Limit /\ pc' # "append"
    BY <2>1, EvictionLimits
  <2> QED  BY <2>1, <2>2 DEF Limits
<1>2. CASE DropTail
  <2>1. PICK k : k = Last(l3lru).key
    OBVIOUS
  <2>2. /\ l3' = [l3 EXCEPT ![k] = NoOffset] /\ InL2' = InL2 /\ UNCHANGED l2usage /\ pc' = "write"
        /\ l3usage' = IF k \in InL3 /\ Readable(l3[k]) THEN Minus(l3usage, disk[l3[k]].size) ELSE l3usage
    BY <1>2, <2>1, FrameKeys DEF DropTail, memory
  <2>3. InL3' = InL3 \ {k}
    BY <2>2 DEF InL3, Inv, TypeOK
  <2>4. CASE k \in InL3
    <3>1. l3usage' \in {l3usage, Minus(l3usage, s)}
      BY <2>2, <2>4, OneSize
    <3>2. s * Cardinality(InL3)' <= l3usage' /\ l3usage' <= L3Limit
      BY <2>3, <2>4, <3>1, LessL3
    <3> QED  BY <2>2, <3>2 DEF Limits
  <2>5. CASE k \notin InL3
    <3>1. InL3' = InL3 /\ UNCHANGED l3usage
      BY <2>2, <2>3, <2>5
    <3> QED  BY <2>2, <3>1 DEF Limits
  <2> QED  BY <2>4, <2>5
<1>3. CASE WriteFits
  <2>1. victim \in InL2 /\ l2[victim].size = s /\ pc = "write"
    BY <1>3, OneSize DEF Writing, WriteFits
  <2>2. InL2' = InL2 /\ UNCHANGED <<l2usage, l3usage>> /\ InL3' \subseteq InL3
    <3>1. CASE UNCHANGED <<index3, file>>
      BY <1>3, <3>1, FrameKeys DEF WriteFits, memory, index3
    <3>2. CASE Cardinality(Kept) <= 1 /\ Compact
      BY <1>3, <2>1, <3>2, FrameKeys, CompactKeeps DEF WriteFits, memory
    <3> QED  BY <1>3, <3>1, <3>2 DEF WriteFits
  <2>3. Plus(l3usage, s) = l3usage + s
    BY <1>0, Exact DEF Limits
  <2>4. l3usage + s <= L3Limit
    BY <1>0, <1>3, <2>1, <2>3 DEF WriteFits, Overflows
  <2>5. s * Cardinality(InL3') <= s * Cardinality(InL3)
    <3>1. Cardinality(InL3') <= Cardinality(InL3) /\ Cardinality(InL3') \in Nat /\ Cardinality(InL3) \in Nat
      <4>1. IsFiniteSet(InL3') /\ Cardinality(InL3') <= Cardinality(InL3)
        BY <2>2, Finite, FS_Subset
      <4> QED  BY <4>1, Finite, FS_CardinalityType
    <3> QED  BY <1>0, <3>1, Times
  <2>6. s * Cardinality(InL3') \in Int /\ s * Cardinality(InL3) \in Int
    <3>1. Cardinality(InL3') \in Nat /\ Cardinality(InL3) \in Nat
      <4>1. IsFiniteSet(InL3')
        BY <2>2, Finite, FS_Subset
      <4> QED  BY <4>1, Finite, FS_CardinalityType
    <3> QED  BY <1>0, <3>1, Times
  <2> QED  BY <1>0, <2>2, <2>4, <2>5, <2>6 DEF Limits
<1>4. CASE AppendRecord
  <2>1. pc = "append" /\ LeaveL2 /\ l3usage' = Plus(l3usage, l2[victim].size) /\ l3' = [l3 EXCEPT ![victim] = next]
    BY <1>4 DEF AppendRecord
  <2>2. /\ l2usage' = s * Cardinality(InL2)' /\ l2usage' <= L2Limit
        /\ victim \in InL2 /\ l2[victim].size = s /\ pc' # "append"
    BY <2>1, EvictionLimits
  <2>3. l3usage' = l3usage + s /\ l3usage + s <= L3Limit
    BY <1>0, <2>1, <2>2, Exact DEF Limits
  <2>4. victim \notin InL3 /\ InL3' = InL3 \cup {victim}
    <3>1. victim \notin InL3 /\ victim \in Keys
      BY <2>2 DEF Inv, Exclusive, InL2
    <3>2. next # NoOffset
      BY DEF Inv, TypeOK, NoOffset
    <3> QED  BY <2>1, <3>1, <3>2 DEF Inv, TypeOK, InL3
  <2>5. Cardinality(InL3') = Cardinality(InL3) + 1 /\ Cardinality(InL3) \in Nat
    BY <2>4, Finite, FS_AddElement
  <2>6. s * (Cardinality(InL3) + 1) = s * Cardinality(InL3) + s /\ s * Cardinality(InL3) \in Nat
    BY <1>0, <2>5, Times
  <2> QED  BY <1>0, <2>2, <2>3, <2>5, <2>6 DEF Limits
<1> QED  BY <1>1, <1>2, <1>3, <1>4

LEMMA EmptyLimits ==
    ASSUME NEW s \in Sizes, InL2 = {}, InL3 = {}, l2usage = 0, l3usage = 0, pc = "idle"
    PROVE  Limits(s)
<1>1. Cardinality(InL2) = 0 /\ Cardinality(InL3) = 0 /\ s * 0 = 0
  BY FS_EmptySet, Sized
<1> QED  BY <1>1, StorageAssumption DEF Limits

LEMMA StartLimits ==
    ASSUME ~KeepFile, NEW s \in Sizes, NEW d, Start(d)
    PROVE  Limits(s)'
<1>1. PICK e : e = [n \in Slot |-> Blank] /\ LoadFrom(e, InitSize)
  BY DEF Start
<1>2. InitSize \in 0 .. FileLimit /\ Whole(InitSize) \in 0 .. Slots /\ e \in [Slot -> Record \cup {Blank}] /\ \A n \in Slot : e[n] \notin Record
  BY <1>1, Sizing, Records
<1>3. PICK m \in 0 .. Whole(InitSize) :
        /\ \A n \in 1 .. m : n \in Slot /\ e[n] \in Record
        /\ \A k \in Keys : l3'[k] # NoOffset => l3'[k] \in 1 .. m
        /\ l3usage' = UsageOf(e, m)
  BY <1>1, <1>2, Loading
<1>4. m = 0
  <2>1. 1 \notin 1 .. m
    BY <1>2, <1>3
  <2> QED  BY <1>2, <2>1
<1>5. l3usage' = 0
  BY <1>3, <1>4, UsageOfType
<1>6. InL3' = {} /\ InL2' = {} /\ l2usage' = 0 /\ pc' = "idle"
  BY <1>3, <1>4 DEF InL3, InL2, Start
<1>7. Cardinality(InL2') = 0 /\ Cardinality(InL3') = 0 /\ s * 0 = 0
  BY <1>6, FS_EmptySet, Sized
<1> QED  BY <1>5, <1>6, <1>7, StorageAssumption DEF Limits

LEMMA NextLimits ==
    ASSUME ~KeepFile, Inv, NEW s \in Sizes, Sizes = {s}, Limits(s), [Next]_vars
    PROVE  Limits(s)'
<1>1. CASE \/ \E k \in Keys, d \in Data, t \in Sizes : Put(k, d, t)
           \/ \E k \in Keys : GetFromL2(k) \/ GetTooFull(k) \/ GetUnreadable(k) \/ Persist(k)
           \/ SafeUnmount \/ Shutdown \/ Refuse
  <2>1. UNCHANGED <<l2, l3, l2usage, l3usage>> /\ pc' # "append"
    BY <1>1 DEF Put, GetFromL2, GetTooFull, GetUnreadable, Persist, SafeUnmount, Shutdown, Refuse,
                Return, memory, index3, Inv, TypeOK
  <2> QED  BY <2>1, LimitsFrame
<1>2. CASE \/ Expire \/ MakeRoom \/ SpareL2 \/ ChooseVictim \/ EvictL3 \/ SpareL3 \/ AppendPast
  <2>1. UNCHANGED <<l2, l3, l2usage, l3usage>> /\ pc' # "append"
    BY <1>2, VictimChosen
       DEF Expire, MakeRoom, EvictL2, SpareL2, EvictL3, SpareL3, AppendPast, memory, index3
  <2> QED  BY <2>1, LimitsFrame
<1>3. CASE \E k \in Keys : Promote(k)
  BY <1>3, PromoteLimits
<1>4. CASE Overwrite \/ EraseL3 \/ Insert
  BY <1>4, PutLimits
<1>5. CASE WriteRefused \/ AppendFails \/ DropTail \/ WriteFits \/ AppendRecord
  BY <1>5, WriteLimits
<1>6. CASE Exit \/ Kill \/ PowerFailure
  BY <1>6, StartLimits DEF Exit, Kill, PowerFailure
<1>7. CASE UNCHANGED vars
  BY <1>7, FrameKeys DEF vars, memory, index3, Limits
<1> QED  BY <1>1, <1>2, <1>3, <1>4, <1>5, <1>6, <1>7 DEF Next, Running

(* Chunks of one size, in a process that starts on no file: the usage of   *)
(* L2 is its sum, that of L3 is never too low, neither tier holds more     *)
(* than its limit, and the records of L3 lie in the file, whatever is put, *)
(* promoted, evicted and compacted.  A record may still be WRITTEN past    *)
(* the end of the file, after which the model stops (SpaceEnsured).  With  *)
(* chunks of two sizes put() miscounts (UsageIsSum, DiskUsageIsSum), and   *)
(* the constructor counts every record of the file it finds (LoadFrom).    *)
THEOREM LimitsKept ==
    ASSUME ~KeepFile, NEW s \in Sizes, Sizes = {s}
    PROVE  Spec => []WithinLimits
<1>1. Init => Limits(s)
  <2> SUFFICES ASSUME Init PROVE Limits(s)
    OBVIOUS
  <2>1. InL2 = {} /\ InL3 = {} /\ l2usage = 0 /\ l3usage = 0 /\ pc = "idle"
    BY DEF Init, InL2, InL3
  <2> QED  BY <2>1, EmptyLimits
<1>2. Inv /\ Limits(s) /\ [Next]_vars => Limits(s)'
  BY NextLimits
<1>a. Init => Resting
  BY RestingInit
<1>b. Inv /\ Resting /\ [Next]_vars => Resting'
  BY RestingNext
<1>3. Inv /\ Limits(s) /\ Resting => WithinLimits
  <2> SUFFICES ASSUME Inv, Limits(s), Resting PROVE WithinLimits
    OBVIOUS
  <2>1. s \in Nat
    BY Exact
  <2>2. SizeInL2 = s * Cardinality(InL2)
    BY <2>1, Finite, OneSize, SummedL2
  <2>3. SizeInL3 = s * Cardinality(InL3)
    BY <2>1, Finite, OneSize, SummedL3
  <2> QED  BY <2>2, <2>3 DEF Limits, WithinLimits, Resting
<1> QED  BY <1>1, <1>2, <1>a, <1>b, <1>3, Invariance, PTL DEF Spec
-----------------------------------------------------------------------------
(* The tiers implement ChunkMemory.                                        *)

(* What get() would return of a key.                                       *)
Copy(k) ==
    IF k \in InL2 THEN l2[k].data
    ELSE IF k \in InL3 /\ Readable(l3[k]) THEN disk[l3[k]].data
    ELSE None

(* What leaves the maps and the file alone leaves every copy alone.        *)
LEMMA CopyFrame ==
    ASSUME UNCHANGED Files, NEW k \in Keys, l2'[k] = l2[k]
    PROVE  Copy(k)' = Copy(k)
BY DEF Files, Copy, InL2, InL3, Readable

(* A chunk leaves L2 without a copy in L3.                                 *)
LEMMA CopyLeaves ==
    ASSUME Inv, Writing, LeaveL2, UNCHANGED Files, NEW k \in Keys
    PROVE  Copy(k)' \in {None, Copy(k)}
<1>1. CASE k = victim
  <2>1. k \notin InL2' /\ k \notin InL3'
    BY <1>1 DEF LeaveL2, Inv, TypeOK, Control, Exclusive, InL2, InL3, Files
  <2> QED  BY <2>1 DEF Copy
<1>2. CASE k # victim
  <2>1. l2'[k] = l2[k]
    BY <1>2 DEF LeaveL2, Inv, TypeOK
  <2> QED  BY <2>1, CopyFrame
<1> QED  BY <1>1, <1>2

(* A chunk goes from L2 to the file: its copy does not change, and that of *)
(* no other key does, although the file may grow.                          *)
LEMMA CopyAppended ==
    ASSUME Inv, Resting, AppendRecord, NEW k \in Keys
    PROVE  Copy(k)' = Copy(k)
<1>1. /\ next \in Slot /\ 10 * next <= fileSize' /\ fileSize <= fileSize'
      /\ fileSize \in Int /\ fileSize' \in Int /\ mapped /\ mapped'
  BY Ensuring, Sizing DEF Inv, TypeOK, AppendRecord
<1>2. PICK r : /\ r = [key |-> l2[victim].key, data |-> l2[victim].data,
                       size |-> l2[victim].size, form |-> "v3"]
               /\ disk' = [disk EXCEPT ![next] = r]
  BY DEF AppendRecord
<1>3. /\ victim \in InL2 /\ victim \in Keys
      /\ l2' = [l2 EXCEPT ![victim] = NoChunk] /\ l3' = [l3 EXCEPT ![victim] = next]
  BY DEF AppendRecord, LeaveL2, Inv, Control, Writing, InL2
<1>4. CASE k = victim
  <2>1. k \notin InL2' /\ l3'[k] = next
    BY <1>3, <1>4 DEF Inv, TypeOK, InL2
  <2>2. disk'[next] = r /\ r.form = "v3" /\ r.data = l2[k].data
    BY <1>1, <1>2, <1>4 DEF Inv, TypeOK
  <2>3. next # NoOffset
    BY <1>1 DEF Slot, NoOffset
  <2> QED  BY <1>1, <1>3, <1>4, <2>1, <2>2, <2>3, Sizing DEF Copy, InL3, Readable, Slot
<1>5. CASE k # victim
  <2>1. l2'[k] = l2[k] /\ l3'[k] = l3[k]
    BY <1>3, <1>5 DEF Inv, TypeOK
  <2>2. k \in InL3 => disk'[l3[k]] = disk[l3[k]] /\ (Readable(l3[k])' <=> Readable(l3[k]))
    <3>1. SUFFICES ASSUME k \in InL3
                   PROVE  disk'[l3[k]] = disk[l3[k]] /\ (Readable(l3[k])' <=> Readable(l3[k]))
      OBVIOUS
    <3>2. l3[k] \in Slot /\ l3[k] < next /\ 10 * l3[k] <= fileSize
      BY <3>1, Sizing DEF Inv, TypeOK, TierL3, Resting, InL3
    <3>3. l3[k] # next /\ 10 * l3[k] <= fileSize'
      BY <1>1, <3>2 DEF Slot
    <3>4. disk'[l3[k]] = disk[l3[k]]
      BY <1>2, <3>2, <3>3 DEF Inv, TypeOK
    <3> QED  BY <1>1, <2>1, <3>2, <3>3, <3>4, Sizing DEF Readable, Slot
  <2>3. (k \in InL2' <=> k \in InL2) /\ (k \in InL3' <=> k \in InL3)
    BY <2>1 DEF InL2, InL3
  <2> QED  BY <2>1, <2>2, <2>3 DEF Copy
<1> QED  BY <1>4, <1>5

(* Every copy stays as it is, and put() neither begins nor ends.           *)
LEMMA Stutters ==
    ASSUME \A k \in Keys : Copy(k)' = Copy(k), UNCHANGED <<cur, latest>>
    PROVE  UNCHANGED Promise!vars
<1>1. Stored' = Stored
  BY DEF Stored, Copy
<1> QED  BY <1>1 DEF Promise!vars

(* Copies are lost, any number at once, and none changes.                  *)
LEMMA Forgets ==
    ASSUME \A k \in Keys : Copy(k)' \in {None, Copy(k)}, UNCHANGED <<cur, latest>>
    PROVE  Promise!Next
<1>1. PICK gone \in SUBSET Keys : gone = {k \in Keys : Copy(k)' = None}
  OBVIOUS
<1>2. Stored = [k \in Keys |-> Copy(k)] /\ Stored' = [k \in Keys |-> Copy(k)']
  BY DEF Stored, Copy
<1>3. Stored' = [k \in Keys |-> IF k \in gone THEN None ELSE Stored[k]]
  BY <1>1, <1>2
<1>4. Promise!Forget(gone)
  BY <1>3 DEF Promise!Forget
<1> QED  BY <1>1, <1>4 DEF Promise!Next

(* Lookups, evictions that have not written or dropped anything yet, and   *)
(* the beginning of the destructor.                                        *)
LEMMA SilentSteps ==
    ASSUME Inv,
           \/ \E k \in Keys : GetFromL2(k) \/ GetTooFull(k) \/ GetUnreadable(k) \/ Persist(k)
           \/ Shutdown \/ Expire \/ MakeRoom \/ SpareL2 \/ ChooseVictim \/ EvictL3 \/ SpareL3
           \/ UNCHANGED vars
    PROVE  UNCHANGED Promise!vars
<1>1. UNCHANGED <<l2, Files, cur, latest>>
  <2>1. CASE \E k \in Keys : GetFromL2(k) \/ GetTooFull(k) \/ GetUnreadable(k) \/ Persist(k)
    BY <2>1 DEF GetFromL2, GetTooFull, GetUnreadable, Persist, Files, memory, index3, file, control
  <2>2. CASE Shutdown \/ Expire \/ MakeRoom \/ SpareL2 \/ ChooseVictim
    BY <2>2, VictimChosen
       DEF Shutdown, Expire, MakeRoom, EvictL2, SpareL2, Files, memory, index3, file, control
  <2>3. CASE EvictL3 \/ SpareL3 \/ UNCHANGED vars
    BY <2>3 DEF EvictL3, SpareL3, vars, Files, memory, index3, file, control
  <2> QED  BY <2>1, <2>2, <2>3
<1>2. ASSUME NEW k \in Keys PROVE Copy(k)' = Copy(k)
  BY <1>1, CopyFrame DEF Files
<1> QED  BY <1>1, <1>2, Stutters

(* A chunk that get() brings back to memory is the one that was on disk.   *)
LEMMA PromoteStep ==
    ASSUME Inv, NEW k \in Keys, Promote(k)
    PROVE  UNCHANGED Promise!vars
<1>1. PICK c : c = [key |-> disk[l3[k]].key, data |-> disk[l3[k]].data, size |-> disk[l3[k]].size]
  OBVIOUS
<1>2. /\ k \in InL3 /\ k \notin InL2 /\ Readable(l3[k])
      /\ l2' = [l2 EXCEPT ![k] = c] /\ l3' = [l3 EXCEPT ![k] = NoOffset]
      /\ UNCHANGED <<disk, mapped, fileSize, cur, latest>>
  BY <1>1 DEF Promote, file, control
<1>3. c # NoChunk
  <2>1. disk[l3[k]] \in Record
    BY <1>2 DEF Inv, TierL3
  <2>2. disk[l3[k]].key \in Keys
    BY <2>1, Records
  <2> QED  BY <1>1, <2>2, StorageAssumption DEF NoChunk
<1>4. ASSUME NEW j \in Keys PROVE Copy(j)' = Copy(j)
  <2>1. CASE j = k
    <3>1. l2'[j] = c /\ j \in InL2'
      BY <1>2, <1>3, <2>1 DEF Inv, TypeOK, InL2
    <3>2. c.data = disk[l3[j]].data
      BY <1>1, <2>1
    <3> QED  BY <1>2, <2>1, <3>1, <3>2 DEF Copy
  <2>2. CASE j # k
    <3>1. l2'[j] = l2[j] /\ l3'[j] = l3[j]
      BY <1>2, <2>2 DEF Inv, TypeOK
    <3> QED  BY <1>2, <3>1 DEF Copy, InL2, InL3, Readable
  <2> QED  BY <2>1, <2>2
<1> QED  BY <1>2, <1>4, Stutters

(* put() takes the mutex: none runs, for the one before it returned.       *)
LEMMA PutStep ==
    ASSUME Resting, NEW k \in Keys, NEW d \in Data, NEW s \in Sizes, Put(k, d, s)
    PROVE  Promise!Next
<1>1. /\ cur = NoChunk /\ cur' = [key |-> k, data |-> d, size |-> s]
      /\ UNCHANGED <<l2, Files, latest>>
  BY DEF Resting, Put, Files, memory, index3, file
<1>2. Stored' = Stored
  BY <1>1 DEF Files, Stored, InL2, InL3, Readable
<1>3. Promise!Call(k, d)
  BY <1>1, <1>2 DEF Promise!Call, Promise!NoCall, NoChunk
<1> QED  BY <1>3 DEF Promise!Next

(* It stores its chunk: over the one of its key in L2, or as a new one     *)
(* when no tier has the key.                                               *)
LEMMA StoreStep ==
    ASSUME Inv, Overwrite \/ Insert
    PROVE  Promise!Next
<1>1. /\ cur \in Chunk /\ cur' = NoChunk /\ UNCHANGED Files
      /\ l2' = [l2 EXCEPT ![cur.key] = cur] /\ latest' = [latest EXCEPT ![cur.key] = cur.data]
  <2>1. cur \in Chunk
    BY DEF Overwrite, Insert, Inv, Control, Putting
  <2> QED  BY <2>1 DEF Overwrite, Insert, Return, Files, index3, file
<1>2. cur.key \in Keys /\ cur # NoChunk
  BY <1>1, Chunks
<1>3. ASSUME NEW k \in Keys
      PROVE  Copy(k)' = IF k = cur.key THEN cur.data ELSE Copy(k)
  <2>1. CASE k = cur.key
    BY <1>1, <1>2, <2>1 DEF Copy, InL2, Inv, TypeOK
  <2>2. CASE k # cur.key
    <3>1. l2'[k] = l2[k]
      BY <1>1, <2>2 DEF Inv, TypeOK
    <3> QED  BY <1>1, <2>2, <3>1, CopyFrame
  <2> QED  BY <2>1, <2>2
<1>4. Stored = [k \in Keys |-> Copy(k)] /\ Stored' = [k \in Keys |-> Copy(k)']
  BY DEF Stored, Copy
<1>5. Stored' = [Stored EXCEPT ![cur.key] = cur.data]
  BY <1>3, <1>4
<1>6. [key |-> cur.key, data |-> cur.data] # Promise!NoCall
  BY <1>2, StorageAssumption DEF Promise!NoCall
<1>7. Promise!Store
  BY <1>1, <1>5, <1>6 DEF Promise!Store, Promise!NoCall, NoChunk
<1> QED  BY <1>7 DEF Promise!Next

LEMMA RefuseStep ==
    ASSUME Inv, Refuse
    PROVE  Promise!Next
<1>1. cur \in Chunk /\ cur' = NoChunk /\ UNCHANGED <<l2, Files, latest>>
  BY DEF Refuse, Return, Inv, Control, Putting, Files, memory, index3, file
<1>2. [key |-> cur.key, data |-> cur.data] # Promise!NoCall
  BY <1>1, Chunks, StorageAssumption DEF Promise!NoCall
<1>3. Stored' = Stored
  BY <1>1 DEF Files, Stored, InL2, InL3, Readable
<1>4. Promise!Refuse
  BY <1>1, <1>2, <1>3 DEF Promise!Refuse, Promise!NoCall, NoChunk
<1> QED  BY <1>4 DEF Promise!Next

(* put() erases the copy of its key in L3, and eviction drops the chunk at *)
(* the tail of the list.                                                   *)
LEMMA DropSteps ==
    ASSUME Inv, EraseL3 \/ DropTail
    PROVE  Promise!Next
<1>1. UNCHANGED <<l2, disk, mapped, fileSize, cur, latest>>
  BY DEF EraseL3, DropTail, memory, file, control
<1>2. \A k \in Keys : l3'[k] \in {NoOffset, l3[k]}
  BY DEF EraseL3, DropTail, index3, Inv, TypeOK
<1>3. ASSUME NEW k \in Keys PROVE Copy(k)' \in {None, Copy(k)}
  <2>1. (k \in InL2' <=> k \in InL2) /\ (k \in InL3' => k \in InL3 /\ l3'[k] = l3[k])
    BY <1>1, <1>2 DEF InL2, InL3
  <2> QED  BY <1>1, <1>2, <2>1 DEF Copy, Readable, InL2, InL3
<1> QED  BY <1>1, <1>3, Forgets

(* A chunk leaves L2 and is not written, or is written to the file.        *)
LEMMA EvictionSteps ==
    ASSUME Inv, Resting, WriteRefused \/ AppendFails \/ AppendRecord
    PROVE  Promise!Next
<1>1. UNCHANGED <<cur, latest>>
  BY DEF WriteRefused, AppendFails, AppendRecord, LeaveL2
<1>2. ASSUME NEW k \in Keys PROVE Copy(k)' \in {None, Copy(k)}
  <2>1. CASE WriteRefused \/ AppendFails
    <3>1. Writing /\ LeaveL2 /\ UNCHANGED Files
      BY <2>1 DEF WriteRefused, AppendFails, Writing, Files, index3, file
    <3> QED  BY <3>1, CopyLeaves
  <2>2. CASE AppendRecord
    BY <2>2, CopyAppended
  <2> QED  BY <2>1, <2>2
<1> QED  BY <1>1, <1>2, Forgets

(* The file is unmounted, or compacted into a form that nothing reads: of  *)
(* L3 no copy is left.                                                     *)
LEMMA FileSteps ==
    ASSUME Inv, SafeUnmount \/ WriteFits
    PROVE  UNCHANGED Promise!vars \/ Promise!Next
<1>1. UNCHANGED <<l2, cur, latest>>
  BY DEF SafeUnmount, WriteFits, memory, control
<1>2. CASE UNCHANGED Files
  <2>1. \A k \in Keys : Copy(k)' = Copy(k)
    BY <1>1, <1>2, CopyFrame
  <2> QED  BY <1>1, <2>1, Stutters
<1>3. CASE ~UNCHANGED Files
  <2>1. ASSUME NEW k \in Keys, k \in InL3' PROVE ~Readable(l3[k])'
    <3>1. CASE SafeUnmount
      BY <3>1 DEF SafeUnmount, Readable
    <3>2. CASE WriteFits
      <4>1. pc = "write" /\ Cardinality(Kept) <= 1 /\ Compact
        BY <1>3, <3>2 DEF WriteFits, Files, index3, file
      <4>2. l3'[k] \in Slot
        BY <2>1, <4>1, CompactKeeps DEF InL3
      <4>3. disk'[l3'[k]].form # "v3"
        BY <4>1, <4>2, CompactKeeps
      <4> QED  BY <4>3 DEF Readable
    <3> QED  BY <3>1, <3>2
  <2>2. ASSUME NEW k \in Keys PROVE Copy(k)' \in {None, Copy(k)}
    <3>1. k \in InL2' <=> k \in InL2
      BY <1>1 DEF InL2
    <3> QED  BY <1>1, <2>1, <3>1 DEF Copy
  <2> QED  BY <1>1, <2>2, Forgets
<1> QED  BY <1>2, <1>3

(* A new process knows nothing.                                            *)
LEMMA RestartSteps ==
    ASSUME ~KeepFile, Exit \/ Kill \/ PowerFailure
    PROVE  Promise!Next
<1>1. InL2' = {} /\ InL3' = {} /\ cur' = NoChunk /\ latest' = [k \in Keys |-> None]
  BY StartsEmpty DEF Exit, Kill, PowerFailure
<1>2. Stored' = [k \in Keys |-> None]
  BY <1>1 DEF Stored
<1>3. Promise!Restart
  BY <1>1, <1>2 DEF Promise!Restart, Promise!NoCall, NoChunk
<1> QED  BY <1>3 DEF Promise!Next

(* The file grows and nothing is appended: no record of L3 comes to lie in *)
(* it that did not before.                                                 *)
LEMMA PastStep ==
    ASSUME Inv, Resting, AppendPast
    PROVE  UNCHANGED Promise!vars
<1>1. /\ UNCHANGED <<l2, l3, disk, mapped, cur, latest>>
      /\ fileSize <= fileSize' /\ fileSize \in Int /\ fileSize' \in Int
  BY Ensuring DEF AppendPast, memory, index3, control, Inv, TypeOK
<1>2. ASSUME NEW k \in Keys PROVE Copy(k)' = Copy(k)
  <2>1. k \in InL3 => (Readable(l3[k])' <=> Readable(l3[k]))
    <3>1. k \in InL3 => l3[k] \in Int /\ 10 * l3[k] <= fileSize
      BY Sizing DEF Resting, Inv, TypeOK, InL3
    <3> QED  BY <1>1, <3>1, Sizing DEF Readable
  <2> QED  BY <1>1, <2>1 DEF Copy, InL2, InL3
<1> QED  BY <1>1, <1>2, Stutters

LEMMA InitRemembers == Init => Promise!Init
<1> SUFFICES ASSUME Init PROVE Promise!Init
  OBVIOUS
<1>1. InL2 = {} /\ InL3 = {} /\ cur = NoChunk /\ latest = [k \in Keys |-> None]
  BY DEF Init, InL2, InL3
<1> QED  BY <1>1 DEF Promise!Init, Promise!NoCall, NoChunk, Stored

LEMMA NextRemembers ==
    ASSUME ~KeepFile, Inv, Resting, [Next]_vars
    PROVE  [Promise!Next]_Promise!vars
<1>1. CASE \E k \in Keys, d \in Data, s \in Sizes : Put(k, d, s)
  BY <1>1, PutStep
<1>2. CASE \E k \in Keys : Promote(k)
  BY <1>2, PromoteStep
<1>3. CASE Overwrite \/ Insert \/ Refuse
  BY <1>3, StoreStep, RefuseStep
<1>4. CASE EraseL3 \/ DropTail \/ WriteRefused \/ AppendFails \/ AppendRecord
  BY <1>4, DropSteps, EvictionSteps
<1>5. CASE SafeUnmount \/ WriteFits
  BY <1>5, FileSteps
<1>6. CASE Exit \/ Kill \/ PowerFailure
  BY <1>6, RestartSteps
<1>7. CASE \/ \E k \in Keys : GetFromL2(k) \/ GetTooFull(k) \/ GetUnreadable(k) \/ Persist(k)
           \/ Shutdown \/ Expire \/ MakeRoom \/ SpareL2 \/ ChooseVictim \/ EvictL3 \/ SpareL3
           \/ UNCHANGED vars
  BY <1>7, SilentSteps
<1>8. CASE AppendPast
  BY <1>8, PastStep
<1> QED  BY <1>1, <1>2, <1>3, <1>4, <1>5, <1>6, <1>7, <1>8 DEF Next, Running

(* ChunkStorage implements ChunkMemory in a process that starts on no      *)
(* file: put() stores its chunk at one moment or not at all, and whatever  *)
(* get(), eviction, failed writes, compaction and safe_unmount() do to the *)
(* two tiers, a chunk stays what its last put() made it until it is gone,  *)
(* and what is gone does not come back.  A process that finds an old file  *)
(* brings old data back: see Overwritten.                                  *)
THEOREM TiersActAsOne ==
    ASSUME ~KeepFile
    PROVE  Spec => Implements
<1>1. Init => Resting
  BY RestingInit
<1>2. Inv /\ Resting /\ [Next]_vars => Resting'
  BY RestingNext
<1>3. Init => Promise!Init
  BY InitRemembers
<1>4. Inv /\ Resting /\ [Next]_vars => [Promise!Next]_Promise!vars
  BY NextRemembers
<1> QED  BY <1>1, <1>2, <1>3, <1>4, Invariance, PTL DEF Spec, Implements, Promise!Spec
=============================================================================
