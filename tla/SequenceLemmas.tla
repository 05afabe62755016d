--------------------------- MODULE SequenceLemmas ---------------------------
(***************************************************************************)
(* What the operators on sequences do that the modules of this project are *)
(* built from: where each element of the result comes from, and where each *)
(* element of the argument goes.                                           *)
(*                                                                         *)
(* Induction is by the least counterexample, see LeastOf and UpTo.         *)
(***************************************************************************)
EXTENDS RemoveIf, SequencesExt, SequenceTheorems, NaturalsInduction, WellFoundedInduction, TLAPS

(* Every non-empty set of natural numbers has a least one.                 *)
LEMMA LeastOf ==
    ASSUME NEW S \in SUBSET Nat, S # {}
    PROVE  \E m \in S : \A i \in S : m <= i
<1> DEFINE R == {ss \in Nat \X Nat : ss[1] < ss[2]}
<1>1. IsWellFoundedOn(R, Nat)
  BY NatLessThanWellFounded DEF OpToRel
<1>2. PICK x \in S : \A y \in S : <<y, x>> \notin R
  <2> HIDE DEF R
  <2> QED  BY <1>1, WFMin
<1>3. \A y \in S : ~(y < x)
  BY <1>2
<1> QED  BY <1>3

(* Induction on an interval.                                               *)
LEMMA UpTo ==
    ASSUME NEW N \in Nat, NEW P, 0 \in P, \A n \in 1 .. N : n - 1 \in P => n \in P
    PROVE  0 .. N \subseteq P
<1> DEFINE Bad == (0 .. N) \ P
<1>1. SUFFICES ASSUME Bad # {} PROVE FALSE
  OBVIOUS
<1>2. Bad \in SUBSET Nat
  OBVIOUS
<1>3. PICK m \in Bad : \A i \in Bad : m <= i
  BY <1>1, <1>2, LeastOf
<1>4. m \in 1 .. N /\ m \notin P
  BY <1>3
<1>5. m - 1 \notin Bad
  BY <1>3, <1>4
<1> QED  BY <1>4, <1>5

(* A bounded non-empty set of natural numbers has a greatest one.          *)
LEMMA GreatestOf ==
    ASSUME NEW N \in Nat, NEW S \in SUBSET (0 .. N), S # {}
    PROVE  \E m \in S : \A i \in S : i <= m
<1>1. PICK R : R = {N - i : i \in S}
  OBVIOUS
<1>2. R \in SUBSET Nat /\ R # {}
  <2>1. \A i \in S : i \in 0 .. N
    OBVIOUS
  <2>2. \A i \in S : N - i \in Nat
    BY <2>1
  <2> QED  BY <1>1, <2>2
<1>3. PICK r \in R : \A j \in R : r <= j
  BY <1>2, LeastOf
<1>4. PICK m \in S : r = N - m
  BY <1>1, <1>3
<1>5. ASSUME NEW i \in S PROVE i <= m
  <2>1. N - i \in R /\ i \in 0 .. N /\ m \in 0 .. N
    BY <1>1
  <2> QED  BY <1>3, <1>4, <2>1
<1> QED  BY <1>5

(* The functions that b and F define by recursion.                         *)
Recursive(N, D, b, F) ==
    {g \in [0 .. N -> D] : g[0] = b /\ \A n \in 1 .. N : g[n] = F[<<n, g[n - 1]>>]}

LEMMA Recursion ==
    ASSUME NEW N \in Nat, NEW D, NEW b \in D, NEW F \in [(1 .. N) \X D -> D]
    PROVE  \E g : g \in Recursive(N, D, b, F)
<1> DEFINE E(m, g) == g[0] = b /\ \A n \in 1 .. m : g[n] = F[<<n, g[n - 1]>>]
           P == {m \in 0 .. N : \E g \in [0 .. m -> D] : E(m, g)}
<1>1. 0 \in P
  <2>1. PICK g : g = [n \in 0 .. 0 |-> b]
    OBVIOUS
  <2>2. g \in [0 .. 0 -> D] /\ E(0, g)
    BY <2>1
  <2> QED  BY <2>2
<1>2. ASSUME NEW m \in 1 .. N, m - 1 \in P PROVE m \in P
  <2>1. PICK g \in [0 .. m - 1 -> D] : E(m - 1, g)
    BY <1>2
  <2>3. PICK v \in D : v = F[<<m, g[m - 1]>>]
    <3>1. g[m - 1] \in D
      BY <2>1
    <3> QED  BY <3>1
  <2>4. PICK f : f = [n \in 0 .. m |-> IF n = m THEN v ELSE g[n]]
    OBVIOUS
  <2>5. f[m] = v /\ \A n \in 0 .. m - 1 : f[n] = g[n]
    BY <2>4
  <2>6. f \in [0 .. m -> D]
    <3>1. \A n \in 0 .. m : f[n] \in D
      BY <2>1, <2>3, <2>4
    <3> QED  BY <2>4, <3>1
  <2>7. ASSUME NEW n \in 1 .. m PROVE f[n] = F[<<n, f[n - 1]>>]
    <3>1. CASE n = m
      BY <2>3, <2>5, <3>1
    <3>2. CASE n # m
      <4>1. n \in 1 .. m - 1 /\ n \in 0 .. m - 1 /\ n - 1 \in 0 .. m - 1
        BY <3>2
      <4> QED  BY <2>1, <2>5, <4>1
    <3> QED  BY <3>1, <3>2
  <2>8. E(m, f)
    BY <2>1, <2>5, <2>7
  <2>9. m \in 0 .. N
    OBVIOUS
  <2> HIDE DEF E
  <2> QED  BY <2>6, <2>8, <2>9
<1>3. N \in P
  <2> HIDE DEF P
  <2> QED  BY <1>1, <1>2, UpTo
<1> QED  BY <1>3 DEF Recursive
-----------------------------------------------------------------------------
(* w is made of the elements of q at the positions K, in their order: h    *)
(* says where each of them comes from.                                     *)
Picks(q, K, w, h) ==
    /\ h \in [1 .. Len(w) -> K]
    /\ \A i \in 1 .. Len(w) : w[i] = q[h[i]]
    /\ \A i, j \in 1 .. Len(w) : i < j => h[i] < h[j]
    /\ \A k \in K : \E i \in 1 .. Len(w) : h[i] = k

(* The positions before n, and n, whose elements are not in S.             *)
Others(q, S, n) == {k \in 1 .. n : q[k] \notin S}

LEMMA OneMore ==
    ASSUME NEW T, NEW q \in Seq(T), NEW S, NEW n \in 1 .. Len(q),
           NEW w \in Seq(T), \E h : Picks(q, Others(q, S, n - 1), w, h),
           NEW v, v = IF q[n] \in S THEN w ELSE Append(w, q[n])
    PROVE  v \in Seq(T) /\ \E h : Picks(q, Others(q, S, n), v, h)
<1>1. PICK h : Picks(q, Others(q, S, n - 1), w, h)
  OBVIOUS
<1>2. CASE q[n] \in S
  <2>1. v = w
    BY <1>2
  <2>2. Picks(q, Others(q, S, n), w, h)
    BY <1>1, <1>2 DEF Picks, Others
  <2> QED  BY <2>1, <2>2
<1>3. CASE q[n] \notin S
  <2>1. PICK l : l = Len(w)
    OBVIOUS
  <2>2. l \in Nat
    BY <2>1, LenProperties
  <2>0. Len(q) \in Nat /\ n \in Nat /\ n >= 1
    BY LenProperties
  <2>3. /\ v \in Seq(T) /\ Len(v) = l + 1 /\ v[l + 1] = q[n]
        /\ \A i \in 1 .. l : v[i] = w[i]
    <3>1. q[n] \in T
      BY ElementOfSeq
    <3> QED  BY <1>3, <2>1, <3>1, AppendProperties
  <2>4. PICK f : f = [i \in 1 .. l + 1 |-> IF i = l + 1 THEN n ELSE h[i]]
    OBVIOUS
  <2>5. f[l + 1] = n /\ \A i \in 1 .. l : f[i] = h[i] /\ f[i] \in 1 .. n - 1
    <3>1. f[l + 1] = n
      BY <2>2, <2>4
    <3>2. ASSUME NEW i \in 1 .. l PROVE f[i] = h[i]
      BY <2>2, <2>4
    <3>3. ASSUME NEW i \in 1 .. l PROVE h[i] \in Others(q, S, n - 1)
      BY <1>1, <2>1 DEF Picks
    <3>4. Others(q, S, n - 1) \subseteq 1 .. n - 1
      BY DEF Others
    <3> QED  BY <3>1, <3>2, <3>3, <3>4
  <2>6. f \in [1 .. l + 1 -> Others(q, S, n)]
    <3>1. \A i \in 1 .. l + 1 : f[i] \in Others(q, S, n)
      BY <1>1, <1>3, <2>0, <2>1, <2>2, <2>5 DEF Picks, Others
    <3> QED  BY <2>4, <3>1
  <2>7. \A i \in 1 .. l + 1 : v[i] = q[f[i]]
    BY <1>1, <1>3, <2>1, <2>2, <2>3, <2>5 DEF Picks, Others
  <2>8. ASSUME NEW i \in 1 .. l + 1, NEW j \in 1 .. l + 1, i < j PROVE f[i] < f[j]
    <3>1. i \in 1 .. l
      BY <2>2, <2>8
    <3>2. CASE j \in 1 .. l
      BY <1>1, <2>1, <2>5, <2>8, <3>1, <3>2 DEF Picks, Others
    <3>3. CASE j = l + 1
      BY <2>0, <2>5, <3>1, <3>3
    <3> QED  BY <2>2, <3>2, <3>3
  <2>9. ASSUME NEW k \in 1 .. n, q[k] \notin S PROVE \E i \in 1 .. l + 1 : f[i] = k
    <3>1. CASE k = n
      BY <2>2, <2>5, <3>1
    <3>2. CASE k \in 1 .. n - 1
      <4>1. PICK i \in 1 .. l : h[i] = k
        BY <1>1, <2>1, <2>9, <3>2 DEF Picks, Others
      <4> QED  BY <2>2, <2>5, <4>1
    <3> QED  BY <2>0, <3>1, <3>2
  <2>10. Picks(q, Others(q, S, n), v, f)
    BY <2>3, <2>6, <2>7, <2>8, <2>9 DEF Picks, Others
  <2> QED  BY <2>3, <2>10
<1> QED  BY <1>2, <1>3

(* What remove_if leaves.                                                  *)
LEMMA RemoveIfPicks ==
    ASSUME NEW T, NEW q \in Seq(T), NEW S
    PROVE  RemoveIf(q, S) \in Seq(T) /\ \E h : Picks(q, Others(q, S, Len(q)), RemoveIf(q, S), h)
<1> DEFINE Body(g) == [n \in 0 .. Len(q) |->
                          IF n = 0 THEN <<>>
                          ELSE IF q[n] \in S THEN g[n - 1] ELSE Append(g[n - 1], q[n])]
<1>0. PICK N, D : N = Len(q) /\ D = Seq(T)
  OBVIOUS
<1>1. N \in Nat /\ <<>> \in D /\ \A n \in 1 .. N : q[n] \in T
  BY <1>0, LenProperties, ElementOfSeq, EmptySeq
<1>2. \E g : g = Body(g)
  <2>1. PICK F : F = [x \in (1 .. N) \X D |->
                         IF q[x[1]] \in S THEN x[2] ELSE Append(x[2], q[x[1]])]
    OBVIOUS
  <2>2. \A n \in 1 .. N, w \in D : F[<<n, w>>] = IF q[n] \in S THEN w ELSE Append(w, q[n])
    BY <2>1
  <2>3. \A n \in 1 .. N, w \in D : F[<<n, w>>] \in D
    <3>1. ASSUME NEW n \in 1 .. N, NEW w \in D PROVE F[<<n, w>>] \in D
      <4>1. Append(w, q[n]) \in D
        BY <1>0, <1>1, AppendProperties
      <4> QED  BY <2>2, <4>1
    <3> QED  BY <3>1
  <2>4. F \in [(1 .. N) \X D -> D]
    <3>1. \A x \in (1 .. N) \X D : F[x] \in D
      BY <2>3
    <3> QED  BY <2>1, <3>1
  <2>5. PICK g \in [0 .. N -> D] : g[0] = <<>> /\ \A n \in 1 .. N : g[n] = F[<<n, g[n - 1]>>]
    <3>1. \E g : g \in Recursive(N, D, <<>>, F)
      BY <1>1, <2>4, Recursion
    <3> QED  BY <3>1 DEF Recursive
  <2>6. \A n \in 0 .. N : n # 0 => n \in 1 .. N /\ g[n - 1] \in D
    BY <1>1, <2>5
  <2>7. g = Body(g)
    <3>1. \A n \in 0 .. N : g[n] = IF n = 0 THEN <<>>
                                   ELSE IF q[n] \in S THEN g[n - 1] ELSE Append(g[n - 1], q[n])
      BY <2>2, <2>5, <2>6
    <3> QED  BY <1>0, <2>5, <3>1
  <2> QED  BY <2>7
<1>3. PICK f : f = CHOOSE g : g = Body(g)
  OBVIOUS
<1>4. f = Body(f)
  <2> HIDE DEF Body
  <2> QED  BY <1>2, <1>3
<1>5. RemoveIf(q, S) = f[N]
  BY <1>0, <1>3 DEF RemoveIf
<1>6. f[0] = <<>> /\ \A n \in 1 .. N :
          f[n] = IF q[n] \in S THEN f[n - 1] ELSE Append(f[n - 1], q[n])
  <2>1. \A n \in 0 .. N : f[n] = Body(f)[n]
    BY <1>4
  <2>2. 0 \in 0 .. N /\ \A n \in 1 .. N : n \in 0 .. N /\ n # 0
    BY <1>1
  <2> QED  BY <1>0, <2>1, <2>2
<1> HIDE DEF Body
<1> DEFINE P == {n \in 0 .. N : f[n] \in D /\ \E h : Picks(q, Others(q, S, n), f[n], h)}
<1>7. 0 \in P
  <2>1. Picks(q, Others(q, S, 0), <<>>, [i \in 1 .. 0 |-> 0])
    BY DEF Picks, Others
  <2>2. f[0] \in D /\ 0 \in 0 .. N
    BY <1>1, <1>6
  <2>3. \E h : Picks(q, Others(q, S, 0), f[0], h)
    BY <1>6, <2>1
  <2> QED  BY <2>2, <2>3
<1>8. ASSUME NEW n \in 1 .. N, n - 1 \in P PROVE n \in P
  <2>1. n \in 0 .. N /\ n \in 1 .. Len(q)
    BY <1>0, <1>1
  <2>2. f[n] \in Seq(T) /\ \E h : Picks(q, Others(q, S, n), f[n], h)
    <3>1. f[n] = IF q[n] \in S THEN f[n - 1] ELSE Append(f[n - 1], q[n])
      BY <1>6
    <3>2. f[n - 1] \in Seq(T) /\ \E h : Picks(q, Others(q, S, n - 1), f[n - 1], h)
      BY <1>0, <1>8
    <3> HIDE DEF P
    <3> QED  BY <2>1, <3>1, <3>2, OneMore
  <2> QED  BY <1>0, <2>1, <2>2
<1>9. N \in P
  <2> HIDE DEF P
  <2>1. 0 .. N \subseteq P
    BY <1>1, <1>7, <1>8, UpTo
  <2> QED  BY <1>1, <2>1
<1> QED  BY <1>0, <1>5, <1>9
-----------------------------------------------------------------------------
(* The other operators that take elements away.                            *)
LEMMA TailPicks ==
    ASSUME NEW T, NEW q \in Seq(T), q # <<>>
    PROVE  /\ Tail(q) \in Seq(T) /\ Head(q) = q[1] /\ 1 \in 1 .. Len(q)
           /\ \E h : Picks(q, 2 .. Len(q), Tail(q), h)
<1>1. PICK w : w = Tail(q)
  OBVIOUS
<1>2. PICK l : l = Len(w)
  OBVIOUS
<1>3. /\ w \in Seq(T) /\ Len(q) = l + 1 /\ l \in Nat
      /\ \A i \in 1 .. l : w[i] = q[i + 1]
  BY <1>1, <1>2, HeadTailProperties, LenProperties
<1>4. PICK h : h = [i \in 1 .. l |-> i + 1]
  OBVIOUS
<1>5. \A i \in 1 .. l : h[i] = i + 1 /\ h[i] \in 2 .. l + 1
  BY <1>3, <1>4
<1>6. h \in [1 .. l -> 2 .. l + 1]
  BY <1>4, <1>5
<1>7. \A k \in 2 .. l + 1 : k - 1 \in 1 .. l /\ h[k - 1] = k
  BY <1>3, <1>5
<1>8. \A i, j \in 1 .. l : i < j => h[i] < h[j]
  BY <1>3, <1>5
<1>9. Picks(q, 2 .. Len(q), w, h)
  BY <1>2, <1>3, <1>5, <1>6, <1>7, <1>8 DEF Picks
<1> QED  BY <1>1, <1>3, <1>9, HeadTailProperties

LEMMA RemoveAtPicks ==
    ASSUME NEW T, NEW q \in Seq(T), NEW n \in 1 .. Len(q)
    PROVE  /\ RemoveAt(q, n) \in Seq(T)
           /\ \E h : Picks(q, 1 .. Len(q) \ {n}, RemoveAt(q, n), h)
<1>0. Len(q) \in Nat
  BY LenProperties
<1>1. PICK a, b : a = SubSeq(q, 1, n - 1) /\ b = SubSeq(q, n + 1, Len(q))
  OBVIOUS
<1>2. /\ a \in Seq(T) /\ Len(a) = n - 1
      /\ \A i \in 1 .. n - 1 : a[i] = q[i]
  BY <1>0, <1>1, SubSeqProperties
<1>3. /\ b \in Seq(T) /\ Len(b) = Len(q) - n
      /\ \A i \in 1 .. Len(q) - n : b[i] = q[n + i]
  <2>1. n + 1 \in 1 .. Len(q) + 1 /\ \A i \in n + 1 .. Len(q) : i \in 1 .. Len(q)
    BY <1>0
  <2>2. /\ b \in Seq(T) /\ Len(b) = Len(q) - n
        /\ \A i \in 1 .. Len(q) - n : b[i] = q[n + 1 + i - 1]
    BY <1>0, <1>1, <2>1, SubSeqProperties
  <2>3. \A i \in 1 .. Len(q) - n : n + 1 + i - 1 = n + i
    BY <1>0
  <2> QED  BY <2>2, <2>3
<1>4. PICK w : w = RemoveAt(q, n)
  OBVIOUS
<1>5. PICK l : l = Len(w)
  OBVIOUS
<1>6. /\ w \in Seq(T) /\ l = Len(q) - 1
      /\ \A i \in 1 .. l : w[i] = IF i < n THEN q[i] ELSE q[i + 1]
  <2>1. w = a \o b
    BY <1>1, <1>4 DEF RemoveAt
  <2>2. /\ w \in Seq(T) /\ Len(w) = Len(a) + Len(b)
        /\ \A i \in 1 .. Len(a) + Len(b) : w[i] = IF i <= Len(a) THEN a[i] ELSE b[i - Len(a)]
    BY <1>2, <1>3, <2>1, ConcatProperties
  <2>3. l = Len(q) - 1
    BY <1>0, <1>2, <1>3, <1>5, <2>2
  <2>4. ASSUME NEW i \in 1 .. l PROVE w[i] = IF i < n THEN q[i] ELSE q[i + 1]
    <3>1. CASE i < n
      <4>1. i \in 1 .. Len(a) + Len(b) /\ i <= Len(a) /\ i \in 1 .. n - 1
        BY <1>0, <1>2, <1>3, <2>3, <3>1
      <4>2. w[i] = a[i] /\ a[i] = q[i]
        BY <1>2, <2>2, <4>1
      <4> QED  BY <3>1, <4>2
    <3>2. CASE ~(i < n)
      <4>1. w[i] = b[i - (n - 1)] /\ i - (n - 1) \in 1 .. Len(q) - n
        <5>1. i \in 1 .. Len(a) + Len(b) /\ ~(i <= Len(a)) /\ i - (n - 1) \in 1 .. Len(q) - n
          BY <1>0, <1>2, <1>3, <2>3, <3>2
        <5>2. w[i] = b[i - Len(a)]
          BY <2>2, <5>1
        <5> QED  BY <1>2, <5>1, <5>2
      <4>2. b[i - (n - 1)] = q[n + (i - (n - 1))] /\ n + (i - (n - 1)) = i + 1
        BY <1>0, <1>3, <4>1
      <4> QED  BY <3>2, <4>1, <4>2
    <3> QED  BY <3>1, <3>2
  <2> QED  BY <2>2, <2>3, <2>4
<1>7. PICK h : h = [i \in 1 .. l |-> IF i < n THEN i ELSE i + 1]
  OBVIOUS
<1>8. \A i \in 1 .. l : h[i] = (IF i < n THEN i ELSE i + 1) /\ h[i] \in 1 .. Len(q) \ {n}
  BY <1>0, <1>6, <1>7
<1>9. h \in [1 .. l -> 1 .. Len(q) \ {n}]
  BY <1>7, <1>8
<1>10. \A i, j \in 1 .. l : i < j => h[i] < h[j]
  BY <1>0, <1>6, <1>8
<1>11. ASSUME NEW k \in 1 .. Len(q) \ {n} PROVE \E i \in 1 .. l : h[i] = k
  <2>1. CASE k < n
    BY <1>0, <1>6, <1>8, <2>1
  <2>2. CASE k > n
    <3>1. k - 1 \in 1 .. l /\ h[k - 1] = k
      BY <1>0, <1>6, <1>8, <2>2
    <3> QED  BY <3>1
  <2> QED  BY <1>0, <2>1, <2>2
<1>12. Picks(q, 1 .. Len(q) \ {n}, w, h)
  BY <1>5, <1>6, <1>8, <1>9, <1>10, <1>11 DEF Picks
<1> QED  BY <1>4, <1>6, <1>12
-----------------------------------------------------------------------------
(* Membership, and membership at most once.                                *)
Holds(q, x) == \E i \in 1 .. Len(q) : q[i] = x
Once(q, x)  == \A i, j \in 1 .. Len(q) : q[i] = x /\ q[j] = x => i = j

LEMMA HeldPicks ==
    ASSUME NEW T, NEW q \in Seq(T), NEW w \in Seq(T), NEW K \in SUBSET (1 .. Len(q)),
           \E h : Picks(q, K, w, h), NEW x
    PROVE  /\ Holds(w, x) <=> \E k \in K : q[k] = x
           /\ Once(q, x) => Once(w, x)
<1>1. PICK h : Picks(q, K, w, h)
  OBVIOUS
<1>0. \A i \in 1 .. Len(w) : h[i] \in K /\ w[i] = q[h[i]]
  BY <1>1 DEF Picks
<1>2. Holds(w, x) <=> \E k \in K : q[k] = x
  <2>1. ASSUME NEW k \in K, q[k] = x PROVE Holds(w, x)
    BY <1>0, <1>1, <2>1, SMTT(30) DEF Picks, Holds
  <2> QED  BY <1>0, <2>1 DEF Holds
<1>3. ASSUME Once(q, x), NEW i \in 1 .. Len(w), NEW j \in 1 .. Len(w), w[i] = x, w[j] = x
      PROVE  i = j
  <2>0. Len(w) \in Nat /\ Len(q) \in Nat
    BY LenProperties
  <2>1. h[i] = h[j] /\ h[i] \in 1 .. Len(q)
    BY <1>0, <1>3 DEF Once
  <2>2. ~(i < j) /\ ~(j < i)
    BY <1>1, <2>0, <2>1 DEF Picks
  <2> QED  BY <2>0, <2>2
<1> QED  BY <1>2, <1>3 DEF Once

LEMMA HeldAppend ==
    ASSUME NEW T, NEW q \in Seq(T), NEW y \in T, NEW x
    PROVE  /\ Append(q, y) \in Seq(T) /\ Append(q, y) # <<>>
           /\ Holds(Append(q, y), x) <=> Holds(q, x) \/ x = y
           /\ Once(q, x) /\ (x = y => ~Holds(q, x)) => Once(Append(q, y), x)
<1>1. PICK w : w = Append(q, y)
  OBVIOUS
<1>2. /\ w \in Seq(T) /\ Len(w) = Len(q) + 1 /\ w[Len(q) + 1] = y
      /\ \A i \in 1 .. Len(q) : w[i] = q[i]
      /\ Len(q) \in Nat
  BY <1>1, AppendProperties, LenProperties
<1>3. \A i \in 1 .. Len(w) : i \in 1 .. Len(q) \/ i = Len(q) + 1
  BY <1>2
<1>4. \A i \in 1 .. Len(q) : i \in 1 .. Len(w)
  BY <1>2
<1>5. Len(q) + 1 \in 1 .. Len(w)
  BY <1>2
<1>6. w # <<>>
  BY <1>2, EmptySeq
<1>7. Holds(w, x) <=> Holds(q, x) \/ x = y
  BY <1>2, <1>3, <1>4, <1>5 DEF Holds
<1>8. Once(q, x) /\ (x = y => ~Holds(q, x)) => Once(w, x)
  BY <1>2, <1>3 DEF Holds, Once
<1> QED  BY <1>1, <1>2, <1>6, <1>7, <1>8

LEMMA HeldCons ==
    ASSUME NEW T, NEW q \in Seq(T), NEW y \in T, NEW x
    PROVE  /\ <<y>> \o q \in Seq(T) /\ <<y>> \o q # <<>>
           /\ Holds(<<y>> \o q, x) <=> Holds(q, x) \/ x = y
           /\ Once(q, x) /\ (x = y => ~Holds(q, x)) => Once(<<y>> \o q, x)
<1>0. <<y>> \in Seq(T) /\ Len(<<y>>) = 1 /\ <<y>>[1] = y
  OBVIOUS
<1>1. PICK w : w = <<y>> \o q
  OBVIOUS
<1>2. /\ w \in Seq(T) /\ Len(w) = Len(q) + 1 /\ w[1] = y
      /\ \A i \in 2 .. Len(q) + 1 : w[i] = q[i - 1]
      /\ Len(q) \in Nat
  <2>1. Len(q) \in Nat
    BY LenProperties
  <2>2. /\ w \in Seq(T) /\ Len(w) = 1 + Len(q)
        /\ \A i \in 1 .. 1 + Len(q) : w[i] = IF i <= 1 THEN <<y>>[i] ELSE q[i - 1]
    BY <1>0, <1>1, ConcatProperties
  <2>3. w[1] = y
    BY <1>0, <2>1, <2>2
  <2>4. \A i \in 2 .. Len(q) + 1 : w[i] = q[i - 1]
    BY <2>1, <2>2
  <2> QED  BY <2>1, <2>2, <2>3, <2>4
<1>3. \A i \in 1 .. Len(w) : i = 1 \/ (i \in 2 .. Len(q) + 1 /\ i - 1 \in 1 .. Len(q))
  BY <1>2
<1>4. \A i \in 1 .. Len(q) : i + 1 \in 1 .. Len(w) /\ w[i + 1] = q[i]
  BY <1>2
<1>5. 1 \in 1 .. Len(w)
  BY <1>2
<1>6. w # <<>>
  BY <1>2, EmptySeq
<1>7. Holds(w, x) <=> Holds(q, x) \/ x = y
  BY <1>2, <1>3, <1>4, <1>5, ZenonT(30) DEF Holds
<1>8. ASSUME Once(q, x), x = y => ~Holds(q, x),
             NEW i \in 1 .. Len(w), NEW j \in 1 .. Len(w), w[i] = x, w[j] = x
      PROVE  i = j
  <2>1. CASE i = 1 /\ j = 1
    BY <2>1
  <2>2. CASE i # 1 /\ j # 1
    <3>1. i - 1 \in 1 .. Len(q) /\ j - 1 \in 1 .. Len(q) /\ q[i - 1] = x /\ q[j - 1] = x
      BY <1>2, <1>3, <1>8, <2>2
    <3>2. i - 1 = j - 1
      BY <1>8, <3>1 DEF Once
    <3> QED  BY <1>2, <3>2
  <2>3. CASE i = 1 /\ j # 1
    <3>1. x = y /\ j - 1 \in 1 .. Len(q) /\ q[j - 1] = x
      BY <1>2, <1>3, <1>8, <2>3
    <3> QED  BY <1>8, <3>1 DEF Holds
  <2>4. CASE i # 1 /\ j = 1
    <3>1. x = y /\ i - 1 \in 1 .. Len(q) /\ q[i - 1] = x
      BY <1>2, <1>3, <1>8, <2>4
    <3> QED  BY <1>8, <3>1 DEF Holds
  <2> QED  BY <2>1, <2>2, <2>3, <2>4
<1>9. Once(q, x) /\ (x = y => ~Holds(q, x)) => Once(w, x)
  BY <1>8 DEF Once
<1> QED  BY <1>1, <1>2, <1>6, <1>7, <1>9

LEMMA HeldTail ==
    ASSUME NEW T, NEW q \in Seq(T), q # <<>>, NEW x
    PROVE  /\ Tail(q) \in Seq(T) /\ Head(q) \in T
           /\ Holds(q, x) <=> Holds(Tail(q), x) \/ x = Head(q)
           /\ Once(q, x) => Once(Tail(q), x) /\ (x = Head(q) => ~Holds(Tail(q), x))
<1>0. Len(q) \in Nat
  BY LenProperties
<1>1. /\ Tail(q) \in Seq(T) /\ Head(q) = q[1] /\ 1 \in 1 .. Len(q)
      /\ \E h : Picks(q, 2 .. Len(q), Tail(q), h)
  BY TailPicks
<1>2. 2 .. Len(q) \in SUBSET (1 .. Len(q))
  BY <1>0
<1>3. /\ Holds(Tail(q), x) <=> \E k \in 2 .. Len(q) : q[k] = x
      /\ Once(q, x) => Once(Tail(q), x)
  BY <1>1, <1>2, HeldPicks
<1>4. \A k \in 1 .. Len(q) : k = 1 \/ k \in 2 .. Len(q)
  BY <1>0
<1>5. \A k \in 2 .. Len(q) : k # 1 /\ k \in 1 .. Len(q)
  BY <1>0
<1>6. Head(q) \in T
  BY <1>1, ElementOfSeq
<1>7. Holds(q, x) <=> Holds(Tail(q), x) \/ x = Head(q)
  BY <1>1, <1>3, <1>4, <1>5 DEF Holds
<1>8. Once(q, x) /\ x = Head(q) => ~Holds(Tail(q), x)
  BY <1>1, <1>3, <1>5 DEF Once
<1> QED  BY <1>1, <1>3, <1>6, <1>7, <1>8

LEMMA HeldFront ==
    ASSUME NEW T, NEW q \in Seq(T), q # <<>>, NEW x
    PROVE  /\ Front(q) \in Seq(T) /\ Last(q) \in T /\ Len(q) \in Nat \ {0}
           /\ Holds(q, x) <=> Holds(Front(q), x) \/ x = Last(q)
           /\ Once(q, x) => Once(Front(q), x) /\ (x = Last(q) => ~Holds(Front(q), x))
<1>1. PICK n : n = Len(q)
  OBVIOUS
<1>2. n \in Nat \ {0}
  BY <1>1, LenProperties, EmptySeq
<1>3. PICK w : w = Front(q)
  OBVIOUS
<1>4. w \in Seq(T) /\ Len(w) = n - 1 /\ \A i \in 1 .. n - 1 : w[i] = q[i]
  BY <1>1, <1>2, <1>3, SubSeqProperties DEF Front
<1>5. Last(q) = q[n] /\ q[n] \in T
  BY <1>1, <1>2, ElementOfSeq DEF Last
<1>6. \A i \in 1 .. n : i \in 1 .. n - 1 \/ i = n
  BY <1>2
<1>7. \A i \in 1 .. n - 1 : i \in 1 .. n /\ i # n
  BY <1>2
<1>8. Holds(q, x) <=> Holds(w, x) \/ x = Last(q)
  <2>1. n \in 1 .. n
    BY <1>2
  <2> QED  BY <1>1, <1>4, <1>5, <1>6, <1>7, <2>1 DEF Holds
<1>9. ASSUME Once(q, x), NEW i \in 1 .. Len(w), NEW j \in 1 .. Len(w), w[i] = x, w[j] = x
      PROVE  i = j
  <2>1. i \in 1 .. n - 1 /\ j \in 1 .. n - 1
    BY <1>4, <1>9
  <2> QED  BY <1>1, <1>4, <1>7, <1>9, <2>1 DEF Once
<1>10. Once(q, x) /\ x = Last(q) => ~Holds(w, x)
  <2>1. ASSUME Once(q, x), x = Last(q), NEW i \in 1 .. n - 1, w[i] = x PROVE FALSE
    <3>1. i \in 1 .. n /\ n \in 1 .. n /\ i # n
      BY <1>2
    <3>2. q[i] = x /\ q[n] = x
      BY <1>4, <1>5, <2>1
    <3> QED  BY <1>1, <2>1, <3>1, <3>2 DEF Once
  <2> QED  BY <1>4, <2>1 DEF Holds
<1>11. Once(q, x) => Once(w, x)
  BY <1>9 DEF Once
<1> QED  BY <1>1, <1>2, <1>3, <1>4, <1>5, <1>8, <1>10, <1>11

LEMMA HeldRemoveAt ==
    ASSUME NEW T, NEW q \in Seq(T), NEW n \in 1 .. Len(q), NEW x
    PROVE  /\ RemoveAt(q, n) \in Seq(T) /\ q[n] \in T
           /\ Holds(q, x) <=> Holds(RemoveAt(q, n), x) \/ x = q[n]
           /\ Once(q, x) => Once(RemoveAt(q, n), x) /\ (x = q[n] => ~Holds(RemoveAt(q, n), x))
<1>1. RemoveAt(q, n) \in Seq(T) /\ \E h : Picks(q, 1 .. Len(q) \ {n}, RemoveAt(q, n), h)
  BY RemoveAtPicks
<1>2. /\ Holds(RemoveAt(q, n), x) <=> \E k \in 1 .. Len(q) \ {n} : q[k] = x
      /\ Once(q, x) => Once(RemoveAt(q, n), x)
  BY <1>1, HeldPicks
<1>3. Holds(q, x) <=> Holds(RemoveAt(q, n), x) \/ x = q[n]
  BY <1>2 DEF Holds
<1>4. Once(q, x) /\ x = q[n] => ~Holds(RemoveAt(q, n), x)
  BY <1>2 DEF Once
<1> QED  BY <1>1, <1>2, <1>3, <1>4, ElementOfSeq

LEMMA HeldRemoveIf ==
    ASSUME NEW T, NEW q \in Seq(T), NEW S, NEW x
    PROVE  /\ RemoveIf(q, S) \in Seq(T)
           /\ Holds(RemoveIf(q, S), x) <=> Holds(q, x) /\ x \notin S
           /\ Once(q, x) => Once(RemoveIf(q, S), x)
<1>1. RemoveIf(q, S) \in Seq(T) /\ \E h : Picks(q, Others(q, S, Len(q)), RemoveIf(q, S), h)
  BY RemoveIfPicks
<1>2. Others(q, S, Len(q)) \in SUBSET (1 .. Len(q))
  BY DEF Others
<1>3. /\ Holds(RemoveIf(q, S), x) <=> \E k \in Others(q, S, Len(q)) : q[k] = x
      /\ Once(q, x) => Once(RemoveIf(q, S), x)
  BY <1>1, <1>2, HeldPicks
<1>4. Holds(RemoveIf(q, S), x) <=> Holds(q, x) /\ x \notin S
  BY <1>3 DEF Holds, Others
<1> QED  BY <1>1, <1>3, <1>4
=============================================================================
