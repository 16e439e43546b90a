--------------------------- MODULE OrderedProofs ---------------------------
(***************************************************************************)
(* Lemmas about Ascending, At and FlattenSeq, for every finite set and     *)
(* every sequence.  The modules of theorems cite them by name.             *)
(***************************************************************************)
EXTENDS Ordered, Integers, SequencesExt, FiniteSetTheorems, SequenceTheorems,
        WellFoundedInduction, TLAPS

FiniteNats == {S \in SUBSET Nat : IsFiniteSet(S)}

(* How many elements of S come before k.                                   *)
Rank(S, k) == Cardinality({l \in S : l < k})

LEMMA RankTells ==
  ASSUME NEW S \in FiniteNats, NEW k \in S, NEW l \in S, k < l
  PROVE  Rank(S, k) # Rank(S, l)
<1> DEFINE Before(n) == {m \in S : m < n}
<1>1. IsFiniteSet(S) /\ S \subseteq Nat
  BY DEF FiniteNats
<1>2. IsFiniteSet(Before(l))
  BY <1>1, FS_Subset
<1>3. Before(k) \in SUBSET Before(l) /\ k \in Before(l) /\ k \notin Before(k)
  <2>1. k \in Nat /\ l \in Nat /\ \A m \in S : m \in Nat
    BY <1>1
  <2>2. \A m \in S : m < k => m < l
    BY <2>1
  <2>3. k < l /\ ~(k < k)
    BY <2>1
  <2> QED
    BY <2>2, <2>3, Zenon
<1>4. Rank(S, k) = Cardinality(Before(k)) /\ Rank(S, l) = Cardinality(Before(l))
  BY Zenon DEF Rank
<1> HIDE DEF Before
<1>5. Before(k) # Before(l)
  BY <1>3
<1>6. Cardinality(Before(k)) # Cardinality(Before(l))
  BY <1>2, <1>3, <1>5, FS_Subset
<1> QED
  BY <1>4, <1>6

LEMMA RankBounded ==
  ASSUME NEW S \in FiniteNats, NEW k \in S
  PROVE  Rank(S, k) \in 0..(Cardinality(S) - 1)
<1> DEFINE Before == {m \in S : m < k}
<1>1. IsFiniteSet(S) /\ S \subseteq Nat
  BY DEF FiniteNats
<1>2. Before \in SUBSET S /\ k \notin Before
  BY <1>1
<1> HIDE DEF Before
<1>3. Cardinality(Before) \in Nat /\ Cardinality(Before) < Cardinality(S)
      /\ Cardinality(S) \in Nat
  <2>1. IsFiniteSet(Before) /\ Cardinality(Before) <= Cardinality(S)
    BY <1>1, <1>2, FS_Subset
  <2>2. Cardinality(Before) # Cardinality(S)
    <3>1. Before # S
      BY <1>2
    <3> QED
      BY <1>1, <1>2, <3>1, FS_Subset
  <2>3. Cardinality(Before) \in Nat /\ Cardinality(S) \in Nat
    BY <1>1, <2>1, FS_CardinalityType
  <2> QED
    BY <2>1, <2>2, <2>3
<1>4. Rank(S, k) = Cardinality(Before)
  BY DEF Rank, Before
<1> QED
  BY <1>3, <1>4

(* Every rank below the number of elements is the rank of one.             *)
LEMMA RankReached ==
  ASSUME NEW S \in FiniteNats, NEW i \in 0..(Cardinality(S) - 1)
  PROVE  \E k \in S : Rank(S, k) = i
<1> DEFINE n == Cardinality(S)
           T == 0..(n - 1)
           rank == [k \in S |-> Rank(S, k)]
<1>1. IsFiniteSet(S) /\ S \subseteq Nat /\ n \in Nat
  BY FS_CardinalityType DEF FiniteNats
<1>2. IsFiniteSet(T) /\ Cardinality(T) = n
  BY <1>1, FS_Interval
<1>3. rank \in [S -> T]
  BY RankBounded
<1>4. ASSUME NEW k \in S, NEW l \in S, rank[k] = rank[l] PROVE k = l
  <2>1. Rank(S, k) = Rank(S, l)
    BY <1>4
  <2>2. ~(k < l) /\ ~(l < k)
    BY <2>1, RankTells
  <2> QED
    BY <1>1, <2>2
<1> HIDE DEF n
<1>5. rank \in Injection(S, T)
  BY <1>3, <1>4 DEF Injection, IsInjective
<1>6. rank \in Surjection(S, T)
  <2> HIDE DEF rank, T
  <2> QED
    BY <1>1, <1>2, <1>5, FS_Injection DEF n
<1>7. i \in T
  BY DEF n
<1> QED
  BY <1>6, <1>7 DEF Surjection

(* Ascending lists every element once, and the smaller ones first.         *)
LEMMA AscendingFacts ==
  ASSUME NEW S \in FiniteNats
  PROVE  /\ Cardinality(S) \in Nat
         /\ Ascending(S) \in [1..Cardinality(S) -> S]
         /\ Ascending(S) \in Seq(S) /\ Len(Ascending(S)) = Cardinality(S)
         /\ \A i \in 1..Cardinality(S) : Rank(S, Ascending(S)[i]) = i - 1
         /\ \A k \in S : \E i \in 1..Cardinality(S) : Ascending(S)[i] = k
<1> DEFINE n == Cardinality(S)
           s == Ascending(S)
<1>1. IsFiniteSet(S) /\ S \subseteq Nat /\ n \in Nat
  BY FS_CardinalityType DEF FiniteNats
<1>2. s = [i \in 1..n |-> CHOOSE k \in S : Rank(S, k) = i - 1]
  BY Zenon DEF Ascending, Rank
<1>3. ASSUME NEW i \in 1..n PROVE s[i] \in S /\ Rank(S, s[i]) = i - 1
  <2>1. i - 1 \in 0..(n - 1)
    BY <1>1
  <2>2. \E k \in S : Rank(S, k) = i - 1
    BY <2>1, RankReached
  <2>3. s[i] = CHOOSE k \in S : Rank(S, k) = i - 1
    BY <1>2
  <2> QED
    BY <2>2, <2>3
<1>4. s \in [1..n -> S]
  BY <1>2, <1>3
<1> HIDE DEF s, n
<1>5. s \in Seq(S) /\ Len(s) = n
  BY <1>1, <1>4, SeqDef
<1>6. ASSUME NEW k \in S PROVE \E i \in 1..n : s[i] = k
  <2>1. Rank(S, k) \in 0..(n - 1)
    BY RankBounded DEF n
  <2>2. Rank(S, k) + 1 \in 1..n /\ (Rank(S, k) + 1) - 1 = Rank(S, k)
    BY <1>1, <2>1
  <2>3. s[Rank(S, k) + 1] \in S /\ Rank(S, s[Rank(S, k) + 1]) = Rank(S, k)
    BY <1>3, <2>2
  <2>4. ~(k < s[Rank(S, k) + 1]) /\ ~(s[Rank(S, k) + 1] < k)
    BY <2>3, RankTells
  <2>5. s[Rank(S, k) + 1] = k
    <3>1. s[Rank(S, k) + 1] \in Nat /\ k \in Nat
      BY <1>1, <2>3
    <3> HIDE DEF Rank
    <3> QED
      BY <2>4, <3>1
  <2> QED
    BY <2>2, <2>5
<1> QED
  BY <1>1, <1>3, <1>4, <1>5, <1>6 DEF s, n

(* An element above all others comes last.                                 *)
LEMMA AscendingMore ==
  ASSUME NEW S \in FiniteNats, NEW m \in Nat, \A k \in S : k < m
  PROVE  /\ S \cup {m} \in FiniteNats
         /\ Ascending(S \cup {m}) = Append(Ascending(S), m)
<1> DEFINE n == Cardinality(S)
           s == Ascending(S)
           U == S \cup {m}
           t == Ascending(U)
<1>1. IsFiniteSet(S) /\ S \subseteq Nat /\ m \notin S
  BY DEF FiniteNats
<1>2. IsFiniteSet(U) /\ Cardinality(U) = n + 1
  BY <1>1, FS_AddElement
<1>3. U \in FiniteNats
  BY <1>1, <1>2 DEF FiniteNats
<1>4. /\ n \in Nat /\ s \in [1..n -> S] /\ s \in Seq(S) /\ Len(s) = n
      /\ \A i \in 1..n : Rank(S, s[i]) = i - 1
  BY AscendingFacts
<1>5. /\ t \in Seq(U) /\ Len(t) = n + 1 /\ t \in [1..(n + 1) -> U]
      /\ \A i \in 1..(n + 1) : Rank(U, t[i]) = i - 1
  BY <1>2, <1>3, AscendingFacts
<1>6. \A k \in S : Rank(U, k) = Rank(S, k)
  <2> TAKE k \in S
  <2>1. {l \in U : l < k} = {l \in S : l < k}
    BY <1>1
  <2> QED
    BY <2>1 DEF Rank
<1>7. Rank(U, m) = n
  <2>1. {l \in U : l < m} = S
    <3>1. ~(m < m)
      OBVIOUS
    <3> QED
      BY <1>1, <3>1
  <2> QED
    BY <2>1 DEF Rank
<1> HIDE DEF n, s, U, t
<1>8. ASSUME NEW k \in U, NEW l \in U, Rank(U, k) = Rank(U, l) PROVE k = l
  <2>1. ~(k < l) /\ ~(l < k)
    BY <1>3, <1>8, RankTells
  <2> QED
    BY <1>3, <2>1 DEF FiniteNats
<1>9. ASSUME NEW i \in 1..(n + 1)
      PROVE  t[i] = Append(s, m)[i]
  <2>1. CASE i \in 1..n
    <3>1. s[i] \in S /\ s[i] \in U /\ Rank(U, s[i]) = i - 1
      BY <1>4, <1>6, <2>1 DEF U
    <3>2. t[i] = s[i]
      BY <1>5, <1>8, <3>1
    <3> QED
      BY <1>4, <2>1, <3>2
  <2>2. CASE i = n + 1
    <3>1. m \in U /\ Rank(U, m) = i - 1
      BY <1>4, <1>7, <2>2 DEF U
    <3>2. t[i] = m
      BY <1>5, <1>8, <3>1
    <3> QED
      BY <1>4, <2>2, <3>2
  <2> QED
    BY <1>4, <2>1, <2>2
<1>10. Append(s, m) \in Seq(U) /\ Len(Append(s, m)) = n + 1
  <2>1. s \in Seq(U) /\ m \in U
    BY <1>4 DEF U
  <2> QED
    BY <1>4, <2>1, AppendProperties
<1>11. t = Append(s, m)
  <2> DEFINE u == Append(s, m)
  <2>1. Len(t) = Len(u) /\ \A i \in 1..Len(t) : t[i] = u[i]
    BY <1>5, <1>9, <1>10
  <2> HIDE DEF u
  <2> QED
    BY <1>5, <1>10, <2>1, SeqEqual DEF u
<1> QED
  BY <1>3, <1>11 DEF s, t, U

-----------------------------------------------------------------------------
(* At *)

LEMMA AtFacts ==
  ASSUME NEW s, NEW P \in FiniteNats, NEW T, \A p \in P : s[p] \in T
  PROVE  /\ At(s, P) \in Seq(T) /\ Len(At(s, P)) = Cardinality(P)
         /\ Cardinality(P) \in Nat
         /\ At(s, P) = [i \in 1..Cardinality(P) |-> s[Ascending(P)[i]]]
<1> DEFINE at == Ascending(P)
           n == Cardinality(P)
           r == At(s, P)
<1>1. n \in Nat /\ at \in [1..n -> P] /\ DOMAIN at = 1..n
  BY AscendingFacts
<1>2. r = [i \in DOMAIN at |-> s[at[i]]]
  BY DEF At
<1> HIDE DEF at, n, r
<1>3. r = [i \in 1..n |-> s[at[i]]]
  BY <1>1, <1>2
<1>4. r \in [1..n -> T]
  BY <1>1, <1>3
<1>5. r \in Seq(T) /\ Len(r) = n
  BY <1>1, <1>4, SeqDef
<1> QED
  BY <1>1, <1>3, <1>5 DEF at, n, r

(* Positions where s and t are the same.                                   *)
LEMMA AtSame ==
  ASSUME NEW s, NEW t, NEW P \in FiniteNats, \A p \in P : s[p] = t[p]
  PROVE  At(s, P) = At(t, P)
<1> DEFINE at == Ascending(P)
<1>1. at \in [1..Cardinality(P) -> P]
  BY AscendingFacts
<1> HIDE DEF at
<1>2. \A i \in DOMAIN at : s[at[i]] = t[at[i]]
  BY <1>1
<1>3. [i \in DOMAIN at |-> s[at[i]]] = [i \in DOMAIN at |-> t[at[i]]]
  BY <1>2
<1> QED
  BY <1>3 DEF At, at

(* All positions.                                                          *)
LEMMA AtAll ==
  ASSUME NEW T, NEW s \in Seq(T)
  PROVE  DOMAIN s \in FiniteNats /\ At(s, DOMAIN s) = s
<1> DEFINE n == Len(s)
           P == 1..n
           at == Ascending(P)
<1>1. n \in Nat /\ DOMAIN s = P /\ s = [i \in P |-> s[i]]
  BY LenProperties
<1>0. ASSUME NEW m \in Nat
      PROVE  IsFiniteSet(1..m) /\ Cardinality(1..m) = m
  <2>1. /\ IsFiniteSet(1..m)
        /\ Cardinality(1..m) = IF 1 > m THEN 0 ELSE m - 1 + 1
    BY FS_Interval
  <2>2. (IF 1 > m THEN 0 ELSE m - 1 + 1) = m
    OBVIOUS
  <2> QED
    BY <2>1, <2>2
<1>2. P \in FiniteNats /\ Cardinality(P) = n
  <2>1. P \in SUBSET Nat
    OBVIOUS
  <2> HIDE DEF n
  <2> QED
    BY <1>0, <1>1, <2>1 DEF FiniteNats
<1>3. at \in [P -> P] /\ \A i \in P : Rank(P, at[i]) = i - 1
  BY <1>2, AscendingFacts
<1>4. ASSUME NEW i \in P PROVE at[i] = i
  <2>1. {l \in P : l < i} = 1..(i - 1)
    BY <1>1
  <2>2. Rank(P, i) = i - 1
    <3>1. i - 1 \in Nat
      BY <1>1
    <3> QED
      BY <1>0, <2>1, <3>1 DEF Rank
  <2>3. at[i] \in P /\ Rank(P, at[i]) = Rank(P, i)
    BY <1>3, <2>2
  <2>4. ~(at[i] < i) /\ ~(i < at[i])
    BY <1>2, <2>3, RankTells
  <2>5. at[i] \in Int /\ i \in Int
    BY <1>1, <2>3
  <2> HIDE DEF at
  <2> QED
    BY <2>4, <2>5
<1>5. DOMAIN at = P
  BY <1>3
<1>6. At(s, P) = [i \in DOMAIN at |-> s[at[i]]]
  BY Zenon DEF At
<1> HIDE DEF at, P
<1>7. At(s, P) = s
  BY <1>1, <1>4, <1>5, <1>6
<1> QED
  BY <1>1, <1>2, <1>7

(* A position after all others.                                            *)
LEMMA AtMore ==
  ASSUME NEW s, NEW P \in FiniteNats, NEW m \in Nat, \A p \in P : p < m
  PROVE  /\ P \cup {m} \in FiniteNats
         /\ At(s, P \cup {m}) = Append(At(s, P), s[m])
<1> DEFINE at == Ascending(P)
           more == Ascending(P \cup {m})
           n == Cardinality(P)
           T == {s[p] : p \in P \cup {m}}
           a == At(s, P)
           b == At(s, P \cup {m})
<1>1. P \cup {m} \in FiniteNats /\ more = Append(at, m)
  BY AscendingMore
<1>2. n \in Nat /\ at \in Seq(Nat) /\ Len(at) = n
  <2>1. n \in Nat /\ at \in [1..n -> P] /\ Len(at) = n
    BY AscendingFacts
  <2>2. at \in [1..n -> Nat]
    BY <2>1 DEF FiniteNats
  <2> HIDE DEF at, n
  <2> QED
    BY <2>1, <2>2, SeqDef
<1>3. Cardinality(P \cup {m}) = n + 1
  <2>1. more \in Seq(P \cup {m}) /\ Len(more) = Cardinality(P \cup {m})
    BY <1>1, AscendingFacts
  <2> HIDE DEF at, more, n
  <2>2. Len(more) = n + 1
    BY <1>1, <1>2, AppendProperties
  <2> QED
    BY <2>1, <2>2
<1>4. /\ a \in Seq(T) /\ Len(a) = n
      /\ a = [i \in 1..n |-> s[at[i]]]
  <2>1. \A p \in P : s[p] \in T
    OBVIOUS
  <2> HIDE DEF T
  <2> QED
    BY <2>1, AtFacts
<1>5. /\ b \in Seq(T) /\ Len(b) = n + 1
      /\ b = [i \in 1..(n + 1) |-> s[more[i]]]
  <2>1. \A p \in P \cup {m} : s[p] \in T
    OBVIOUS
  <2> HIDE DEF T
  <2>2. /\ b \in Seq(T) /\ Len(b) = Cardinality(P \cup {m})
        /\ b = [i \in 1..Cardinality(P \cup {m}) |-> s[more[i]]]
    BY <1>1, <2>1, AtFacts
  <2> QED
    BY <1>3, <2>2
<1>6. s[m] \in T
  OBVIOUS
<1> HIDE DEF at, more, n, T, a, b
<1>7. Append(a, s[m]) \in Seq(T) /\ Len(Append(a, s[m])) = n + 1
  BY <1>4, <1>6, AppendProperties
<1>8. ASSUME NEW i \in 1..(n + 1) PROVE b[i] = Append(a, s[m])[i]
  <2>1. b[i] = s[Append(at, m)[i]]
    BY <1>1, <1>5
  <2>2. CASE i \in 1..n
    BY <1>2, <1>4, <2>1, <2>2
  <2>3. CASE i = n + 1
    <3>1. Append(at, m)[i] = m
      BY <1>2, <2>3
    <3>2. Append(a, s[m])[i] = s[m]
      BY <1>2, <1>4, <1>6, <2>3
    <3> QED
      BY <2>1, <3>1, <3>2
  <2>4. n \in Nat
    BY <1>2
  <2>5. i \in 1..n \/ i = n + 1
    BY <2>4
  <2> QED
    BY <2>2, <2>3, <2>5
<1>9. b = Append(a, s[m])
  <2> DEFINE u == Append(a, s[m])
  <2>1. Len(b) = Len(u) /\ \A i \in 1..Len(b) : b[i] = u[i]
    BY <1>5, <1>7, <1>8
  <2> HIDE DEF u
  <2> QED
    BY <1>5, <1>7, <2>1, SeqEqual DEF u
<1> QED
  BY <1>1, <1>9 DEF a, b

-----------------------------------------------------------------------------
(* FlattenSeq *)

(* The least of some numbers.                                              *)
LEMMA FirstOf ==
  ASSUME NEW S \in SUBSET Nat, S # {}
  PROVE  \E i \in S : \A j \in S : i <= j
<1>1. PICK i \in S : \A j \in S : ~(<<j, i>> \in OpToRel(<, Nat))
  BY WFMin, NatLessThanWellFounded, Zenon
<1>2. \A j \in S : ~(j < i)
  BY <1>1 DEF OpToRel
<1> QED
  BY <1>2

(* What the function flatten of FlattenSeq is, for the first n sequences.  *)
Flattens(f, seqs, n) ==
  f = [i \in 1..n |-> IF i = 1 THEN seqs[i] ELSE f[i - 1] \o seqs[i]]

LEMMA FlattensExists ==
  ASSUME NEW seqs, NEW n \in Nat
  PROVE  \E f : Flattens(f, seqs, n)
<1> DEFINE Missing == {m \in Nat : ~\E f : Flattens(f, seqs, m)}
<1>1. CASE Missing = {}
  BY <1>1
<1>2. CASE Missing # {}
  <2>1. PICK m \in Missing : \A j \in Missing : m <= j
    BY <1>2, FirstOf
  <2>2. m # 0
    <3> DEFINE f == [i \in {} |-> 0]
    <3>1. 1..0 = {}
      OBVIOUS
    <3>2. Flattens(f, seqs, 0)
      BY <3>1, Zenon DEF Flattens
    <3> QED
      BY <2>1, <3>2
  <2>3. m \in Nat /\ m - 1 \in Nat /\ ~(m <= m - 1)
    BY <2>1, <2>2
  <2>4. PICK h : Flattens(h, seqs, m - 1)
    BY <2>1, <2>3
  <2> DEFINE g == [i \in 1..m |->
                     IF i < m THEN h[i]
                     ELSE IF m = 1 THEN seqs[m] ELSE h[m - 1] \o seqs[m]]
  <2>5. ASSUME NEW i \in 1..m
        PROVE  g[i] = IF i = 1 THEN seqs[i] ELSE g[i - 1] \o seqs[i]
    <3>1. CASE i < m
      <4>1. i \in 1..(m - 1)
        BY <2>3, <3>1
      <4>2. h[i] = IF i = 1 THEN seqs[i] ELSE h[i - 1] \o seqs[i]
        BY <2>4, <4>1 DEF Flattens
      <4>3. i # 1 => i - 1 \in 1..m /\ i - 1 < m
        BY <2>3, <3>1
      <4>4. g[i] = h[i] /\ (i # 1 => g[i - 1] = h[i - 1])
        BY <3>1, <4>3
      <4> HIDE DEF g
      <4> QED
        BY <4>2, <4>4
    <3>2. CASE i = m
      <4>1. i # 1 => i - 1 \in 1..m /\ i - 1 < m
        BY <2>3, <3>2
      <4>2. g[i] = IF m = 1 THEN seqs[m] ELSE h[m - 1] \o seqs[m]
        BY <2>3, <3>2
      <4>3. i # 1 => g[i - 1] = h[i - 1]
        BY <4>1
      <4> HIDE DEF g
      <4> QED
        BY <3>2, <4>2, <4>3
    <3> QED
      BY <2>3, <3>1, <3>2
  <2>6. g = [i \in 1..m |-> g[i]]
    OBVIOUS
  <2> HIDE DEF g
  <2>7. [i \in 1..m |-> g[i]] = [i \in 1..m |-> IF i = 1 THEN seqs[i] ELSE g[i - 1] \o seqs[i]]
    BY <2>5
  <2>8. Flattens(g, seqs, m)
    BY <2>6, <2>7 DEF Flattens
  <2> QED
    BY <2>1, <2>8
<1> QED
  BY <1>1, <1>2

LEMMA FlattenSeqIs ==
  ASSUME NEW seqs, Len(seqs) \in Nat \ {0}
  PROVE  \E f : Flattens(f, seqs, Len(seqs)) /\ FlattenSeq(seqs) = f[Len(seqs)]
<1> DEFINE n == Len(seqs)
           flatten == CHOOSE f : Flattens(f, seqs, n)
<1>1. Flattens(flatten, seqs, n)
  BY FlattensExists
<1>2. FlattenSeq(seqs) = flatten[n]
  BY Zenon DEF FlattenSeq, Flattens
<1> QED
  BY <1>1, <1>2

(* A sum of blocks of one size.                                            *)
LEMMA Blocks ==
  ASSUME NEW k \in Nat, NEW m \in Nat \ {0}, NEW i \in Nat \ {0}, i < m, NEW q \in 1..k
  PROVE  /\ (m - 1) * k \in Nat /\ (m - 1) * k + k = m * k
         /\ (i - 1) * k + q \in 1..((m - 1) * k)
<1>1. PICK e \in Nat : m - 1 = i + e
  <2>1. m - 1 - i \in Nat /\ m - 1 = i + (m - 1 - i)
    OBVIOUS
  <2> QED
    BY <2>1
<1>2. (m - 1) * k = (i - 1) * k + k + e * k
  BY <1>1
<1>3. e * k \in Nat /\ (i - 1) * k \in Nat
  BY <1>1
<1>4. (m - 1) * k + k = m * k
  OBVIOUS
<1> QED
  BY <1>2, <1>3, <1>4

(* Sequences of one length k, one after the other: the element q of the    *)
(* i-th is where it is expected, and nothing else is there.                *)
InBlocks(s, seqs, n, k, T) ==
  /\ s \in Seq(T) /\ Len(s) = n * k
  /\ \A i \in 1..n, q \in 1..k : s[(i - 1) * k + q] = seqs[i][q]
  /\ \A p \in 1..(n * k) :
       \E i \in 1..n, q \in 1..k : p = (i - 1) * k + q

LEMMA FlattenSeqBlocks ==
  ASSUME NEW n \in Nat \ {0}, NEW k \in Nat, NEW T, NEW seqs, Len(seqs) = n,
         \A i \in 1..n : seqs[i] \in Seq(T) /\ Len(seqs[i]) = k
  PROVE  InBlocks(FlattenSeq(seqs), seqs, n, k, T)
<1>1. PICK f : Flattens(f, seqs, n) /\ FlattenSeq(seqs) = f[n]
  BY FlattenSeqIs
<1> DEFINE Whole(m) ==
             /\ f[m] \in Seq(T) /\ Len(f[m]) = m * k
             /\ \A i \in 1..m, q \in 1..k : f[m][(i - 1) * k + q] = seqs[i][q]
             /\ \A p \in 1..(m * k) :
                  \E i \in 1..m, q \in 1..k : p = (i - 1) * k + q
           Wrong == {m \in 1..n : ~Whole(m)}
<1>2. ASSUME NEW m \in 1..n
      PROVE  f[m] = IF m = 1 THEN seqs[m] ELSE f[m - 1] \o seqs[m]
  BY <1>1 DEF Flattens
<1>3. Whole(1)
  <2>1. f[1] = seqs[1] /\ 1 \in 1..n
    BY <1>2
  <2>2. f[1] \in Seq(T) /\ Len(f[1]) = k /\ 1 * k = k
    BY <2>1
  <2>3. \A i \in 1..1, q \in 1..k : (i - 1) * k + q = q /\ i = 1
    OBVIOUS
  <2>4. \A p \in 1..(1 * k) : p \in 1..k /\ p = (1 - 1) * k + p
    OBVIOUS
  <2> QED
    BY <2>1, <2>2, <2>3, <2>4
<1>4. ASSUME NEW m \in 1..n, m # 1, Whole(m - 1)
      PROVE  Whole(m)
  <2> DEFINE front == f[m - 1]
             whole == f[m]
             block == seqs[m]
             j == (m - 1) * k
  <2>1. m - 1 \in Nat \ {0} /\ m \in Nat \ {0} /\ m - 1 < m
    BY <1>4
  <2>2. whole = front \o block
    BY <1>2, <1>4
  <2>3. j \in Nat /\ j + k = m * k
    BY <2>1
  <2>4. /\ front \in Seq(T) /\ Len(front) = j
        /\ \A i \in 1..(m - 1), q \in 1..k : front[(i - 1) * k + q] = seqs[i][q]
        /\ \A p \in 1..j : \E i \in 1..(m - 1), q \in 1..k : p = (i - 1) * k + q
    BY <1>4
  <2>5. block \in Seq(T) /\ Len(block) = k
    OBVIOUS
  <2> HIDE DEF front, whole, block
  <2>6. whole \in Seq(T) /\ Len(whole) = j + k
    <3>1. front \in Seq(T) /\ Len(front) = j
      BY <2>4
    <3> HIDE DEF j
    <3>2. front \o block \in Seq(T) /\ Len(front \o block) = Len(front) + Len(block)
      BY <2>5, <3>1, ConcatProperties
    <3> QED
      BY <2>2, <2>5, <3>1, <3>2
  <2>7. ASSUME NEW i \in 1..m, NEW q \in 1..k
        PROVE  whole[(i - 1) * k + q] = seqs[i][q]
    <3>1. CASE i = m
      <4>1. (i - 1) * k + q = j + q
        BY <3>1
      <4> HIDE DEF j
      <4>2. whole[j + q] = block[q]
        BY <2>2, <2>3, <2>4, <2>5
      <4> QED
        BY <3>1, <4>1, <4>2 DEF block
    <3>2. CASE i < m
      <4>1. (i - 1) * k + q \in 1..j
        BY <2>1, <3>2, Blocks
      <4>2. i \in 1..(m - 1)
        BY <2>1, <3>2
      <4>3. front[(i - 1) * k + q] = seqs[i][q]
        BY <2>4, <4>2
      <4> DEFINE p == (i - 1) * k + q
      <4> HIDE DEF p, j
      <4>4. whole[p] = front[p]
        BY <2>2, <2>4, <2>5, <4>1 DEF p
      <4> QED
        BY <4>3, <4>4 DEF p
    <3> QED
      BY <2>1, <3>1, <3>2
  <2>8. ASSUME NEW p \in 1..(j + k)
        PROVE  \E i \in 1..m, q \in 1..k : p = (i - 1) * k + q
    <3>1. CASE p <= j
      <4>1. p \in 1..j
        BY <2>3, <3>1
      <4>2. PICK i \in 1..(m - 1), q \in 1..k : p = (i - 1) * k + q
        BY <2>4, <4>1
      <4>3. i \in 1..m
        BY <2>1
      <4> QED
        BY <4>2, <4>3
    <3>2. CASE ~(p <= j)
      <4>1. p - j \in 1..k /\ p = j + (p - j) /\ m \in 1..m
        <5> HIDE DEF j
        <5> QED
          BY <2>1, <2>3, <3>2
      <4> QED
        BY <4>1
    <3> QED
      BY <3>1, <3>2
  <2> QED
    BY <2>3, <2>6, <2>7, <2>8 DEF whole
<1> HIDE DEF Whole
<1>5. Wrong = {}
  <2> SUFFICES ASSUME Wrong # {} PROVE FALSE
    OBVIOUS
  <2>1. Wrong \in SUBSET Nat
    OBVIOUS
  <2>2. PICK m \in Wrong : \A i \in Wrong : m <= i
    BY <2>1, FirstOf
  <2>3. m # 1 /\ m \in 1..n
    BY <1>3, <2>2
  <2>4. m - 1 \in 1..n /\ ~(m <= m - 1)
    BY <2>3
  <2>5. Whole(m - 1)
    BY <2>2, <2>4
  <2> QED
    BY <1>4, <2>2, <2>3, <2>5
<1>6. Whole(n)
  BY <1>5
<1> QED
  BY <1>1, <1>6 DEF Whole, InBlocks

=============================================================================
