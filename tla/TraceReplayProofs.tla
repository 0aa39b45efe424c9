-------------------------- MODULE TraceReplayProofs -------------------------
(***************************************************************************)
(* What TraceReplay guarantees for every file, every number of workers and *)
(* connections and all its limits: a row is in one place from the moment   *)
(* the reader takes it up, goes out once and in the file's order, and the  *)
(* replay is found finished only when no row waits.                        *)
(***************************************************************************)
EXTENDS TraceReplay, FiniteSetTheorems, SequenceTheorems, TLAPS

-----------------------------------------------------------------------------
(* Lists of rows, with backfills between them or without                   *)

(* The rows a list holds, that it holds none twice, and that they ascend.  *)
RowsOf(s) == {s[i] : i \in DOMAIN s} \ {Backfill}
RowsOnce(s) == \A i, j \in DOMAIN s : s[i] = s[j] /\ s[i] # Backfill => i = j
RowsAscend(s) ==
  \A i, j \in DOMAIN s : i < j /\ s[i] # Backfill /\ s[j] # Backfill => s[i] < s[j]

Before(S, T) == \A x \in S, y \in T : x < y

LEMMA NoRows ==
  RowsOf(<<>>) = {} /\ RowsOnce(<<>>) /\ RowsAscend(<<>>)
  BY DEF RowsOf, RowsOnce, RowsAscend

LEMMA OneRow ==
  ASSUME NEW x
  PROVE  /\ RowsOf(<<x>>) = {x} \ {Backfill}
         /\ RowsOnce(<<x>>) /\ RowsAscend(<<x>>)
  BY DEF RowsOf, RowsOnce, RowsAscend

LEMMA ListFacts ==
  ASSUME NEW K, NEW s \in Seq(K)
  PROVE  /\ Len(s) \in Nat /\ DOMAIN s = 1 .. Len(s)
         /\ \A i \in 1 .. Len(s) : s[i] \in K
         /\ RowsOf(s) \subseteq K /\ Backfill \notin RowsOf(s)
         /\ s = <<>> <=> Len(s) = 0
  <1>1. Len(s) \in Nat /\ DOMAIN s = 1 .. Len(s) /\ \A i \in 1 .. Len(s) : s[i] \in K
    OBVIOUS
  <1>2. s = <<>> <=> Len(s) = 0
    OBVIOUS
  <1>3. RowsOf(s) \subseteq K /\ Backfill \notin RowsOf(s)
    BY <1>1 DEF RowsOf
  <1>. QED
    BY <1>1, <1>2, <1>3

LEMMA WiderSeq ==
  ASSUME NEW K, NEW L, K \subseteq L, NEW s \in Seq(K)
  PROVE  s \in Seq(L)
  <1>1. Len(s) \in Nat /\ s \in [1 .. Len(s) -> K]
    OBVIOUS
  <1>2. s \in [1 .. Len(s) -> L]
    BY <1>1
  <1>. QED
    BY <1>1, <1>2

(* What two lists one after the other hold, and when it is in order.       *)
LEMMA ConcatRows ==
  ASSUME NEW s \in Seq(Nat), NEW t \in Seq(Nat)
  PROVE  /\ s \o t \in Seq(Nat)
         /\ RowsOf(s \o t) = RowsOf(s) \cup RowsOf(t)
         /\ RowsOnce(s \o t) <=> RowsOnce(s) /\ RowsOnce(t) /\ RowsOf(s) \cap RowsOf(t) = {}
         /\ RowsAscend(s \o t) <=>
              RowsAscend(s) /\ RowsAscend(t) /\ Before(RowsOf(s), RowsOf(t))
  <1>. DEFINE m == Len(s)
              n == Len(t)
              u == s \o t
  <1>1. /\ m \in Nat /\ n \in Nat
        /\ DOMAIN s = 1 .. m /\ DOMAIN t = 1 .. n /\ DOMAIN u = 1 .. m + n
        /\ u \in Seq(Nat)
        /\ \A i \in 1 .. m : u[i] = s[i]
        /\ \A i \in m + 1 .. m + n : u[i] = t[i - m]
    OBVIOUS
  <1>. HIDE DEF m, n, u
  <1>2. \A i \in 1 .. m + n : i \in 1 .. m \/ (i \in m + 1 .. m + n /\ i - m \in 1 .. n)
    BY <1>1
  <1>3. \A i \in 1 .. n : /\ i + m \in m + 1 .. m + n /\ i + m \in 1 .. m + n
                         /\ i + m \notin 1 .. m /\ u[i + m] = t[i]
    <2>1. \A i \in 1 .. n : /\ i + m \in m + 1 .. m + n /\ i + m \in 1 .. m + n
                           /\ i + m \notin 1 .. m /\ (i + m) - m = i
      BY <1>1
    <2>. QED
      BY <1>1, <2>1
  <1>31. \A i \in 1 .. m : i \in 1 .. m + n /\ u[i] = s[i]
    BY <1>1
  <1>4. RowsOf(u) = RowsOf(s) \cup RowsOf(t)
    <2>1. RowsOf(u) \subseteq RowsOf(s) \cup RowsOf(t)
      BY <1>1, <1>2 DEF RowsOf
    <2>2. RowsOf(s) \subseteq RowsOf(u)
      BY <1>1, <1>31 DEF RowsOf
    <2>3. RowsOf(t) \subseteq RowsOf(u)
      BY <1>1, <1>3 DEF RowsOf
    <2>. QED
      BY <2>1, <2>2, <2>3
  <1>5. ASSUME RowsOnce(s), RowsOnce(t), RowsOf(s) \cap RowsOf(t) = {}
        PROVE  RowsOnce(u)
    <2>. SUFFICES ASSUME NEW i \in 1 .. m + n, NEW j \in 1 .. m + n, u[i] = u[j], u[i] # Backfill
                  PROVE  i = j
      BY <1>1 DEF RowsOnce
    <2>1. CASE i \in 1 .. m /\ j \in 1 .. m
      BY <1>1, <1>5, <2>1 DEF RowsOnce
    <2>2. CASE i - m \in 1 .. n /\ j - m \in 1 .. n /\ i \in m + 1 .. m + n /\ j \in m + 1 .. m + n
      <3>1. t[i - m] = t[j - m] /\ t[i - m] # Backfill
        BY <1>1, <2>2
      <3>2. i - m = j - m
        BY <1>1, <1>5, <2>2, <3>1 DEF RowsOnce
      <3>. QED
        BY <1>1, <3>2
    <2>3. CASE i \in 1 .. m /\ j - m \in 1 .. n /\ j \in m + 1 .. m + n
      BY <1>1, <1>5, <2>3 DEF RowsOf
    <2>4. CASE j \in 1 .. m /\ i - m \in 1 .. n /\ i \in m + 1 .. m + n
      BY <1>1, <1>5, <2>4 DEF RowsOf
    <2>. QED
      BY <1>2, <2>1, <2>2, <2>3, <2>4
  <1>6. ASSUME RowsOnce(u)
        PROVE  RowsOnce(s) /\ RowsOnce(t) /\ RowsOf(s) \cap RowsOf(t) = {}
    <2>1. RowsOnce(s)
      BY <1>1, <1>31, <1>6 DEF RowsOnce
    <2>2. ASSUME NEW i \in 1 .. n, NEW j \in 1 .. n, t[i] = t[j], t[i] # Backfill
          PROVE  i = j
      <3>1. i + m = j + m
        BY <1>1, <1>3, <1>6, <2>2 DEF RowsOnce
      <3>. QED
        BY <1>1, <3>1
    <2>3. ASSUME NEW i \in 1 .. m, NEW j \in 1 .. n, s[i] # Backfill
          PROVE  s[i] # t[j]
      <3>1. i \in 1 .. m + n /\ j + m \in 1 .. m + n /\ i # j + m /\ u[i] = s[i] /\ u[j + m] = t[j]
        BY <1>3, <1>31
      <3>. QED
        BY <1>1, <1>6, <2>3, <3>1 DEF RowsOnce
    <2>4. RowsOnce(t)
      BY <1>1, <2>2 DEF RowsOnce
    <2>5. RowsOf(s) \cap RowsOf(t) = {}
      BY <1>1, <2>3 DEF RowsOf
    <2>. QED
      BY <2>1, <2>4, <2>5
  <1>7. ASSUME RowsAscend(s), RowsAscend(t), Before(RowsOf(s), RowsOf(t))
        PROVE  RowsAscend(u)
    <2>. SUFFICES ASSUME NEW i \in 1 .. m + n, NEW j \in 1 .. m + n, i < j,
                         u[i] # Backfill, u[j] # Backfill
                  PROVE  u[i] < u[j]
      BY <1>1 DEF RowsAscend
    <2>1. CASE i \in 1 .. m /\ j \in 1 .. m
      BY <1>1, <1>7, <2>1 DEF RowsAscend
    <2>2. CASE i - m \in 1 .. n /\ j - m \in 1 .. n /\ i \in m + 1 .. m + n /\ j \in m + 1 .. m + n
      <3>1. i - m < j - m
        BY <1>1
      <3>. QED
        BY <1>1, <1>7, <2>2, <3>1 DEF RowsAscend
    <2>3. CASE i \in 1 .. m /\ j - m \in 1 .. n /\ j \in m + 1 .. m + n
      <3>1. s[i] \in RowsOf(s) /\ t[j - m] \in RowsOf(t)
        BY <1>1, <2>3 DEF RowsOf
      <3>. QED
        BY <1>1, <1>7, <2>3, <3>1 DEF Before
    <2>4. ~(j \in 1 .. m /\ i \in m + 1 .. m + n)
      BY <1>1
    <2>. QED
      BY <1>2, <2>1, <2>2, <2>3, <2>4
  <1>8. ASSUME RowsAscend(u)
        PROVE  RowsAscend(s) /\ RowsAscend(t) /\ Before(RowsOf(s), RowsOf(t))
    <2>1. RowsAscend(s)
      BY <1>1, <1>31, <1>8 DEF RowsAscend
    <2>2. ASSUME NEW i \in 1 .. n, NEW j \in 1 .. n, i < j, t[i] # Backfill, t[j] # Backfill
          PROVE  t[i] < t[j]
      <3>1. i + m < j + m
        BY <1>1, <2>2
      <3>. QED
        BY <1>1, <1>3, <1>8, <2>2, <3>1 DEF RowsAscend
    <2>3. ASSUME NEW i \in 1 .. m, NEW j \in 1 .. n, s[i] # Backfill, t[j] # Backfill
          PROVE  s[i] < t[j]
      <3>1. i \in 1 .. m + n /\ j + m \in 1 .. m + n /\ u[i] = s[i] /\ u[j + m] = t[j]
        BY <1>3, <1>31
      <3>2. i < j + m
        BY <1>1
      <3>. QED
        BY <1>1, <1>8, <2>3, <3>1, <3>2 DEF RowsAscend
    <2>4. RowsAscend(t)
      BY <1>1, <2>2 DEF RowsAscend
    <2>5. Before(RowsOf(s), RowsOf(t))
      BY <1>1, <2>3 DEF RowsOf, Before
    <2>. QED
      BY <2>1, <2>4, <2>5
  <1>. QED
    BY <1>1, <1>4, <1>5, <1>6, <1>7, <1>8 DEF m, n, u

(* The ways a list is taken apart.                                         *)
LEMMA SplitAt ==
  ASSUME NEW K, NEW s \in Seq(K), NEW m \in Nat, NEW n \in Nat, Len(s) = m + n
  PROVE  /\ SubSeq(s, 1, m) \in Seq(K) /\ SubSeq(s, m + 1, m + n) \in Seq(K)
         /\ Len(SubSeq(s, 1, m)) = m /\ Len(SubSeq(s, m + 1, m + n)) = n
         /\ s = SubSeq(s, 1, m) \o SubSeq(s, m + 1, m + n)
  <1>. DEFINE a == SubSeq(s, 1, m)
              b == SubSeq(s, m + 1, m + n)
              u == a \o b
  <1>0. DOMAIN s = 1 .. m + n
    OBVIOUS
  <1>1. a \in Seq(K) /\ Len(a) = m /\ \A i \in 1 .. m : a[i] = s[i]
    BY <1>0
  <1>2. b \in Seq(K) /\ Len(b) = n
    BY <1>0
  <1>3. \A i \in 1 .. n : b[i] = s[m + 1 + i - 1]
    BY <1>0
  <1>4. \A i \in 1 .. n : m + 1 + i - 1 = i + m
    OBVIOUS
  <1>5. \A i \in 1 .. n : b[i] = s[i + m]
    BY <1>3, <1>4
  <1>. HIDE DEF a, b
  <1>6. /\ u \in Seq(K) /\ Len(u) = m + n
        /\ \A i \in 1 .. m : u[i] = a[i]
        /\ \A i \in m + 1 .. m + n : u[i] = b[i - m]
    BY <1>1, <1>2
  <1>. HIDE DEF u
  <1>7. ASSUME NEW i \in 1 .. m + n
        PROVE  u[i] = s[i]
    <2>1. CASE i \in 1 .. m
      BY <1>1, <1>6, <2>1
    <2>2. CASE i \notin 1 .. m
      <3>1. i \in m + 1 .. m + n /\ i - m \in 1 .. n /\ (i - m) + m = i
        BY <2>2
      <3>. QED
        BY <1>5, <1>6, <3>1
    <2>. QED
      BY <2>1, <2>2
  <1>8. u = s
    BY <1>0, <1>6, <1>7
  <1>. QED
    BY <1>1, <1>2, <1>8 DEF a, b, u

LEMMA ListParts ==
  ASSUME NEW K, NEW s \in Seq(K)
  PROVE  /\ s # <<>> => /\ Head(s) \in K /\ Tail(s) \in Seq(K) /\ <<Head(s)>> \in Seq(K)
                        /\ s = <<Head(s)>> \o Tail(s) /\ Len(Tail(s)) = Len(s) - 1
                        /\ Len(s) > 0
         /\ \A x \in K : /\ Append(s, x) \in Seq(K) /\ Append(s, x) = s \o <<x>>
                         /\ Len(Append(s, x)) = Len(s) + 1
  <1>1. s # <<>> => /\ Head(s) \in K /\ Tail(s) \in Seq(K) /\ <<Head(s)>> \in Seq(K)
                    /\ s = <<Head(s)>> \o Tail(s) /\ Len(Tail(s)) = Len(s) - 1
                    /\ Len(s) > 0
    OBVIOUS
  <1>2. ASSUME NEW x \in K
        PROVE  /\ Append(s, x) \in Seq(K) /\ Append(s, x) = s \o <<x>>
               /\ Len(Append(s, x)) = Len(s) + 1
    OBVIOUS
  <1>. QED
    BY <1>1, <1>2

(* The ranks of a finite set of places: strictly ascending, from one up.   *)
LEMMA RankFacts ==
  ASSUME NEW T, T \subseteq Nat, IsFiniteSet(T)
  PROVE  /\ \A i \in T : Rank(T, i) \in 1 .. Cardinality(T)
         /\ \A i, j \in T : i < j => Rank(T, i) < Rank(T, j)
  <1>. DEFINE Upto(i) == {j \in T : j <= i}
  <1>0. \A i \in T : i \in Nat
    OBVIOUS
  <1>1. ASSUME NEW i \in T
        PROVE  /\ IsFiniteSet(Upto(i)) /\ Cardinality(Upto(i)) \in Nat
               /\ Cardinality(Upto(i)) <= Cardinality(T)
               /\ Cardinality(Upto(i)) > 0
    <2>1. Upto(i) \subseteq T /\ i \in Upto(i)
      BY <1>0
    <2>2. IsFiniteSet(Upto(i)) /\ Cardinality(Upto(i)) \in Nat
          /\ Cardinality(Upto(i)) <= Cardinality(T)
      BY <2>1, FS_Subset, FS_CardinalityType
    <2>3. Cardinality(Upto(i)) # 0
      BY <2>1, <2>2, FS_EmptySet
    <2>. QED
      BY <2>2, <2>3
  <1>2. ASSUME NEW i \in T, NEW j \in T, i < j
        PROVE  Cardinality(Upto(i)) < Cardinality(Upto(j))
    <2>0. j <= j /\ ~(j <= i) /\ \A x \in T : x <= i => x <= j
      BY <1>0, <1>2
    <2>1. Upto(i) \subseteq Upto(j) /\ j \in Upto(j) /\ j \notin Upto(i)
      BY <2>0, Zenon
    <2>2. Upto(i) # Upto(j)
      BY <2>1
    <2>3. Cardinality(Upto(i)) <= Cardinality(Upto(j))
          /\ (Cardinality(Upto(i)) = Cardinality(Upto(j)) => Upto(i) = Upto(j))
      BY <1>1, <2>1, FS_Subset
    <2>4. Cardinality(Upto(i)) \in Nat /\ Cardinality(Upto(j)) \in Nat
      BY <1>1
    <2>. HIDE DEF Upto
    <2>. QED
      BY <2>2, <2>3, <2>4
  <1>3. \A i : Rank(T, i) = Cardinality(Upto(i))
    BY DEF Rank
  <1>4. Cardinality(T) \in Nat
    BY FS_CardinalityType
  <1>. HIDE DEF Upto
  <1>. QED
    BY <1>1, <1>2, <1>3, <1>4

(* Every rank is some place's: ranks are an injection between finite sets  *)
(* of the same size.                                                       *)
LEMMA RankOnto ==
  ASSUME NEW T, T \subseteq Nat, IsFiniteSet(T), NEW k \in 1 .. Cardinality(T)
  PROVE  \E i \in T : Rank(T, i) = k
  <1>. DEFINE N == 1 .. Cardinality(T)
              f == [i \in T |-> Rank(T, i)]
  <1>1. Cardinality(T) \in Nat
    BY FS_CardinalityType
  <1>2. IsFiniteSet(N) /\ Cardinality(N) = Cardinality(T)
    BY <1>1, FS_Interval
  <1>3. f \in [T -> N] /\ \A a, b \in T : f[a] = f[b] => a = b
    <2>1. \A i, j \in T : i < j => Rank(T, i) < Rank(T, j)
      BY RankFacts
    <2>2. \A i \in T : Rank(T, i) \in N
      BY RankFacts
    <2>3. ASSUME NEW a \in T, NEW b \in T, Rank(T, a) = Rank(T, b)
          PROVE  a = b
      <3>1. a \in Nat /\ b \in Nat /\ Rank(T, a) \in Nat /\ Rank(T, b) \in Nat
        BY <2>2
      <3>. QED
        BY <3>1, <2>1, <2>3
    <2>. QED
      BY <2>2, <2>3
  <1>4. f \in Injection(T, N)
    BY <1>3 DEF Injection, IsInjective
  <1>5. f \in Surjection(T, N)
    BY <1>2, <1>4, FS_Injection
  <1>. QED
    BY <1>5 DEF Surjection

(* That p reads s through the ascending map g from its places onto those   *)
(* in T.                                                                   *)
ReadsThrough(p, s, T, g) ==
  /\ g \in [1 .. Cardinality(T) -> T]
  /\ \A k \in 1 .. Cardinality(T) : p[k] = s[g[k]]
  /\ \A k, l \in 1 .. Cardinality(T) : g[k] = g[l] => k = l
  /\ \A k, l \in 1 .. Cardinality(T) : k < l => g[k] < g[l]
  /\ \A i \in T : \E k \in 1 .. Cardinality(T) : g[k] = i

LEMMA PickedMap ==
  ASSUME NEW s, NEW T, T \subseteq Nat, IsFiniteSet(T)
  PROVE  \E g : ReadsThrough(Picked(s, T), s, T, g)
  <1>. DEFINE N == 1 .. Cardinality(T)
              Nth(k) == CHOOSE i \in T : Rank(T, i) = k
              g == [k \in N |-> Nth(k)]
  <1>1. \A k \in N : Nth(k) \in T /\ Rank(T, Nth(k)) = k
    BY RankOnto
  <1>2. \A i \in T : Rank(T, i) \in N /\ Nth(Rank(T, i)) = i
    <2>. TAKE i \in T
    <2>1. Rank(T, i) \in N
      BY RankFacts
    <2>2. Nth(Rank(T, i)) \in T /\ Rank(T, Nth(Rank(T, i))) = Rank(T, i)
      BY <1>1, <2>1, Zenon
    <2>. DEFINE j == Nth(Rank(T, i))
    <2>3. \A a, b \in T : a < b => Rank(T, a) < Rank(T, b)
      BY RankFacts
    <2>5. j \in T /\ Rank(T, j) = Rank(T, i)
      BY <2>2
    <2>. HIDE DEF j
    <2>4. i \in Nat /\ j \in Nat /\ Rank(T, i) \in Nat
      BY <2>1, <2>5
    <2>6. j = i
      BY <2>3, <2>4, <2>5
    <2>. QED
      BY <2>1, <2>6 DEF j
  <1>3. \A k \in N : Picked(s, T)[k] = s[Nth(k)]
    BY DEF Picked
  <1>. HIDE DEF N, Nth
  <1>4. g \in [N -> T] /\ \A k \in N : g[k] = Nth(k)
    BY <1>1
  <1>. HIDE DEF g
  <1>5. /\ \A k \in N : Picked(s, T)[k] = s[g[k]]
        /\ \A k, l \in N : g[k] = g[l] => k = l
        /\ \A i \in T : \E k \in N : g[k] = i
    BY <1>1, <1>2, <1>3, <1>4, Zenon
  <1>51. ASSUME NEW k \in N, NEW l \in N, k < l
         PROVE  g[k] < g[l]
    <2>1. g[k] \in T /\ g[l] \in T /\ Rank(T, g[k]) = k /\ Rank(T, g[l]) = l
      BY <1>1, <1>4
    <2>2. \A a, b \in T : a < b => Rank(T, a) < Rank(T, b)
      BY RankFacts
    <2>. DEFINE a == g[k]
                b == g[l]
    <2>30. a \in Nat /\ b \in Nat
      BY <2>1
    <2>31. k \in Nat /\ l \in Nat
      <3>1. Cardinality(T) \in Nat
        BY FS_CardinalityType
      <3>. QED
        BY <3>1 DEF N
    <2>3. k \in Nat /\ l \in Nat /\ a \in Nat /\ b \in Nat
      BY <2>30, <2>31
    <2>4. ~(b < a)
      <3>1. b < a => l < k
        BY <2>1, <2>2
      <3>. QED
        BY <1>51, <2>3, <3>1
    <2>5. a # b
      BY <1>51, <2>1, <2>3
    <2>. HIDE DEF a, b
    <2>6. a < b
      BY <2>3, <2>4, <2>5
    <2>. QED
      BY <2>6 DEF a, b
  <1>6. ReadsThrough(Picked(s, T), s, T, g)
    BY <1>4, <1>5, <1>51 DEF N, ReadsThrough
  <1>. QED
    BY <1>6

(* What a subsequence holds, and that it keeps the order.                  *)
LEMMA PickedRows ==
  ASSUME NEW K, K \subseteq Nat, NEW s \in Seq(K), NEW T, T \subseteq DOMAIN s
  PROVE  /\ Picked(s, T) \in Seq(K) /\ Len(Picked(s, T)) <= Len(s)
         /\ RowsOf(Picked(s, T)) = {s[i] : i \in T} \ {Backfill}
         /\ RowsOnce(s) => RowsOnce(Picked(s, T))
         /\ RowsAscend(s) => RowsAscend(Picked(s, T))
  <1>. DEFINE p == Picked(s, T)
              n == Cardinality(T)
  <1>0. Len(s) \in Nat /\ DOMAIN s = 1 .. Len(s) /\ \A i \in DOMAIN s : s[i] \in K
    OBVIOUS
  <1>1. T \subseteq Nat /\ IsFiniteSet(T) /\ n \in Nat /\ n <= Len(s)
    <2>1. IsFiniteSet(1 .. Len(s)) /\ Cardinality(1 .. Len(s)) = Len(s)
      BY <1>0, FS_Interval
    <2>2. IsFiniteSet(T) /\ n <= Len(s)
      BY <1>0, <2>1, FS_Subset
    <2>. QED
      BY <1>0, <2>2, FS_CardinalityType
  <1>2. PICK g : ReadsThrough(p, s, T, g)
    BY <1>1, PickedMap
  <1>3. DOMAIN p = 1 .. n /\ p = [k \in 1 .. n |-> p[k]]
    BY DEF Picked
  <1>. HIDE DEF p, n
  <1>4. /\ \A k \in 1 .. n : g[k] \in T /\ p[k] = s[g[k]] /\ p[k] \in K
        /\ \A k, l \in 1 .. n : g[k] = g[l] => k = l
        /\ \A k, l \in 1 .. n : k < l => g[k] < g[l]
        /\ \A i \in T : \E k \in 1 .. n : g[k] = i
    BY <1>0, <1>2 DEF ReadsThrough, n
  <1>5. p \in Seq(K) /\ Len(p) = n
    <2>1. p \in [1 .. n -> K]
      BY <1>3, <1>4
    <2>. QED
      BY <1>1, <2>1
  <1>6. RowsOf(p) = {s[i] : i \in T} \ {Backfill}
    <2>1. RowsOf(p) \subseteq {s[i] : i \in T} \ {Backfill}
      BY <1>3, <1>4 DEF RowsOf
    <2>2. {s[i] : i \in T} \ {Backfill} \subseteq RowsOf(p)
      BY <1>3, <1>4 DEF RowsOf
    <2>. QED
      BY <2>1, <2>2
  <1>61. \A k \in 1 .. n : g[k] \in DOMAIN s
    BY <1>4
  <1>7. ASSUME RowsOnce(s) PROVE RowsOnce(p)
    <2>. SUFFICES ASSUME NEW k \in 1 .. n, NEW l \in 1 .. n, p[k] = p[l], p[k] # Backfill
                  PROVE  k = l
      BY <1>3 DEF RowsOnce
    <2>1. s[g[k]] = s[g[l]] /\ s[g[k]] # Backfill
      BY <1>4
    <2>2. g[k] = g[l]
      BY <1>61, <1>7, <2>1 DEF RowsOnce
    <2>. QED
      BY <1>4, <2>2
  <1>8. ASSUME RowsAscend(s) PROVE RowsAscend(p)
    <2>. SUFFICES ASSUME NEW k \in 1 .. n, NEW l \in 1 .. n, k < l,
                         p[k] # Backfill, p[l] # Backfill
                  PROVE  p[k] < p[l]
      BY <1>3 DEF RowsAscend
    <2>1. /\ g[k] < g[l] /\ p[k] = s[g[k]] /\ p[l] = s[g[l]]
          /\ g[k] \in DOMAIN s /\ g[l] \in DOMAIN s
      BY <1>4, <1>61
    <2>. QED
      BY <1>8, <2>1 DEF RowsAscend
  <1>. QED
    BY <1>1, <1>5, <1>6, <1>7, <1>8 DEF p

LEMMA RowsInFacts ==
  ASSUME NEW K, K \subseteq Nat, NEW s \in Seq(K)
  PROVE  /\ RowsIn(s) \in Seq(K \ {Backfill}) /\ Len(RowsIn(s)) <= Len(s)
         /\ RowsOf(RowsIn(s)) = RowsOf(s)
         /\ RowsOnce(s) => RowsOnce(RowsIn(s))
         /\ RowsAscend(s) => RowsAscend(RowsIn(s))
  <1>. DEFINE T == {i \in 1 .. Len(s) : s[i] # Backfill}
              p == Picked(s, T)
  <1>0. RowsIn(s) = p /\ DOMAIN s = 1 .. Len(s) /\ T \subseteq DOMAIN s
    BY DEF RowsIn
  <1>1. {s[i] : i \in T} \ {Backfill} = RowsOf(s)
    BY <1>0, Zenon DEF RowsOf
  <1>2. /\ p \in Seq(K) /\ Len(p) <= Len(s) /\ RowsOf(p) = RowsOf(s)
        /\ RowsOnce(s) => RowsOnce(p)
        /\ RowsAscend(s) => RowsAscend(p)
    BY <1>0, <1>1, PickedRows
  <1>3. T \subseteq Nat /\ IsFiniteSet(T)
    <2>1. Len(s) \in Nat /\ 1 \in Nat
      OBVIOUS
    <2>2. IsFiniteSet(1 .. Len(s))
      BY <2>1, FS_Interval
    <2>3. T \subseteq 1 .. Len(s) /\ 1 .. Len(s) \subseteq Nat
      BY <2>1
    <2>. QED
      BY <2>2, <2>3, FS_Subset
  <1>4. PICK g : ReadsThrough(p, s, T, g)
    BY <1>3, PickedMap
  <1>5. DOMAIN p = 1 .. Cardinality(T)
    BY DEF Picked
  <1>6. \A i \in T : s[i] # Backfill
    OBVIOUS
  <1>. HIDE DEF p, T
  <1>7. \A k \in DOMAIN p : p[k] # Backfill
    BY <1>4, <1>5, <1>6 DEF ReadsThrough
  <1>8. p \in Seq(K \ {Backfill})
    BY <1>2, <1>7
  <1>. QED
    BY <1>0, <1>2, <1>8

LEMMA WithoutFacts ==
  ASSUME NEW K, K \subseteq Nat, NEW s \in Seq(K), NEW given
  PROVE  /\ Without(s, given) \in Seq(K)
         /\ RowsOf(Without(s, given)) = RowsOf(s) \ given
         /\ RowsOnce(s) => RowsOnce(Without(s, given))
         /\ RowsAscend(s) => RowsAscend(Without(s, given))
  <1>. DEFINE T == {i \in 1 .. Len(s) : s[i] \notin given}
  <1>0. Without(s, given) = Picked(s, T) /\ DOMAIN s = 1 .. Len(s) /\ T \subseteq DOMAIN s
    BY DEF Without
  <1>1. {s[i] : i \in T} \ {Backfill} = RowsOf(s) \ given
    BY <1>0, Zenon DEF RowsOf
  <1>2. /\ Picked(s, T) \in Seq(K)
        /\ RowsOf(Picked(s, T)) = {s[i] : i \in T} \ {Backfill}
        /\ RowsOnce(s) => RowsOnce(Picked(s, T))
        /\ RowsAscend(s) => RowsAscend(Picked(s, T))
    <2>. HIDE DEF T
    <2>. QED
      BY <1>0, PickedRows
  <1>. HIDE DEF T
  <1>. QED
    BY <1>0, <1>1, <1>2, Zenon

(* Rows without backfills: their range, their number and their order.      *)
LEMMA PlainRows ==
  ASSUME NEW s \in Seq(Rows)
  PROVE  /\ s \in Seq(Nat) /\ Entries(s) = RowsOf(s) /\ RowsOf(s) \subseteq Rows
         /\ Ascending(s) <=> RowsAscend(s)
         /\ RowsOnce(s) => IsFiniteSet(RowsOf(s)) /\ Cardinality(RowsOf(s)) = Len(s)
  <1>0. NRows \in Nat
    BY TraceAssumption
  <1>1. /\ Rows \subseteq Nat /\ Backfill \notin Rows
        /\ Len(s) \in Nat /\ DOMAIN s = 1 .. Len(s)
        /\ \A i \in 1 .. Len(s) : s[i] \in Rows /\ s[i] \in Nat /\ s[i] # Backfill
    BY <1>0 DEF Rows, Backfill
  <1>. DEFINE n == Len(s)
  <1>2. s \in Seq(Nat)
    BY <1>1
  <1>3. Entries(s) = RowsOf(s) /\ RowsOf(s) \subseteq Rows
    BY <1>1 DEF Entries, RowsOf
  <1>4. Ascending(s) <=> RowsAscend(s)
    BY <1>1 DEF Ascending, RowsAscend
  <1>5. ASSUME RowsOnce(s)
        PROVE  IsFiniteSet(RowsOf(s)) /\ Cardinality(RowsOf(s)) = n
    <2>1. s \in [1 .. n -> RowsOf(s)] /\ \A x \in RowsOf(s) : \E i \in 1 .. n : s[i] = x
      BY <1>1 DEF RowsOf
    <2>2. s \in Bijection(1 .. n, RowsOf(s))
      BY <1>1, <1>5, <2>1 DEF Bijection, Injection, Surjection, IsInjective, RowsOnce
    <2>3. IsFiniteSet(1 .. n) /\ Cardinality(1 .. n) = n
      BY <1>1, FS_Interval
    <2>. QED
      BY <2>2, <2>3, FS_Bijection DEF ExistsBijection
  <1>. QED
    BY <1>2, <1>3, <1>4, <1>5

-----------------------------------------------------------------------------
(* Where the rows are                                                      *)

InChannel(ch) == {r \in Rows : \E j \in DOMAIN ch : r \in RowsOf(ch[j])}
HeldBy(f, D) == [x \in D |-> RowsOf(f[x])]

Union4(C, T, A, B) == C \cup T \cup A \cup B
Apart4(C, T, A, B) ==
  C \cap (T \cup A \cup B) = {} /\ T \cap (A \cup B) = {} /\ A \cap B = {}

(* No row is in two of the reader's batch R, the channel C, the returned   *)
(* rows T, the answered A, the abandoned B, a worker's claimed rows L[w]   *)
(* and the rows S[c] of a connection.                                      *)
Apart(R, C, T, A, B, L, S) ==
  /\ Apart4(C, T, A, B)
  /\ R \cap Union4(C, T, A, B) = {}
  /\ \A w \in Workers : L[w] \cap Union4(C, T, A, B) = {} /\ L[w] \cap R = {}
  /\ \A c \in Conns : S[c] \cap Union4(C, T, A, B) = {} /\ S[c] \cap R = {}
  /\ \A w \in Workers, c \in Conns : L[w] \cap S[c] = {}
  /\ \A w, v \in Workers : w # v => L[w] \cap L[v] = {}
  /\ \A c, d \in Conns : c # d => S[c] \cap S[d] = {}

All(R, C, T, A, B, L, S) ==
  {r \in Rows : \/ r \in R \/ r \in Union4(C, T, A, B)
                \/ \E w \in Workers : r \in L[w]
                \/ \E c \in Conns : r \in S[c]}

(* A step of connection c of worker w moves rows among these six and       *)
(* leaves them apart.                                                      *)
Moved(w, c, C, T, A, B, L, S, C2, T2, A2, B2, L2, S2) ==
  /\ \A v \in Workers : v # w => L2[v] = L[v]
  /\ \A d \in Conns : d # c => S2[d] = S[d]
  /\ Union4(C2, T2, A2, B2) \cup L2[w] \cup S2[c] = Union4(C, T, A, B) \cup L[w] \cup S[c]
  /\ Apart4(C2, T2, A2, B2)
  /\ L2[w] \cap Union4(C2, T2, A2, B2) = {} /\ S2[c] \cap Union4(C2, T2, A2, B2) = {}
  /\ L2[w] \cap S2[c] = {}

LEMMA MovedApart ==
  ASSUME NEW R, NEW C, NEW T, NEW A, NEW B, NEW L, NEW S,
         NEW C2, NEW T2, NEW A2, NEW B2, NEW L2, NEW S2,
         NEW w \in Workers, NEW c \in Conns,
         Apart(R, C, T, A, B, L, S), Moved(w, c, C, T, A, B, L, S, C2, T2, A2, B2, L2, S2)
  PROVE  /\ Apart(R, C2, T2, A2, B2, L2, S2)
         /\ All(R, C2, T2, A2, B2, L2, S2) = All(R, C, T, A, B, L, S)
  <1>. DEFINE U == Union4(C, T, A, B)
              U2 == Union4(C2, T2, A2, B2)
              V == U \cup L[w] \cup S[c]
  <1>1. /\ Apart4(C2, T2, A2, B2)
        /\ R \cap U = {}
        /\ \A v \in Workers : L[v] \cap U = {} /\ L[v] \cap R = {}
        /\ \A d \in Conns : S[d] \cap U = {} /\ S[d] \cap R = {}
        /\ \A v \in Workers, d \in Conns : L[v] \cap S[d] = {}
        /\ \A v, u \in Workers : u # v => L[u] \cap L[v] = {}
        /\ \A e, d \in Conns : e # d => S[e] \cap S[d] = {}
        /\ \A v \in Workers : v # w => L2[v] = L[v]
        /\ \A d \in Conns : d # c => S2[d] = S[d]
        /\ U2 \cup L2[w] \cup S2[c] = V
        /\ L2[w] \cap U2 = {} /\ S2[c] \cap U2 = {} /\ L2[w] \cap S2[c] = {}
    BY DEF Apart, Moved
  <1>2. /\ R \cap V = {}
        /\ \A v \in Workers : v # w => L[v] \cap V = {}
        /\ \A d \in Conns : d # c => S[d] \cap V = {}
    <2>. HIDE DEF U
    <2>. QED
      BY <1>1
  <1>3. /\ U2 \subseteq V /\ L2[w] \subseteq V /\ S2[c] \subseteq V
        /\ \A r : r \in V <=> r \in U2 \/ r \in L2[w] \/ r \in S2[c]
        /\ \A r : r \in V <=> r \in U \/ r \in L[w] \/ r \in S[c]
    <2>. HIDE DEF U, U2
    <2>. QED
      BY <1>1
  <1>. HIDE DEF U, U2, V
  <1>4. R \cap U2 = {}
    BY <1>2, <1>3
  <1>5. \A v \in Workers : L2[v] \cap U2 = {} /\ L2[v] \cap R = {}
    BY <1>1, <1>2, <1>3
  <1>6. \A d \in Conns : S2[d] \cap U2 = {} /\ S2[d] \cap R = {}
    BY <1>1, <1>2, <1>3
  <1>7. \A v \in Workers, d \in Conns : L2[v] \cap S2[d] = {}
    <2>. TAKE v \in Workers, d \in Conns
    <2>1. CASE v = w /\ d = c
      BY <1>1, <2>1
    <2>2. CASE v # w /\ d = c
      BY <1>1, <1>2, <1>3, <2>2
    <2>3. CASE v = w /\ d # c
      BY <1>1, <1>2, <1>3, <2>3
    <2>4. CASE v # w /\ d # c
      BY <1>1, <2>4
    <2>. QED
      BY <2>1, <2>2, <2>3, <2>4
  <1>8. \A v, u \in Workers : u # v => L2[u] \cap L2[v] = {}
    BY <1>1, <1>2, <1>3
  <1>9. \A e, d \in Conns : e # d => S2[e] \cap S2[d] = {}
    BY <1>1, <1>2, <1>3
  <1>10. Apart(R, C2, T2, A2, B2, L2, S2)
    BY <1>1, <1>4, <1>5, <1>6, <1>7, <1>8, <1>9, Zenon DEF Apart, U2
  <1>11. All(R, C2, T2, A2, B2, L2, S2) = {r \in Rows :
            \/ r \in R \/ r \in U2 \/ (\E v \in Workers : r \in L2[v])
            \/ \E d \in Conns : r \in S2[d]}
    BY DEF All, U2
  <1>12. All(R, C, T, A, B, L, S) = {r \in Rows :
            \/ r \in R \/ r \in U \/ (\E v \in Workers : r \in L[v])
            \/ \E d \in Conns : r \in S[d]}
    BY DEF All, U
  <1>13. ASSUME NEW r
         PROVE  (\/ r \in U2 \/ (\E v \in Workers : r \in L2[v]) \/ \E d \in Conns : r \in S2[d])
            <=> (\/ r \in U \/ (\E v \in Workers : r \in L[v]) \/ \E d \in Conns : r \in S[d])
    <2>1. (\E v \in Workers : r \in L2[v]) <=>
            r \in L2[w] \/ \E v \in Workers : v # w /\ r \in L[v]
      BY <1>1
    <2>2. (\E d \in Conns : r \in S2[d]) <=>
            r \in S2[c] \/ \E d \in Conns : d # c /\ r \in S[d]
      BY <1>1
    <2>3. (\E v \in Workers : r \in L[v]) <=>
            r \in L[w] \/ \E v \in Workers : v # w /\ r \in L[v]
      OBVIOUS
    <2>4. (\E d \in Conns : r \in S[d]) <=>
            r \in S[c] \/ \E d \in Conns : d # c /\ r \in S[d]
      OBVIOUS
    <2>. QED
      BY <1>3, <2>1, <2>2, <2>3, <2>4, Zenon
  <1>. QED
    BY <1>10, <1>11, <1>12, <1>13

(* The channel holds no row twice, and holds the rows in order.            *)
ChannelOnce(ch) ==
  /\ \A j \in DOMAIN ch : RowsOnce(ch[j])
  /\ \A i, j \in DOMAIN ch : i # j => RowsOf(ch[i]) \cap RowsOf(ch[j]) = {}
ChannelAscends(ch) ==
  /\ \A j \in DOMAIN ch : RowsAscend(ch[j])
  /\ \A i, j \in DOMAIN ch : i < j => Before(RowsOf(ch[i]), RowsOf(ch[j]))

LEMMA ChannelSend ==
  ASSUME NEW ch \in Seq(Seq(Rows)), NEW b \in Seq(Rows)
  PROVE  /\ Append(ch, b) \in Seq(Seq(Rows)) /\ Len(Append(ch, b)) = Len(ch) + 1
         /\ InChannel(Append(ch, b)) = InChannel(ch) \cup RowsOf(b)
         /\ ChannelOnce(ch) /\ RowsOnce(b) /\ InChannel(ch) \cap RowsOf(b) = {}
              => ChannelOnce(Append(ch, b))
         /\ ChannelAscends(ch) /\ RowsAscend(b) /\ Before(InChannel(ch), RowsOf(b))
              => ChannelAscends(Append(ch, b))
  <1>. DEFINE m == Len(ch)
              u == Append(ch, b)
  <1>1. /\ m \in Nat /\ DOMAIN ch = 1 .. m /\ u \in Seq(Seq(Rows)) /\ Len(u) = m + 1
        /\ DOMAIN u = 1 .. m + 1
        /\ \A i \in 1 .. m : u[i] = ch[i]
        /\ u[m + 1] = b
        /\ \A i \in 1 .. m : ch[i] \in Seq(Rows)
    OBVIOUS
  <1>. HIDE DEF m, u
  <1>2. /\ \A i \in 1 .. m + 1 : i \in 1 .. m \/ i = m + 1
        /\ \A i \in 1 .. m : i \in 1 .. m + 1 /\ i < m + 1 /\ i # m + 1 /\ ~(m + 1 < i)
        /\ m + 1 \in 1 .. m + 1 /\ ~(m + 1 < m + 1)
    BY <1>1
  <1>3. RowsOf(b) \subseteq Rows /\ \A i \in 1 .. m : RowsOf(ch[i]) \subseteq Rows
    BY <1>1, ListFacts
  <1>4. InChannel(u) = InChannel(ch) \cup RowsOf(b)
    <2>1. InChannel(u) \subseteq InChannel(ch) \cup RowsOf(b)
      BY <1>1, <1>2 DEF InChannel
    <2>2. InChannel(ch) \subseteq InChannel(u)
      BY <1>1, <1>2 DEF InChannel
    <2>3. RowsOf(b) \subseteq InChannel(u)
      BY <1>1, <1>2, <1>3 DEF InChannel
    <2>. QED
      BY <2>1, <2>2, <2>3
  <1>5. \A i \in 1 .. m : RowsOf(ch[i]) \subseteq InChannel(ch)
    BY <1>1, <1>3 DEF InChannel
  <1>6. ASSUME ChannelOnce(ch), RowsOnce(b), InChannel(ch) \cap RowsOf(b) = {}
        PROVE  ChannelOnce(u)
    <2>1. \A i \in 1 .. m : RowsOf(ch[i]) \cap RowsOf(b) = {} /\ RowsOf(b) \cap RowsOf(ch[i]) = {}
      BY <1>5, <1>6
    <2>2. /\ \A i \in 1 .. m : RowsOnce(ch[i])
          /\ \A i, j \in 1 .. m : i # j => RowsOf(ch[i]) \cap RowsOf(ch[j]) = {}
      BY <1>1, <1>6 DEF ChannelOnce
    <2>3. \A j \in 1 .. m + 1 : RowsOnce(u[j])
      BY <1>1, <1>2, <1>6, <2>2, Zenon
    <2>4. ASSUME NEW i \in 1 .. m + 1, NEW j \in 1 .. m + 1, i # j
          PROVE  RowsOf(u[i]) \cap RowsOf(u[j]) = {}
      <3>1. CASE i \in 1 .. m /\ j \in 1 .. m
        BY <1>1, <2>2, <2>4, <3>1, Zenon
      <3>2. CASE i \in 1 .. m /\ j = m + 1
        BY <1>1, <2>1, <3>2, Zenon
      <3>3. CASE i = m + 1 /\ j \in 1 .. m
        BY <1>1, <2>1, <3>3, Zenon
      <3>. QED
        BY <1>2, <2>4, <3>1, <3>2, <3>3, Zenon
    <2>. QED
      BY <1>1, <2>3, <2>4, Zenon DEF ChannelOnce
  <1>7. ASSUME ChannelAscends(ch), RowsAscend(b), Before(InChannel(ch), RowsOf(b))
        PROVE  ChannelAscends(u)
    <2>1. \A i \in 1 .. m : Before(RowsOf(ch[i]), RowsOf(b))
      BY <1>5, <1>7 DEF Before
    <2>2. /\ \A i \in 1 .. m : RowsAscend(ch[i])
          /\ \A i, j \in 1 .. m : i < j => Before(RowsOf(ch[i]), RowsOf(ch[j]))
      BY <1>1, <1>7 DEF ChannelAscends
    <2>3. \A j \in 1 .. m + 1 : RowsAscend(u[j])
      BY <1>1, <1>2, <1>7, <2>2, Zenon
    <2>4. ASSUME NEW i \in 1 .. m + 1, NEW j \in 1 .. m + 1, i < j
          PROVE  Before(RowsOf(u[i]), RowsOf(u[j]))
      <3>1. CASE i \in 1 .. m /\ j \in 1 .. m
        BY <1>1, <2>2, <2>4, <3>1, Zenon
      <3>2. CASE i \in 1 .. m /\ j = m + 1
        BY <1>1, <2>1, <3>2, Zenon
      <3>3. i # m + 1
        BY <1>1, <2>4
      <3>. QED
        BY <1>2, <3>1, <3>2, <3>3, Zenon
    <2>. QED
      BY <1>1, <2>3, <2>4, Zenon DEF ChannelAscends
  <1>. QED
    BY <1>1, <1>4, <1>6, <1>7, Zenon DEF u, m

LEMMA ChannelTake ==
  ASSUME NEW ch \in Seq(Seq(Rows)), ch # <<>>
  PROVE  /\ Head(ch) \in Seq(Rows) /\ Tail(ch) \in Seq(Seq(Rows)) /\ Len(Tail(ch)) = Len(ch) - 1
         /\ Len(ch) \in Nat
         /\ InChannel(ch) = RowsOf(Head(ch)) \cup InChannel(Tail(ch))
         /\ ChannelOnce(ch) => /\ RowsOnce(Head(ch)) /\ ChannelOnce(Tail(ch))
                               /\ RowsOf(Head(ch)) \cap InChannel(Tail(ch)) = {}
         /\ ChannelAscends(ch) => /\ RowsAscend(Head(ch)) /\ ChannelAscends(Tail(ch))
                                  /\ Before(RowsOf(Head(ch)), InChannel(Tail(ch)))
  <1>. DEFINE m == Len(ch)
              u == Tail(ch)
              h == Head(ch)
  <1>1. /\ m \in Nat /\ m > 0 /\ DOMAIN ch = 1 .. m
        /\ u \in Seq(Seq(Rows)) /\ Len(u) = m - 1 /\ DOMAIN u = 1 .. m - 1
        /\ \A i \in 1 .. m - 1 : u[i] = ch[i + 1]
        /\ h = ch[1] /\ h \in Seq(Rows)
        /\ \A i \in 1 .. m : ch[i] \in Seq(Rows)
    OBVIOUS
  <1>. HIDE DEF m, u, h
  <1>2. /\ \A i \in 1 .. m : i = 1 \/ (i - 1 \in 1 .. m - 1 /\ (i - 1) + 1 = i)
        /\ \A i \in 1 .. m - 1 : i + 1 \in 1 .. m /\ i + 1 # 1 /\ 1 < i + 1
        /\ \A i, j \in 1 .. m - 1 : (i # j => i + 1 # j + 1) /\ (i < j => i + 1 < j + 1)
        /\ 1 \in 1 .. m
    BY <1>1
  <1>3. RowsOf(h) \subseteq Rows /\ \A i \in 1 .. m : RowsOf(ch[i]) \subseteq Rows
    BY <1>1, ListFacts
  <1>4. InChannel(ch) = RowsOf(h) \cup InChannel(u)
    <2>1. ASSUME NEW r \in Rows, NEW i \in 1 .. m, r \in RowsOf(ch[i])
          PROVE  r \in RowsOf(h) \/ r \in InChannel(u)
      <3>1. CASE i = 1
        BY <1>1, <2>1, <3>1
      <3>2. CASE i - 1 \in 1 .. m - 1 /\ (i - 1) + 1 = i
        BY <1>1, <2>1, <3>2 DEF InChannel
      <3>. QED
        BY <1>2, <3>1, <3>2
    <2>2. InChannel(ch) \subseteq RowsOf(h) \cup InChannel(u)
      BY <1>1, <2>1 DEF InChannel
    <2>3. RowsOf(h) \subseteq InChannel(ch)
      BY <1>1, <1>2, <1>3 DEF InChannel
    <2>4. InChannel(u) \subseteq InChannel(ch)
      BY <1>1, <1>2 DEF InChannel
    <2>. QED
      BY <2>2, <2>3, <2>4
  <1>5. ASSUME ChannelOnce(ch)
        PROVE  RowsOnce(h) /\ ChannelOnce(u) /\ RowsOf(h) \cap InChannel(u) = {}
    <2>1. /\ \A i \in 1 .. m : RowsOnce(ch[i])
          /\ \A i, j \in 1 .. m : i # j => RowsOf(ch[i]) \cap RowsOf(ch[j]) = {}
      BY <1>1, <1>5 DEF ChannelOnce
    <2>2. RowsOnce(h)
      BY <1>1, <1>2, <2>1
    <2>3. \A j \in 1 .. m - 1 : RowsOnce(u[j])
      BY <1>1, <1>2, <2>1
    <2>4. ASSUME NEW i \in 1 .. m - 1, NEW j \in 1 .. m - 1, i # j
          PROVE  RowsOf(u[i]) \cap RowsOf(u[j]) = {}
      <3>1. /\ i + 1 \in 1 .. m /\ j + 1 \in 1 .. m /\ i + 1 # j + 1
            /\ u[i] = ch[i + 1] /\ u[j] = ch[j + 1]
        BY <1>1, <1>2, <2>4
      <3>. QED
        BY <2>1, <3>1
    <2>5. \A i \in 1 .. m - 1 : RowsOf(h) \cap RowsOf(u[i]) = {}
      BY <1>1, <1>2, <2>1, Zenon
    <2>6. RowsOf(h) \cap InChannel(u) = {}
      BY <1>1, <2>5 DEF InChannel
    <2>. QED
      BY <1>1, <2>2, <2>3, <2>4, <2>6, Zenon DEF ChannelOnce
  <1>6. ASSUME ChannelAscends(ch)
        PROVE  RowsAscend(h) /\ ChannelAscends(u) /\ Before(RowsOf(h), InChannel(u))
    <2>1. /\ \A i \in 1 .. m : RowsAscend(ch[i])
          /\ \A i, j \in 1 .. m : i < j => Before(RowsOf(ch[i]), RowsOf(ch[j]))
      BY <1>1, <1>6 DEF ChannelAscends
    <2>2. RowsAscend(h)
      BY <1>1, <1>2, <2>1
    <2>3. \A j \in 1 .. m - 1 : RowsAscend(u[j])
      BY <1>1, <1>2, <2>1
    <2>4. ASSUME NEW i \in 1 .. m - 1, NEW j \in 1 .. m - 1, i < j
          PROVE  Before(RowsOf(u[i]), RowsOf(u[j]))
      <3>1. /\ i + 1 \in 1 .. m /\ j + 1 \in 1 .. m /\ i + 1 < j + 1
            /\ u[i] = ch[i + 1] /\ u[j] = ch[j + 1]
        BY <1>1, <1>2, <2>4
      <3>. QED
        BY <2>1, <3>1
    <2>5. \A i \in 1 .. m - 1 : Before(RowsOf(h), RowsOf(u[i]))
      BY <1>1, <1>2, <2>1, Zenon
    <2>6. Before(RowsOf(h), InChannel(u))
      BY <1>1, <2>5 DEF InChannel, Before
    <2>. QED
      BY <1>1, <2>2, <2>3, <2>4, <2>6, Zenon DEF ChannelAscends
  <1>. QED
    BY <1>1, <1>4, <1>5, <1>6, Zenon DEF u, m, h

-----------------------------------------------------------------------------
(* The inductive invariant, each part over the values it is about          *)

Flown(s, n) == Oldest(s, Len(s) - n)     \* what of `sent` was flushed

ListTypes(rb, ch, rt, an, ab, cl, se, bf) ==
  /\ rb \in Seq(Rows) /\ ch \in Seq(Seq(Rows)) /\ rt \in Seq(Rows)
  /\ an \subseteq Rows /\ ab \subseteq Rows
  /\ cl \in [Workers -> Seq(Rows)] /\ se \in [Conns -> Seq(Rows \cup {Backfill})]
  /\ bf \in [Conns -> Nat] /\ \A c \in Conns : bf[c] <= Len(se[c]) /\ Len(se[c]) <= Depth

Books(rb, ch, rt, an, ab, cl, se) ==
  Apart(RowsOf(rb), InChannel(ch), RowsOf(rt), an, ab, HeldBy(cl, Workers), HeldBy(se, Conns))

(* The rows the reader has taken up.                                       *)
Taken(rb, ch, rt, an, ab, cl, se) ==
  All(RowsOf(rb), InChannel(ch), RowsOf(rt), an, ab, HeldBy(cl, Workers), HeldBy(se, Conns))

Once(rb, ch, rt, cl, se) ==
  /\ RowsOnce(rb) /\ ChannelOnce(ch) /\ RowsOnce(rt)
  /\ \A w \in Workers : RowsOnce(cl[w])
  /\ \A c \in Conns : RowsOnce(se[c])

(* The counts: K taken up, D of them settled, R in the reader's batch.     *)
Counts(K, D, R, nx, rs, dn, ct) ==
  /\ K \subseteq 1 .. nx - 1
  /\ dn = Cardinality(D)
  /\ ct = Cardinality(IF rs = "send" THEN K ELSE K \ R)
  /\ rs \in {"stop", "gone"} => R = {}

(* What is_finished has read stays true while the threads go on.           *)
Watched(K, D, rs, dn, wt, sn, fi) ==
  /\ wt # "idle" => rs \in {"stop", "gone"}
  /\ wt = "done" => sn <= dn
  /\ fi => rs \in {"stop", "gone"} /\ K = D

(* A row that reached a server is settled or still waits for its reply.    *)
OnWire(wi, an, ab, se, bf) ==
  /\ wi \in [Rows -> 0 .. 1]
  /\ \A r \in Rows : wi[r] = 1 =>
       \/ r \in an \cup ab
       \/ \E c \in Conns : r \in RowsOf(Flown(se[c], bf[c]))

Tries(at, ab) ==
  /\ at \in [Rows -> 0 .. MaxAttempts]
  /\ \A r \in Rows : r \notin ab => at[r] < MaxAttempts

(* Of a worker's connections only the one being polled has rows buffered,  *)
(* and one that waits for a reply has something in flight.                 *)
Tasks(ta, cp, cl, se, bf) ==
  /\ ta \in [Workers -> TaskType] /\ cp \in [Conns -> {"down", "idle", "recv", "exited"}]
  /\ \A c \in Conns : bf[c] > 0 => /\ ta[WorkerOf[c]].conn = c
                                  /\ ta[WorkerOf[c]].at \in {"fill", "claim", "flush"}
  /\ \A c \in Conns : cp[c] = "recv" => se[c] # <<>>
  /\ \A c \in Conns : ta[WorkerOf[c]].conn = c => cp[c] = "idle"
  /\ \A w \in Workers : ta[w].at = "claim" => cl[w] = <<>>
  /\ \A w \in Workers : ta[w].at = "free" => ta[w] = Free

(* File order, from the flushed rows of a worker's connections through the *)
(* buffered and the claimed ones to the channel and the reader.            *)
Order(rb, ch, rt, cl, se, bf) ==
  /\ rt = <<>> /\ RowsAscend(rb) /\ ChannelAscends(ch)
  /\ Before(InChannel(ch), RowsOf(rb))
  /\ \A w \in Workers : /\ RowsAscend(cl[w])
                        /\ Before(RowsOf(cl[w]), InChannel(ch) \cup RowsOf(rb))
  /\ \A c \in Conns : /\ RowsAscend(se[c])
                      /\ Before(RowsOf(se[c]), InChannel(ch) \cup RowsOf(rb))
                      /\ Before(RowsOf(se[c]), RowsOf(cl[WorkerOf[c]]))
  /\ \A c, d \in Conns : WorkerOf[c] = WorkerOf[d] =>
       Before(RowsOf(Flown(se[d], bf[d])), RowsOf(Newest(se[c], bf[c])))

RunTypes ==
  /\ next \in 1 .. (NRows + 1) /\ Len(rbatch) <= ClaimBatch
  /\ eof \in BOOLEAN /\ err \in BOOLEAN /\ rd \in {"read", "send", "stop", "gone"}
  /\ phase \in {"Wait", "Replay", "Stop"} /\ watch \in {"idle", "stopped", "done"}
  /\ seenDone \in Nat /\ finished \in BOOLEAN

TakenUp == Taken(rbatch, chan, returned, answered, abandoned, claimed, sent)

ReplayInv ==
  /\ RunTypes /\ Len(chan) <= ReadAhead /\ disorder \in BOOLEAN
  /\ backfill \in [Conns -> 0 .. BackfillCap]
  /\ ListTypes(rbatch, chan, returned, answered, abandoned, claimed, sent, buf)
  /\ Books(rbatch, chan, returned, answered, abandoned, claimed, sent)
  /\ Once(rbatch, chan, returned, claimed, sent)
  /\ Counts(TakenUp, answered \cup abandoned, RowsOf(rbatch), next, rd, done, counted)
  /\ Watched(TakenUp, answered \cup abandoned, rd, done, watch, seenDone, finished)
  /\ OnWire(wired, answered, abandoned, sent, buf)
  /\ Tries(attempts, abandoned)
  /\ Tasks(task, cpc, claimed, sent, buf)
  /\ ~disorder => Order(rbatch, chan, returned, claimed, sent, buf)

(* What every step keeps: the invariant, and the rows taken up.            *)
StepKeeps == ReplayInv' /\ TakenUp \subseteq TakenUp'

-----------------------------------------------------------------------------
(* A step of one connection                                                *)

(* Connection c of worker w, with x claimed and y sent, leaves x2 and y2   *)
(* of which the newest b2 are buffered.                                    *)
Rowly(ch, rt, an, ab, x, y, ch2, rt2, an2, ab2, x2, y2, b2) ==
  /\ ch2 \in Seq(Seq(Rows)) /\ rt2 \in Seq(Rows) /\ an2 \subseteq Rows /\ ab2 \subseteq Rows
  /\ x2 \in Seq(Rows) /\ y2 \in Seq(Rows \cup {Backfill})
  /\ b2 \in Nat /\ b2 <= Len(y2) /\ Len(y2) <= Depth
  /\ ChannelOnce(ch2) /\ RowsOnce(rt2) /\ RowsOnce(x2) /\ RowsOnce(y2)
  /\ Union4(InChannel(ch2), RowsOf(rt2), an2, ab2) \cup RowsOf(x2) \cup RowsOf(y2)
       = Union4(InChannel(ch), RowsOf(rt), an, ab) \cup RowsOf(x) \cup RowsOf(y)
  /\ Apart4(InChannel(ch2), RowsOf(rt2), an2, ab2)
  /\ RowsOf(x2) \cap Union4(InChannel(ch2), RowsOf(rt2), an2, ab2) = {}
  /\ RowsOf(y2) \cap Union4(InChannel(ch2), RowsOf(rt2), an2, ab2) = {}
  /\ RowsOf(x2) \cap RowsOf(y2) = {}

RowlyFrom(w, c, x2, y2, b2, rb, ch, rt, an, ab, cl, se, bf, ch2, rt2, an2, ab2, cl2, se2, bf2) ==
  /\ ListTypes(rb, ch, rt, an, ab, cl, se, bf) /\ Books(rb, ch, rt, an, ab, cl, se)
  /\ Once(rb, ch, rt, cl, se)
  /\ Rowly(ch, rt, an, ab, cl[w], se[c], ch2, rt2, an2, ab2, x2, y2, b2)
  /\ cl2 = [cl EXCEPT ![w] = x2] /\ se2 = [se EXCEPT ![c] = y2]
  /\ bf2 = [bf EXCEPT ![c] = b2]

LEMMA RowlyStep ==
  ASSUME NEW rb, NEW ch, NEW rt, NEW an, NEW ab, NEW cl, NEW se, NEW bf,
         NEW ch2, NEW rt2, NEW an2, NEW ab2, NEW cl2, NEW se2, NEW bf2,
         NEW w \in Workers, NEW c \in Conns, NEW x2, NEW y2, NEW b2,
         RowlyFrom(w, c, x2, y2, b2, rb, ch, rt, an, ab, cl, se, bf,
                   ch2, rt2, an2, ab2, cl2, se2, bf2)
  PROVE  /\ ListTypes(rb, ch2, rt2, an2, ab2, cl2, se2, bf2)
         /\ Books(rb, ch2, rt2, an2, ab2, cl2, se2)
         /\ Once(rb, ch2, rt2, cl2, se2)
         /\ Taken(rb, ch2, rt2, an2, ab2, cl2, se2) = Taken(rb, ch, rt, an, ab, cl, se)
  <1>00. /\ ListTypes(rb, ch, rt, an, ab, cl, se, bf) /\ Books(rb, ch, rt, an, ab, cl, se)
         /\ Once(rb, ch, rt, cl, se)
         /\ Rowly(ch, rt, an, ab, cl[w], se[c], ch2, rt2, an2, ab2, x2, y2, b2)
         /\ cl2 = [cl EXCEPT ![w] = x2] /\ se2 = [se EXCEPT ![c] = y2]
         /\ bf2 = [bf EXCEPT ![c] = b2]
    BY DEF RowlyFrom
  <1>. USE <1>00
  <1>0. /\ cl \in [Workers -> Seq(Rows)] /\ se \in [Conns -> Seq(Rows \cup {Backfill})]
        /\ bf \in [Conns -> Nat] /\ \A d \in Conns : bf[d] <= Len(se[d]) /\ Len(se[d]) <= Depth
        /\ rb \in Seq(Rows)
    BY DEF ListTypes
  <1>01. /\ ch2 \in Seq(Seq(Rows)) /\ rt2 \in Seq(Rows) /\ an2 \subseteq Rows /\ ab2 \subseteq Rows
         /\ x2 \in Seq(Rows) /\ y2 \in Seq(Rows \cup {Backfill})
         /\ b2 \in Nat /\ b2 <= Len(y2) /\ Len(y2) <= Depth
         /\ ChannelOnce(ch2) /\ RowsOnce(rt2) /\ RowsOnce(x2) /\ RowsOnce(y2)
    BY DEF Rowly
  <1>1. /\ cl2 \in [Workers -> Seq(Rows)] /\ cl2[w] = x2
        /\ \A v \in Workers : v # w => cl2[v] = cl[v]
    BY <1>0, <1>01
  <1>2. /\ se2 \in [Conns -> Seq(Rows \cup {Backfill})] /\ se2[c] = y2
        /\ \A d \in Conns : d # c => se2[d] = se[d]
    BY <1>0, <1>01
  <1>3. /\ bf2 \in [Conns -> Nat] /\ bf2[c] = b2
        /\ \A d \in Conns : d # c => bf2[d] = bf[d]
    BY <1>0, <1>01
  <1>4. \A d \in Conns : bf2[d] <= Len(se2[d]) /\ Len(se2[d]) <= Depth
    <2>. TAKE d \in Conns
    <2>1. CASE d = c
      BY <1>01, <1>2, <1>3, <2>1
    <2>2. CASE d # c
      BY <1>0, <1>2, <1>3, <2>2
    <2>. QED
      BY <2>1, <2>2
  <1>5. ListTypes(rb, ch2, rt2, an2, ab2, cl2, se2, bf2)
    BY <1>0, <1>01, <1>1, <1>2, <1>3, <1>4 DEF ListTypes
  <1>6. Once(rb, ch2, rt2, cl2, se2)
    <2>1. /\ RowsOnce(rb) /\ \A v \in Workers : RowsOnce(cl[v])
          /\ \A d \in Conns : RowsOnce(se[d])
      BY DEF Once
    <2>2. \A v \in Workers : RowsOnce(cl2[v])
      BY <1>01, <1>1, <2>1
    <2>3. \A d \in Conns : RowsOnce(se2[d])
      BY <1>01, <1>2, <2>1
    <2>. QED
      BY <1>01, <2>1, <2>2, <2>3 DEF Once
  <1>. DEFINE L == HeldBy(cl, Workers)
              S == HeldBy(se, Conns)
              L2 == HeldBy(cl2, Workers)
              S2 == HeldBy(se2, Conns)
  <1>7. /\ L[w] = RowsOf(cl[w]) /\ S[c] = RowsOf(se[c])
        /\ L2[w] = RowsOf(x2) /\ S2[c] = RowsOf(y2)
        /\ \A v \in Workers : v # w => L2[v] = L[v]
        /\ \A d \in Conns : d # c => S2[d] = S[d]
    BY <1>1, <1>2 DEF HeldBy
  <1>. DEFINE C == InChannel(ch)
              T == RowsOf(rt)
              C2 == InChannel(ch2)
              T2 == RowsOf(rt2)
  <1>. HIDE DEF L, S, L2, S2
  <1>8. Moved(w, c, C, T, an, ab, L, S, C2, T2, an2, ab2, L2, S2)
    BY <1>7 DEF Moved, Rowly
  <1>. DEFINE R == RowsOf(rb)
  <1>9. Apart(R, C, T, an, ab, L, S)
    BY DEF Books, L, S
  <1>. HIDE DEF C, T, C2, T2, R
  <1>10. /\ Apart(R, C2, T2, an2, ab2, L2, S2)
         /\ All(R, C2, T2, an2, ab2, L2, S2) = All(R, C, T, an, ab, L, S)
    BY <1>8, <1>9, MovedApart
  <1>. QED
    BY <1>5, <1>6, <1>10 DEF Books, Taken, L, S, L2, S2, C, T, C2, T2, R

(* More rows are settled, none is taken up.                                *)
LEMMA SettledStep ==
  ASSUME NEW K, NEW D, NEW D2, NEW R, NEW nx, NEW rs, NEW dn, NEW dn2, NEW ct,
         NEW wt, NEW sn \in Nat, NEW fi,
         IsFiniteSet(K), D \subseteq D2, D2 \subseteq K,
         dn2 = dn + Cardinality(D2 \ D),
         Counts(K, D, R, nx, rs, dn, ct), Watched(K, D, rs, dn, wt, sn, fi)
  PROVE  /\ Counts(K, D2, R, nx, rs, dn2, ct)
         /\ Watched(K, D2, rs, dn2, wt, sn, fi)
  <1>1. IsFiniteSet(D2) /\ IsFiniteSet(D) /\ IsFiniteSet(D2 \ D)
    BY FS_Subset
  <1>2. Cardinality(D2 \ D) \in Nat /\ Cardinality(D) \in Nat /\ Cardinality(D2) \in Nat
    BY <1>1, FS_CardinalityType
  <1>3. Cardinality(D2 \ D) = Cardinality(D2) - Cardinality(D2 \cap D)
    BY <1>1, FS_Difference
  <1>4. D2 \cap D = D
    OBVIOUS
  <1>5. dn = Cardinality(D)
    BY DEF Counts
  <1>6. dn2 = Cardinality(D2) /\ dn <= dn2 /\ dn \in Nat /\ dn2 \in Nat
    <2>. DEFINE p == Cardinality(D2 \ D)
                q == Cardinality(D)
                u == Cardinality(D2)
    <2>1. p = u - q
      <3>1. Cardinality(D2 \cap D) = q
        BY <1>4
      <3>. QED
        BY <1>3, <3>1
    <2>2. p \in Nat /\ q \in Nat /\ u \in Nat /\ dn = q /\ dn2 = dn + p
      BY <1>2, <1>5
    <2>. HIDE DEF p, q, u
    <2>3. dn2 = u /\ dn <= dn2 /\ dn \in Nat /\ dn2 \in Nat
      BY <2>1, <2>2
    <2>. QED
      BY <2>3 DEF u
  <1>7. Counts(K, D2, R, nx, rs, dn2, ct)
    BY <1>6 DEF Counts
  <1>8. sn <= dn => sn <= dn2
    BY <1>6
  <1>9. Watched(K, D2, rs, dn2, wt, sn, fi)
    BY <1>8 DEF Watched
  <1>. QED
    BY <1>7, <1>9

(* What the task of connection c may become without unsettling the others. *)
TaskGoes(w, c, x2, y2, b2, t, t2, p2) ==
  /\ t.conn \in {c, "none"}
  /\ t2 \in TaskType /\ p2 \in {"down", "idle", "recv", "exited"}
  /\ t2 = Free \/ (t2.conn = c /\ p2 = "idle" /\ t2.at # "free")
  /\ b2 > 0 => t2.conn = c /\ t2.at \in {"fill", "claim", "flush"}
  /\ p2 = "recv" => y2 # <<>>
  /\ t2.at = "claim" => x2 = <<>>

TasksFrom(c, x2, y2, b2, t2, p2, ta, cp, cl, se, bf, ta2, cp2, cl2, se2, bf2) ==
  /\ Tasks(ta, cp, cl, se, bf)
  /\ TaskGoes(WorkerOf[c], c, x2, y2, b2, ta[WorkerOf[c]], t2, p2)
  /\ cl \in [Workers -> Seq(Rows)] /\ se \in [Conns -> Seq(Rows \cup {Backfill})]
  /\ bf \in [Conns -> Nat]
  /\ cl2 = [cl EXCEPT ![WorkerOf[c]] = x2] /\ se2 = [se EXCEPT ![c] = y2]
  /\ bf2 = [bf EXCEPT ![c] = b2] /\ ta2 = [ta EXCEPT ![WorkerOf[c]] = t2]
  /\ cp2 = [cp EXCEPT ![c] = p2]

LEMMA TasksStep ==
  ASSUME NEW ta, NEW cp, NEW cl, NEW se, NEW bf,
         NEW ta2, NEW cp2, NEW cl2, NEW se2, NEW bf2,
         NEW c \in Conns, NEW x2, NEW y2, NEW b2, NEW t2, NEW p2,
         TasksFrom(c, x2, y2, b2, t2, p2, ta, cp, cl, se, bf, ta2, cp2, cl2, se2, bf2)
  PROVE  Tasks(ta2, cp2, cl2, se2, bf2)
  <1>00. /\ Tasks(ta, cp, cl, se, bf)
         /\ TaskGoes(WorkerOf[c], c, x2, y2, b2, ta[WorkerOf[c]], t2, p2)
         /\ cl \in [Workers -> Seq(Rows)] /\ se \in [Conns -> Seq(Rows \cup {Backfill})]
         /\ bf \in [Conns -> Nat]
         /\ cl2 = [cl EXCEPT ![WorkerOf[c]] = x2] /\ se2 = [se EXCEPT ![c] = y2]
         /\ bf2 = [bf EXCEPT ![c] = b2] /\ ta2 = [ta EXCEPT ![WorkerOf[c]] = t2]
         /\ cp2 = [cp EXCEPT ![c] = p2]
    BY DEF TasksFrom
  <1>. USE <1>00
  <1>. DEFINE w == WorkerOf[c]
  <1>0. w \in Workers /\ WorkerOf \in [Conns -> Workers] /\ "none" \notin Conns
    BY TraceAssumption
  <1>1. /\ ta \in [Workers -> TaskType] /\ cp \in [Conns -> {"down", "idle", "recv", "exited"}]
        /\ \A d \in Conns : bf[d] > 0 => /\ ta[WorkerOf[d]].conn = d
                                        /\ ta[WorkerOf[d]].at \in {"fill", "claim", "flush"}
        /\ \A d \in Conns : cp[d] = "recv" => se[d] # <<>>
        /\ \A d \in Conns : ta[WorkerOf[d]].conn = d => cp[d] = "idle"
        /\ \A v \in Workers : ta[v].at = "claim" => cl[v] = <<>>
        /\ \A v \in Workers : ta[v].at = "free" => ta[v] = Free
    BY DEF Tasks
  <1>2. /\ ta[w].conn \in {c, "none"}
        /\ t2 \in TaskType /\ p2 \in {"down", "idle", "recv", "exited"}
        /\ t2 = Free \/ (t2.conn = c /\ p2 = "idle" /\ t2.at # "free")
        /\ b2 > 0 => t2.conn = c /\ t2.at \in {"fill", "claim", "flush"}
        /\ p2 = "recv" => y2 # <<>>
        /\ t2.at = "claim" => x2 = <<>>
    BY DEF TaskGoes
  <1>21. t2.conn \in {c, "none"} /\ (t2.at = "free" => t2 = Free)
    BY <1>2 DEF Free
  <1>3. /\ ta2 \in [Workers -> TaskType] /\ ta2[w] = t2
        /\ \A v \in Workers : v # w => ta2[v] = ta[v]
    BY <1>0, <1>1, <1>2
  <1>4. /\ cp2 \in [Conns -> {"down", "idle", "recv", "exited"}] /\ cp2[c] = p2
        /\ \A d \in Conns : d # c => cp2[d] = cp[d]
    BY <1>1, <1>2
  <1>5. /\ cl2[w] = x2 /\ \A v \in Workers : v # w => cl2[v] = cl[v]
        /\ se2[c] = y2 /\ \A d \in Conns : d # c => se2[d] = se[d]
        /\ bf2[c] = b2 /\ \A d \in Conns : d # c => bf2[d] = bf[d]
    BY <1>0
  <1>. HIDE DEF w
  <1>60. w = WorkerOf[c] /\ \A d \in Conns : WorkerOf[d] \in Workers
    BY <1>0 DEF w
  <1>61. \A d \in Conns : d # c /\ WorkerOf[d] = w => ta[w].conn # d /\ t2.conn # d
    BY <1>0, <1>2, <1>21
  <1>6. ASSUME NEW d \in Conns, bf2[d] > 0
        PROVE  ta2[WorkerOf[d]].conn = d /\ ta2[WorkerOf[d]].at \in {"fill", "claim", "flush"}
    <2>1. CASE d = c
      BY <1>2, <1>3, <1>5, <1>6, <1>60, <2>1
    <2>2. CASE d # c
      <3>1. ta[WorkerOf[d]].conn = d /\ ta[WorkerOf[d]].at \in {"fill", "claim", "flush"}
        BY <1>1, <1>5, <1>6, <2>2
      <3>2. WorkerOf[d] # w
        BY <1>61, <2>2, <3>1
      <3>. QED
        BY <1>3, <1>60, <3>1, <3>2
    <2>. QED
      BY <2>1, <2>2
  <1>7. ASSUME NEW d \in Conns, cp2[d] = "recv"
        PROVE  se2[d] # <<>>
    BY <1>1, <1>2, <1>4, <1>5, <1>7
  <1>8. ASSUME NEW d \in Conns, ta2[WorkerOf[d]].conn = d
        PROVE  cp2[d] = "idle"
    <2>1. CASE d = c
      BY <1>0, <1>2, <1>3, <1>4, <1>8, <1>60, <2>1 DEF Free
    <2>2. CASE d # c
      <3>1. WorkerOf[d] # w
        BY <1>3, <1>8, <1>61, <2>2
      <3>. QED
        BY <1>1, <1>3, <1>4, <1>8, <1>60, <2>2, <3>1
    <2>. QED
      BY <2>1, <2>2
  <1>9. \A v \in Workers : ta2[v].at = "claim" => cl2[v] = <<>>
    BY <1>1, <1>2, <1>3, <1>5
  <1>10. \A v \in Workers : ta2[v].at = "free" => ta2[v] = Free
    BY <1>1, <1>21, <1>3
  <1>. QED
    BY <1>3, <1>4, <1>6, <1>7, <1>8, <1>9, <1>10 DEF Tasks

(* The rows on the wire: some more of connection c, none forgotten.        *)
WireGoes(y, b, y2, b2, wi, an, ab, wi2, an2, ab2) ==
  /\ an \cup ab \subseteq an2 \cup ab2
  /\ RowsOf(Flown(y, b)) \subseteq an2 \cup ab2 \cup RowsOf(Flown(y2, b2))
  /\ wi2 \in [Rows -> 0 .. 1]
  /\ \A r \in Rows : wi2[r] = wi[r] \/ r \in RowsOf(Flown(y2, b2))

WireFrom(c, y2, b2, wi, an, ab, se, bf, wi2, an2, ab2, se2, bf2) ==
  /\ OnWire(wi, an, ab, se, bf)
  /\ se \in [Conns -> Seq(Rows \cup {Backfill})] /\ bf \in [Conns -> Nat]
  /\ se2 = [se EXCEPT ![c] = y2] /\ bf2 = [bf EXCEPT ![c] = b2]
  /\ WireGoes(se[c], bf[c], y2, b2, wi, an, ab, wi2, an2, ab2)

LEMMA WireStep ==
  ASSUME NEW wi, NEW an, NEW ab, NEW se, NEW bf, NEW wi2, NEW an2, NEW ab2, NEW se2, NEW bf2,
         NEW c \in Conns, NEW y2, NEW b2,
         WireFrom(c, y2, b2, wi, an, ab, se, bf, wi2, an2, ab2, se2, bf2)
  PROVE  OnWire(wi2, an2, ab2, se2, bf2)
  <1>00. /\ OnWire(wi, an, ab, se, bf)
         /\ se \in [Conns -> Seq(Rows \cup {Backfill})] /\ bf \in [Conns -> Nat]
         /\ se2 = [se EXCEPT ![c] = y2] /\ bf2 = [bf EXCEPT ![c] = b2]
         /\ WireGoes(se[c], bf[c], y2, b2, wi, an, ab, wi2, an2, ab2)
    BY DEF WireFrom
  <1>01. /\ an \cup ab \subseteq an2 \cup ab2
         /\ RowsOf(Flown(se[c], bf[c])) \subseteq an2 \cup ab2 \cup RowsOf(Flown(y2, b2))
         /\ wi2 \in [Rows -> 0 .. 1]
         /\ \A r \in Rows : wi2[r] = wi[r] \/ r \in RowsOf(Flown(y2, b2))
    BY <1>00 DEF WireGoes
  <1>. USE <1>00, <1>01
  <1>1. /\ se2[c] = y2 /\ bf2[c] = b2
        /\ \A d \in Conns : d # c => se2[d] = se[d] /\ bf2[d] = bf[d]
    OBVIOUS
  <1>2. \A d \in Conns : d # c => Flown(se2[d], bf2[d]) = Flown(se[d], bf[d])
    BY <1>1
  <1>3. Flown(se2[c], bf2[c]) = Flown(y2, b2)
    BY <1>1
  <1>4. ASSUME NEW r \in Rows, wi2[r] = 1
        PROVE  r \in an2 \cup ab2 \/ \E d \in Conns : r \in RowsOf(Flown(se2[d], bf2[d]))
    <2>1. CASE r \in RowsOf(Flown(y2, b2))
      BY <1>3, <2>1
    <2>2. CASE wi2[r] = wi[r]
      <3>1. r \in an \cup ab \/ \E d \in Conns : r \in RowsOf(Flown(se[d], bf[d]))
        BY <1>4, <2>2 DEF OnWire
      <3>2. CASE r \in an \cup ab
        BY <3>2
      <3>3. ASSUME NEW d \in Conns, r \in RowsOf(Flown(se[d], bf[d]))
            PROVE  r \in an2 \cup ab2 \/ \E e \in Conns : r \in RowsOf(Flown(se2[e], bf2[e]))
        <4>1. CASE d = c
          BY <1>3, <3>3, <4>1
        <4>2. CASE d # c
          BY <1>2, <3>3, <4>2
        <4>. QED
          BY <4>1, <4>2
      <3>. QED
        BY <3>1, <3>2, <3>3
    <2>. QED
      BY <2>1, <2>2
  <1>. QED
    BY <1>4 DEF OnWire

LEMMA FlownFacts ==
  ASSUME NEW s \in Seq(Rows \cup {Backfill}), NEW n \in Nat, n <= Len(s)
  PROVE  /\ Flown(s, n) \in Seq(Rows \cup {Backfill}) /\ Newest(s, n) \in Seq(Rows \cup {Backfill})
         /\ s = Flown(s, n) \o Newest(s, n)
         /\ Len(Flown(s, n)) = Len(s) - n /\ Len(Newest(s, n)) = n
         /\ RowsOf(s) = RowsOf(Flown(s, n)) \cup RowsOf(Newest(s, n))
         /\ RowsOnce(s) => /\ RowsOnce(Flown(s, n)) /\ RowsOnce(Newest(s, n))
                           /\ RowsOf(Flown(s, n)) \cap RowsOf(Newest(s, n)) = {}
         /\ RowsAscend(s) => /\ RowsAscend(Flown(s, n)) /\ RowsAscend(Newest(s, n))
                             /\ Before(RowsOf(Flown(s, n)), RowsOf(Newest(s, n)))
         /\ n = 0 => Flown(s, n) = s /\ Newest(s, n) = <<>>
  <1>. DEFINE K == Rows \cup {Backfill}
              m == Len(s) - n
              a == Flown(s, n)
              b == Newest(s, n)
  <1>1. m \in Nat /\ Len(s) = m + n
    OBVIOUS
  <1>2. a = SubSeq(s, 1, m) /\ b = SubSeq(s, m + 1, m + n)
    BY <1>1 DEF Flown, Newest, Oldest
  <1>. HIDE DEF m, a, b
  <1>21. s \in Seq(K)
    OBVIOUS
  <1>. HIDE DEF K
  <1>3. /\ a \in Seq(K) /\ b \in Seq(K) /\ s = a \o b /\ Len(a) = m /\ Len(b) = n
    <2>1. /\ SubSeq(s, 1, m) \in Seq(K) /\ SubSeq(s, m + 1, m + n) \in Seq(K)
          /\ Len(SubSeq(s, 1, m)) = m /\ Len(SubSeq(s, m + 1, m + n)) = n
          /\ s = SubSeq(s, 1, m) \o SubSeq(s, m + 1, m + n)
      BY <1>1, <1>21, SplitAt
    <2>. QED
      BY <1>2, <2>1, Zenon
  <1>4. K \subseteq Nat
    BY TraceAssumption DEF K, Rows, Backfill
  <1>5. a \in Seq(Nat) /\ b \in Seq(Nat)
    BY <1>3, <1>4, WiderSeq
  <1>6. /\ RowsOf(a \o b) = RowsOf(a) \cup RowsOf(b)
        /\ RowsOnce(a \o b) <=> RowsOnce(a) /\ RowsOnce(b) /\ RowsOf(a) \cap RowsOf(b) = {}
        /\ RowsAscend(a \o b) <=>
              RowsAscend(a) /\ RowsAscend(b) /\ Before(RowsOf(a), RowsOf(b))
    BY <1>5, ConcatRows
  <1>7. ASSUME n = 0 PROVE a = s /\ b = <<>>
    <2>1. b = <<>>
      BY <1>3, <1>7
    <2>2. a \o <<>> = a
      BY <1>3
    <2>. QED
      BY <1>3, <2>1, <2>2
  <1>. QED
    BY <1>3, <1>6, <1>7 DEF a, b, m, K

(* Connection c of worker w keeps to the order, with nothing buffered by   *)
(* the worker's other connections.                                         *)
InOrder(w, c, rb, ch, se, bf, ch2, rt2, x2, y2, b2) ==
  /\ rt2 = <<>> /\ ChannelAscends(ch2) /\ InChannel(ch2) \subseteq InChannel(ch)
  /\ RowsAscend(x2) /\ Before(RowsOf(x2), InChannel(ch2) \cup RowsOf(rb))
  /\ RowsAscend(y2) /\ Before(RowsOf(y2), InChannel(ch2) \cup RowsOf(rb))
  /\ Before(RowsOf(y2), RowsOf(x2))
  /\ \A d \in Conns : d # c /\ WorkerOf[d] = w =>
       /\ bf[d] = 0
       /\ Before(RowsOf(se[d]), RowsOf(x2))
       /\ Before(RowsOf(se[d]), RowsOf(Newest(y2, b2)))

OrderFrom(c, x2, y2, b2, rb, ch, rt, cl, se, bf, ch2, rt2, cl2, se2, bf2) ==
  /\ y2 \in Seq(Rows \cup {Backfill}) /\ b2 \in Nat /\ b2 <= Len(y2)
  /\ cl \in [Workers -> Seq(Rows)] /\ se \in [Conns -> Seq(Rows \cup {Backfill})]
  /\ bf \in [Conns -> Nat]
  /\ Order(rb, ch, rt, cl, se, bf)
  /\ InOrder(WorkerOf[c], c, rb, ch, se, bf, ch2, rt2, x2, y2, b2)
  /\ cl2 = [cl EXCEPT ![WorkerOf[c]] = x2] /\ se2 = [se EXCEPT ![c] = y2]
  /\ bf2 = [bf EXCEPT ![c] = b2]

LEMMA OrderStep ==
  ASSUME NEW rb, NEW ch, NEW rt, NEW cl, NEW se, NEW bf,
         NEW ch2, NEW rt2, NEW cl2, NEW se2, NEW bf2,
         NEW c \in Conns, NEW x2, NEW y2, NEW b2,
         OrderFrom(c, x2, y2, b2, rb, ch, rt, cl, se, bf, ch2, rt2, cl2, se2, bf2)
  PROVE  Order(rb, ch2, rt2, cl2, se2, bf2)
  <1>00. /\ y2 \in Seq(Rows \cup {Backfill}) /\ b2 \in Nat /\ b2 <= Len(y2)
         /\ cl \in [Workers -> Seq(Rows)] /\ se \in [Conns -> Seq(Rows \cup {Backfill})]
         /\ bf \in [Conns -> Nat]
         /\ Order(rb, ch, rt, cl, se, bf)
         /\ InOrder(WorkerOf[c], c, rb, ch, se, bf, ch2, rt2, x2, y2, b2)
         /\ cl2 = [cl EXCEPT ![WorkerOf[c]] = x2] /\ se2 = [se EXCEPT ![c] = y2]
         /\ bf2 = [bf EXCEPT ![c] = b2]
    BY DEF OrderFrom
  <1>. USE <1>00
  <1>. DEFINE w == WorkerOf[c]
              Up == InChannel(ch) \cup RowsOf(rb)
              Up2 == InChannel(ch2) \cup RowsOf(rb)
  <1>0. w \in Workers /\ \A d \in Conns : WorkerOf[d] \in Workers
    BY TraceAssumption
  <1>1. /\ rt2 = <<>> /\ ChannelAscends(ch2) /\ InChannel(ch2) \subseteq InChannel(ch)
        /\ RowsAscend(x2) /\ Before(RowsOf(x2), Up2)
        /\ RowsAscend(y2) /\ Before(RowsOf(y2), Up2)
        /\ Before(RowsOf(y2), RowsOf(x2))
        /\ \A d \in Conns : d # c /\ WorkerOf[d] = w =>
             /\ bf[d] = 0
             /\ Before(RowsOf(se[d]), RowsOf(x2))
             /\ Before(RowsOf(se[d]), RowsOf(Newest(y2, b2)))
    BY DEF InOrder
  <1>2. /\ RowsAscend(rb) /\ Before(InChannel(ch), RowsOf(rb))
        /\ \A v \in Workers : RowsAscend(cl[v]) /\ Before(RowsOf(cl[v]), Up)
        /\ \A d \in Conns : /\ RowsAscend(se[d]) /\ Before(RowsOf(se[d]), Up)
                            /\ Before(RowsOf(se[d]), RowsOf(cl[WorkerOf[d]]))
        /\ \A e, d \in Conns : WorkerOf[e] = WorkerOf[d] =>
             Before(RowsOf(Flown(se[d], bf[d])), RowsOf(Newest(se[e], bf[e])))
    BY DEF Order
  <1>3. /\ cl2[w] = x2 /\ \A v \in Workers : v # w => cl2[v] = cl[v]
        /\ se2[c] = y2 /\ \A d \in Conns : d # c => se2[d] = se[d]
        /\ bf2[c] = b2 /\ \A d \in Conns : d # c => bf2[d] = bf[d]
    BY <1>0
  <1>4. Up2 \subseteq Up
    BY <1>1
  <1>5. Before(InChannel(ch2), RowsOf(rb))
    BY <1>1, <1>2 DEF Before
  <1>. HIDE DEF w, Up, Up2
  <1>6. \A v \in Workers : RowsAscend(cl2[v]) /\ Before(RowsOf(cl2[v]), Up2)
    <2>. TAKE v \in Workers
    <2>1. CASE v = w
      BY <1>1, <1>3, <2>1
    <2>2. CASE v # w
      <3>1. cl2[v] = cl[v] /\ RowsAscend(cl[v]) /\ Before(RowsOf(cl[v]), Up)
        BY <1>2, <1>3, <2>2
      <3>. QED
        BY <1>4, <3>1 DEF Before
    <2>. QED
      BY <2>1, <2>2
  <1>7. ASSUME NEW d \in Conns
        PROVE  /\ RowsAscend(se2[d]) /\ Before(RowsOf(se2[d]), Up2)
               /\ Before(RowsOf(se2[d]), RowsOf(cl2[WorkerOf[d]]))
    <2>1. CASE d = c
      BY <1>1, <1>3, <2>1 DEF w
    <2>2. CASE d # c /\ WorkerOf[d] = w
      <3>1. RowsAscend(se[d]) /\ Before(RowsOf(se[d]), Up) /\ se2[d] = se[d]
        BY <1>2, <1>3, <2>2
      <3>2. Before(RowsOf(se[d]), Up2)
        BY <1>4, <3>1 DEF Before
      <3>3. Before(RowsOf(se[d]), RowsOf(cl2[WorkerOf[d]]))
        BY <1>1, <1>3, <2>2
      <3>. QED
        BY <3>1, <3>2, <3>3
    <2>3. CASE d # c /\ WorkerOf[d] # w
      <3>1. /\ RowsAscend(se[d]) /\ Before(RowsOf(se[d]), Up) /\ se2[d] = se[d]
            /\ cl2[WorkerOf[d]] = cl[WorkerOf[d]]
        BY <1>0, <1>2, <1>3, <2>3
      <3>2. Before(RowsOf(se[d]), Up2)
        BY <1>4, <3>1 DEF Before
      <3>. QED
        BY <1>2, <3>1, <3>2
    <2>. QED
      BY <2>1, <2>2, <2>3
  <1>8. ASSUME NEW e \in Conns, NEW d \in Conns, WorkerOf[e] = WorkerOf[d]
        PROVE  Before(RowsOf(Flown(se2[d], bf2[d])), RowsOf(Newest(se2[e], bf2[e])))
    <2>1. CASE e = c /\ d = c
      <3>1. Before(RowsOf(Flown(y2, b2)), RowsOf(Newest(y2, b2)))
        BY <1>1, FlownFacts
      <3>. QED
        BY <1>3, <2>1, <3>1
    <2>2. CASE e = c /\ d # c
      <3>1. /\ bf[d] = 0 /\ Before(RowsOf(se[d]), RowsOf(Newest(y2, b2)))
            /\ se2[d] = se[d] /\ bf2[d] = bf[d]
        BY <1>1, <1>3, <1>8, <2>2 DEF w
      <3>2. Flown(se[d], 0) = se[d]
        <4>1. se[d] \in Seq(Rows \cup {Backfill}) /\ 0 \in Nat /\ 0 <= Len(se[d])
          OBVIOUS
        <4>. QED
          BY <4>1, FlownFacts
      <3>. QED
        BY <1>3, <2>2, <3>1, <3>2
    <2>3. CASE e # c /\ d = c
      <3>1. bf[e] = 0 /\ se2[e] = se[e] /\ bf2[e] = bf[e]
        BY <1>1, <1>3, <1>8, <2>3 DEF w
      <3>2. Newest(se[e], 0) = <<>>
        <4>1. se[e] \in Seq(Rows \cup {Backfill}) /\ 0 \in Nat /\ 0 <= Len(se[e])
          OBVIOUS
        <4>. QED
          BY <4>1, FlownFacts
      <3>3. RowsOf(Newest(se2[e], bf2[e])) = {}
        BY <3>1, <3>2, NoRows
      <3>. QED
        BY <3>3 DEF Before
    <2>4. CASE e # c /\ d # c
      BY <1>2, <1>3, <1>8, <2>4
    <2>. QED
      BY <2>1, <2>2, <2>3, <2>4
  <1>. QED
    BY <1>1, <1>2, <1>5, <1>6, <1>7, <1>8 DEF Order, Up2

ConnEffect(c, x2, y2, b2, t2, p2) ==
  /\ claimed' = [claimed EXCEPT ![WorkerOf[c]] = x2] /\ sent' = [sent EXCEPT ![c] = y2]
  /\ buf' = [buf EXCEPT ![c] = b2]
  /\ task' = [task EXCEPT ![WorkerOf[c]] = t2] /\ cpc' = [cpc EXCEPT ![c] = p2]
  /\ UNCHANGED <<readerVars, runnerVars>>

(* What is left to show of a connection's step that has this effect.       *)
ConnShown(c, x2, y2, b2, t2, p2) ==
  /\ Rowly(chan, returned, answered, abandoned, claimed[WorkerOf[c]], sent[c],
           chan', returned', answered', abandoned', x2, y2, b2)
  /\ TaskGoes(WorkerOf[c], c, x2, y2, b2, task[WorkerOf[c]], t2, p2)
  /\ Len(chan') <= ReadAhead /\ disorder' \in BOOLEAN
  /\ backfill' \in [Conns -> 0 .. BackfillCap]
  /\ answered \cup abandoned \subseteq answered' \cup abandoned'
  /\ done' = done + Cardinality((answered' \cup abandoned') \ (answered \cup abandoned))
  /\ WireGoes(sent[c], buf[c], y2, b2, wired, answered, abandoned, wired', answered', abandoned')
  /\ Tries(attempts', abandoned')
  /\ ~disorder' => ~disorder /\ InOrder(WorkerOf[c], c, rbatch, chan, sent, buf,
                                        chan', returned', x2, y2, b2)

LEMMA RowsFinite == IsFiniteSet(Rows) /\ Rows \subseteq Nat
  <1>0. NRows \in Nat /\ NRows \in Int /\ 1 \in Int
    BY TraceAssumption
  <1>1. IsFiniteSet(1 .. NRows)
    BY <1>0, FS_Interval
  <1>2. 1 .. NRows \subseteq Nat
    BY <1>0
  <1>. QED
    BY <1>1, <1>2 DEF Rows

LEMMA ConnKeeps ==
  ASSUME ReplayInv, NEW c \in Conns, NEW x2, NEW y2, NEW b2, NEW t2, NEW p2,
         ConnEffect(c, x2, y2, b2, t2, p2), ConnShown(c, x2, y2, b2, t2, p2)
  PROVE  StepKeeps
  <1>. DEFINE w == WorkerOf[c]
              ch2 == chan'
              rt2 == returned'
              an2 == answered'
              ab2 == abandoned'
              cl2 == claimed'
              se2 == sent'
              bf2 == buf'
              ta2 == task'
              cp2 == cpc'
  <1>0. w \in Workers
    BY TraceAssumption
  <1>1. /\ ListTypes(rbatch, chan, returned, answered, abandoned, claimed, sent, buf)
        /\ Books(rbatch, chan, returned, answered, abandoned, claimed, sent)
        /\ Once(rbatch, chan, returned, claimed, sent)
    BY DEF ReplayInv
  <1>2. /\ cl2 = [claimed EXCEPT ![w] = x2] /\ se2 = [sent EXCEPT ![c] = y2]
        /\ bf2 = [buf EXCEPT ![c] = b2] /\ ta2 = [task EXCEPT ![w] = t2]
        /\ cp2 = [cpc EXCEPT ![c] = p2]
    BY DEF ConnEffect
  <1>3. Rowly(chan, returned, answered, abandoned, claimed[w], sent[c],
              ch2, rt2, an2, ab2, x2, y2, b2)
    BY DEF ConnShown
  <1>4. /\ ListTypes(rbatch, ch2, rt2, an2, ab2, cl2, se2, bf2)
        /\ Books(rbatch, ch2, rt2, an2, ab2, cl2, se2)
        /\ Once(rbatch, ch2, rt2, cl2, se2)
        /\ Taken(rbatch, ch2, rt2, an2, ab2, cl2, se2) = TakenUp
    <2>. HIDE DEF w, ch2, rt2, an2, ab2, cl2, se2, bf2
    <2>1. /\ ListTypes(rbatch, ch2, rt2, an2, ab2, cl2, se2, bf2)
          /\ Books(rbatch, ch2, rt2, an2, ab2, cl2, se2)
          /\ Once(rbatch, ch2, rt2, cl2, se2)
          /\ Taken(rbatch, ch2, rt2, an2, ab2, cl2, se2)
               = Taken(rbatch, chan, returned, answered, abandoned, claimed, sent)
      <3>1. RowlyFrom(w, c, x2, y2, b2, rbatch, chan, returned, answered, abandoned, claimed,
                      sent, buf, ch2, rt2, an2, ab2, cl2, se2, bf2)
        BY <1>1, <1>2, <1>3 DEF RowlyFrom
      <3>. QED
        BY <1>0, <3>1, RowlyStep
    <2>. QED
      BY <2>1 DEF TakenUp
  <1>5. Tasks(ta2, cp2, cl2, se2, bf2)
    <2>1. /\ Tasks(task, cpc, claimed, sent, buf)
          /\ TaskGoes(WorkerOf[c], c, x2, y2, b2, task[WorkerOf[c]], t2, p2)
      BY DEF ReplayInv, ConnShown
    <2>2. /\ claimed \in [Workers -> Seq(Rows)] /\ sent \in [Conns -> Seq(Rows \cup {Backfill})]
          /\ buf \in [Conns -> Nat]
      BY <1>1 DEF ListTypes
    <2>3. /\ cl2 = [claimed EXCEPT ![WorkerOf[c]] = x2] /\ se2 = [sent EXCEPT ![c] = y2]
          /\ bf2 = [buf EXCEPT ![c] = b2] /\ ta2 = [task EXCEPT ![WorkerOf[c]] = t2]
          /\ cp2 = [cpc EXCEPT ![c] = p2]
      BY <1>2
    <2>4. TasksFrom(c, x2, y2, b2, t2, p2, task, cpc, claimed, sent, buf, ta2, cp2, cl2, se2, bf2)
      BY <2>1, <2>2, <2>3 DEF TasksFrom
    <2>. HIDE DEF cl2, se2, bf2, ta2, cp2
    <2>. QED
      BY <2>4, TasksStep
  <1>. DEFINE K == TakenUp
              D == answered \cup abandoned
              D2 == an2 \cup ab2
              dn2 == done'
              R == RowsOf(rbatch)
  <1>6. IsFiniteSet(K) /\ D2 \subseteq K
    <2>1. K \subseteq Rows
      BY DEF TakenUp, Taken, All
    <2>2. D2 \subseteq Taken(rbatch, ch2, rt2, an2, ab2, cl2, se2)
      <3>1. an2 \subseteq Rows /\ ab2 \subseteq Rows
        BY <1>4 DEF ListTypes
      <3>. HIDE DEF ch2, rt2, an2, ab2, cl2, se2
      <3>. QED
        BY <3>1 DEF Taken, All, Union4
    <2>. QED
      BY <1>4, <2>1, <2>2, RowsFinite, FS_Subset
  <1>7. /\ D \subseteq D2 /\ dn2 = done + Cardinality(D2 \ D)
    BY DEF ConnShown
  <1>8. /\ Counts(K, D, R, next, rd, done, counted)
        /\ Watched(K, D, rd, done, watch, seenDone, finished)
        /\ seenDone \in Nat
    BY DEF ReplayInv, RunTypes
  <1>9. /\ Counts(K, D2, R, next, rd, dn2, counted)
        /\ Watched(K, D2, rd, dn2, watch, seenDone, finished)
    <2>. HIDE DEF K, D, D2, R, dn2
    <2>. QED
      BY <1>6, <1>7, <1>8, SettledStep
  <1>10. /\ next' = next /\ rbatch' = rbatch /\ eof' = eof /\ err' = err /\ rd' = rd
         /\ counted' = counted /\ phase' = phase /\ watch' = watch /\ seenDone' = seenDone
         /\ finished' = finished
    BY DEF ConnEffect, readerVars, runnerVars
  <1>11. RunTypes'
    BY <1>10 DEF ReplayInv, RunTypes
  <1>12. TakenUp' = Taken(rbatch', chan', returned', answered', abandoned', claimed', sent')
    BY DEF TakenUp
  <1>13. TakenUp' = K
    BY <1>4, <1>10, <1>12
  <1>14. /\ ListTypes(rbatch', chan', returned', answered', abandoned', claimed', sent', buf')
         /\ Books(rbatch', chan', returned', answered', abandoned', claimed', sent')
         /\ Once(rbatch', chan', returned', claimed', sent')
    BY <1>4, <1>10
  <1>15. /\ Counts(TakenUp', answered' \cup abandoned', RowsOf(rbatch'), next', rd', done', counted')
         /\ Watched(TakenUp', answered' \cup abandoned', rd', done', watch', seenDone', finished')
    BY <1>9, <1>10, <1>13
  <1>160. /\ claimed \in [Workers -> Seq(Rows)] /\ sent \in [Conns -> Seq(Rows \cup {Backfill})]
          /\ buf \in [Conns -> Nat]
    BY <1>1 DEF ListTypes
  <1>161. OnWire(wired', answered', abandoned', sent', buf')
    <2>. DEFINE wi2 == wired'
    <2>1. OnWire(wired, answered, abandoned, sent, buf)
      BY DEF ReplayInv
    <2>2. WireGoes(sent[c], buf[c], y2, b2, wired, answered, abandoned, wi2, an2, ab2)
      BY DEF ConnShown
    <2>3. WireFrom(c, y2, b2, wired, answered, abandoned, sent, buf, wi2, an2, ab2, se2, bf2)
      BY <1>2, <1>160, <2>1, <2>2 DEF WireFrom
    <2>4. OnWire(wi2, an2, ab2, se2, bf2)
      <3>. HIDE DEF wi2, an2, ab2, se2, bf2
      <3>. QED
        BY <2>3, WireStep
    <2>. QED
      BY <2>4
  <1>162. ASSUME ~disorder'
          PROVE  Order(rbatch', chan', returned', claimed', sent', buf')
    <2>1. /\ Order(rbatch, chan, returned, claimed, sent, buf)
          /\ InOrder(WorkerOf[c], c, rbatch, chan, sent, buf, ch2, rt2, x2, y2, b2)
      BY <1>162 DEF ReplayInv, ConnShown
    <2>2. y2 \in Seq(Rows \cup {Backfill}) /\ b2 \in Nat /\ b2 <= Len(y2)
      BY <1>3 DEF Rowly
    <2>3. OrderFrom(c, x2, y2, b2, rbatch, chan, returned, claimed, sent, buf,
                    ch2, rt2, cl2, se2, bf2)
      BY <1>2, <1>160, <2>1, <2>2 DEF OrderFrom
    <2>4. Order(rbatch, ch2, rt2, cl2, se2, bf2)
      <3>. HIDE DEF ch2, rt2, cl2, se2, bf2
      <3>. QED
        BY <2>3, OrderStep
    <2>. QED
      BY <1>10, <2>4
  <1>16. /\ Len(chan') <= ReadAhead /\ disorder' \in BOOLEAN
         /\ backfill' \in [Conns -> 0 .. BackfillCap]
         /\ OnWire(wired', answered', abandoned', sent', buf')
         /\ Tries(attempts', abandoned')
         /\ ~disorder' => Order(rbatch', chan', returned', claimed', sent', buf')
    BY <1>161, <1>162 DEF ConnShown
  <1>17. Tasks(task', cpc', claimed', sent', buf')
    BY <1>5
  <1>. HIDE DEF K
  <1>18. ReplayInv'
    BY <1>11, <1>14, <1>15, <1>16, <1>17 DEF ReplayInv
  <1>. QED
    BY <1>13, <1>18 DEF StepKeeps, K

(* What holds of connection c of worker w, which has x claimed, and y sent *)
(* with the newest b buffered, when w polls it or polls nothing.           *)
RowsNow(x, y, b) ==
  /\ x \in Seq(Rows) /\ y \in Seq(Rows \cup {Backfill})
  /\ b \in Nat /\ b <= Len(y) /\ Len(y) <= Depth
  /\ chan \in Seq(Seq(Rows)) /\ returned \in Seq(Rows)
  /\ answered \subseteq Rows /\ abandoned \subseteq Rows
  /\ ChannelOnce(chan) /\ RowsOnce(returned) /\ RowsOnce(x) /\ RowsOnce(y)
  /\ Apart4(InChannel(chan), RowsOf(returned), answered, abandoned)
  /\ RowsOf(x) \cap Union4(InChannel(chan), RowsOf(returned), answered, abandoned) = {}
  /\ RowsOf(y) \cap Union4(InChannel(chan), RowsOf(returned), answered, abandoned) = {}
  /\ RowsOf(x) \cap RowsOf(y) = {}

OrderNow(w, c, x, y, b) ==
  /\ returned = <<>> /\ ChannelAscends(chan)
  /\ RowsAscend(x) /\ Before(RowsOf(x), InChannel(chan) \cup RowsOf(rbatch))
  /\ RowsAscend(y) /\ Before(RowsOf(y), InChannel(chan) \cup RowsOf(rbatch))
  /\ Before(RowsOf(y), RowsOf(x))
  /\ \A d \in Conns : d # c /\ WorkerOf[d] = w =>
       /\ buf[d] = 0
       /\ Before(RowsOf(sent[d]), InChannel(chan) \cup RowsOf(rbatch))
       /\ Before(RowsOf(sent[d]), RowsOf(x))
       /\ Before(RowsOf(sent[d]), RowsOf(Newest(y, b)))

ConnNow(w, c, x, y, b) ==
  /\ ReplayInv
  /\ c \in Conns /\ w \in Workers /\ w = WorkerOf[c]
  /\ x = claimed[w] /\ y = sent[c] /\ b = buf[c]
  /\ RowsNow(x, y, b)
  /\ task[w] \in TaskType /\ task[w].conn \in {c, "none"}
  /\ b > 0 => task[w].conn = c /\ task[w].at \in {"fill", "claim", "flush"}
  /\ cpc[c] = "recv" => y # <<>>
  /\ ~disorder => OrderNow(w, c, x, y, b)

LEMMA ConnFacts ==
  ASSUME ReplayInv, NEW c \in Conns, task[WorkerOf[c]].conn \in {c, "none"}
  PROVE  ConnNow(WorkerOf[c], c, claimed[WorkerOf[c]], sent[c], buf[c])
  <1>. DEFINE w == WorkerOf[c]
              x == claimed[w]
              y == sent[c]
              b == buf[c]
  <1>0. w \in Workers /\ "none" \notin Conns /\ \A d \in Conns : WorkerOf[d] \in Workers
    BY TraceAssumption
  <1>1. ListTypes(rbatch, chan, returned, answered, abandoned, claimed, sent, buf)
    BY DEF ReplayInv
  <1>2. /\ x \in Seq(Rows) /\ y \in Seq(Rows \cup {Backfill})
        /\ b \in Nat /\ b <= Len(y) /\ Len(y) <= Depth
        /\ chan \in Seq(Seq(Rows)) /\ returned \in Seq(Rows)
        /\ answered \subseteq Rows /\ abandoned \subseteq Rows
        /\ sent \in [Conns -> Seq(Rows \cup {Backfill})] /\ buf \in [Conns -> Nat]
    BY <1>0, <1>1 DEF ListTypes
  <1>3. ChannelOnce(chan) /\ RowsOnce(returned) /\ RowsOnce(x) /\ RowsOnce(y)
    BY <1>0 DEF ReplayInv, Once
  <1>4. /\ Apart4(InChannel(chan), RowsOf(returned), answered, abandoned)
        /\ RowsOf(x) \cap Union4(InChannel(chan), RowsOf(returned), answered, abandoned) = {}
        /\ RowsOf(y) \cap Union4(InChannel(chan), RowsOf(returned), answered, abandoned) = {}
        /\ RowsOf(x) \cap RowsOf(y) = {}
    <2>. DEFINE L == HeldBy(claimed, Workers)
                S == HeldBy(sent, Conns)
    <2>1. L[w] = RowsOf(x) /\ S[c] = RowsOf(y)
      BY <1>0 DEF HeldBy
    <2>2. Apart(RowsOf(rbatch), InChannel(chan), RowsOf(returned), answered, abandoned, L, S)
      BY DEF ReplayInv, Books
    <2>. HIDE DEF L, S, w, x, y
    <2>. QED
      BY <1>0, <2>1, <2>2 DEF Apart
  <1>5. RowsNow(x, y, b)
    BY <1>2, <1>3, <1>4 DEF RowsNow
  <1>6. /\ task[w] \in TaskType /\ (cpc[c] = "recv" => y # <<>>)
        /\ \A d \in Conns : buf[d] > 0 => /\ task[WorkerOf[d]].conn = d
                                         /\ task[WorkerOf[d]].at \in {"fill", "claim", "flush"}
    BY <1>0 DEF ReplayInv, Tasks
  <1>7. ASSUME ~disorder
        PROVE  OrderNow(w, c, x, y, b)
    <2>1. Order(rbatch, chan, returned, claimed, sent, buf)
      BY <1>7 DEF ReplayInv
    <2>2. /\ returned = <<>> /\ ChannelAscends(chan)
          /\ RowsAscend(x) /\ Before(RowsOf(x), InChannel(chan) \cup RowsOf(rbatch))
          /\ RowsAscend(y) /\ Before(RowsOf(y), InChannel(chan) \cup RowsOf(rbatch))
          /\ Before(RowsOf(y), RowsOf(x))
      BY <1>0, <2>1 DEF Order
    <2>3. ASSUME NEW d \in Conns, d # c, WorkerOf[d] = w
          PROVE  /\ buf[d] = 0
                 /\ Before(RowsOf(sent[d]), InChannel(chan) \cup RowsOf(rbatch))
                 /\ Before(RowsOf(sent[d]), RowsOf(x))
                 /\ Before(RowsOf(sent[d]), RowsOf(Newest(y, b)))
      <3>1. buf[d] = 0
        <4>1. ~(buf[d] > 0)
          BY <1>0, <1>6, <2>3
        <4>2. buf[d] \in Nat
          BY <1>2
        <4>. QED
          BY <4>1, <4>2
      <3>2. /\ Before(RowsOf(sent[d]), InChannel(chan) \cup RowsOf(rbatch))
            /\ Before(RowsOf(sent[d]), RowsOf(claimed[WorkerOf[d]]))
            /\ Before(RowsOf(Flown(sent[d], buf[d])), RowsOf(Newest(sent[c], buf[c])))
        BY <2>1, <2>3 DEF Order
      <3>3. Flown(sent[d], 0) = sent[d]
        <4>1. sent[d] \in Seq(Rows \cup {Backfill}) /\ 0 \in Nat /\ 0 <= Len(sent[d])
          BY <1>2
        <4>. QED
          BY <4>1, FlownFacts
      <3>. QED
        BY <2>3, <3>1, <3>2, <3>3
    <2>. QED
      BY <2>2, <2>3 DEF OrderNow
  <1>8. b > 0 => task[w].conn = c /\ task[w].at \in {"fill", "claim", "flush"}
    BY <1>6
  <1>. QED
    BY <1>0, <1>5, <1>6, <1>7, <1>8 DEF ConnNow

(* A step that moves no row.                                               *)
LEMMA NeutralKeeps ==
  ASSUME NEW w, NEW c, NEW x, NEW y, NEW b, NEW t2, NEW p2, ConnNow(w, c, x, y, b),
         task' = [task EXCEPT ![w] = t2], cpc' = [cpc EXCEPT ![c] = p2],
         UNCHANGED <<taskOnly, chan, returned, claimed, connVars, rowVars, disorder>>,
         TaskGoes(w, c, x, y, b, task[w], t2, p2)
  PROVE  StepKeeps
  <1>0. /\ ReplayInv /\ c \in Conns /\ w = WorkerOf[c] /\ w \in Workers
        /\ x = claimed[w] /\ y = sent[c] /\ b = buf[c] /\ RowsNow(x, y, b)
    BY DEF ConnNow
  <1>1. /\ chan' = chan /\ returned' = returned /\ claimed' = claimed /\ disorder' = disorder
        /\ sent' = sent /\ buf' = buf /\ backfill' = backfill /\ attempts' = attempts
        /\ wired' = wired /\ answered' = answered /\ abandoned' = abandoned /\ done' = done
        /\ UNCHANGED <<readerVars, runnerVars>>
    BY DEF taskOnly, connVars, rowVars
  <1>2. /\ claimed \in [Workers -> Seq(Rows)] /\ sent \in [Conns -> Seq(Rows \cup {Backfill})]
        /\ buf \in [Conns -> Nat]
    BY <1>0 DEF ReplayInv, ListTypes
  <1>3. ConnEffect(c, x, y, b, t2, p2)
    BY <1>0, <1>1, <1>2 DEF ConnEffect
  <1>4. Rowly(chan, returned, answered, abandoned, claimed[WorkerOf[c]], sent[c],
              chan', returned', answered', abandoned', x, y, b)
    BY <1>0, <1>1 DEF Rowly, RowsNow
  <1>5. WireGoes(sent[c], buf[c], y, b, wired, answered, abandoned, wired', answered', abandoned')
    BY <1>0, <1>1 DEF WireGoes, ReplayInv, OnWire
  <1>6. ASSUME ~disorder'
        PROVE  ~disorder /\ InOrder(WorkerOf[c], c, rbatch, chan, sent, buf,
                                    chan', returned', x, y, b)
    <2>1. OrderNow(w, c, x, y, b)
      BY <1>1, <1>6 DEF ConnNow
    <2>. QED
      BY <1>0, <1>1, <1>6, <2>1 DEF OrderNow, InOrder
  <1>7. done' = done + Cardinality((answered' \cup abandoned') \ (answered \cup abandoned))
    <2>1. (answered' \cup abandoned') \ (answered \cup abandoned) = {}
      BY <1>1
    <2>2. done \in Nat
      <3>1. done = Cardinality(answered \cup abandoned)
        BY <1>0 DEF ReplayInv, Counts
      <3>2. IsFiniteSet(answered \cup abandoned)
        <4>1. answered \cup abandoned \subseteq Rows
          BY <1>0 DEF RowsNow
        <4>. QED
          BY <4>1, RowsFinite, FS_Subset
      <3>. QED
        BY <3>1, <3>2, FS_CardinalityType
    <2>3. Cardinality({}) = 0
      BY FS_EmptySet
    <2>. QED
      BY <1>1, <2>1, <2>2, <2>3
  <1>8. /\ Len(chan') <= ReadAhead /\ disorder' \in BOOLEAN
        /\ backfill' \in [Conns -> 0 .. BackfillCap] /\ Tries(attempts', abandoned')
        /\ answered \cup abandoned \subseteq answered' \cup abandoned'
    BY <1>0, <1>1 DEF ReplayInv
  <1>9. ConnShown(c, x, y, b, t2, p2)
    BY <1>0, <1>4, <1>5, <1>6, <1>7, <1>8 DEF ConnShown
  <1>. QED
    BY <1>0, <1>3, <1>9, ConnKeeps

LEMMA DoneFacts ==
  ASSUME ReplayInv
  PROVE  /\ done \in Nat /\ IsFiniteSet(answered \cup abandoned)
         /\ done = done + Cardinality((answered \cup abandoned) \ (answered \cup abandoned))
  <1>1. done = Cardinality(answered \cup abandoned)
    BY DEF ReplayInv, Counts
  <1>2. answered \cup abandoned \subseteq Rows
    BY DEF ReplayInv, ListTypes
  <1>3. IsFiniteSet(answered \cup abandoned)
    BY <1>2, RowsFinite, FS_Subset
  <1>4. done \in Nat
    BY <1>1, <1>3, FS_CardinalityType
  <1>5. (answered \cup abandoned) \ (answered \cup abandoned) = {} /\ Cardinality({}) = 0
    BY FS_EmptySet
  <1>. QED
    BY <1>3, <1>4, <1>5

(* A step that moves rows and settles none.                                *)
Unsettled(w, c, x, y, b, x2, y2, b2, t2, p2) ==
  /\ ConnNow(w, c, x, y, b) /\ ConnEffect(c, x2, y2, b2, t2, p2)
  /\ answered' = answered /\ abandoned' = abandoned /\ done' = done /\ attempts' = attempts
  /\ disorder' = disorder /\ backfill' \in [Conns -> 0 .. BackfillCap]
  /\ Len(chan') <= ReadAhead
  /\ Rowly(chan, returned, answered, abandoned, x, y,
           chan', returned', answered, abandoned, x2, y2, b2)
  /\ TaskGoes(w, c, x2, y2, b2, task[w], t2, p2)
  /\ WireGoes(y, b, y2, b2, wired, answered, abandoned, wired', answered, abandoned)
  /\ ~disorder => InOrder(w, c, rbatch, chan, sent, buf, chan', returned', x2, y2, b2)

LEMMA UnsettledKeeps ==
  ASSUME NEW w, NEW c, NEW x, NEW y, NEW b, NEW x2, NEW y2, NEW b2, NEW t2, NEW p2,
         Unsettled(w, c, x, y, b, x2, y2, b2, t2, p2)
  PROVE  StepKeeps
  <1>00. /\ ConnNow(w, c, x, y, b) /\ ConnEffect(c, x2, y2, b2, t2, p2)
         /\ answered' = answered /\ abandoned' = abandoned /\ done' = done /\ attempts' = attempts
         /\ disorder' = disorder /\ backfill' \in [Conns -> 0 .. BackfillCap]
         /\ Len(chan') <= ReadAhead
         /\ Rowly(chan, returned, answered, abandoned, x, y,
                  chan', returned', answered, abandoned, x2, y2, b2)
         /\ TaskGoes(w, c, x2, y2, b2, task[w], t2, p2)
         /\ WireGoes(y, b, y2, b2, wired, answered, abandoned, wired', answered, abandoned)
         /\ ~disorder => InOrder(w, c, rbatch, chan, sent, buf, chan', returned', x2, y2, b2)
    BY DEF Unsettled
  <1>. USE <1>00
  <1>0. /\ ReplayInv /\ c \in Conns /\ w = WorkerOf[c]
        /\ x = claimed[w] /\ y = sent[c] /\ b = buf[c]
    BY DEF ConnNow
  <1>1. done' = done + Cardinality((answered' \cup abandoned') \ (answered \cup abandoned))
    BY <1>0, DoneFacts
  <1>2. disorder' \in BOOLEAN /\ Tries(attempts', abandoned')
    BY <1>0 DEF ReplayInv
  <1>3. /\ Rowly(chan, returned, answered, abandoned, claimed[WorkerOf[c]], sent[c],
                 chan', returned', answered', abandoned', x2, y2, b2)
        /\ TaskGoes(WorkerOf[c], c, x2, y2, b2, task[WorkerOf[c]], t2, p2)
        /\ WireGoes(sent[c], buf[c], y2, b2, wired, answered, abandoned,
                    wired', answered', abandoned')
        /\ ~disorder' => ~disorder /\ InOrder(WorkerOf[c], c, rbatch, chan, sent, buf,
                                              chan', returned', x2, y2, b2)
    BY <1>0
  <1>4. ConnShown(c, x2, y2, b2, t2, p2)
    BY <1>1, <1>2, <1>3 DEF ConnShown
  <1>. QED
    BY <1>0, <1>4, ConnKeeps

(* A task that names connection c of worker w.                             *)
LEMMA AtFacts ==
  ASSUME ReplayInv, NEW c \in Conns
  PROVE  /\ WorkerOf[c] \in Workers /\ c # "none" /\ task \in [Workers -> TaskType]
         /\ cpc \in [Conns -> {"down", "idle", "recv", "exited"}]
         /\ task[WorkerOf[c]] = Free => task[WorkerOf[c]].conn \in {c, "none"}
         /\ \A at : At(WorkerOf[c], c, at) =>
              /\ task[WorkerOf[c]].conn = c /\ task[WorkerOf[c]].at = at
              /\ task[WorkerOf[c]].conn \in {c, "none"} /\ cpc[c] = "idle"
  <1>1. WorkerOf[c] \in Workers /\ c # "none"
    BY TraceAssumption
  <1>2. /\ task \in [Workers -> TaskType] /\ cpc \in [Conns -> {"down", "idle", "recv", "exited"}]
        /\ task[WorkerOf[c]].conn = c => cpc[c] = "idle"
    BY DEF ReplayInv, Tasks
  <1>3. Free.conn = "none"
    BY DEF Free
  <1>. QED
    BY <1>1, <1>2, <1>3 DEF At

(* Moves of the task alone.                                                *)
LEMMA TaskValues ==
  ASSUME NEW c \in Conns, NEW at \in {"top", "fill", "claim", "flush"}, NEW n \in 0 .. Batch
  PROVE  /\ [at |-> at, conn |-> c, budget |-> n] \in TaskType
         /\ Free \in TaskType
  BY TraceAssumption DEF TaskType, Free

LEMMA TaskSteps ==
  ASSUME NEW w \in Workers, task \in [Workers -> TaskType]
  PROVE  /\ \A at : GoTo(w, at) => task' = [task EXCEPT ![w] =
                      [at |-> at, conn |-> task[w].conn, budget |-> task[w].budget]]
         /\ [task EXCEPT ![w].budget = @ - 1] = [task EXCEPT ![w] =
                      [at |-> task[w].at, conn |-> task[w].conn, budget |-> task[w].budget - 1]]
  <1>1. task[w] \in TaskType
    OBVIOUS
  <1>2. /\ task[w] = [at |-> task[w].at, conn |-> task[w].conn, budget |-> task[w].budget]
        /\ DOMAIN task = Workers
    BY <1>1 DEF TaskType
  <1>3. \A at : [task[w] EXCEPT !.at = at]
                  = [at |-> at, conn |-> task[w].conn, budget |-> task[w].budget]
    BY <1>1, <1>2 DEF TaskType
  <1>5. [task[w] EXCEPT !.budget = task[w].budget - 1]
                  = [at |-> task[w].at, conn |-> task[w].conn, budget |-> task[w].budget - 1]
    BY <1>1, <1>2 DEF TaskType
  <1>6. \A at : GoTo(w, at) => task' = [task EXCEPT ![w] =
                      [at |-> at, conn |-> task[w].conn, budget |-> task[w].budget]]
    BY <1>3 DEF GoTo
  <1>8. [task EXCEPT ![w].budget = @ - 1] = [task EXCEPT ![w] =
                      [at |-> task[w].at, conn |-> task[w].conn, budget |-> task[w].budget - 1]]
    BY <1>5
  <1>. QED
    BY <1>6, <1>8

LEMMA WakeKeeps ==
  ASSUME ReplayInv, NEW c \in Conns, Wake(c)
  PROVE  StepKeeps
  <1>. DEFINE w == WorkerOf[c]
              t2 == [at |-> "top", conn |-> c, budget |-> 0]
  <1>1. /\ task[w] = Free /\ cpc[c] = "idle" /\ task' = [task EXCEPT ![w] = t2] /\ cpc' = cpc
        /\ UNCHANGED <<taskOnly, chan, returned, claimed, connVars, rowVars, disorder>>
    BY DEF Wake
  <1>2. ConnNow(w, c, claimed[w], sent[c], buf[c])
    BY <1>1, AtFacts, ConnFacts
  <1>3. cpc' = [cpc EXCEPT ![c] = "idle"]
    BY <1>1, AtFacts
  <1>4. 0 \in 0 .. Batch
    BY TraceAssumption
  <1>5. TaskGoes(w, c, claimed[w], sent[c], buf[c], task[w], t2, "idle")
    <2>1. t2 \in TaskType
      BY <1>4, TaskValues
    <2>2. task[w].conn \in {c, "none"} /\ ~(buf[c] > 0)
      BY <1>1, <1>2, AtFacts DEF ConnNow, Free
    <2>. QED
      BY <2>1, <2>2 DEF TaskGoes
  <1>. HIDE DEF w, t2
  <1>. QED
    BY <1>1, <1>2, <1>3, <1>5, NeutralKeeps

LEMMA TopKeeps ==
  ASSUME ReplayInv, NEW c \in Conns, Top(WorkerOf[c], c)
  PROVE  StepKeeps
  <1>. DEFINE w == WorkerOf[c]
  <1>1. /\ At(w, c, "top") /\ cpc' = cpc
        /\ UNCHANGED <<taskOnly, chan, returned, claimed, connVars, rowVars, disorder>>
    BY DEF Top
  <1>2. PICK n \in 0 .. Batch : task' = [task EXCEPT ![w] =
                                  [at |-> "fill", conn |-> c, budget |-> n]]
    BY DEF Top
  <1>. DEFINE t2 == [at |-> "fill", conn |-> c, budget |-> n]
  <1>3. task[w].conn \in {c, "none"} /\ cpc[c] = "idle"
    BY <1>1, AtFacts
  <1>4. ConnNow(w, c, claimed[w], sent[c], buf[c])
    BY <1>3, ConnFacts
  <1>5. cpc' = [cpc EXCEPT ![c] = "idle"]
    BY <1>1, <1>3, AtFacts
  <1>6. TaskGoes(w, c, claimed[w], sent[c], buf[c], task[w], t2, "idle")
    <2>1. t2 \in TaskType
      BY <1>2, TaskValues
    <2>. QED
      BY <1>3, <2>1 DEF TaskGoes
  <1>7. task' = [task EXCEPT ![w] = t2]
    BY <1>2
  <1>. HIDE DEF w, t2
  <1>. QED
    BY <1>1, <1>4, <1>5, <1>6, <1>7, NeutralKeeps

(* The task goes on at another place of its iteration.                     *)
LEMMA GoToKeeps ==
  ASSUME ReplayInv, NEW c \in Conns, NEW at, NEW at2 \in {"fill", "claim", "flush"},
         At(WorkerOf[c], c, at), GoTo(WorkerOf[c], at2),
         at2 = "claim" => claimed[WorkerOf[c]] = <<>>,
         UNCHANGED <<taskOnly, chan, returned, claimed, cpc, connVars, rowVars, disorder>>
  PROVE  StepKeeps
  <1>. DEFINE w == WorkerOf[c]
              t2 == [at |-> at2, conn |-> c, budget |-> task[w].budget]
  <1>1. /\ task[w].conn = c /\ task[w].conn \in {c, "none"} /\ cpc[c] = "idle" /\ w \in Workers
        /\ task \in [Workers -> TaskType]
    BY AtFacts
  <1>2. ConnNow(w, c, claimed[w], sent[c], buf[c])
    BY <1>1, ConnFacts
  <1>3. cpc' = [cpc EXCEPT ![c] = "idle"]
    BY <1>1, AtFacts
  <1>4. task' = [task EXCEPT ![w] = t2]
    BY <1>1, TaskSteps
  <1>5. TaskGoes(w, c, claimed[w], sent[c], buf[c], task[w], t2, "idle")
    <2>1. task[w].budget \in 0 .. Batch
      BY <1>1 DEF TaskType
    <2>2. t2 \in TaskType
      BY <2>1, TaskValues
    <2>. QED
      BY <1>1, <2>2 DEF TaskGoes
  <1>6. UNCHANGED <<taskOnly, chan, returned, claimed, connVars, rowVars, disorder>>
    OBVIOUS
  <1>. HIDE DEF w, t2
  <1>. QED
    BY <1>2, <1>3, <1>4, <1>5, <1>6, NeutralKeeps

LEMMA FillEndsKeeps ==
  ASSUME ReplayInv, NEW c \in Conns, FillEnds(WorkerOf[c], c)
  PROVE  StepKeeps
  <1>1. /\ At(WorkerOf[c], c, "fill") /\ GoTo(WorkerOf[c], "flush")
        /\ UNCHANGED <<taskOnly, chan, returned, claimed, cpc, connVars, rowVars, disorder>>
    BY DEF FillEnds
  <1>. QED
    BY <1>1, GoToKeeps

LEMMA ConnectKeeps ==
  ASSUME ReplayInv, NEW c \in Conns, Connect(c)
  PROVE  StepKeeps
  <1>. DEFINE w == WorkerOf[c]
  <1>1. /\ task[w] = Free /\ cpc' = [cpc EXCEPT ![c] = "idle"] /\ task' = task
        /\ UNCHANGED <<taskOnly, chan, returned, claimed, connVars, rowVars, disorder>>
    BY DEF Connect
  <1>2. ConnNow(w, c, claimed[w], sent[c], buf[c]) /\ task[w].conn \in {c, "none"}
    BY <1>1, AtFacts, ConnFacts
  <1>3. task' = [task EXCEPT ![w] = Free]
    BY <1>1, AtFacts
  <1>4. TaskGoes(w, c, claimed[w], sent[c], buf[c], task[w], Free, "idle")
    <2>1. Free \in TaskType
      BY <1>1, <1>2 DEF ConnNow
    <2>2. ~(buf[c] > 0)
      BY <1>1, <1>2, AtFacts DEF ConnNow, Free
    <2>. QED
      BY <1>2, <2>1, <2>2 DEF TaskGoes, Free
  <1>. HIDE DEF w
  <1>. QED
    BY <1>1, <1>2, <1>3, <1>4, NeutralKeeps

LEMMA ExitKeeps ==
  ASSUME ReplayInv, NEW c \in Conns, Exit(c)
  PROVE  StepKeeps
  <1>. DEFINE w == WorkerOf[c]
  <1>1. /\ At(w, c, "top") \/ task[w] = Free
        /\ cpc' = [cpc EXCEPT ![c] = "exited"] /\ task' = [task EXCEPT ![w] = Free]
        /\ UNCHANGED <<taskOnly, chan, returned, claimed, connVars, rowVars, disorder>>
    BY DEF Exit
  <1>2. task[w].conn \in {c, "none"} /\ task[w].at \in {"top", "free"}
    BY <1>1, AtFacts DEF Free
  <1>3. ConnNow(w, c, claimed[w], sent[c], buf[c])
    BY <1>2, ConnFacts
  <1>4. TaskGoes(w, c, claimed[w], sent[c], buf[c], task[w], Free, "exited")
    <2>1. Free \in TaskType
      BY TraceAssumption DEF Free, TaskType
    <2>2. ~(buf[c] > 0)
      BY <1>2, <1>3 DEF ConnNow
    <2>. QED
      BY <1>2, <2>1, <2>2 DEF TaskGoes, Free
  <1>. HIDE DEF w
  <1>. QED
    BY <1>1, <1>3, <1>4, NeutralKeeps

-----------------------------------------------------------------------------
(* Rows are claimed                                                        *)

LEMMA ClaimReturnedKeeps ==
  ASSUME ReplayInv, NEW c \in Conns, ClaimReturned(WorkerOf[c], c)
  PROVE  StepKeeps
  <1>. DEFINE w == WorkerOf[c]
  <1>1. /\ At(w, c, "fill") /\ claimed[w] = <<>>
        /\ UNCHANGED <<taskOnly, chan, cpc, connVars, rowVars, disorder>>
    BY DEF ClaimReturned, Filling, HasNext
  <1>2. CASE returned = <<>>
    <2>1. GoTo(w, "claim") /\ UNCHANGED <<claimed, returned>>
      BY <1>2 DEF ClaimReturned
    <2>2. UNCHANGED <<taskOnly, chan, returned, claimed, cpc, connVars, rowVars, disorder>>
      BY <1>1, <2>1
    <2>. QED
      BY <1>1, <2>1, <2>2, GoToKeeps
  <1>3. CASE returned # <<>>
    <2>. DEFINE n == Least(Len(returned), ClaimBatch)
                x2 == Oldest(returned, n)
                rt2 == SubSeq(returned, n + 1, Len(returned))
                y == sent[c]
                b == buf[c]
                t == task[w]
    <2>1. claimed' = [claimed EXCEPT ![w] = x2] /\ returned' = rt2 /\ task' = task
      BY <1>3 DEF ClaimReturned
    <2>2. /\ t.conn = c /\ t.at = "fill" /\ t.conn \in {c, "none"} /\ cpc[c] = "idle"
          /\ w \in Workers /\ task \in [Workers -> TaskType] /\ t \in TaskType
      BY <1>1, AtFacts
    <2>3. ConnNow(w, c, claimed[w], y, b)
      BY <2>2, ConnFacts
    <2>4. RowsNow(<<>>, y, b)
      BY <1>1, <2>3 DEF ConnNow
    <2>5. /\ x2 \in Seq(Rows) /\ rt2 \in Seq(Rows) /\ returned = x2 \o rt2
      <3>. DEFINE k == Len(returned) - n
      <3>1. n \in Nat /\ k \in Nat /\ Len(returned) = n + k /\ returned \in Seq(Rows)
        BY <2>4, TraceAssumption DEF RowsNow, Least
      <3>. HIDE DEF n, k
      <3>2. /\ SubSeq(returned, 1, n) \in Seq(Rows) /\ SubSeq(returned, n + 1, n + k) \in Seq(Rows)
            /\ returned = SubSeq(returned, 1, n) \o SubSeq(returned, n + 1, n + k)
        BY <3>1, SplitAt
      <3>. QED
        BY <3>1, <3>2 DEF Oldest
    <2>. HIDE DEF n, x2, rt2
    <2>6. /\ RowsOf(returned) = RowsOf(x2) \cup RowsOf(rt2)
          /\ RowsOnce(x2) /\ RowsOnce(rt2) /\ RowsOf(x2) \cap RowsOf(rt2) = {}
      <3>1. x2 \in Seq(Nat) /\ rt2 \in Seq(Nat)
        BY <2>5, PlainRows
      <3>2. RowsOnce(returned)
        BY <2>4 DEF RowsNow
      <3>. QED
        BY <2>5, <3>1, <3>2, ConcatRows
    <2>7. Rowly(chan, returned, answered, abandoned, claimed[w], y,
                chan', returned', answered, abandoned, x2, y, b)
      <3>1. chan' = chan /\ returned' = rt2 /\ claimed[w] = <<>>
        BY <1>1, <2>1
      <3>2. RowsOf(<<>>) = {}
        BY NoRows
      <3>3. /\ Union4(InChannel(chan), RowsOf(rt2), answered, abandoned) \cup RowsOf(x2) \cup RowsOf(y)
               = Union4(InChannel(chan), RowsOf(returned), answered, abandoned)
                   \cup RowsOf(<<>>) \cup RowsOf(y)
            /\ Apart4(InChannel(chan), RowsOf(rt2), answered, abandoned)
            /\ RowsOf(x2) \cap Union4(InChannel(chan), RowsOf(rt2), answered, abandoned) = {}
            /\ RowsOf(y) \cap Union4(InChannel(chan), RowsOf(rt2), answered, abandoned) = {}
            /\ RowsOf(x2) \cap RowsOf(y) = {}
        BY <2>4, <2>6, <3>2 DEF RowsNow, Union4, Apart4
      <3>. HIDE DEF y, b
      <3>. QED
        BY <2>4, <2>5, <2>6, <3>1, <3>3 DEF RowsNow, Rowly
    <2>8. ConnEffect(c, x2, y, b, t, "idle")
      <3>1. /\ sent' = sent /\ buf' = buf /\ task' = task /\ cpc' = cpc
            /\ UNCHANGED <<readerVars, runnerVars>>
        BY <1>1, <2>1 DEF connVars, taskOnly
      <3>2. /\ sent' = [sent EXCEPT ![c] = y] /\ buf' = [buf EXCEPT ![c] = b]
            /\ task' = [task EXCEPT ![w] = t] /\ cpc' = [cpc EXCEPT ![c] = "idle"]
        BY <2>2, <3>1, AtFacts DEF ReplayInv, ListTypes
      <3>. QED
        BY <2>1, <3>1, <3>2 DEF ConnEffect
    <2>9. TaskGoes(w, c, x2, y, b, t, t, "idle")
      BY <2>2, <2>3 DEF TaskGoes, ConnNow
    <2>10. /\ answered' = answered /\ abandoned' = abandoned /\ done' = done
           /\ attempts' = attempts /\ disorder' = disorder /\ backfill' = backfill
           /\ wired' = wired /\ chan' = chan
      BY <1>1 DEF rowVars, connVars
    <2>11. /\ backfill' \in [Conns -> 0 .. BackfillCap] /\ Len(chan') <= ReadAhead
      BY <2>10 DEF ReplayInv
    <2>12. WireGoes(y, b, y, b, wired, answered, abandoned, wired', answered, abandoned)
      BY <2>10 DEF WireGoes, ReplayInv, OnWire
    <2>13. disorder
      BY <1>3 DEF ReplayInv, Order
    <2>. HIDE DEF w, y, b, t
    <2>14. Unsettled(w, c, claimed[w], y, b, x2, y, b, t, "idle")
      BY <2>3, <2>7, <2>8, <2>9, <2>10, <2>11, <2>12, <2>13 DEF Unsettled, t
    <2>. QED
      BY <2>14, UnsettledKeeps
  <1>. QED
    BY <1>2, <1>3

LEMMA ClaimBatchKeeps ==
  ASSUME ReplayInv, NEW c \in Conns, ClaimBatchOrWait(WorkerOf[c], c)
  PROVE  StepKeeps
  <1>. DEFINE w == WorkerOf[c]
  <1>1. /\ At(w, c, "claim") /\ UNCHANGED <<taskOnly, returned, cpc, connVars, rowVars, disorder>>
    BY DEF ClaimBatchOrWait
  <1>2. CASE chan = <<>>
    <2>1. GoTo(w, "flush") /\ UNCHANGED <<claimed, chan>>
      BY <1>2 DEF ClaimBatchOrWait
    <2>2. UNCHANGED <<taskOnly, chan, returned, claimed, cpc, connVars, rowVars, disorder>>
      BY <1>1, <2>1
    <2>. QED
      BY <1>1, <2>1, <2>2, GoToKeeps
  <1>3. CASE chan # <<>>
    <2>. DEFINE x2 == Head(chan)
                ch2 == Tail(chan)
                y == sent[c]
                b == buf[c]
                t == task[w]
                t2 == [at |-> "fill", conn |-> c, budget |-> t.budget]
    <2>1. claimed' = [claimed EXCEPT ![w] = x2] /\ chan' = ch2 /\ GoTo(w, "fill")
      BY <1>3 DEF ClaimBatchOrWait
    <2>2. /\ t.conn = c /\ t.at = "claim" /\ t.conn \in {c, "none"} /\ cpc[c] = "idle"
          /\ w \in Workers /\ task \in [Workers -> TaskType] /\ t \in TaskType
      BY <1>1, AtFacts
    <2>20. claimed[w] = <<>>
      BY <2>2 DEF ReplayInv, Tasks
    <2>3. ConnNow(w, c, claimed[w], y, b)
      BY <2>2, ConnFacts
    <2>4. RowsNow(<<>>, y, b)
      BY <2>20, <2>3 DEF ConnNow
    <2>5. /\ x2 \in Seq(Rows) /\ ch2 \in Seq(Seq(Rows)) /\ Len(ch2) = Len(chan) - 1
          /\ Len(chan) \in Nat
          /\ InChannel(chan) = RowsOf(x2) \cup InChannel(ch2)
          /\ RowsOnce(x2) /\ ChannelOnce(ch2) /\ RowsOf(x2) \cap InChannel(ch2) = {}
          /\ ChannelAscends(chan) => /\ RowsAscend(x2) /\ ChannelAscends(ch2)
                                     /\ Before(RowsOf(x2), InChannel(ch2))
      BY <1>3, <2>4, ChannelTake DEF RowsNow
    <2>51. Len(ch2) <= ReadAhead
      <3>1. Len(chan) <= ReadAhead /\ ReadAhead \in Nat
        BY TraceAssumption DEF ReplayInv
      <3>. HIDE DEF ch2
      <3>. QED
        BY <2>5, <3>1
    <2>. HIDE DEF x2, ch2
    <2>7. Rowly(chan, returned, answered, abandoned, claimed[w], y,
                chan', returned', answered, abandoned, x2, y, b)
      <3>1. chan' = ch2 /\ returned' = returned /\ claimed[w] = <<>>
        BY <1>1, <2>1, <2>20
      <3>2. RowsOf(<<>>) = {}
        BY NoRows
      <3>3. /\ Union4(InChannel(ch2), RowsOf(returned), answered, abandoned)
                 \cup RowsOf(x2) \cup RowsOf(y)
               = Union4(InChannel(chan), RowsOf(returned), answered, abandoned)
                   \cup RowsOf(<<>>) \cup RowsOf(y)
            /\ Apart4(InChannel(ch2), RowsOf(returned), answered, abandoned)
            /\ RowsOf(x2) \cap Union4(InChannel(ch2), RowsOf(returned), answered, abandoned) = {}
            /\ RowsOf(y) \cap Union4(InChannel(ch2), RowsOf(returned), answered, abandoned) = {}
            /\ RowsOf(x2) \cap RowsOf(y) = {}
        BY <2>4, <2>5, <3>2 DEF RowsNow, Union4, Apart4
      <3>. HIDE DEF y, b
      <3>. QED
        BY <2>4, <2>5, <3>1, <3>3 DEF RowsNow, Rowly
    <2>8. ConnEffect(c, x2, y, b, t2, "idle")
      <3>1. /\ sent' = sent /\ buf' = buf /\ cpc' = cpc /\ UNCHANGED <<readerVars, runnerVars>>
        BY <1>1 DEF connVars, taskOnly
      <3>2. /\ sent' = [sent EXCEPT ![c] = y] /\ buf' = [buf EXCEPT ![c] = b]
            /\ cpc' = [cpc EXCEPT ![c] = "idle"]
        BY <2>2, <3>1, AtFacts DEF ReplayInv, ListTypes
      <3>3. task' = [task EXCEPT ![w] = t2]
        BY <2>1, <2>2, TaskSteps
      <3>. QED
        BY <2>1, <3>1, <3>2, <3>3 DEF ConnEffect
    <2>9. TaskGoes(w, c, x2, y, b, t, t2, "idle")
      <3>1. t.budget \in 0 .. Batch
        BY <2>2 DEF TaskType
      <3>2. t2 \in TaskType
        BY <3>1, TaskValues
      <3>. QED
        BY <2>2, <3>2 DEF TaskGoes
    <2>10. /\ answered' = answered /\ abandoned' = abandoned /\ done' = done
           /\ attempts' = attempts /\ disorder' = disorder /\ backfill' = backfill
           /\ wired' = wired /\ returned' = returned /\ chan' = ch2
      BY <1>1, <2>1 DEF rowVars, connVars
    <2>11. /\ backfill' \in [Conns -> 0 .. BackfillCap] /\ Len(chan') <= ReadAhead
      BY <2>10, <2>51 DEF ReplayInv
    <2>12. WireGoes(y, b, y, b, wired, answered, abandoned, wired', answered, abandoned)
      BY <2>10 DEF WireGoes, ReplayInv, OnWire
    <2>13. ASSUME ~disorder
           PROVE  InOrder(w, c, rbatch, chan, sent, buf, chan', returned', x2, y, b)
      <3>1. OrderNow(w, c, <<>>, y, b) /\ Before(InChannel(chan), RowsOf(rbatch))
        BY <2>3, <2>13, <2>20 DEF ConnNow, ReplayInv, Order
      <3>2. RowsOf(x2) \subseteq InChannel(chan) /\ InChannel(ch2) \subseteq InChannel(chan)
        BY <2>5
      <3>3. ChannelAscends(chan) /\ returned' = <<>>
        BY <2>10, <3>1 DEF OrderNow
      <3>4. RowsAscend(x2) /\ ChannelAscends(ch2) /\ Before(RowsOf(x2), InChannel(ch2))
        BY <2>5, <3>3
      <3>5. Before(RowsOf(x2), InChannel(ch2) \cup RowsOf(rbatch))
        BY <3>1, <3>2, <3>4 DEF Before
      <3>6. /\ RowsAscend(y) /\ Before(RowsOf(y), InChannel(ch2) \cup RowsOf(rbatch))
            /\ Before(RowsOf(y), RowsOf(x2))
        BY <3>1, <3>2 DEF OrderNow, Before
      <3>7. ASSUME NEW d \in Conns, d # c /\ WorkerOf[d] = w
            PROVE  /\ buf[d] = 0 /\ Before(RowsOf(sent[d]), RowsOf(x2))
                   /\ Before(RowsOf(sent[d]), RowsOf(Newest(y, b)))
        <4>1. /\ buf[d] = 0 /\ Before(RowsOf(sent[d]), InChannel(chan) \cup RowsOf(rbatch))
              /\ Before(RowsOf(sent[d]), RowsOf(Newest(y, b)))
          BY <3>1, <3>7 DEF OrderNow
        <4>2. Before(RowsOf(sent[d]), RowsOf(x2))
          BY <3>2, <4>1 DEF Before
        <4>. QED
          BY <4>1, <4>2
      <3>. HIDE DEF w, y, b
      <3>. QED
        BY <2>10, <3>2, <3>3, <3>4, <3>5, <3>6, <3>7 DEF InOrder
    <2>. HIDE DEF w, y, b, t, t2
    <2>14. Unsettled(w, c, claimed[w], y, b, x2, y, b, t2, "idle")
      BY <2>3, <2>7, <2>8, <2>9, <2>10, <2>11, <2>12, <2>13 DEF Unsettled, t
    <2>. QED
      BY <2>14, UnsettledKeeps
  <1>. QED
    BY <1>2, <1>3

-----------------------------------------------------------------------------
(* Rows are sent and flushed                                               *)

(* No row that is flushed now was flushed before.                          *)
LEMMA FlushedWire ==
  ASSUME NEW w, NEW c, NEW x, NEW y, NEW b, ConnNow(w, c, x, y, b), Flushed(c)
  PROVE  WireGoes(y, b, y, 0, wired, answered, abandoned, wired', answered, abandoned)
  <1>0. /\ ReplayInv /\ c \in Conns /\ y = sent[c] /\ b = buf[c] /\ RowsNow(x, y, b)
    BY DEF ConnNow
  <1>1. /\ y \in Seq(Rows \cup {Backfill}) /\ b \in Nat /\ b <= Len(y) /\ RowsOnce(y)
        /\ RowsOf(y) \cap Union4(InChannel(chan), RowsOf(returned), answered, abandoned) = {}
    BY <1>0 DEF RowsNow
  <1>2. /\ Newest(y, b) \in Seq(Rows \cup {Backfill})
        /\ RowsOf(y) = RowsOf(Flown(y, b)) \cup RowsOf(Newest(y, b))
        /\ RowsOf(Flown(y, b)) \cap RowsOf(Newest(y, b)) = {}
    BY <1>1, FlownFacts
  <1>3. Flown(y, 0) = y
    <2>1. 0 \in Nat /\ 0 <= Len(y)
      BY <1>1
    <2>. QED
      BY <1>1, <2>1, FlownFacts
  <1>. DEFINE new == Newest(y, b)
  <1>4. \A r \in Rows : r \in Entries(new) <=> r \in RowsOf(new)
    <2>1. \A r \in Rows : r # Backfill
      BY TraceAssumption DEF Rows, Backfill
    <2>2. DOMAIN new = 1 .. Len(new)
      BY <1>2
    <2>. QED
      BY <2>1, <2>2, Zenon DEF Entries, RowsOf
  <1>5. /\ wired' = [r \in Rows |-> IF r \in Entries(new) THEN wired[r] + 1 ELSE wired[r]]
    BY <1>0 DEF Flushed
  <1>6. /\ wired \in [Rows -> 0 .. 1]
        /\ \A r \in Rows : wired[r] = 1 =>
             \/ r \in answered \cup abandoned
             \/ \E d \in Conns : r \in RowsOf(Flown(sent[d], buf[d]))
    BY <1>0 DEF ReplayInv, OnWire
  <1>7. ASSUME NEW r \in Rows, r \in RowsOf(new)
        PROVE  wired[r] = 0
    <2>1. r \in RowsOf(y) /\ r \notin RowsOf(Flown(y, b))
      BY <1>2, <1>7
    <2>2. r \notin answered \cup abandoned
      BY <1>1, <2>1 DEF Union4
    <2>3. ASSUME NEW d \in Conns, r \in RowsOf(Flown(sent[d], buf[d]))
          PROVE  FALSE
      <3>1. d # c
        BY <1>0, <2>1, <2>3
      <3>2. sent[d] \in Seq(Rows \cup {Backfill}) /\ buf[d] \in Nat /\ buf[d] <= Len(sent[d])
        BY <1>0 DEF ReplayInv, ListTypes
      <3>3. r \in RowsOf(sent[d])
        BY <2>3, <3>2, FlownFacts
      <3>. DEFINE S == HeldBy(sent, Conns)
      <3>4. S[d] = RowsOf(sent[d]) /\ S[c] = RowsOf(sent[c])
        BY <1>0 DEF HeldBy
      <3>5. Apart(RowsOf(rbatch), InChannel(chan), RowsOf(returned), answered, abandoned,
                  HeldBy(claimed, Workers), S)
        BY <1>0 DEF ReplayInv, Books
      <3>. HIDE DEF S
      <3>6. S[c] \cap S[d] = {}
        BY <1>0, <3>1, <3>5 DEF Apart
      <3>. QED
        BY <1>0, <2>1, <3>3, <3>4, <3>6
    <2>4. wired[r] # 1 /\ wired[r] \in 0 .. 1
      BY <1>6, <2>2, <2>3
    <2>. QED
      BY <2>4
  <1>. HIDE DEF new
  <1>8. \A r \in Rows : /\ wired'[r] \in 0 .. 1
                        /\ wired'[r] = wired[r] \/ r \in RowsOf(new)
    <2>. TAKE r \in Rows
    <2>1. CASE r \in RowsOf(new)
      <3>1. wired[r] = 0 /\ wired'[r] = wired[r] + 1
        BY <1>4, <1>5, <1>7, <2>1
      <3>. QED
        BY <2>1, <3>1
    <2>2. CASE r \notin RowsOf(new)
      <3>1. wired'[r] = wired[r] /\ wired[r] \in 0 .. 1
        BY <1>4, <1>5, <1>6, <2>2
      <3>. QED
        BY <3>1
    <2>. QED
      BY <2>1, <2>2
  <1>9. wired' \in [Rows -> 0 .. 1]
    <2>1. wired' = [r \in Rows |-> wired'[r]]
      BY <1>5
    <2>. QED
      BY <1>8, <2>1
  <1>. QED
    BY <1>2, <1>3, <1>8, <1>9 DEF WireGoes, new

LEMMA FlushedKeeps ==
  ASSUME NEW w, NEW c, NEW x, NEW y, NEW b, ConnNow(w, c, x, y, b), Flushed(c),
         NEW t2, NEW p2, TaskGoes(w, c, x, y, 0, task[w], t2, p2),
         task' = [task EXCEPT ![w] = t2], cpc' = [cpc EXCEPT ![c] = p2],
         UNCHANGED <<taskOnly, chan, returned, claimed, sent, backfill,
                     attempts, answered, abandoned, done, disorder>>
  PROVE  StepKeeps
  <1>0. /\ ReplayInv /\ c \in Conns /\ w = WorkerOf[c] /\ w \in Workers
        /\ x = claimed[w] /\ y = sent[c] /\ b = buf[c] /\ RowsNow(x, y, b)
    BY DEF ConnNow
  <1>1. /\ chan' = chan /\ returned' = returned /\ claimed' = claimed /\ disorder' = disorder
        /\ sent' = sent /\ backfill' = backfill /\ attempts' = attempts
        /\ answered' = answered /\ abandoned' = abandoned /\ done' = done
        /\ UNCHANGED <<readerVars, runnerVars>>
    BY DEF taskOnly
  <1>2. /\ claimed \in [Workers -> Seq(Rows)] /\ sent \in [Conns -> Seq(Rows \cup {Backfill})]
    BY <1>0 DEF ReplayInv, ListTypes
  <1>3. ConnEffect(c, x, y, 0, t2, p2)
    BY <1>0, <1>1, <1>2 DEF ConnEffect, Flushed
  <1>4. Rowly(chan, returned, answered, abandoned, x, y,
              chan', returned', answered, abandoned, x, y, 0)
    <2>1. Len(y) \in Nat /\ 0 \in Nat /\ 0 <= Len(y)
      BY <1>0 DEF RowsNow
    <2>. QED
      BY <1>0, <1>1, <2>1 DEF Rowly, RowsNow
  <1>5. WireGoes(y, b, y, 0, wired, answered, abandoned, wired', answered, abandoned)
    BY FlushedWire
  <1>6. ASSUME ~disorder
        PROVE  InOrder(w, c, rbatch, chan, sent, buf, chan', returned', x, y, 0)
    <2>1. OrderNow(w, c, x, y, b)
      BY <1>6 DEF ConnNow
    <2>2. RowsOf(Newest(y, 0)) = {}
      <3>1. y \in Seq(Rows \cup {Backfill}) /\ 0 \in Nat /\ 0 <= Len(y)
        BY <1>0 DEF RowsNow
      <3>2. Newest(y, 0) = <<>>
        BY <3>1, FlownFacts
      <3>. QED
        BY <3>2, NoRows
    <2>3. \A S : Before(S, RowsOf(Newest(y, 0)))
      BY <2>2 DEF Before
    <2>. QED
      BY <1>1, <2>1, <2>3 DEF OrderNow, InOrder
  <1>8. /\ Len(chan') <= ReadAhead /\ backfill' \in [Conns -> 0 .. BackfillCap]
    BY <1>0, <1>1 DEF ReplayInv
  <1>9. Unsettled(w, c, x, y, b, x, y, 0, t2, p2)
    BY <1>1, <1>3, <1>4, <1>5, <1>6, <1>8 DEF Unsettled
  <1>. QED
    BY <1>9, UnsettledKeeps

LEMMA FlushEarlyKeeps ==
  ASSUME ReplayInv, NEW c \in Conns, FlushEarly(WorkerOf[c], c)
  PROVE  StepKeeps
  <1>. DEFINE w == WorkerOf[c]
              t == task[w]
  <1>1. /\ At(w, c, "fill") /\ Flushed(c) /\ task' = task /\ cpc' = cpc
        /\ UNCHANGED <<taskOnly, chan, returned, claimed, sent, backfill,
                       attempts, answered, abandoned, done, disorder>>
    BY DEF FlushEarly, Filling
  <1>2. /\ t.conn = c /\ t.at = "fill" /\ t.conn \in {c, "none"} /\ cpc[c] = "idle"
        /\ w \in Workers /\ task \in [Workers -> TaskType] /\ t \in TaskType
    BY <1>1, AtFacts
  <1>3. ConnNow(w, c, claimed[w], sent[c], buf[c])
    BY <1>2, ConnFacts
  <1>4. task' = [task EXCEPT ![w] = t] /\ cpc' = [cpc EXCEPT ![c] = "idle"]
    BY <1>1, <1>2, AtFacts
  <1>5. TaskGoes(w, c, claimed[w], sent[c], 0, task[w], t, "idle")
    BY <1>2 DEF TaskGoes
  <1>6. /\ Flushed(c)
        /\ UNCHANGED <<taskOnly, chan, returned, claimed, sent, backfill,
                       attempts, answered, abandoned, done, disorder>>
    BY <1>1
  <1>. HIDE DEF w, t
  <1>. QED
    BY <1>3, <1>4, <1>5, <1>6, FlushedKeeps

LEMMA FlushKeeps ==
  ASSUME ReplayInv, NEW c \in Conns, Flush(WorkerOf[c], c)
  PROVE  StepKeeps
  <1>. DEFINE w == WorkerOf[c]
              p2 == IF sent[c] = <<>> THEN "idle" ELSE "recv"
  <1>1. /\ At(w, c, "flush") /\ Flushed(c)
        /\ task' = [task EXCEPT ![w] = Free] /\ cpc' = [cpc EXCEPT ![c] = p2]
        /\ UNCHANGED <<taskOnly, chan, returned, claimed, sent, backfill,
                       attempts, answered, abandoned, done, disorder>>
    BY DEF Flush, Await
  <1>2. task[w].conn \in {c, "none"}
    BY <1>1, AtFacts
  <1>3. ConnNow(w, c, claimed[w], sent[c], buf[c])
    BY <1>2, ConnFacts
  <1>5. TaskGoes(w, c, claimed[w], sent[c], 0, task[w], Free, p2)
    <2>1. Free \in TaskType
      BY TraceAssumption DEF Free, TaskType
    <2>. QED
      BY <1>2, <2>1 DEF TaskGoes, Free
  <1>. HIDE DEF w, p2
  <1>. QED
    BY <1>1, <1>3, <1>5, FlushedKeeps

(* What the fill loop takes: a backfill, or the first of the claimed rows. *)
NextFrom(x, i, x2) ==
  /\ i \in Rows \cup {Backfill} /\ <<i>> \in Seq(Rows \cup {Backfill}) /\ x2 \in Seq(Rows)
  /\ RowsOf(x) = RowsOf(<<i>>) \cup RowsOf(x2) /\ RowsOf(<<i>>) \cap RowsOf(x2) = {}
  /\ RowsOf(<<i>>) = {i} \ {Backfill}
  /\ RowsOnce(x2)
  /\ RowsAscend(x) => RowsAscend(x2) /\ Before(RowsOf(<<i>>), RowsOf(x2))

LEMMA NextFacts ==
  ASSUME NEW w, NEW c, NEW x, NEW y, NEW b, ConnNow(w, c, x, y, b), HasNext(w, c)
  PROVE  /\ NextFrom(x, NextItem(w, c), RestOfClaimed(w, c))
         /\ TakeBackfill(c) => backfill' \in [Conns -> 0 .. BackfillCap]
  <1>0. /\ ReplayInv /\ c \in Conns /\ x = claimed[w] /\ x \in Seq(Rows) /\ RowsOnce(x)
        /\ backfill \in [Conns -> 0 .. BackfillCap] /\ BackfillCap \in Nat
    BY TraceAssumption DEF ConnNow, RowsNow, ReplayInv
  <1>1. CASE backfill[c] > 0
    <2>1. NextItem(w, c) = Backfill /\ RestOfClaimed(w, c) = x
      BY <1>0, <1>1 DEF NextItem, RestOfClaimed
    <2>2. RowsOf(<<Backfill>>) = {}
      BY OneRow
    <2>3. NextFrom(x, Backfill, x)
      BY <1>0, <2>2 DEF NextFrom, Before
    <2>4. backfill[c] - 1 \in 0 .. BackfillCap
      BY <1>0, <1>1
    <2>5. TakeBackfill(c) => backfill' \in [Conns -> 0 .. BackfillCap]
      BY <1>0, <1>1, <2>4 DEF TakeBackfill
    <2>. QED
      BY <2>1, <2>3, <2>5
  <1>2. CASE ~(backfill[c] > 0)
    <2>1. NextItem(w, c) = Head(x) /\ RestOfClaimed(w, c) = Tail(x) /\ x # <<>>
      BY <1>0, <1>2 DEF NextItem, RestOfClaimed, HasNext
    <2>. DEFINE i == Head(x)
                x2 == Tail(x)
    <2>2. i \in Rows /\ x2 \in Seq(Rows) /\ <<i>> \in Seq(Rows) /\ x = <<i>> \o x2
      BY <1>0, <2>1, ListParts
    <2>. HIDE DEF i, x2
    <2>3. <<i>> \in Seq(Nat) /\ x2 \in Seq(Nat)
      BY <2>2, PlainRows
    <2>4. /\ RowsOf(<<i>> \o x2) = RowsOf(<<i>>) \cup RowsOf(x2)
          /\ RowsOnce(<<i>> \o x2) <=>
               RowsOnce(<<i>>) /\ RowsOnce(x2) /\ RowsOf(<<i>>) \cap RowsOf(x2) = {}
          /\ RowsAscend(<<i>> \o x2) <=>
               RowsAscend(<<i>>) /\ RowsAscend(x2) /\ Before(RowsOf(<<i>>), RowsOf(x2))
      BY <2>3, ConcatRows
    <2>5. RowsOf(<<i>>) = {i} \ {Backfill}
      BY OneRow
    <2>6. i \in Rows \cup {Backfill} /\ <<i>> \in Seq(Rows \cup {Backfill})
      BY <2>2
    <2>7. NextFrom(x, i, x2)
      BY <1>0, <2>2, <2>4, <2>5, <2>6 DEF NextFrom
    <2>8. TakeBackfill(c) => backfill' \in [Conns -> 0 .. BackfillCap]
      BY <1>0, <1>2 DEF TakeBackfill
    <2>. QED
      BY <2>1, <2>7, <2>8 DEF i, x2
  <1>. QED
    BY <1>1, <1>2

(* A request joins what is buffered.                                       *)
LEMMA FiredParts ==
  ASSUME NEW y \in Seq(Rows \cup {Backfill}), NEW n \in Nat, n <= Len(y),
         NEW i \in Rows \cup {Backfill}
  PROVE  /\ Flown(Append(y, i), n + 1) = Flown(y, n)
         /\ RowsOf(Newest(Append(y, i), n + 1)) \subseteq RowsOf(Newest(y, n)) \cup {i}
  <1>. DEFINE m == Len(y) - n
              u == Append(y, i)
              f == Flown(y, n)
              f2 == Flown(u, n + 1)
              e == Newest(y, n)
              e2 == Newest(u, n + 1)
              K == Rows \cup {Backfill}
  <1>1. /\ m \in Nat /\ Len(y) = m + n /\ u \in Seq(K) /\ Len(u) = m + n + 1
        /\ \A k \in 1 .. m + n : u[k] = y[k]
        /\ u[m + n + 1] = i /\ y \in Seq(K)
    OBVIOUS
  <1>2. f = SubSeq(y, 1, m) /\ e = SubSeq(y, m + 1, m + n)
    BY <1>1 DEF Flown, Newest, Oldest
  <1>. HIDE DEF u, K
  <1>3. f2 = SubSeq(u, 1, m) /\ e2 = SubSeq(u, m + 1, m + n + 1)
    <2>1. Len(u) - (n + 1) = m /\ Len(u) - (n + 1) + 1 = m + 1
      BY <1>1
    <2>. QED
      BY <1>1, <2>1 DEF Flown, Newest, Oldest
  <1>. HIDE DEF m, f, f2, e, e2
  <1>4. /\ f \in Seq(K) /\ Len(f) = m /\ \A k \in 1 .. m : f[k] = y[k]
        /\ f2 \in Seq(K) /\ Len(f2) = m /\ \A k \in 1 .. m : f2[k] = u[k]
    BY <1>1, <1>2, <1>3
  <1>5. \A k \in 1 .. m : f[k] = f2[k]
    BY <1>1, <1>4
  <1>6. f = f2
    BY <1>4, <1>5
  <1>70. e \in Seq(K) /\ Len(e) = n
    BY <1>1, <1>2
  <1>71. \A k \in 1 .. n : e[k] = y[m + 1 + k - 1]
    BY <1>1, <1>2
  <1>7. e \in Seq(K) /\ Len(e) = n /\ \A k \in 1 .. n : e[k] = y[m + 1 + k - 1]
    BY <1>70, <1>71
  <1>80. e2 \in Seq(K) /\ Len(e2) = n + 1
    BY <1>1, <1>3
  <1>81. \A k \in 1 .. n + 1 : e2[k] = u[m + 1 + k - 1]
    BY <1>1, <1>3
  <1>8. e2 \in Seq(K) /\ Len(e2) = n + 1 /\ \A k \in 1 .. n + 1 : e2[k] = u[m + 1 + k - 1]
    BY <1>80, <1>81
  <1>9. ASSUME NEW k \in 1 .. n + 1
        PROVE  e2[k] = i \/ \E l \in 1 .. n : e[l] = e2[k]
    <2>1. CASE k \in 1 .. n
      <3>1. m + 1 + k - 1 \in 1 .. m + n
        BY <1>1, <2>1
      <3>. QED
        BY <1>1, <1>7, <1>8, <2>1, <3>1
    <2>2. CASE k = n + 1
      <3>1. m + 1 + k - 1 = m + n + 1
        BY <1>1, <2>2
      <3>. QED
        BY <1>1, <1>8, <3>1
    <2>. QED
      BY <2>1, <2>2
  <1>10. DOMAIN e = 1 .. n /\ DOMAIN e2 = 1 .. n + 1
    BY <1>7, <1>8
  <1>11. RowsOf(e2) \subseteq RowsOf(e) \cup {i}
    BY <1>9, <1>10 DEF RowsOf
  <1>. QED
    BY <1>6, <1>11 DEF f, f2, e, e2, u

LEMMA RowsWide ==
  ASSUME NEW y \in Seq(Rows \cup {Backfill})
  PROVE  y \in Seq(Nat) /\ RowsOf(y) \subseteq Rows
  <1>1. Rows \cup {Backfill} \subseteq Nat
    BY TraceAssumption DEF Rows, Backfill
  <1>2. y \in Seq(Nat)
    BY <1>1, WiderSeq
  <1>3. RowsOf(y) \subseteq Rows \cup {Backfill} /\ Backfill \notin RowsOf(y)
    BY ListFacts
  <1>. QED
    BY <1>2, <1>3

LEMMA FireKeeps ==
  ASSUME ReplayInv, NEW c \in Conns, Fire(WorkerOf[c], c)
  PROVE  StepKeeps
  <1>. DEFINE w == WorkerOf[c]
              x == claimed[w]
              y == sent[c]
              b == buf[c]
              t == task[w]
              i == NextItem(w, c)
              x2 == RestOfClaimed(w, c)
              y2 == Append(y, i)
              b2 == b + 1
              t2 == [at |-> t.at, conn |-> t.conn, budget |-> t.budget - 1]
  <1>1. /\ At(w, c, "fill") /\ t.budget > 0 /\ Len(y) < Depth /\ HasNext(w, c)
        /\ sent' = [sent EXCEPT ![c] = y2] /\ buf' = [buf EXCEPT ![c] = b2]
        /\ claimed' = [claimed EXCEPT ![w] = x2]
        /\ TakeBackfill(c) /\ task' = [task EXCEPT ![w].budget = @ - 1]
        /\ UNCHANGED <<taskOnly, chan, returned, cpc, rowVars, disorder>>
    BY DEF Fire, Filling
  <1>2. /\ t.conn = c /\ t.at = "fill" /\ t.conn \in {c, "none"} /\ cpc[c] = "idle"
        /\ w \in Workers /\ task \in [Workers -> TaskType] /\ t \in TaskType
    BY <1>1, AtFacts
  <1>3. ConnNow(w, c, x, y, b)
    BY <1>2, ConnFacts
  <1>4. RowsNow(x, y, b)
    BY <1>3 DEF ConnNow
  <1>5. NextFrom(x, i, x2) /\ backfill' \in [Conns -> 0 .. BackfillCap]
    BY <1>1, <1>3, NextFacts
  <1>6. task' = [task EXCEPT ![w] = t2] /\ cpc' = [cpc EXCEPT ![c] = "idle"]
    <2>1. cpc' = cpc
      BY <1>1
    <2>. QED
      BY <1>1, <1>2, <2>1, TaskSteps, AtFacts
  <1>7. ConnEffect(c, x2, y2, b2, t2, "idle")
    BY <1>1, <1>6 DEF ConnEffect, taskOnly
  <1>8. TaskGoes(w, c, x2, y2, b2, t, t2, "idle")
    <2>1. t.budget - 1 \in 0 .. Batch
      BY <1>1, <1>2, TraceAssumption DEF TaskType
    <2>2. t2 \in TaskType
      BY <1>2, <2>1, TaskValues
    <2>3. t2.conn = c /\ t2.at = "fill"
      BY <1>2
    <2>. HIDE DEF t2
    <2>. QED
      BY <1>2, <2>2, <2>3 DEF TaskGoes
  <1>9. /\ answered' = answered /\ abandoned' = abandoned /\ done' = done
        /\ attempts' = attempts /\ disorder' = disorder
        /\ wired' = wired /\ returned' = returned /\ chan' = chan
    BY <1>1 DEF rowVars
  <1>. HIDE DEF w, x, y, b, i, x2, t, t2
  <1>10. /\ i \in Rows \cup {Backfill} /\ <<i>> \in Seq(Rows \cup {Backfill}) /\ x2 \in Seq(Rows)
         /\ RowsOf(x) = RowsOf(<<i>>) \cup RowsOf(x2) /\ RowsOf(<<i>>) \cap RowsOf(x2) = {}
         /\ RowsOf(<<i>>) = {i} \ {Backfill}
         /\ RowsOnce(x2)
         /\ RowsAscend(x) => RowsAscend(x2) /\ Before(RowsOf(<<i>>), RowsOf(x2))
    BY <1>5 DEF NextFrom
  <1>11. /\ y \in Seq(Rows \cup {Backfill}) /\ b \in Nat /\ b <= Len(y) /\ RowsOnce(y)
         /\ RowsOf(x) \cap RowsOf(y) = {}
    BY <1>4 DEF RowsNow
  <1>12. /\ y2 \in Seq(Rows \cup {Backfill}) /\ y2 = y \o <<i>> /\ Len(y2) = Len(y) + 1
         /\ y \in Seq(Nat) /\ <<i>> \in Seq(Nat)
    <2>1. y2 \in Seq(Rows \cup {Backfill}) /\ y2 = y \o <<i>> /\ Len(y2) = Len(y) + 1
      <3>. DEFINE K == Rows \cup {Backfill}
      <3>1. y \in Seq(K) /\ i \in K
        BY <1>10, <1>11
      <3>. HIDE DEF K
      <3>2. y2 \in Seq(K) /\ y2 = y \o <<i>> /\ Len(y2) = Len(y) + 1
        BY <3>1
      <3>. QED
        BY <3>2 DEF K
    <2>2. y \in Seq(Nat) /\ <<i>> \in Seq(Nat)
      BY <1>10, <1>11, RowsWide
    <2>. QED
      BY <2>1, <2>2
  <1>13. /\ RowsOf(y2) = RowsOf(y) \cup RowsOf(<<i>>)
         /\ RowsOnce(y2)
         /\ RowsAscend(y2) <=>
              RowsAscend(y) /\ RowsAscend(<<i>>) /\ Before(RowsOf(y), RowsOf(<<i>>))
    <2>. HIDE DEF y2
    <2>1. RowsOnce(<<i>>) /\ RowsOf(y) \cap RowsOf(<<i>>) = {}
      BY <1>10, <1>11, OneRow
    <2>. QED
      BY <1>11, <1>12, <2>1, ConcatRows
  <1>14. b2 \in Nat /\ b2 <= Len(y2) /\ Len(y2) <= Depth
    <2>1. Len(y) \in Nat /\ Depth \in Nat
      BY <1>11, TraceAssumption
    <2>. HIDE DEF y2
    <2>. QED
      BY <1>1, <1>11, <1>12, <2>1
  <1>15. /\ Flown(y2, b2) = Flown(y, b)
         /\ RowsOf(Newest(y2, b2)) \subseteq RowsOf(Newest(y, b)) \cup RowsOf(<<i>>)
    <2>1. /\ Flown(y2, b2) = Flown(y, b)
          /\ RowsOf(Newest(y2, b2)) \subseteq RowsOf(Newest(y, b)) \cup {i}
      BY <1>10, <1>11, FiredParts
    <2>2. Newest(y2, b2) \in Seq(Rows \cup {Backfill})
      BY <1>12, <1>14, FlownFacts
    <2>3. Backfill \notin RowsOf(Newest(y2, b2))
      BY DEF RowsOf
    <2>. HIDE DEF y2, b2
    <2>. QED
      BY <1>10, <2>1, <2>3
  <1>. HIDE DEF y2, b2
  <1>16. Rowly(chan, returned, answered, abandoned, x, y,
               chan', returned', answered, abandoned, x2, y2, b2)
    <2>1. /\ Union4(InChannel(chan), RowsOf(returned), answered, abandoned)
               \cup RowsOf(x2) \cup RowsOf(y2)
             = Union4(InChannel(chan), RowsOf(returned), answered, abandoned)
                 \cup RowsOf(x) \cup RowsOf(y)
          /\ Apart4(InChannel(chan), RowsOf(returned), answered, abandoned)
          /\ RowsOf(x2) \cap Union4(InChannel(chan), RowsOf(returned), answered, abandoned) = {}
          /\ RowsOf(y2) \cap Union4(InChannel(chan), RowsOf(returned), answered, abandoned) = {}
          /\ RowsOf(x2) \cap RowsOf(y2) = {}
      BY <1>4, <1>10, <1>13 DEF RowsNow
    <2>. QED
      BY <1>4, <1>9, <1>10, <1>12, <1>13, <1>14, <2>1 DEF RowsNow, Rowly
  <1>17. WireGoes(y, b, y2, b2, wired, answered, abandoned, wired', answered, abandoned)
    BY <1>9, <1>15 DEF WireGoes, ReplayInv, OnWire
  <1>18. ASSUME ~disorder
         PROVE  InOrder(w, c, rbatch, chan, sent, buf, chan', returned', x2, y2, b2)
    <2>1. OrderNow(w, c, x, y, b)
      BY <1>3, <1>18 DEF ConnNow
    <2>. DEFINE Up == InChannel(chan) \cup RowsOf(rbatch)
    <2>2. /\ returned' = <<>> /\ ChannelAscends(chan)
          /\ RowsAscend(x) /\ Before(RowsOf(x), Up)
          /\ RowsAscend(y) /\ Before(RowsOf(y), Up)
          /\ Before(RowsOf(y), RowsOf(x))
      BY <1>9, <2>1 DEF OrderNow
    <2>. HIDE DEF Up
    <2>3. RowsAscend(x2) /\ Before(RowsOf(x2), Up) /\ Before(RowsOf(<<i>>), RowsOf(x2))
      BY <1>10, <2>2 DEF Before
    <2>4. Before(RowsOf(y), RowsOf(<<i>>)) /\ RowsAscend(<<i>>) /\ Before(RowsOf(<<i>>), Up)
      BY <1>10, <2>2, OneRow DEF Before
    <2>5. RowsAscend(y2) /\ Before(RowsOf(y2), Up) /\ Before(RowsOf(y2), RowsOf(x2))
      BY <1>10, <1>13, <2>2, <2>3, <2>4 DEF Before
    <2>6. ASSUME NEW d \in Conns, d # c /\ WorkerOf[d] = w
          PROVE  /\ buf[d] = 0 /\ Before(RowsOf(sent[d]), RowsOf(x2))
                 /\ Before(RowsOf(sent[d]), RowsOf(Newest(y2, b2)))
      <3>1. /\ buf[d] = 0 /\ Before(RowsOf(sent[d]), RowsOf(x))
            /\ Before(RowsOf(sent[d]), RowsOf(Newest(y, b)))
        BY <2>1, <2>6 DEF OrderNow
      <3>. QED
        BY <1>10, <1>15, <3>1 DEF Before
    <2>. QED
      BY <1>9, <2>2, <2>3, <2>5, <2>6 DEF InOrder, Up
  <1>19. Len(chan') <= ReadAhead
    BY <1>9 DEF ReplayInv
  <1>20. TaskGoes(w, c, x2, y2, b2, task[w], t2, "idle")
    BY <1>8 DEF t
  <1>21. Unsettled(w, c, x, y, b, x2, y2, b2, t2, "idle")
    BY <1>3, <1>5, <1>7, <1>9, <1>16, <1>17, <1>18, <1>19, <1>20 DEF Unsettled
  <1>. QED
    BY <1>21, UnsettledKeeps

-----------------------------------------------------------------------------
(* Rows go back to the claimed ones                                        *)

LEMMA RequeuedRows ==
  ASSUME NEW p \in Seq(Rows \cup {Backfill}), NEW z \in Seq(Rows \cup {Backfill}),
         NEW x1 \in Seq(Rows), NEW given
  PROVE  LET unsent == RowsIn(p \o z)
             x2     == Without(unsent, given) \o x1
             U      == RowsOf(p) \cup RowsOf(z)
         IN  /\ x2 \in Seq(Rows) /\ Entries(unsent) = U
             /\ RowsOf(x2) = (U \ given) \cup RowsOf(x1)
             /\ /\ RowsOnce(p) /\ RowsOnce(z) /\ RowsOnce(x1)
                /\ RowsOf(p) \cap RowsOf(z) = {} /\ U \cap RowsOf(x1) = {}
                => RowsOnce(x2)
             /\ /\ RowsAscend(p) /\ RowsAscend(z) /\ RowsAscend(x1)
                /\ Before(RowsOf(p), RowsOf(z)) /\ Before(U, RowsOf(x1))
                => RowsAscend(x2)
  <1>. DEFINE K == Rows \cup {Backfill}
              u == p \o z
              unsent == RowsIn(u)
              v == Without(unsent, given)
              x2 == v \o x1
              U == RowsOf(p) \cup RowsOf(z)
  <1>0. Rows \subseteq Nat /\ K \subseteq Nat /\ K \ {Backfill} \subseteq Rows
    BY TraceAssumption DEF Rows, Backfill
  <1>1. p \in Seq(Nat) /\ z \in Seq(Nat) /\ x1 \in Seq(Nat)
    BY RowsWide, PlainRows
  <1>2. /\ RowsOf(u) = U
        /\ RowsOnce(u) <=> RowsOnce(p) /\ RowsOnce(z) /\ RowsOf(p) \cap RowsOf(z) = {}
        /\ RowsAscend(u) <=> RowsAscend(p) /\ RowsAscend(z) /\ Before(RowsOf(p), RowsOf(z))
    BY <1>1, ConcatRows
  <1>3. u \in Seq(K)
    <2>1. p \in Seq(K) /\ z \in Seq(K)
      OBVIOUS
    <2>. HIDE DEF K
    <2>. QED
      BY <2>1
  <1>. HIDE DEF u
  <1>4. /\ unsent \in Seq(Rows) /\ RowsOf(unsent) = U
        /\ RowsOnce(u) => RowsOnce(unsent)
        /\ RowsAscend(u) => RowsAscend(unsent)
    <2>. HIDE DEF K, U
    <2>1. /\ unsent \in Seq(K \ {Backfill}) /\ RowsOf(unsent) = RowsOf(u)
          /\ RowsOnce(u) => RowsOnce(unsent)
          /\ RowsAscend(u) => RowsAscend(unsent)
      BY <1>0, <1>3, RowsInFacts
    <2>2. unsent \in Seq(Rows)
      BY <1>0, <2>1, WiderSeq
    <2>. QED
      BY <1>2, <2>1, <2>2
  <1>. HIDE DEF unsent
  <1>5. Entries(unsent) = U
    BY <1>4, PlainRows
  <1>6. /\ v \in Seq(Rows) /\ RowsOf(v) = U \ given
        /\ RowsOnce(unsent) => RowsOnce(v)
        /\ RowsAscend(unsent) => RowsAscend(v)
    <2>. HIDE DEF U
    <2>. QED
      BY <1>0, <1>4, WithoutFacts
  <1>. HIDE DEF v
  <1>7. v \in Seq(Nat)
    BY <1>6, PlainRows
  <1>8. /\ RowsOf(x2) = RowsOf(v) \cup RowsOf(x1)
        /\ RowsOnce(x2) <=> RowsOnce(v) /\ RowsOnce(x1) /\ RowsOf(v) \cap RowsOf(x1) = {}
        /\ RowsAscend(x2) <=> RowsAscend(v) /\ RowsAscend(x1) /\ Before(RowsOf(v), RowsOf(x1))
    BY <1>1, <1>7, ConcatRows
  <1>9. x2 \in Seq(Rows)
    BY <1>6
  <1>. HIDE DEF x2, U
  <1>10. RowsOf(x2) = (U \ given) \cup RowsOf(x1)
    BY <1>6, <1>8
  <1>11. ASSUME RowsOnce(p), RowsOnce(z), RowsOnce(x1),
                RowsOf(p) \cap RowsOf(z) = {}, U \cap RowsOf(x1) = {}
         PROVE  RowsOnce(x2)
    BY <1>2, <1>4, <1>6, <1>8, <1>11
  <1>12. ASSUME RowsAscend(p), RowsAscend(z), RowsAscend(x1),
                Before(RowsOf(p), RowsOf(z)), Before(U, RowsOf(x1))
         PROVE  RowsAscend(x2)
    <2>1. RowsAscend(v)
      BY <1>2, <1>4, <1>6, <1>12
    <2>2. Before(RowsOf(v), RowsOf(x1))
      BY <1>6, <1>12 DEF Before
    <2>. QED
      BY <1>8, <1>12, <2>1, <2>2
  <1>. QED
    BY <1>5, <1>9, <1>10, <1>11, <1>12 DEF x2, U, v, unsent, u

(* The claimed rows x are z, taken for the send that failed, and x1.       *)
TakenFor(x, z, x1) ==
  /\ z \in Seq(Rows \cup {Backfill}) /\ x1 \in Seq(Rows)
  /\ RowsOf(x) = RowsOf(z) \cup RowsOf(x1) /\ RowsOf(z) \cap RowsOf(x1) = {}
  /\ RowsOnce(z) /\ RowsOnce(x1)
  /\ RowsAscend(x) => RowsAscend(z) /\ RowsAscend(x1) /\ Before(RowsOf(z), RowsOf(x1))

(* A row is given up on at the last send it may fail.                      *)
LEMMA TriesStep ==
  ASSUME NEW at, NEW ab, NEW U, NEW charged, NEW given, NEW at2,
         Tries(at, ab), U \subseteq Rows, U \cap ab = {},
         given = {r \in U \cap charged : at[r] + 1 >= MaxAttempts},
         at2 = [r \in Rows |-> IF r \in charged \cap U THEN at[r] + 1 ELSE at[r]]
  PROVE  Tries(at2, ab \cup given)
  <1>0. MaxAttempts \in Nat
    BY TraceAssumption
  <1>1. /\ at \in [Rows -> 0 .. MaxAttempts]
        /\ \A r \in Rows : r \notin ab => at[r] < MaxAttempts
    BY DEF Tries
  <1>2. ASSUME NEW r \in Rows
        PROVE  /\ at2[r] \in 0 .. MaxAttempts
               /\ r \notin ab \cup given => at2[r] < MaxAttempts
    <2>0. at[r] \in 0 .. MaxAttempts
      BY <1>1
    <2>1. CASE r \in charged \cap U
      <3>1. at2[r] = at[r] + 1 /\ at[r] < MaxAttempts
        BY <1>1, <2>1
      <3>2. r \notin given => ~(at[r] + 1 >= MaxAttempts)
        BY <2>1
      <3>. QED
        BY <1>0, <2>0, <3>1, <3>2
    <2>2. CASE r \notin charged \cap U
      BY <1>1, <2>2
    <2>. QED
      BY <2>1, <2>2
  <1>3. at2 \in [Rows -> 0 .. MaxAttempts]
    BY <1>2
  <1>. QED
    BY <1>2, <1>3 DEF Tries

(* The effect of a requeue, in the terms above.                            *)
Requeued(w, c, x, y, b, z, x1, charged, t2, p2) ==
  /\ ConnNow(w, c, x, y, b) /\ TakenFor(x, z, x1)
  /\ Requeue(w, c, b, z, x1, charged)
  /\ buf' = [buf EXCEPT ![c] = 0] /\ backfill' \in [Conns -> 0 .. BackfillCap]
  /\ task' = [task EXCEPT ![w] = t2] /\ cpc' = [cpc EXCEPT ![c] = p2]
  /\ UNCHANGED <<taskOnly, chan, returned, wired, answered, disorder>>
  /\ t2.at # "claim"
  /\ TaskGoes(w, c, x, Flown(y, b), 0, task[w], t2, p2)

LEMMA RequeueKeeps ==
  ASSUME NEW w, NEW c, NEW x, NEW y, NEW b, NEW z, NEW x1, NEW charged, NEW t2, NEW p2,
         Requeued(w, c, x, y, b, z, x1, charged, t2, p2)
  PROVE  StepKeeps
  <1>. DEFINE p == Newest(y, b)
              f == Flown(y, b)
              unsent == RowsIn(p \o z)
              U == RowsOf(p) \cup RowsOf(z)
              given == GivenUp(Entries(unsent), charged)
              x2 == Without(unsent, given) \o x1
  <1>0. /\ ConnNow(w, c, x, y, b) /\ TakenFor(x, z, x1)
        /\ ReplayInv /\ c \in Conns /\ w = WorkerOf[c] /\ w \in Workers
        /\ x = claimed[w] /\ y = sent[c] /\ b = buf[c] /\ RowsNow(x, y, b)
    BY DEF Requeued, ConnNow
  <1>1. /\ buf' = [buf EXCEPT ![c] = 0] /\ backfill' \in [Conns -> 0 .. BackfillCap]
        /\ task' = [task EXCEPT ![w] = t2] /\ cpc' = [cpc EXCEPT ![c] = p2]
        /\ chan' = chan /\ returned' = returned /\ wired' = wired /\ answered' = answered
        /\ disorder' = disorder /\ UNCHANGED <<readerVars, runnerVars>>
        /\ TaskGoes(w, c, x, f, 0, task[w], t2, p2) /\ t2.at # "claim"
    BY DEF Requeued, taskOnly
  <1>2. /\ attempts' = [r \in Rows |-> IF r \in charged \cap Entries(unsent)
                                       THEN attempts[r] + 1 ELSE attempts[r]]
        /\ abandoned' = abandoned \cup given
        /\ done' = done + Cardinality(given)
        /\ claimed' = [claimed EXCEPT ![w] = x2]
        /\ sent' = [sent EXCEPT ![c] = f]
    <2>1. /\ PutBack(w, c, b, x2, charged \cap Entries(unsent), given)
      BY <1>0 DEF Requeued, Requeue, Unsent
    <2>2. sent' = [sent EXCEPT ![c] = Oldest(sent[c], Len(sent[c]) - b)]
      BY <2>1 DEF PutBack
    <2>3. Oldest(sent[c], Len(sent[c]) - b) = f
      BY <1>0 DEF Flown
    <2>. HIDE DEF x2, given, unsent, f
    <2>. QED
      BY <2>1, <2>2, <2>3 DEF PutBack
  <1>3. /\ y \in Seq(Rows \cup {Backfill}) /\ b \in Nat /\ b <= Len(y) /\ Len(y) <= Depth
        /\ RowsOnce(y) /\ RowsOf(x) \cap RowsOf(y) = {}
        /\ RowsOf(x) \cap Union4(InChannel(chan), RowsOf(returned), answered, abandoned) = {}
        /\ RowsOf(y) \cap Union4(InChannel(chan), RowsOf(returned), answered, abandoned) = {}
    BY <1>0 DEF RowsNow
  <1>4. /\ f \in Seq(Rows \cup {Backfill}) /\ p \in Seq(Rows \cup {Backfill})
        /\ Len(f) = Len(y) - b
        /\ RowsOf(y) = RowsOf(f) \cup RowsOf(p)
        /\ RowsOnce(f) /\ RowsOnce(p) /\ RowsOf(f) \cap RowsOf(p) = {}
        /\ RowsAscend(y) => RowsAscend(f) /\ RowsAscend(p) /\ Before(RowsOf(f), RowsOf(p))
    BY <1>3, FlownFacts
  <1>5. /\ z \in Seq(Rows \cup {Backfill}) /\ x1 \in Seq(Rows)
        /\ RowsOf(x) = RowsOf(z) \cup RowsOf(x1) /\ RowsOf(z) \cap RowsOf(x1) = {}
        /\ RowsOnce(z) /\ RowsOnce(x1)
        /\ RowsAscend(x) => RowsAscend(z) /\ RowsAscend(x1) /\ Before(RowsOf(z), RowsOf(x1))
    BY <1>0 DEF TakenFor
  <1>. HIDE DEF p, f
  <1>6. /\ x2 \in Seq(Rows) /\ Entries(unsent) = U
        /\ RowsOf(x2) = (U \ given) \cup RowsOf(x1)
        /\ /\ RowsOnce(p) /\ RowsOnce(z) /\ RowsOnce(x1)
           /\ RowsOf(p) \cap RowsOf(z) = {} /\ U \cap RowsOf(x1) = {}
           => RowsOnce(x2)
        /\ /\ RowsAscend(p) /\ RowsAscend(z) /\ RowsAscend(x1)
           /\ Before(RowsOf(p), RowsOf(z)) /\ Before(U, RowsOf(x1))
           => RowsAscend(x2)
    <2>. HIDE DEF given
    <2>. QED
      BY <1>4, <1>5, RequeuedRows, Zenon
  <1>7. given \subseteq U /\ given = {r \in U \cap charged : attempts[r] + 1 >= MaxAttempts}
    BY <1>6 DEF GivenUp
  <1>. HIDE DEF given, x2, unsent
  <1>8. /\ RowsOf(p) \cap RowsOf(z) = {} /\ U \cap RowsOf(x1) = {}
        /\ U \cap Union4(InChannel(chan), RowsOf(returned), answered, abandoned) = {}
        /\ U \cap RowsOf(f) = {} /\ U \subseteq Rows /\ RowsOf(f) \subseteq RowsOf(y)
        /\ RowsOf(x1) \subseteq RowsOf(x)
    <2>1. RowsOf(p) \subseteq Rows /\ RowsOf(z) \subseteq Rows
      BY <1>4, <1>5, RowsWide
    <2>. QED
      BY <1>3, <1>4, <1>5, <2>1
  <1>9. RowsOnce(x2)
    BY <1>4, <1>5, <1>6, <1>8
  <1>91. U \cup RowsOf(x1) \cup RowsOf(f) = RowsOf(x) \cup RowsOf(y)
    BY <1>4, <1>5
  <1>. HIDE DEF U
  <1>. DEFINE ab2 == abandoned \cup given
  <1>10. Rowly(chan, returned, answered, abandoned, x, y,
               chan, returned, answered, ab2, x2, f, 0)
    <2>1. 0 \in Nat /\ 0 <= Len(f) /\ Len(f) <= Depth
      <3>1. Len(y) \in Nat /\ Depth \in Nat
        BY <1>3, TraceAssumption
      <3>. QED
        BY <1>3, <1>4, <3>1
    <2>2. ab2 \subseteq Rows
      BY <1>0, <1>7, <1>8 DEF RowsNow
    <2>3. Apart4(InChannel(chan), RowsOf(returned), answered, abandoned)
      BY <1>0 DEF RowsNow
    <2>. DEFINE C == InChannel(chan)
                T == RowsOf(returned)
    <2>. HIDE DEF C, T
    <2>4. /\ U \cap Union4(C, T, answered, abandoned) = {}
          /\ RowsOf(x) \cap Union4(C, T, answered, abandoned) = {}
          /\ RowsOf(y) \cap Union4(C, T, answered, abandoned) = {}
          /\ Apart4(C, T, answered, abandoned)
      BY <1>3, <1>8, <2>3 DEF C, T
    <2>5. Union4(C, T, answered, ab2) \cup RowsOf(x2) \cup RowsOf(f)
            = Union4(C, T, answered, abandoned) \cup RowsOf(x) \cup RowsOf(y)
      <3>1. given \cup (U \ given) = U
        BY <1>7
      <3>. QED
        BY <1>6, <1>91, <3>1 DEF Union4
    <2>6. Apart4(C, T, answered, ab2)
      BY <1>7, <2>4 DEF Apart4, Union4
    <2>7. RowsOf(x2) \cap Union4(C, T, answered, ab2) = {}
      <3>1. RowsOf(x1) \cap given = {} /\ (U \ given) \cap given = {}
        BY <1>7, <1>8
      <3>2. RowsOf(x1) \cap Union4(C, T, answered, abandoned) = {}
        BY <1>8, <2>4
      <3>. QED
        BY <1>6, <2>4, <3>1, <3>2 DEF Union4
    <2>8. RowsOf(f) \cap Union4(C, T, answered, ab2) = {} /\ RowsOf(x2) \cap RowsOf(f) = {}
      <3>1. RowsOf(f) \cap given = {} /\ RowsOf(f) \cap Union4(C, T, answered, abandoned) = {}
        BY <1>7, <1>8, <2>4
      <3>2. RowsOf(x1) \cap RowsOf(f) = {} /\ U \cap RowsOf(f) = {}
        BY <1>3, <1>8
      <3>. QED
        BY <1>6, <3>1, <3>2 DEF Union4
    <2>. QED
      BY <1>0, <1>4, <1>6, <1>9, <2>1, <2>2, <2>5, <2>6, <2>7, <2>8
      DEF Rowly, RowsNow, C, T
  <1>11. Flown(f, 0) = f /\ Newest(f, 0) = <<>>
    <2>1. 0 \in Nat /\ 0 <= Len(f)
      BY <1>4
    <2>. QED
      BY <1>4, <2>1, FlownFacts
  <1>12. WireGoes(y, b, f, 0, wired, answered, abandoned, wired', answered', ab2)
    <2>1. Flown(y, b) = f
      BY DEF f
    <2>. QED
      BY <1>0, <1>1, <1>11, <2>1 DEF WireGoes, ReplayInv, OnWire
  <1>13. Tries(attempts', ab2)
    <2>. DEFINE at2 == attempts'
    <2>1. Tries(attempts, abandoned) /\ U \cap abandoned = {}
      BY <1>0, <1>8 DEF ReplayInv, Union4
    <2>2. at2 = [r \in Rows |-> IF r \in charged \cap U THEN attempts[r] + 1 ELSE attempts[r]]
      BY <1>2, <1>6
    <2>. HIDE DEF at2
    <2>3. Tries(at2, abandoned \cup given)
      BY <1>7, <1>8, <2>1, <2>2, TriesStep
    <2>. QED
      BY <2>3 DEF at2
  <1>14. done' = done + Cardinality((answered' \cup abandoned') \ (answered \cup abandoned))
    <2>1. (answered \cup ab2) \ (answered \cup abandoned) = given
      BY <1>7, <1>8 DEF Union4
    <2>. QED
      BY <1>1, <1>2, <2>1
  <1>15. ASSUME ~disorder
         PROVE  InOrder(w, c, rbatch, chan, sent, buf, chan, returned, x2, f, 0)
    <2>1. OrderNow(w, c, x, y, b)
      BY <1>0, <1>15 DEF ConnNow
    <2>. DEFINE Up == InChannel(chan) \cup RowsOf(rbatch)
    <2>2. /\ returned = <<>> /\ ChannelAscends(chan)
          /\ RowsAscend(x) /\ Before(RowsOf(x), Up)
          /\ RowsAscend(y) /\ Before(RowsOf(y), Up)
          /\ Before(RowsOf(y), RowsOf(x))
          /\ \A d \in Conns : d # c /\ WorkerOf[d] = w =>
               /\ buf[d] = 0 /\ Before(RowsOf(sent[d]), RowsOf(x))
               /\ Before(RowsOf(sent[d]), RowsOf(p))
      BY <2>1 DEF OrderNow, p
    <2>. HIDE DEF Up
    <2>3. /\ RowsAscend(f) /\ RowsAscend(p) /\ Before(RowsOf(f), RowsOf(p))
          /\ RowsAscend(z) /\ RowsAscend(x1) /\ Before(RowsOf(z), RowsOf(x1))
      BY <1>4, <1>5, <2>2
    <2>4. /\ RowsOf(p) \subseteq RowsOf(y) /\ RowsOf(f) \subseteq RowsOf(y)
          /\ RowsOf(z) \subseteq RowsOf(x) /\ RowsOf(x1) \subseteq RowsOf(x)
          /\ \A r \in U : r \in RowsOf(p) \/ r \in RowsOf(z)
          /\ \A r \in RowsOf(x2) : r \in U \/ r \in RowsOf(x1)
      BY <1>4, <1>5, <1>6 DEF U
    <2>5. Before(RowsOf(p), RowsOf(z)) /\ Before(U, RowsOf(x1))
      BY <2>2, <2>3, <2>4 DEF Before
    <2>6. RowsAscend(x2)
      BY <1>6, <2>3, <2>5
    <2>7. Before(RowsOf(x2), Up) /\ Before(RowsOf(f), Up)
      BY <2>2, <2>4 DEF Before
    <2>8. Before(RowsOf(f), RowsOf(x2))
      BY <2>2, <2>3, <2>4 DEF Before
    <2>9. ASSUME NEW d \in Conns, d # c /\ WorkerOf[d] = w
          PROVE  /\ buf[d] = 0 /\ Before(RowsOf(sent[d]), RowsOf(x2))
                 /\ Before(RowsOf(sent[d]), RowsOf(Newest(f, 0)))
      <3>1. /\ buf[d] = 0 /\ Before(RowsOf(sent[d]), RowsOf(x))
            /\ Before(RowsOf(sent[d]), RowsOf(p))
        BY <2>2, <2>9
      <3>2. RowsOf(Newest(f, 0)) = {}
        BY <1>11, NoRows
      <3>. QED
        BY <2>4, <3>1, <3>2 DEF Before
    <2>. QED
      BY <2>2, <2>3, <2>6, <2>7, <2>8, <2>9 DEF InOrder, Up
  <1>16. ConnEffect(c, x2, f, 0, t2, p2)
    BY <1>0, <1>1, <1>2 DEF ConnEffect
  <1>17. TaskGoes(w, c, x2, f, 0, task[w], t2, p2)
    BY <1>1 DEF TaskGoes
  <1>18. ConnShown(c, x2, f, 0, t2, p2)
    <2>1. abandoned' = ab2 /\ answered' = answered
      BY <1>1, <1>2
    <2>2. /\ Rowly(chan, returned, answered, abandoned, claimed[WorkerOf[c]], sent[c],
                   chan', returned', answered', abandoned', x2, f, 0)
          /\ TaskGoes(WorkerOf[c], c, x2, f, 0, task[WorkerOf[c]], t2, p2)
          /\ WireGoes(sent[c], buf[c], f, 0, wired, answered, abandoned,
                      wired', answered', abandoned')
          /\ Tries(attempts', abandoned')
      BY <1>0, <1>1, <1>10, <1>12, <1>13, <1>17, <2>1
    <2>3. ~disorder' => ~disorder /\ InOrder(WorkerOf[c], c, rbatch, chan, sent, buf,
                                             chan', returned', x2, f, 0)
      BY <1>0, <1>1, <1>15
    <2>4. /\ Len(chan') <= ReadAhead /\ disorder' \in BOOLEAN
          /\ answered \cup abandoned \subseteq answered' \cup abandoned'
      BY <1>0, <1>1, <2>1 DEF ReplayInv
    <2>. QED
      BY <1>1, <1>14, <2>2, <2>3, <2>4 DEF ConnShown
  <1>. QED
    BY <1>0, <1>16, <1>18, ConnKeeps

(* A send in the fill loop fails, with the row it was for.                 *)
LEMMA FillFails ==
  ASSUME ReplayInv, NEW c \in Conns, NEW charged,
         Filling(WorkerOf[c], c), HasNext(WorkerOf[c], c),
         Requeue(WorkerOf[c], c, buf[c], <<NextItem(WorkerOf[c], c)>>,
                 RestOfClaimed(WorkerOf[c], c), charged),
         buf' = [buf EXCEPT ![c] = 0], TakeBackfill(c), GoTo(WorkerOf[c], "flush"),
         UNCHANGED <<taskOnly, chan, returned, cpc, wired, answered, disorder>>
  PROVE  StepKeeps
  <1>. DEFINE w == WorkerOf[c]
              x == claimed[w]
              y == sent[c]
              b == buf[c]
              i == NextItem(w, c)
              z == <<i>>
              x1 == RestOfClaimed(w, c)
              t2 == [at |-> "flush", conn |-> c, budget |-> task[w].budget]
  <1>1. /\ At(w, c, "fill") /\ cpc' = cpc
        /\ UNCHANGED <<taskOnly, chan, returned, wired, answered, disorder>>
    BY DEF Filling
  <1>2. /\ task[w].conn = c /\ task[w].conn \in {c, "none"} /\ cpc[c] = "idle" /\ w \in Workers
        /\ task \in [Workers -> TaskType]
    BY <1>1, AtFacts
  <1>3. ConnNow(w, c, x, y, b)
    BY <1>2, ConnFacts
  <1>4. cpc' = [cpc EXCEPT ![c] = "idle"] /\ task' = [task EXCEPT ![w] = t2]
    BY <1>1, <1>2, AtFacts, TaskSteps
  <1>5. t2 \in TaskType
    <2>1. task[w].budget \in 0 .. Batch
      BY <1>2 DEF TaskType
    <2>. QED
      BY <2>1, TaskValues
  <1>6. TaskGoes(w, c, x, Flown(y, b), 0, task[w], t2, "idle")
    BY <1>2, <1>5 DEF TaskGoes
  <1>7. NextFrom(x, i, x1) /\ backfill' \in [Conns -> 0 .. BackfillCap]
    <2>. HIDE DEF x, y, b, w
    <2>1. HasNext(w, c) /\ TakeBackfill(c)
      BY DEF w
    <2>. QED
      BY <1>3, <2>1, NextFacts
  <1>8. TakenFor(x, z, x1)
    <2>. HIDE DEF x, i, x1
    <2>. QED
      BY <1>7, OneRow DEF NextFrom, TakenFor
  <1>9. Requeue(w, c, b, z, x1, charged) /\ t2.at # "claim"
    OBVIOUS
  <1>. HIDE DEF w, x, y, b, z, x1, t2
  <1>10. Requeued(w, c, x, y, b, z, x1, charged, t2, "idle")
    BY <1>1, <1>3, <1>4, <1>6, <1>7, <1>8, <1>9 DEF Requeued
  <1>. QED
    BY <1>10, RequeueKeeps

LEMMA FlushEarlyFailsKeeps ==
  ASSUME ReplayInv, NEW c \in Conns, FlushEarlyFails(WorkerOf[c], c)
  PROVE  StepKeeps
  <1>1. PICK charged : Requeue(WorkerOf[c], c, buf[c], <<NextItem(WorkerOf[c], c)>>,
                               RestOfClaimed(WorkerOf[c], c), charged)
    BY Zenon DEF FlushEarlyFails
  <1>2. /\ Filling(WorkerOf[c], c) /\ HasNext(WorkerOf[c], c)
        /\ buf' = [buf EXCEPT ![c] = 0] /\ TakeBackfill(c) /\ GoTo(WorkerOf[c], "flush")
        /\ UNCHANGED <<taskOnly, chan, returned, cpc, wired, answered, disorder>>
    BY DEF FlushEarlyFails
  <1>. QED
    BY <1>1, <1>2, FillFails

LEMMA FireFailsKeeps ==
  ASSUME ReplayInv, NEW c \in Conns, FireFails(WorkerOf[c], c)
  PROVE  StepKeeps
  <1>1. PICK charged : Requeue(WorkerOf[c], c, buf[c], <<NextItem(WorkerOf[c], c)>>,
                               RestOfClaimed(WorkerOf[c], c), charged)
    BY Zenon DEF FireFails
  <1>2. /\ Filling(WorkerOf[c], c) /\ HasNext(WorkerOf[c], c)
        /\ buf' = [buf EXCEPT ![c] = 0] /\ TakeBackfill(c) /\ GoTo(WorkerOf[c], "flush")
        /\ UNCHANGED <<taskOnly, chan, returned, cpc, wired, answered, disorder>>
    BY DEF FireFails
  <1>. QED
    BY <1>1, <1>2, FillFails

LEMMA FlushFailsKeeps ==
  ASSUME ReplayInv, NEW c \in Conns, FlushFails(WorkerOf[c], c)
  PROVE  StepKeeps
  <1>. DEFINE w == WorkerOf[c]
              x == claimed[w]
              y == sent[c]
              b == buf[c]
              f == Flown(y, b)
              p2 == IF f = <<>> THEN "idle" ELSE "recv"
  <1>1. PICK charged : Requeue(w, c, b, <<>>, x, charged)
    BY Zenon DEF FlushFails
  <1>2. /\ At(w, c, "flush") /\ buf' = [buf EXCEPT ![c] = 0]
        /\ task' = [task EXCEPT ![w] = Free]
        /\ cpc' = [cpc EXCEPT ![c] = IF sent'[c] = <<>> THEN "idle" ELSE "recv"]
        /\ backfill' = backfill
        /\ UNCHANGED <<taskOnly, chan, returned, wired, answered, disorder>>
    BY DEF FlushFails, Await
  <1>3. task[w].conn \in {c, "none"}
    BY <1>2, AtFacts
  <1>4. ConnNow(w, c, x, y, b)
    BY <1>3, ConnFacts
  <1>5. sent'[c] = f
    <2>1. sent' = [sent EXCEPT ![c] = Oldest(sent[c], Len(sent[c]) - b)]
      BY <1>1 DEF Requeue, PutBack
    <2>2. sent \in [Conns -> Seq(Rows \cup {Backfill})]
      BY DEF ReplayInv, ListTypes
    <2>3. sent'[c] = Oldest(sent[c], Len(sent[c]) - b)
      BY <2>1, <2>2
    <2>. QED
      BY <2>3 DEF Flown
  <1>6. cpc' = [cpc EXCEPT ![c] = p2] /\ backfill' \in [Conns -> 0 .. BackfillCap]
    BY <1>2, <1>5 DEF ReplayInv
  <1>7. TaskGoes(w, c, x, f, 0, task[w], Free, p2)
    <2>1. Free \in TaskType
      BY TraceAssumption DEF Free, TaskType
    <2>. HIDE DEF f
    <2>. QED
      BY <1>3, <2>1 DEF TaskGoes, Free
  <1>8. TakenFor(x, <<>>, x)
    <2>1. x \in Seq(Rows) /\ RowsOnce(x)
      BY <1>4 DEF ConnNow, RowsNow
    <2>. HIDE DEF x
    <2>. QED
      BY <2>1, NoRows DEF TakenFor, Before
  <1>9. Free.at # "claim"
    BY DEF Free
  <1>. HIDE DEF w, x, y, b, p2
  <1>10. Requeued(w, c, x, y, b, <<>>, x, charged, Free, p2)
    BY <1>1, <1>2, <1>4, <1>6, <1>7, <1>8, <1>9 DEF Requeued
  <1>. QED
    BY <1>10, RequeueKeeps

-----------------------------------------------------------------------------
(* Replies, and what a failed connection gives up                          *)

(* A connection whose rows are all flushed.                                *)
LEMMA AllFlown ==
  ASSUME NEW y \in Seq(Rows \cup {Backfill})
  PROVE  Flown(y, 0) = y /\ Newest(y, 0) = <<>> /\ RowsOf(Newest(y, 0)) = {}
  <1>1. 0 \in Nat /\ 0 <= Len(y)
    OBVIOUS
  <1>2. Flown(y, 0) = y /\ Newest(y, 0) = <<>>
    BY <1>1, FlownFacts
  <1>. QED
    BY <1>2, NoRows

(* A request is answered: r is its row, or a backfill, and y2 what is left *)
(* of y.                                                                   *)
HeadOf(y, r, y2) ==
  /\ y2 \in Seq(Rows \cup {Backfill}) /\ Len(y2) <= Depth
  /\ RowsOf(<<r>>) = {r} \ {Backfill} /\ RowsOf(<<r>>) \subseteq Rows
  /\ RowsOf(y) = RowsOf(<<r>>) \cup RowsOf(y2) /\ RowsOf(<<r>>) \cap RowsOf(y2) = {}
  /\ RowsOnce(y2)
  /\ RowsAscend(y) => RowsAscend(y2)

LEMMA HeadFacts ==
  ASSUME NEW y \in Seq(Rows \cup {Backfill}), y # <<>>, RowsOnce(y), Len(y) <= Depth
  PROVE  HeadOf(y, Head(y), Tail(y)) /\ Head(y) \in Rows \cup {Backfill}
  <1>. DEFINE K == Rows \cup {Backfill}
              r == Head(y)
              y2 == Tail(y)
  <1>1. y \in Seq(K) /\ y # <<>>
    OBVIOUS
  <1>2. /\ r \in K /\ y2 \in Seq(K) /\ <<r>> \in Seq(K) /\ y = <<r>> \o y2
        /\ Len(y2) = Len(y) - 1 /\ Len(y) \in Nat
    <2>. HIDE DEF K
    <2>. QED
      BY <1>1, ListParts, ListFacts
  <1>3. Len(y2) <= Depth
    BY <1>2, TraceAssumption
  <1>. HIDE DEF r, y2
  <1>4. <<r>> \in Seq(Nat) /\ y2 \in Seq(Nat) /\ RowsOf(<<r>>) \subseteq Rows
    BY <1>2, RowsWide
  <1>5. /\ RowsOf(<<r>> \o y2) = RowsOf(<<r>>) \cup RowsOf(y2)
        /\ RowsOnce(<<r>> \o y2) <=>
             RowsOnce(<<r>>) /\ RowsOnce(y2) /\ RowsOf(<<r>>) \cap RowsOf(y2) = {}
        /\ RowsAscend(<<r>> \o y2) <=>
             RowsAscend(<<r>>) /\ RowsAscend(y2) /\ Before(RowsOf(<<r>>), RowsOf(y2))
    BY <1>4, ConcatRows
  <1>6. RowsOf(<<r>>) = {r} \ {Backfill}
    BY OneRow
  <1>7. HeadOf(y, r, y2)
    BY <1>2, <1>3, <1>4, <1>5, <1>6 DEF HeadOf
  <1>. QED
    BY <1>2, <1>7 DEF r, y2

LEMMA ReplyKeeps ==
  ASSUME ReplayInv, NEW c \in Conns, Reply(c)
  PROVE  StepKeeps
  <1>. DEFINE w == WorkerOf[c]
              x == claimed[w]
              y == sent[c]
              r == Head(y)
              y2 == Tail(y)
              Q == RowsOf(<<r>>)
              t2 == [at |-> "top", conn |-> c, budget |-> 0]
  <1>1. /\ task[w] = Free /\ cpc[c] = "recv" /\ task' = [task EXCEPT ![w] = t2]
        /\ cpc' = [cpc EXCEPT ![c] = "idle"] /\ sent' = [sent EXCEPT ![c] = y2]
        /\ chan' = chan /\ returned' = returned /\ claimed' = claimed /\ buf' = buf
        /\ attempts' = attempts /\ wired' = wired /\ abandoned' = abandoned
        /\ disorder' = disorder /\ UNCHANGED <<readerVars, runnerVars>>
    BY DEF Reply, taskOnly
  <1>2. /\ r = Backfill => done' = done /\ answered' = answered /\ backfill' = backfill
        /\ r # Backfill => /\ done' = done + 1 /\ answered' = answered \cup {r}
                           /\ \/ backfill' = backfill
                              \/ /\ backfill[c] < BackfillCap
                                 /\ backfill' = [backfill EXCEPT ![c] = @ + 1]
    BY DEF Reply
  <1>3. task[w].conn \in {c, "none"}
    BY <1>1, AtFacts
  <1>4. ConnNow(w, c, x, y, buf[c])
    BY <1>3, ConnFacts
  <1>5. w \in Workers /\ RowsNow(x, y, buf[c]) /\ y # <<>>
    BY <1>1, <1>4 DEF ConnNow
  <1>6. buf[c] = 0
    <2>1. ~(buf[c] > 0)
      BY <1>1, <1>4 DEF ConnNow, Free
    <2>2. buf[c] \in Nat
      BY <1>5 DEF RowsNow
    <2>. QED
      BY <2>1, <2>2
  <1>7. ConnNow(w, c, x, y, 0) /\ RowsNow(x, y, 0)
    BY <1>4, <1>5, <1>6
  <1>8. HeadOf(y, r, y2) /\ r \in Rows \cup {Backfill}
    <2>1. y \in Seq(Rows \cup {Backfill}) /\ RowsOnce(y) /\ Len(y) <= Depth
      BY <1>7 DEF RowsNow
    <2>. HIDE DEF y
    <2>. QED
      BY <1>5, <2>1, HeadFacts
  <1>9. /\ claimed \in [Workers -> Seq(Rows)] /\ buf \in [Conns -> Nat]
        /\ backfill \in [Conns -> 0 .. BackfillCap] /\ BackfillCap \in Nat
    BY TraceAssumption DEF ReplayInv, ListTypes
  <1>10. ConnEffect(c, x, y2, 0, t2, "idle")
    <2>1. claimed' = [claimed EXCEPT ![w] = x] /\ buf' = [buf EXCEPT ![c] = 0]
      BY <1>1, <1>5, <1>6, <1>9
    <2>. HIDE DEF x, y2, t2
    <2>. QED
      BY <1>1, <2>1 DEF ConnEffect
  <1>11. backfill' \in [Conns -> 0 .. BackfillCap]
    <2>1. CASE backfill' = backfill
      BY <1>9, <2>1
    <2>2. CASE /\ backfill[c] < BackfillCap
               /\ backfill' = [backfill EXCEPT ![c] = @ + 1]
      <3>1. backfill[c] + 1 \in 0 .. BackfillCap
        BY <1>9, <2>2
      <3>. QED
        BY <1>9, <2>2, <3>1
    <2>. QED
      BY <1>2, <2>1, <2>2
  <1>12. TaskGoes(w, c, x, y2, 0, task[w], t2, "idle")
    <2>1. 0 \in 0 .. Batch
      BY TraceAssumption
    <2>2. t2 \in TaskType
      BY <2>1, TaskValues
    <2>. QED
      BY <1>3, <2>2 DEF TaskGoes
  <1>. HIDE DEF w, x, y, y2, r, t2
  <1>13. answered' = answered \cup Q /\ done' = done + Cardinality(Q)
    <2>1. CASE r = Backfill
      <3>1. Q = {} /\ Cardinality({}) = 0 /\ done \in Nat
        BY <1>8, <2>1, FS_EmptySet, DoneFacts DEF HeadOf
      <3>. QED
        BY <1>2, <2>1, <3>1
    <2>2. CASE r # Backfill
      <3>1. Q = {r}
        BY <1>8, <2>2 DEF HeadOf
      <3>2. Cardinality({r}) = 1
        BY FS_Singleton
      <3>. QED
        BY <1>2, <2>2, <3>1, <3>2
    <2>. QED
      BY <2>1, <2>2
  <1>14. /\ y2 \in Seq(Rows \cup {Backfill}) /\ Len(y2) <= Depth /\ Q \subseteq Rows
         /\ RowsOf(y) = Q \cup RowsOf(y2) /\ Q \cap RowsOf(y2) = {}
         /\ RowsOnce(y2) /\ (RowsAscend(y) => RowsAscend(y2))
    BY <1>8 DEF HeadOf
  <1>. HIDE DEF Q
  <1>. DEFINE an2 == answered \cup Q
              C == InChannel(chan)
              T == RowsOf(returned)
  <1>15. /\ Apart4(C, T, answered, abandoned) /\ RowsOf(x) \cap RowsOf(y) = {}
         /\ RowsOf(x) \cap Union4(C, T, answered, abandoned) = {}
         /\ RowsOf(y) \cap Union4(C, T, answered, abandoned) = {}
         /\ answered \subseteq Rows
    BY <1>7 DEF RowsNow
  <1>16. Rowly(chan, returned, answered, abandoned, x, y,
               chan, returned, an2, abandoned, x, y2, 0)
    <2>. HIDE DEF C, T
    <2>1. Union4(C, T, an2, abandoned) \cup RowsOf(x) \cup RowsOf(y2)
            = Union4(C, T, answered, abandoned) \cup RowsOf(x) \cup RowsOf(y)
      BY <1>14 DEF Union4
    <2>2. Apart4(C, T, an2, abandoned)
      BY <1>14, <1>15 DEF Union4, Apart4
    <2>3. /\ RowsOf(x) \cap Union4(C, T, an2, abandoned) = {}
          /\ RowsOf(y2) \cap Union4(C, T, an2, abandoned) = {}
          /\ RowsOf(x) \cap RowsOf(y2) = {}
      BY <1>14, <1>15 DEF Union4
    <2>4. 0 \in Nat /\ 0 <= Len(y2) /\ an2 \subseteq Rows
      BY <1>14, <1>15
    <2>. QED
      BY <1>7, <1>14, <2>1, <2>2, <2>3, <2>4 DEF Rowly, RowsNow, C, T
  <1>17. y \in Seq(Rows \cup {Backfill})
    BY <1>7 DEF RowsNow
  <1>18. WireGoes(y, 0, y2, 0, wired, answered, abandoned, wired, an2, abandoned)
    <2>1. Flown(y, 0) = y /\ Flown(y2, 0) = y2
      BY <1>14, <1>17, AllFlown
    <2>2. wired \in [Rows -> 0 .. 1]
      BY DEF ReplayInv, OnWire
    <2>. QED
      BY <1>14, <2>1, <2>2 DEF WireGoes
  <1>19. ASSUME ~disorder
         PROVE  InOrder(w, c, rbatch, chan, sent, buf, chan, returned, x, y2, 0)
    <2>1. OrderNow(w, c, x, y, 0)
      BY <1>7, <1>19 DEF ConnNow
    <2>2. RowsOf(y2) \subseteq RowsOf(y) /\ RowsOf(Newest(y2, 0)) = {}
      BY <1>14, AllFlown
    <2>3. \A S : /\ Before(RowsOf(y), S) => Before(RowsOf(y2), S)
                 /\ Before(S, RowsOf(Newest(y2, 0)))
      BY <2>2 DEF Before
    <2>4. RowsAscend(y2)
      BY <1>14, <2>1 DEF OrderNow
    <2>. QED
      BY <2>1, <2>3, <2>4, Zenon DEF OrderNow, InOrder
  <1>20. done' = done + Cardinality((answered' \cup abandoned') \ (answered \cup abandoned))
    <2>1. (an2 \cup abandoned) \ (answered \cup abandoned) = Q
      BY <1>14, <1>15 DEF Union4
    <2>. QED
      BY <1>1, <1>13, <2>1
  <1>21. /\ Len(chan') <= ReadAhead /\ disorder' \in BOOLEAN /\ Tries(attempts', abandoned')
         /\ answered \cup abandoned \subseteq answered' \cup abandoned'
    BY <1>1, <1>13 DEF ReplayInv
  <1>22. w = WorkerOf[c] /\ x = claimed[w] /\ y = sent[c] /\ buf[c] = 0
    BY <1>6 DEF w, x, y
  <1>23. ConnShown(c, x, y2, 0, t2, "idle")
    <2>1. /\ Rowly(chan, returned, answered, abandoned, claimed[WorkerOf[c]], sent[c],
                   chan', returned', answered', abandoned', x, y2, 0)
          /\ TaskGoes(WorkerOf[c], c, x, y2, 0, task[WorkerOf[c]], t2, "idle")
          /\ WireGoes(sent[c], buf[c], y2, 0, wired, answered, abandoned,
                      wired', answered', abandoned')
      BY <1>1, <1>12, <1>13, <1>16, <1>18, <1>22
    <2>2. ~disorder' => ~disorder /\ InOrder(WorkerOf[c], c, rbatch, chan, sent, buf,
                                             chan', returned', x, y2, 0)
      BY <1>1, <1>19, <1>22
    <2>. QED
      BY <1>11, <1>20, <1>21, <2>1, <2>2 DEF ConnShown
  <1>. QED
    BY <1>10, <1>23, ConnKeeps

(* A failed connection keeps y2 of what it sent, and abandons the rows G.  *)
LeftOf(y, G, y2) ==
  /\ y2 \in Seq(Rows \cup {Backfill}) /\ Len(y2) <= Depth
  /\ G \subseteq Rows
  /\ RowsOf(y) = G \cup RowsOf(y2) /\ G \cap RowsOf(y2) = {}
  /\ RowsOnce(y2)
  /\ RowsAscend(y) => RowsAscend(y2)

LEMMA GiveUpFacts ==
  ASSUME NEW c \in Conns, GiveUp(c), sent[c] \in Seq(Rows \cup {Backfill}),
         sent \in [Conns -> Seq(Rows \cup {Backfill})],
         RowsOnce(sent[c]), Len(sent[c]) <= Depth, done \in Nat
  PROVE  \E G, y2 : /\ LeftOf(sent[c], G, y2)
                    /\ done' = done + Cardinality(G) /\ abandoned' = abandoned \cup G
                    /\ sent' = [sent EXCEPT ![c] = y2]
  <1>. DEFINE y == sent[c]
  <1>1. CASE phase = "Stop"
    <2>1. done' = done /\ abandoned' = abandoned /\ sent' = sent
      BY <1>1 DEF GiveUp
    <2>2. RowsOf(y) = {} \cup RowsOf(y)
      OBVIOUS
    <2>3. LeftOf(y, {}, y)
      BY <2>2 DEF LeftOf
    <2>4. done' = done + Cardinality({}) /\ abandoned' = abandoned \cup {}
      BY <2>1, FS_EmptySet
    <2>5. sent' = [sent EXCEPT ![c] = y]
      BY <2>1
    <2>. QED
      BY <2>3, <2>4, <2>5
  <1>2. CASE phase # "Stop"
    <2>. DEFINE s == RowsIn(y)
                K == Rows \cup {Backfill}
    <2>1. K \subseteq Nat /\ K \ {Backfill} \subseteq Rows /\ Depth \in Nat
      BY TraceAssumption DEF Rows, Backfill
    <2>2. y \in Seq(K)
      OBVIOUS
    <2>3. s \in Seq(Rows) /\ RowsOf(s) = RowsOf(y)
      <3>. HIDE DEF K, y
      <3>1. s \in Seq(K \ {Backfill}) /\ RowsOf(s) = RowsOf(y)
        BY <2>1, <2>2, RowsInFacts
      <3>2. s \in Seq(Rows)
        BY <2>1, <3>1, WiderSeq
      <3>. QED
        BY <3>1, <3>2
    <2>4. Entries(s) = RowsOf(y) /\ RowsOf(y) \subseteq Rows
      <3>. HIDE DEF s
      <3>. QED
        BY <2>3, PlainRows
    <2>5. /\ done' = done + Cardinality(RowsOf(y)) /\ abandoned' = abandoned \cup RowsOf(y)
          /\ sent' = [sent EXCEPT ![c] = <<>>]
      BY <1>2, <2>4 DEF GiveUp
    <2>6. <<>> \in Seq(Rows \cup {Backfill}) /\ Len(<<>>) <= Depth
      BY <2>1
    <2>7. LeftOf(y, RowsOf(y), <<>>)
      BY <2>4, <2>6, NoRows DEF LeftOf
    <2>. QED
      BY <2>5, <2>7
  <1>. QED
    BY <1>1, <1>2

LEMMA ConnFailsKeeps ==
  ASSUME ReplayInv, NEW c \in Conns, ConnFails(c)
  PROVE  StepKeeps
  <1>. DEFINE w == WorkerOf[c]
              x == claimed[w]
              y == sent[c]
              rt2 == x \o returned
  <1>1. /\ task[w] = Free \/ At(w, c, "top")
        /\ cpc' = [cpc EXCEPT ![c] = "down"] /\ task' = [task EXCEPT ![w] = Free]
        /\ GiveUp(c) /\ backfill' = [backfill EXCEPT ![c] = 0]
        /\ returned' = rt2 /\ claimed' = [claimed EXCEPT ![w] = <<>>]
        /\ disorder' = (disorder \/ x # <<>>)
        /\ chan' = chan /\ buf' = buf /\ attempts' = attempts /\ wired' = wired
        /\ answered' = answered /\ UNCHANGED <<readerVars, runnerVars>>
    BY DEF ConnFails, ReturnClaimed, taskOnly
  <1>2. task[w].conn \in {c, "none"} /\ task[w].at \in {"top", "free"}
    <2>1. CASE task[w] = Free
      BY <2>1 DEF Free
    <2>2. CASE At(w, c, "top")
      BY <2>2 DEF At
    <2>. QED
      BY <1>1, <2>1, <2>2
  <1>3. ConnNow(w, c, x, y, buf[c])
    BY <1>2, ConnFacts
  <1>4. w \in Workers /\ RowsNow(x, y, buf[c])
    BY <1>3 DEF ConnNow
  <1>5. buf[c] = 0
    <2>1. ~(buf[c] > 0)
      BY <1>2, <1>3 DEF ConnNow
    <2>2. buf[c] \in Nat
      BY <1>4 DEF RowsNow
    <2>. QED
      BY <2>1, <2>2
  <1>6. ConnNow(w, c, x, y, 0) /\ RowsNow(x, y, 0)
    BY <1>3, <1>4, <1>5
  <1>7. /\ buf \in [Conns -> Nat] /\ sent \in [Conns -> Seq(Rows \cup {Backfill})]
        /\ backfill \in [Conns -> 0 .. BackfillCap] /\ 0 \in 0 .. BackfillCap
        /\ disorder \in BOOLEAN
    BY TraceAssumption DEF ReplayInv, ListTypes
  <1>8. PICK G, y2 : /\ LeftOf(y, G, y2)
                     /\ done' = done + Cardinality(G) /\ abandoned' = abandoned \cup G
                     /\ sent' = [sent EXCEPT ![c] = y2]
    <2>1. y \in Seq(Rows \cup {Backfill}) /\ RowsOnce(y) /\ Len(y) <= Depth /\ done \in Nat
      BY <1>6, DoneFacts DEF RowsNow
    <2>. QED
      BY <1>1, <1>7, <2>1, GiveUpFacts
  <1>9. ConnEffect(c, <<>>, y2, 0, Free, "down")
    <2>1. buf' = [buf EXCEPT ![c] = 0]
      BY <1>1, <1>5, <1>7
    <2>. QED
      BY <1>1, <1>8, <2>1 DEF ConnEffect
  <1>10. backfill' \in [Conns -> 0 .. BackfillCap] /\ disorder' \in BOOLEAN
    BY <1>1, <1>7
  <1>11. TaskGoes(w, c, <<>>, y2, 0, task[w], Free, "down")
    <2>1. Free \in TaskType
      BY TraceAssumption DEF Free, TaskType
    <2>. QED
      BY <1>2, <2>1 DEF TaskGoes, Free
  <1>. HIDE DEF w, x, y
  <1>12. /\ y2 \in Seq(Rows \cup {Backfill}) /\ Len(y2) <= Depth /\ G \subseteq Rows
         /\ RowsOf(y) = G \cup RowsOf(y2) /\ G \cap RowsOf(y2) = {}
         /\ RowsOnce(y2) /\ (RowsAscend(y) => RowsAscend(y2))
    BY <1>8 DEF LeftOf
  <1>. DEFINE ab2 == abandoned \cup G
              C == InChannel(chan)
              T == RowsOf(returned)
              T2 == RowsOf(rt2)
  <1>13. /\ Apart4(C, T, answered, abandoned) /\ RowsOf(x) \cap RowsOf(y) = {}
         /\ RowsOf(x) \cap Union4(C, T, answered, abandoned) = {}
         /\ RowsOf(y) \cap Union4(C, T, answered, abandoned) = {}
         /\ abandoned \subseteq Rows /\ x \in Seq(Rows) /\ returned \in Seq(Rows)
         /\ RowsOnce(x) /\ RowsOnce(returned)
    BY <1>6 DEF RowsNow
  <1>14. rt2 \in Seq(Rows) /\ T2 = RowsOf(x) \cup T /\ RowsOnce(rt2)
    <2>1. x \in Seq(Nat) /\ returned \in Seq(Nat)
      BY <1>13, PlainRows
    <2>2. /\ T2 = RowsOf(x) \cup T
          /\ RowsOnce(rt2) <=> RowsOnce(x) /\ RowsOnce(returned) /\ RowsOf(x) \cap T = {}
      BY <2>1, ConcatRows
    <2>3. rt2 \in Seq(Rows)
      BY <1>13
    <2>4. RowsOf(x) \cap T = {}
      BY <1>13 DEF Union4
    <2>. QED
      BY <1>13, <2>2, <2>3, <2>4
  <1>. HIDE DEF rt2
  <1>15. Rowly(chan, returned, answered, abandoned, x, y,
               chan, rt2, answered, ab2, <<>>, y2, 0)
    <2>. HIDE DEF C, T, T2
    <2>1. Union4(C, T2, answered, ab2) \cup {} \cup RowsOf(y2)
            = Union4(C, T, answered, abandoned) \cup RowsOf(x) \cup RowsOf(y)
      BY <1>12, <1>14 DEF Union4
    <2>2. Apart4(C, T2, answered, ab2)
      BY <1>12, <1>13, <1>14 DEF Union4, Apart4
    <2>3. /\ {} \cap Union4(C, T2, answered, ab2) = {}
          /\ RowsOf(y2) \cap Union4(C, T2, answered, ab2) = {}
          /\ {} \cap RowsOf(y2) = {}
      BY <1>12, <1>13, <1>14 DEF Union4
    <2>4. 0 \in Nat /\ 0 <= Len(y2) /\ ab2 \subseteq Rows /\ <<>> \in Seq(Rows)
      BY <1>12, <1>13
    <2>. QED
      BY <1>6, <1>12, <1>14, <2>1, <2>2, <2>3, <2>4, NoRows DEF Rowly, RowsNow, C, T, T2
  <1>16. y \in Seq(Rows \cup {Backfill})
    BY <1>6 DEF RowsNow
  <1>17. WireGoes(y, 0, y2, 0, wired, answered, abandoned, wired, answered, ab2)
    <2>1. Flown(y, 0) = y /\ Flown(y2, 0) = y2
      BY <1>12, <1>16, AllFlown
    <2>2. wired \in [Rows -> 0 .. 1]
      BY DEF ReplayInv, OnWire
    <2>. QED
      BY <1>12, <2>1, <2>2 DEF WireGoes
  <1>18. ASSUME ~disorder, x = <<>>
         PROVE  InOrder(w, c, rbatch, chan, sent, buf, chan, rt2, <<>>, y2, 0)
    <2>1. OrderNow(w, c, x, y, 0)
      BY <1>6, <1>18 DEF ConnNow
    <2>2. /\ RowsOf(y2) \subseteq RowsOf(y) /\ RowsOf(Newest(y2, 0)) = {}
          /\ RowsOf(<<>>) = {} /\ RowsAscend(<<>>)
      BY <1>12, AllFlown, NoRows
    <2>3. \A S : /\ Before(RowsOf(y), S) => Before(RowsOf(y2), S)
                 /\ Before(S, RowsOf(Newest(y2, 0)))
                 /\ Before(RowsOf(<<>>), S) /\ Before(S, RowsOf(<<>>))
      BY <2>2 DEF Before
    <2>4. RowsAscend(y2)
      BY <1>12, <2>1 DEF OrderNow
    <2>5. rt2 = <<>>
      <3>1. returned = <<>>
        BY <2>1 DEF OrderNow
      <3>. QED
        BY <1>18, <3>1 DEF rt2
    <2>. QED
      BY <2>1, <2>2, <2>3, <2>4, <2>5, Zenon DEF OrderNow, InOrder
  <1>19. done' = done + Cardinality((answered' \cup abandoned') \ (answered \cup abandoned))
    <2>1. (answered \cup ab2) \ (answered \cup abandoned) = G
      BY <1>12, <1>13 DEF Union4
    <2>. QED
      BY <1>1, <1>8, <2>1
  <1>20. /\ Len(chan') <= ReadAhead /\ Tries(attempts', abandoned')
         /\ answered \cup abandoned \subseteq answered' \cup abandoned'
    <2>1. Tries(attempts, abandoned) /\ Len(chan) <= ReadAhead
      BY DEF ReplayInv
    <2>2. Tries(attempts, ab2)
      BY <2>1 DEF Tries
    <2>. QED
      BY <1>1, <1>8, <2>1, <2>2
  <1>21. w = WorkerOf[c] /\ x = claimed[w] /\ y = sent[c] /\ buf[c] = 0
    BY <1>5 DEF w, x, y
  <1>22. ConnShown(c, <<>>, y2, 0, Free, "down")
    <2>1. /\ Rowly(chan, returned, answered, abandoned, claimed[WorkerOf[c]], sent[c],
                   chan', returned', answered', abandoned', <<>>, y2, 0)
          /\ TaskGoes(WorkerOf[c], c, <<>>, y2, 0, task[WorkerOf[c]], Free, "down")
          /\ WireGoes(sent[c], buf[c], y2, 0, wired, answered, abandoned,
                      wired', answered', abandoned')
      BY <1>1, <1>8, <1>11, <1>15, <1>17, <1>21
    <2>2. ~disorder' => ~disorder /\ InOrder(WorkerOf[c], c, rbatch, chan, sent, buf,
                                             chan', returned', <<>>, y2, 0)
      BY <1>1, <1>18, <1>21
    <2>. QED
      BY <1>10, <1>19, <1>20, <2>1, <2>2 DEF ConnShown
  <1>. QED
    BY <1>9, <1>22, ConnKeeps

-----------------------------------------------------------------------------
(* Steps of the reader and of the runner                                   *)

(* Such a step leaves the workers, the connections and the counts of rows  *)
(* alone; rb2 and ch2 are the reader's batch and the channel after it.     *)
ThreadStep(rb2, ch2) ==
  /\ ReplayInv /\ rbatch' = rb2 /\ chan' = ch2
  /\ UNCHANGED <<returned, claimed, task, cpc, connVars, rowVars, disorder>>
  /\ RunTypes' /\ Len(ch2) <= ReadAhead
  /\ rb2 \in Seq(Rows) /\ ch2 \in Seq(Seq(Rows))
  /\ Books(rb2, ch2, returned, answered, abandoned, claimed, sent)
  /\ RowsOnce(rb2) /\ ChannelOnce(ch2)
  /\ TakenUp \subseteq Taken(rb2, ch2, returned, answered, abandoned, claimed, sent)
  /\ Counts(Taken(rb2, ch2, returned, answered, abandoned, claimed, sent),
            answered \cup abandoned, RowsOf(rb2), next', rd', done, counted')
  /\ Watched(Taken(rb2, ch2, returned, answered, abandoned, claimed, sent),
             answered \cup abandoned, rd', done, watch', seenDone', finished')
  /\ ~disorder => Order(rb2, ch2, returned, claimed, sent, buf)

LEMMA ThreadKeeps ==
  ASSUME NEW rb2, NEW ch2, ThreadStep(rb2, ch2)
  PROVE  StepKeeps
  <1>1. /\ returned' = returned /\ claimed' = claimed /\ task' = task /\ cpc' = cpc
        /\ sent' = sent /\ buf' = buf /\ backfill' = backfill /\ attempts' = attempts
        /\ wired' = wired /\ answered' = answered /\ abandoned' = abandoned /\ done' = done
        /\ disorder' = disorder /\ rbatch' = rb2 /\ chan' = ch2
    BY DEF ThreadStep, connVars, rowVars
  <1>2. TakenUp' = Taken(rb2, ch2, returned, answered, abandoned, claimed, sent)
    BY <1>1 DEF TakenUp
  <1>3. /\ OnWire(wired', answered', abandoned', sent', buf') /\ Tries(attempts', abandoned')
        /\ Tasks(task', cpc', claimed', sent', buf')
        /\ disorder' \in BOOLEAN /\ backfill' \in [Conns -> 0 .. BackfillCap]
    BY <1>1 DEF ThreadStep, ReplayInv
  <1>4. /\ RunTypes' /\ Len(chan') <= ReadAhead
        /\ Books(rbatch', chan', returned', answered', abandoned', claimed', sent')
        /\ Counts(TakenUp', answered' \cup abandoned', RowsOf(rbatch'), next', rd', done', counted')
        /\ Watched(TakenUp', answered' \cup abandoned', rd', done', watch', seenDone', finished')
        /\ ~disorder' => Order(rbatch', chan', returned', claimed', sent', buf')
    BY <1>1, <1>2 DEF ThreadStep
  <1>5. ListTypes(rbatch', chan', returned', answered', abandoned', claimed', sent', buf')
    BY <1>1 DEF ThreadStep, ReplayInv, ListTypes
  <1>6. Once(rbatch', chan', returned', claimed', sent')
    BY <1>1 DEF ThreadStep, ReplayInv, Once
  <1>7. ReplayInv'
    BY <1>3, <1>4, <1>5, <1>6 DEF ReplayInv
  <1>8. TakenUp \subseteq TakenUp'
    BY <1>2 DEF ThreadStep
  <1>. QED
    BY <1>7, <1>8 DEF StepKeeps

(* A step that leaves the batch and the channel alone too.                 *)
LEMMA AsideKeeps ==
  ASSUME ReplayInv, RunTypes',
         UNCHANGED <<rbatch, chan, returned, claimed, task, cpc, connVars, rowVars, disorder>>,
         Counts(TakenUp, answered \cup abandoned, RowsOf(rbatch), next', rd', done, counted'),
         Watched(TakenUp, answered \cup abandoned, rd', done, watch', seenDone', finished')
  PROVE  StepKeeps
  <1>1. /\ rbatch' = rbatch /\ chan' = chan
        /\ UNCHANGED <<returned, claimed, task, cpc, connVars, rowVars, disorder>>
    OBVIOUS
  <1>2. TakenUp = Taken(rbatch, chan, returned, answered, abandoned, claimed, sent)
    BY DEF TakenUp
  <1>3. /\ Len(chan) <= ReadAhead
        /\ Books(rbatch, chan, returned, answered, abandoned, claimed, sent)
        /\ ~disorder => Order(rbatch, chan, returned, claimed, sent, buf)
    BY DEF ReplayInv
  <1>4. /\ rbatch \in Seq(Rows) /\ chan \in Seq(Seq(Rows)) /\ RowsOnce(rbatch) /\ ChannelOnce(chan)
    BY DEF ReplayInv, ListTypes, Once
  <1>5. ThreadStep(rbatch, chan)
    BY <1>1, <1>2, <1>3, <1>4 DEF ThreadStep
  <1>. QED
    BY <1>5, ThreadKeeps

(* The counts are numbers of rows.                                         *)
LEMMA TakenFacts ==
  ASSUME ReplayInv
  PROVE  /\ TakenUp \subseteq Rows /\ IsFiniteSet(TakenUp)
         /\ RowsOf(rbatch) \subseteq TakenUp /\ answered \cup abandoned \subseteq TakenUp
         /\ IsFiniteSet(RowsOf(rbatch)) /\ Cardinality(RowsOf(rbatch)) = Len(rbatch)
         /\ done \in Nat /\ counted \in 0 .. NRows
  <1>1. TakenUp \subseteq Rows
    BY DEF TakenUp, Taken, All
  <1>2. /\ rbatch \in Seq(Rows) /\ RowsOnce(rbatch)
        /\ answered \subseteq Rows /\ abandoned \subseteq Rows
    BY DEF ReplayInv, ListTypes, Once
  <1>3. /\ RowsOf(rbatch) \subseteq Rows
        /\ IsFiniteSet(RowsOf(rbatch)) /\ Cardinality(RowsOf(rbatch)) = Len(rbatch)
    BY <1>2, PlainRows
  <1>4. RowsOf(rbatch) \subseteq TakenUp /\ answered \cup abandoned \subseteq TakenUp
    <2>. DEFINE R == RowsOf(rbatch)
    <2>. HIDE DEF R
    <2>1. R \subseteq Rows /\ TakenUp = All(R, InChannel(chan), RowsOf(returned), answered,
                           abandoned, HeldBy(claimed, Workers), HeldBy(sent, Conns))
      BY <1>3 DEF TakenUp, Taken, R
    <2>. QED
      BY <1>2, <2>1 DEF All, Union4, R
  <1>5. IsFiniteSet(TakenUp)
    BY <1>1, RowsFinite, FS_Subset
  <1>6. counted \in 0 .. NRows
    <2>. DEFINE S == IF rd = "send" THEN TakenUp ELSE TakenUp \ RowsOf(rbatch)
    <2>1. counted = Cardinality(S) /\ S \subseteq Rows
      BY <1>1 DEF ReplayInv, Counts
    <2>. HIDE DEF S
    <2>2. IsFiniteSet(S) /\ Cardinality(S) \in Nat /\ Cardinality(S) <= Cardinality(Rows)
      BY <2>1, RowsFinite, FS_Subset, FS_CardinalityType
    <2>3. Cardinality(Rows) = NRows
      BY TraceAssumption, FS_Interval DEF Rows
    <2>. QED
      BY <2>1, <2>2, <2>3, TraceAssumption
  <1>. QED
    BY <1>1, <1>3, <1>4, <1>5, <1>6, DoneFacts

(* While the reader reads or sends, the runner has not found it stopped.   *)
LEMMA StillReading ==
  ASSUME ReplayInv, rd \in {"read", "send"}
  PROVE  /\ watch = "idle" /\ finished = FALSE
         /\ \A K, D, rs, dn : Watched(K, D, rs, dn, watch, seenDone, finished)
  <1>1. watch = "idle" /\ finished = FALSE
    BY DEF ReplayInv, Watched, RunTypes
  <1>2. \A K, D, rs, dn : Watched(K, D, rs, dn, "idle", seenDone, FALSE)
    BY DEF Watched
  <1>. QED
    BY <1>1, <1>2

LEMMA FreshRow ==
  ASSUME NEW R, NEW C, NEW T, NEW A, NEW B, NEW L, NEW S, NEW n \in Rows,
         Apart(R, C, T, A, B, L, S), n \notin All(R, C, T, A, B, L, S)
  PROVE  /\ Apart(R \cup {n}, C, T, A, B, L, S)
         /\ All(R \cup {n}, C, T, A, B, L, S) = All(R, C, T, A, B, L, S) \cup {n}
         /\ n \notin R
  <1>. DEFINE U == Union4(C, T, A, B)
  <1>1. /\ n \notin R /\ n \notin U /\ \A w \in Workers : n \notin L[w]
        /\ \A c \in Conns : n \notin S[c]
    BY DEF All
  <1>. HIDE DEF U
  <1>2. /\ Apart4(C, T, A, B)
        /\ R \cap U = {}
        /\ \A w \in Workers : L[w] \cap U = {} /\ L[w] \cap R = {}
        /\ \A c \in Conns : S[c] \cap U = {} /\ S[c] \cap R = {}
        /\ \A w \in Workers, c \in Conns : L[w] \cap S[c] = {}
        /\ \A w, v \in Workers : w # v => L[w] \cap L[v] = {}
        /\ \A c, d \in Conns : c # d => S[c] \cap S[d] = {}
    BY Zenon DEF Apart, U
  <1>3. /\ (R \cup {n}) \cap U = {}
        /\ \A w \in Workers : L[w] \cap (R \cup {n}) = {}
        /\ \A c \in Conns : S[c] \cap (R \cup {n}) = {}
    BY <1>1, <1>2
  <1>4. Apart(R \cup {n}, C, T, A, B, L, S)
    BY <1>2, <1>3, Zenon DEF Apart, U
  <1>5. All(R \cup {n}, C, T, A, B, L, S) = All(R, C, T, A, B, L, S) \cup {n}
    BY DEF All
  <1>. QED
    BY <1>1, <1>4, <1>5

(* What the lists hold is among the rows taken up.                         *)
LEMMA HeldTaken ==
  ASSUME ReplayInv
  PROVE  /\ InChannel(chan) \subseteq TakenUp
         /\ \A w \in Workers : RowsOf(claimed[w]) \subseteq TakenUp
         /\ \A c \in Conns : RowsOf(sent[c]) \subseteq TakenUp
  <1>1. /\ claimed \in [Workers -> Seq(Rows)] /\ sent \in [Conns -> Seq(Rows \cup {Backfill})]
    BY DEF ReplayInv, ListTypes
  <1>. DEFINE C == InChannel(chan)
              L == HeldBy(claimed, Workers)
              S == HeldBy(sent, Conns)
  <1>2. TakenUp = All(RowsOf(rbatch), C, RowsOf(returned), answered, abandoned, L, S)
    BY DEF TakenUp, Taken
  <1>3. C \subseteq Rows
    BY DEF InChannel
  <1>4. \A w \in Workers : L[w] = RowsOf(claimed[w]) /\ L[w] \subseteq Rows
    BY <1>1, PlainRows DEF HeldBy
  <1>5. \A c \in Conns : S[c] = RowsOf(sent[c]) /\ S[c] \subseteq Rows
    BY <1>1, RowsWide DEF HeldBy
  <1>. HIDE DEF C, L, S
  <1>6. C \subseteq TakenUp
    BY <1>2, <1>3 DEF All, Union4
  <1>7. \A w \in Workers : L[w] \subseteq TakenUp
    BY <1>2, <1>4 DEF All
  <1>8. \A c \in Conns : S[c] \subseteq TakenUp
    BY <1>2, <1>5 DEF All
  <1>. QED
    BY <1>4, <1>5, <1>6, <1>7, <1>8 DEF C

LEMMA ReadRowKeeps ==
  ASSUME ReplayInv, ReadRow
  PROVE  StepKeeps
  <1>. DEFINE n == next
              R == RowsOf(rbatch)
              D == answered \cup abandoned
              K == TakenUp
  <1>1. /\ rd = "read" /\ n <= NRows /\ Len(rbatch) < ClaimBatch /\ next' = n + 1
        /\ eof' = eof /\ err' = err /\ rd' = rd /\ counted' = counted /\ chan' = chan
        /\ phase' = phase /\ watch' = watch /\ seenDone' = seenDone /\ finished' = finished
        /\ UNCHANGED <<returned, claimed, task, cpc, connVars, rowVars, disorder>>
    BY DEF ReadRow, readerOnly, runnerVars
  <1>2. /\ n \in 1 .. (NRows + 1) /\ NRows \in Nat /\ ClaimBatch \in Nat
        /\ rbatch \in Seq(Rows) /\ RowsOnce(rbatch)
    BY TraceAssumption DEF ReplayInv, RunTypes, ListTypes, Once
  <1>3. n \in Rows /\ n + 1 \in 1 .. (NRows + 1) /\ n \in Nat
    BY <1>1, <1>2 DEF Rows
  <1>4. /\ K \subseteq 1 .. n - 1 /\ done = Cardinality(D) /\ counted = Cardinality(K \ R)
    BY <1>1 DEF ReplayInv, Counts
  <1>5. \A j : j \in 1 .. n - 1 => j \in 1 .. (n + 1) - 1 /\ j < n
    BY <1>3
  <1>6. CASE rbatch' = rbatch
    <2>1. RunTypes'
      BY <1>1, <1>3, <1>6 DEF RunTypes, ReplayInv
    <2>2. Counts(K, D, R, next', rd', done, counted')
      BY <1>1, <1>4, <1>5 DEF Counts
    <2>3. Watched(K, D, rd', done, watch', seenDone', finished')
      BY <1>1, StillReading
    <2>4. UNCHANGED <<rbatch, chan, returned, claimed, task, cpc, connVars, rowVars, disorder>>
      BY <1>1, <1>6
    <2>. QED
      BY <2>1, <2>2, <2>3, <2>4, AsideKeeps
  <1>7. CASE rbatch' = Append(rbatch, n)
    <2>. DEFINE rb2 == Append(rbatch, n)
                K2 == Taken(rb2, chan, returned, answered, abandoned, claimed, sent)
    <2>1. rb2 \in Seq(Rows) /\ rb2 = rbatch \o <<n>> /\ Len(rb2) = Len(rbatch) + 1
      BY <1>2, <1>3, ListParts
    <2>2. /\ RowsOf(<<n>>) = {n} /\ RowsOnce(<<n>>) /\ RowsAscend(<<n>>) /\ <<n>> \in Seq(Nat)
          /\ rbatch \in Seq(Nat)
      <3>1. n # Backfill
        BY <1>3 DEF Rows, Backfill
      <3>. QED
        BY <1>2, <1>3, <3>1, OneRow, PlainRows
    <2>3. /\ RowsOf(rb2) = R \cup {n}
          /\ RowsOnce(rb2) <=> RowsOnce(rbatch) /\ R \cap {n} = {}
          /\ RowsAscend(rb2) <=> RowsAscend(rbatch) /\ Before(R, {n})
      <3>1. /\ RowsOf(rbatch \o <<n>>) = RowsOf(rbatch) \cup RowsOf(<<n>>)
            /\ RowsOnce(rbatch \o <<n>>) <=> RowsOnce(rbatch) /\ RowsOnce(<<n>>)
                                              /\ RowsOf(rbatch) \cap RowsOf(<<n>>) = {}
            /\ RowsAscend(rbatch \o <<n>>) <=> RowsAscend(rbatch) /\ RowsAscend(<<n>>)
                                              /\ Before(RowsOf(rbatch), RowsOf(<<n>>))
        BY <2>2, ConcatRows
      <3>. QED
        BY <2>1, <2>2, <3>1
    <2>. HIDE DEF rb2
    <2>4. n \notin K
      BY <1>4, <1>5, <1>3
    <2>5. /\ Books(rb2, chan, returned, answered, abandoned, claimed, sent)
          /\ K2 = K \cup {n} /\ n \notin R
      <3>. DEFINE C == InChannel(chan)
                  T == RowsOf(returned)
                  L == HeldBy(claimed, Workers)
                  S == HeldBy(sent, Conns)
      <3>1. Apart(R, C, T, answered, abandoned, L, S)
        BY DEF ReplayInv, Books
      <3>2. K = All(R, C, T, answered, abandoned, L, S)
        BY DEF TakenUp, Taken
      <3>. HIDE DEF n, R, C, T, L, S, K
      <3>3. /\ Apart(R \cup {n}, C, T, answered, abandoned, L, S)
            /\ All(R \cup {n}, C, T, answered, abandoned, L, S) = K \cup {n}
            /\ n \notin R
        <4>1. n \in Rows /\ n \notin All(R, C, T, answered, abandoned, L, S)
          BY <1>3, <2>4, <3>2
        <4>. QED
          BY <3>1, <3>2, <4>1, FreshRow
      <3>. QED
        BY <2>3, <3>3 DEF Books, Taken, C, T, L, S
    <2>6. RunTypes' /\ Len(chan) <= ReadAhead
      <3>1. Len(rb2) <= ClaimBatch
        BY <1>1, <1>2, <2>1
      <3>. QED
        BY <1>1, <1>3, <1>7, <3>1 DEF RunTypes, ReplayInv, rb2
    <2>7. Counts(K2, D, RowsOf(rb2), next', rd', done, counted')
      <3>1. K2 \subseteq 1 .. (n + 1) - 1
        <4>1. n \in 1 .. (n + 1) - 1
          BY <1>2, <1>3
        <4>. HIDE DEF K, K2, n
        <4>. QED
          BY <1>4, <1>5, <2>5, <4>1
      <3>2. K2 \ RowsOf(rb2) = K \ R
        BY <2>3, <2>4, <2>5
      <3>. QED
        BY <1>1, <1>4, <3>1, <3>2 DEF Counts
    <2>8. Watched(K2, D, rd', done, watch', seenDone', finished')
      BY <1>1, StillReading
    <2>9. \A S : S \subseteq K => Before(S, {n})
      BY <1>4, <1>5 DEF Before
    <2>10. ASSUME ~disorder
           PROVE  Order(rb2, chan, returned, claimed, sent, buf)
      <3>. DEFINE C == InChannel(chan)
                  C2 == C \cup RowsOf(rb2)
      <3>1. /\ returned = <<>> /\ RowsAscend(rbatch) /\ ChannelAscends(chan)
            /\ Before(C, R)
            /\ \A w \in Workers : RowsAscend(claimed[w]) /\ Before(RowsOf(claimed[w]), C \cup R)
            /\ \A c \in Conns : /\ RowsAscend(sent[c]) /\ Before(RowsOf(sent[c]), C \cup R)
                                /\ Before(RowsOf(sent[c]), RowsOf(claimed[WorkerOf[c]]))
            /\ \A c, d \in Conns : WorkerOf[c] = WorkerOf[d] =>
                 Before(RowsOf(Flown(sent[d], buf[d])), RowsOf(Newest(sent[c], buf[c])))
        BY <2>10 DEF ReplayInv, Order
      <3>2. \A S : Before(S, C \cup R) /\ Before(S, {n}) => Before(S, C2)
        BY <2>3 DEF Before
      <3>3. Before(R, {n}) /\ Before(C, {n})
        BY <2>9, HeldTaken, TakenFacts
      <3>4. \A w \in Workers : Before(RowsOf(claimed[w]), C2)
        BY <2>9, <3>1, <3>2, HeldTaken, Zenon
      <3>5. \A c \in Conns : Before(RowsOf(sent[c]), C2)
        BY <2>9, <3>1, <3>2, HeldTaken, Zenon
      <3>6. Before(C, RowsOf(rb2)) /\ RowsAscend(rb2)
        BY <2>3, <3>1, <3>3 DEF Before
      <3>. QED
        BY <3>1, <3>4, <3>5, <3>6, Zenon DEF Order
    <2>11. /\ chan \in Seq(Seq(Rows)) /\ ChannelOnce(chan) /\ RowsOnce(rb2) /\ K \subseteq K2
      BY <1>2, <2>3, <2>5 DEF ReplayInv, ListTypes, Once
    <2>12. rbatch' = rb2
      BY <1>7 DEF rb2
    <2>13. ThreadStep(rb2, chan)
      BY <1>1, <2>1, <2>5, <2>6, <2>7, <2>8, <2>10, <2>11, <2>12 DEF ThreadStep
    <2>. QED
      BY <2>13, ThreadKeeps
  <1>. QED
    BY <1>6, <1>7 DEF ReadRow

LEMMA ReadEndsKeeps ==
  ASSUME ReplayInv, ReadEnds
  PROVE  StepKeeps
  <1>1. /\ rd = "read" /\ eof' = TRUE /\ err' \in {err, TRUE}
        /\ next' = next /\ rbatch' = rbatch /\ rd' = rd /\ counted' = counted
        /\ phase' = phase /\ watch' = watch /\ seenDone' = seenDone /\ finished' = finished
        /\ UNCHANGED <<rbatch, chan, returned, claimed, task, cpc, connVars, rowVars, disorder>>
    BY DEF ReadEnds, readerOnly, runnerVars
  <1>2. RunTypes'
    BY <1>1 DEF RunTypes, ReplayInv
  <1>3. /\ Counts(TakenUp, answered \cup abandoned, RowsOf(rbatch), next', rd', done, counted')
        /\ Watched(TakenUp, answered \cup abandoned, rd', done, watch', seenDone', finished')
    BY <1>1 DEF ReplayInv
  <1>. QED
    BY <1>1, <1>2, <1>3, AsideKeeps

LEMMA CountBatchKeeps ==
  ASSUME ReplayInv, CountBatch
  PROVE  StepKeeps
  <1>. DEFINE K == TakenUp
              R == RowsOf(rbatch)
              D == answered \cup abandoned
  <1>1. /\ rd = "read" /\ rd' = "send" /\ counted' = counted + Len(rbatch)
        /\ next' = next /\ rbatch' = rbatch /\ eof' = eof /\ err' = err
        /\ phase' = phase /\ watch' = watch /\ seenDone' = seenDone /\ finished' = finished
        /\ UNCHANGED <<rbatch, chan, returned, claimed, task, cpc, connVars, rowVars, disorder>>
    BY DEF CountBatch, readerOnly, runnerVars
  <1>2. RunTypes'
    BY <1>1 DEF RunTypes, ReplayInv
  <1>3. K \subseteq 1 .. next - 1 /\ done = Cardinality(D) /\ counted = Cardinality(K \ R)
    BY <1>1 DEF ReplayInv, Counts
  <1>4. counted' = Cardinality(K)
    <2>1. IsFiniteSet(K) /\ R \subseteq K /\ Cardinality(R) = Len(rbatch)
      BY TakenFacts
    <2>. HIDE DEF K, R
    <2>2. /\ IsFiniteSet(K \ R) /\ IsFiniteSet(R) /\ (K \ R) \cup R = K /\ (K \ R) \cap R = {}
      BY <2>1, FS_Subset
    <2>3. Cardinality(K) = Cardinality(K \ R) + Cardinality(R) - Cardinality({})
      BY <2>2, FS_Union
    <2>4. Cardinality({}) = 0 /\ Cardinality(K \ R) \in Nat /\ Cardinality(R) \in Nat
      BY <2>2, FS_EmptySet, FS_CardinalityType
    <2>. QED
      BY <1>1, <1>3, <2>1, <2>3, <2>4
  <1>5. Counts(K, D, R, next', rd', done, counted')
    BY <1>1, <1>3, <1>4 DEF Counts
  <1>6. Watched(K, D, rd', done, watch', seenDone', finished')
    BY <1>1, StillReading
  <1>. QED
    BY <1>1, <1>2, <1>5, <1>6, AsideKeeps

LEMMA SentApart ==
  ASSUME NEW R, NEW C, NEW T, NEW A, NEW B, NEW L, NEW S, Apart(R, C, T, A, B, L, S)
  PROVE  /\ Apart({}, C \cup R, T, A, B, L, S)
         /\ All({}, C \cup R, T, A, B, L, S) = All(R, C, T, A, B, L, S)
         /\ C \cap R = {}
  <1>. DEFINE U == Union4(C, T, A, B)
              U2 == Union4(C \cup R, T, A, B)
  <1>1. /\ Apart4(C, T, A, B)
        /\ R \cap U = {}
        /\ \A w \in Workers : L[w] \cap U = {} /\ L[w] \cap R = {}
        /\ \A c \in Conns : S[c] \cap U = {} /\ S[c] \cap R = {}
        /\ \A w \in Workers, c \in Conns : L[w] \cap S[c] = {}
        /\ \A w, v \in Workers : w # v => L[w] \cap L[v] = {}
        /\ \A c, d \in Conns : c # d => S[c] \cap S[d] = {}
    BY Zenon DEF Apart
  <1>2. U2 = U \cup R
    BY DEF Union4
  <1>3. Apart4(C \cup R, T, A, B) /\ C \cap R = {}
    BY <1>1 DEF Apart4, Union4
  <1>. HIDE DEF U, U2
  <1>4. /\ \A w \in Workers : L[w] \cap U2 = {}
        /\ \A c \in Conns : S[c] \cap U2 = {}
    BY <1>1, <1>2
  <1>5. {} \cap U2 = {} /\ \A w : L[w] \cap {} = {} /\ S[w] \cap {} = {}
    OBVIOUS
  <1>6. Apart({}, C \cup R, T, A, B, L, S)
    BY <1>1, <1>3, <1>4, <1>5, Zenon DEF Apart, U2
  <1>7. All({}, C \cup R, T, A, B, L, S) = All(R, C, T, A, B, L, S)
    BY <1>2 DEF All, U, U2
  <1>. QED
    BY <1>3, <1>6, <1>7

LEMMA SendBatchKeeps ==
  ASSUME ReplayInv, SendBatch
  PROVE  StepKeeps
  <1>. DEFINE K == TakenUp
              R == RowsOf(rbatch)
              C == InChannel(chan)
              D == answered \cup abandoned
              ch2 == Append(chan, rbatch)
              K2 == Taken(<<>>, ch2, returned, answered, abandoned, claimed, sent)
  <1>1. /\ rd = "send" /\ rd' = "read" /\ Len(chan) < ReadAhead
        /\ chan' = ch2 /\ rbatch' = <<>>
        /\ next' = next /\ eof' = eof /\ err' = err /\ counted' = counted
        /\ phase' = phase /\ watch' = watch /\ seenDone' = seenDone /\ finished' = finished
        /\ UNCHANGED <<returned, claimed, task, cpc, connVars, rowVars, disorder>>
    BY DEF SendBatch, readerOnly, runnerVars
  <1>2. /\ rbatch \in Seq(Rows) /\ RowsOnce(rbatch) /\ chan \in Seq(Seq(Rows))
        /\ ChannelOnce(chan) /\ ReadAhead \in Nat /\ Len(chan) \in Nat
    BY TraceAssumption DEF ReplayInv, ListTypes, Once
  <1>3. /\ ch2 \in Seq(Seq(Rows)) /\ Len(ch2) = Len(chan) + 1 /\ InChannel(ch2) = C \cup R
        /\ ChannelOnce(chan) /\ RowsOnce(rbatch) /\ C \cap R = {} => ChannelOnce(ch2)
        /\ ChannelAscends(chan) /\ RowsAscend(rbatch) /\ Before(C, R) => ChannelAscends(ch2)
    BY <1>2, ChannelSend
  <1>. HIDE DEF ch2
  <1>4. /\ Books(<<>>, ch2, returned, answered, abandoned, claimed, sent)
        /\ K2 = K /\ C \cap R = {}
    <2>. DEFINE T == RowsOf(returned)
                L == HeldBy(claimed, Workers)
                S == HeldBy(sent, Conns)
    <2>1. Apart(R, C, T, answered, abandoned, L, S)
      BY DEF ReplayInv, Books
    <2>2. K = All(R, C, T, answered, abandoned, L, S)
      BY DEF TakenUp, Taken
    <2>. HIDE DEF R, C, T, L, S, K
    <2>3. /\ Apart({}, C \cup R, T, answered, abandoned, L, S)
          /\ All({}, C \cup R, T, answered, abandoned, L, S) = K
          /\ C \cap R = {}
      BY <2>1, <2>2, SentApart
    <2>. QED
      BY <1>3, <2>3, NoRows DEF Books, Taken, T, L, S
  <1>. HIDE DEF K, K2
  <1>5. RunTypes' /\ Len(ch2) <= ReadAhead
    <2>1. Len(<<>>) <= ClaimBatch
      BY TraceAssumption
    <2>2. Len(ch2) <= ReadAhead
      BY <1>1, <1>2, <1>3
    <2>. QED
      BY <1>1, <2>1, <2>2 DEF RunTypes, ReplayInv
  <1>6. Counts(K2, D, RowsOf(<<>>), next', rd', done, counted')
    <2>1. K \subseteq 1 .. next - 1 /\ done = Cardinality(D) /\ counted = Cardinality(K)
      BY <1>1 DEF ReplayInv, Counts, K
    <2>2. K \ RowsOf(<<>>) = K
      BY NoRows
    <2>. QED
      BY <1>1, <1>4, <2>1, <2>2 DEF Counts
  <1>7. Watched(K2, D, rd', done, watch', seenDone', finished')
    BY <1>1, StillReading
  <1>8. ASSUME ~disorder
        PROVE  Order(<<>>, ch2, returned, claimed, sent, buf)
    <2>1. /\ returned = <<>> /\ RowsAscend(rbatch) /\ ChannelAscends(chan)
          /\ Before(C, R)
          /\ \A w \in Workers : RowsAscend(claimed[w]) /\ Before(RowsOf(claimed[w]), C \cup R)
          /\ \A c \in Conns : /\ RowsAscend(sent[c]) /\ Before(RowsOf(sent[c]), C \cup R)
                              /\ Before(RowsOf(sent[c]), RowsOf(claimed[WorkerOf[c]]))
          /\ \A c, d \in Conns : WorkerOf[c] = WorkerOf[d] =>
               Before(RowsOf(Flown(sent[d], buf[d])), RowsOf(Newest(sent[c], buf[c])))
      BY <1>8 DEF ReplayInv, Order
    <2>2. /\ InChannel(ch2) \cup RowsOf(<<>>) = C \cup R
          /\ Before(InChannel(ch2), RowsOf(<<>>)) /\ RowsAscend(<<>>)
      BY <1>3, NoRows DEF Before
    <2>3. ChannelAscends(ch2)
      BY <1>3, <2>1
    <2>. HIDE DEF C, R
    <2>. QED
      BY <2>1, <2>2, <2>3, Zenon DEF Order
  <1>9. /\ <<>> \in Seq(Rows) /\ RowsOnce(<<>>) /\ ChannelOnce(ch2) /\ K \subseteq K2
    BY <1>2, <1>3, <1>4, NoRows
  <1>10. ThreadStep(<<>>, ch2)
    BY <1>1, <1>3, <1>4, <1>5, <1>6, <1>7, <1>8, <1>9 DEF ThreadStep, K, K2
  <1>. QED
    BY <1>10, ThreadKeeps

LEMMA ReaderStopsKeeps ==
  ASSUME ReplayInv, ReaderStops
  PROVE  StepKeeps
  <1>. DEFINE K == TakenUp
              R == RowsOf(rbatch)
              D == answered \cup abandoned
  <1>1. /\ next' = next /\ rbatch' = rbatch /\ eof' = eof /\ err' = err /\ counted' = counted
        /\ phase' = phase /\ watch' = watch /\ seenDone' = seenDone /\ finished' = finished
        /\ UNCHANGED <<rbatch, chan, returned, claimed, task, cpc, connVars, rowVars, disorder>>
    BY DEF ReaderStops, readerOnly, runnerVars
  <1>2. /\ rd \in {"read", "stop"} /\ rd' \in {"stop", "gone"}
        /\ rd = "read" => rbatch = <<>>
    BY DEF ReaderStops
  <1>3. RunTypes'
    BY <1>1, <1>2 DEF RunTypes, ReplayInv
  <1>4. /\ K \subseteq 1 .. next - 1 /\ done = Cardinality(D) /\ counted = Cardinality(K \ R)
        /\ R = {}
    BY <1>2, NoRows DEF ReplayInv, Counts
  <1>5. Counts(K, D, R, next', rd', done, counted')
    BY <1>1, <1>2, <1>4 DEF Counts
  <1>6. Watched(K, D, rd', done, watch', seenDone', finished')
    BY <1>1, <1>2 DEF ReplayInv, Watched
  <1>. QED
    BY <1>1, <1>3, <1>5, <1>6, AsideKeeps

(* The runner moves on, and reads no counter.                              *)
LEMMA RunnerMoves ==
  ASSUME ReplayInv, StartReplay \/ LoadStopped \/ StopEarly \/ UNCHANGED vars
  PROVE  StepKeeps
  <1>1. /\ UNCHANGED readerVars /\ seenDone' = seenDone /\ finished' = finished
        /\ phase' \in {phase, "Stop", "Replay"}
        /\ watch' = watch \/ (watch' = "stopped" /\ stopped)
        /\ UNCHANGED <<chan, returned, claimed, task, cpc, connVars, rowVars, disorder>>
    <2>1. CASE StartReplay
      BY <2>1 DEF StartReplay, runnerOnly
    <2>2. CASE LoadStopped
      BY <2>2 DEF LoadStopped, runnerOnly
    <2>3. CASE StopEarly
      BY <2>3 DEF StopEarly, runnerOnly
    <2>4. CASE UNCHANGED vars
      BY <2>4 DEF vars, runnerVars
    <2>. QED
      BY <2>1, <2>2, <2>3, <2>4
  <1>2. /\ next' = next /\ rbatch' = rbatch /\ eof' = eof /\ err' = err /\ rd' = rd
        /\ counted' = counted
        /\ UNCHANGED <<rbatch, chan, returned, claimed, task, cpc, connVars, rowVars, disorder>>
    BY <1>1 DEF readerVars
  <1>3. RunTypes'
    BY <1>1, <1>2 DEF RunTypes, ReplayInv
  <1>4. Counts(TakenUp, answered \cup abandoned, RowsOf(rbatch), next', rd', done, counted')
    BY <1>2 DEF ReplayInv
  <1>5. Watched(TakenUp, answered \cup abandoned, rd', done, watch', seenDone', finished')
    BY <1>1, <1>2 DEF ReplayInv, Watched, stopped
  <1>. QED
    BY <1>2, <1>3, <1>4, <1>5, AsideKeeps

LEMMA LoadDoneKeeps ==
  ASSUME ReplayInv, LoadDone
  PROVE  StepKeeps
  <1>1. /\ UNCHANGED readerVars /\ finished' = finished /\ phase' = phase
        /\ watch = "stopped" /\ watch' = "done" /\ seenDone' = done
        /\ UNCHANGED <<chan, returned, claimed, task, cpc, connVars, rowVars, disorder>>
    BY DEF LoadDone, runnerOnly
  <1>2. /\ next' = next /\ rbatch' = rbatch /\ eof' = eof /\ err' = err /\ rd' = rd
        /\ counted' = counted /\ done \in Nat
        /\ UNCHANGED <<rbatch, chan, returned, claimed, task, cpc, connVars, rowVars, disorder>>
    BY <1>1, TakenFacts DEF readerVars
  <1>3. RunTypes'
    BY <1>1, <1>2 DEF RunTypes, ReplayInv
  <1>4. Counts(TakenUp, answered \cup abandoned, RowsOf(rbatch), next', rd', done, counted')
    BY <1>2 DEF ReplayInv
  <1>5. Watched(TakenUp, answered \cup abandoned, rd', done, watch', seenDone', finished')
    <2>1. seenDone' <= done
      BY <1>1, <1>2
    <2>. QED
      BY <1>1, <1>2, <2>1 DEF ReplayInv, Watched
  <1>. QED
    BY <1>2, <1>3, <1>4, <1>5, AsideKeeps

(* With as many rows settled as were counted, none is left.                *)
LEMMA LoadSentKeeps ==
  ASSUME ReplayInv, LoadSent
  PROVE  StepKeeps
  <1>. DEFINE K == TakenUp
              R == RowsOf(rbatch)
              D == answered \cup abandoned
  <1>1. /\ UNCHANGED readerVars /\ phase' \in {phase, "Stop"}
        /\ watch = "done" /\ watch' = "idle" /\ seenDone' = 0 /\ finished' = (seenDone >= counted)
        /\ UNCHANGED <<chan, returned, claimed, task, cpc, connVars, rowVars, disorder>>
    BY DEF LoadSent, runnerOnly
  <1>2. /\ next' = next /\ rbatch' = rbatch /\ eof' = eof /\ err' = err /\ rd' = rd
        /\ counted' = counted /\ done \in Nat
        /\ UNCHANGED <<rbatch, chan, returned, claimed, task, cpc, connVars, rowVars, disorder>>
    BY <1>1, TakenFacts DEF readerVars
  <1>3. RunTypes'
    <2>1. finished' \in BOOLEAN
      BY <1>1
    <2>. QED
      BY <1>1, <1>2, <2>1 DEF RunTypes, ReplayInv
  <1>4. Counts(K, D, R, next', rd', done, counted')
    BY <1>2 DEF ReplayInv
  <1>5. /\ rd \in {"stop", "gone"} /\ seenDone <= done /\ seenDone \in Nat
        /\ done = Cardinality(D) /\ counted = Cardinality(K)
    <2>1. /\ rd \in {"stop", "gone"} /\ seenDone <= done /\ seenDone \in Nat
          /\ Watched(K, D, rd, done, watch, seenDone, finished)
          /\ Counts(K, D, R, next, rd, done, counted)
      BY <1>1 DEF ReplayInv, Watched, RunTypes
    <2>2. R = {} /\ rd # "send"
      BY <2>1 DEF Counts
    <2>3. K \ R = K
      BY <2>2
    <2>. HIDE DEF K, D, R
    <2>. QED
      BY <2>1, <2>2, <2>3 DEF Counts
  <1>6. ASSUME finished'
        PROVE  K = D
    <2>1. IsFiniteSet(K) /\ D \subseteq K
      BY TakenFacts
    <2>. HIDE DEF K, D
    <2>2. /\ IsFiniteSet(D) /\ Cardinality(K) \in Nat /\ Cardinality(D) \in Nat
          /\ Cardinality(D) = Cardinality(K) => D = K
      BY <2>1, FS_Subset, FS_CardinalityType
    <2>3. Cardinality(D) <= Cardinality(K)
      BY <2>1, FS_Subset
    <2>4. Cardinality(D) >= Cardinality(K)
      <3>1. finished' = (seenDone >= counted)
        BY <1>1
      <3>2. seenDone >= counted
        BY <1>6, <3>1, Zenon
      <3>. QED
        BY <1>5, <2>2, <3>2
    <2>. QED
      BY <2>2, <2>3, <2>4
  <1>7. Watched(K, D, rd', done, watch', seenDone', finished')
    BY <1>1, <1>2, <1>5, <1>6 DEF Watched
  <1>. QED
    BY <1>2, <1>3, <1>4, <1>7, AsideKeeps

-----------------------------------------------------------------------------
(* The invariant is inductive                                              *)

LEMMA InitHolds ==
  ASSUME Init
  PROVE  ReplayInv
  <1>0. /\ NRows \in Nat /\ ClaimBatch \in Nat /\ ReadAhead \in Nat /\ Batch \in Nat
        /\ Depth \in Nat /\ MaxAttempts \in Nat \ {0} /\ BackfillCap \in Nat
        /\ WorkerOf \in [Conns -> Workers] /\ "none" \notin Conns
    BY TraceAssumption
  <1>. DEFINE L == HeldBy(claimed, Workers)
              S == HeldBy(sent, Conns)
  <1>1. /\ RowsOf(rbatch) = {} /\ InChannel(chan) = {} /\ RowsOf(returned) = {}
        /\ answered = {} /\ abandoned = {}
        /\ \A w \in Workers : L[w] = {} /\ RowsOf(claimed[w]) = {}
        /\ \A c \in Conns : S[c] = {} /\ RowsOf(sent[c]) = {}
    <2>1. /\ rbatch = <<>> /\ chan = <<>> /\ returned = <<>> /\ answered = {} /\ abandoned = {}
          /\ \A w \in Workers : claimed[w] = <<>>
          /\ \A c \in Conns : sent[c] = <<>>
      BY DEF Init
    <2>2. InChannel(<<>>) = {}
      BY DEF InChannel
    <2>. QED
      BY <2>1, <2>2, NoRows DEF HeldBy
  <1>2. TakenUp = {}
    BY <1>1 DEF TakenUp, Taken, All, Union4
  <1>3. Books(rbatch, chan, returned, answered, abandoned, claimed, sent)
    BY <1>1 DEF Books, Apart, Apart4, Union4
  <1>4. /\ RunTypes /\ Len(chan) <= ReadAhead /\ disorder \in BOOLEAN
        /\ backfill \in [Conns -> 0 .. BackfillCap]
    <2>1. /\ next = 1 /\ rbatch = <<>> /\ eof = FALSE /\ err = FALSE /\ rd = "read"
          /\ chan = <<>> /\ phase = "Wait" /\ watch = "idle" /\ seenDone = 0
          /\ finished = FALSE /\ disorder = FALSE /\ backfill = [c \in Conns |-> 0]
      BY DEF Init
    <2>2. /\ Len(<<>>) <= ClaimBatch /\ Len(<<>>) <= ReadAhead /\ 1 \in 1 .. (NRows + 1)
          /\ 0 \in 0 .. BackfillCap
      BY <1>0
    <2>. QED
      BY <2>1, <2>2 DEF RunTypes
  <1>5. ListTypes(rbatch, chan, returned, answered, abandoned, claimed, sent, buf)
    BY <1>0 DEF Init, ListTypes
  <1>6. Once(rbatch, chan, returned, claimed, sent)
    BY NoRows DEF Init, Once, ChannelOnce
  <1>7. Counts(TakenUp, answered \cup abandoned, RowsOf(rbatch), next, rd, done, counted)
    <2>1. next = 1 /\ rd = "read" /\ done = 0 /\ counted = 0
      BY DEF Init
    <2>2. TakenUp \ RowsOf(rbatch) = {} /\ answered \cup abandoned = {} /\ Cardinality({}) = 0
      BY <1>1, <1>2, FS_EmptySet
    <2>. QED
      BY <1>2, <2>1, <2>2 DEF Counts
  <1>8. Watched(TakenUp, answered \cup abandoned, rd, done, watch, seenDone, finished)
    BY DEF Init, Watched
  <1>9. OnWire(wired, answered, abandoned, sent, buf) /\ Tries(attempts, abandoned)
    BY <1>0 DEF Init, OnWire, Tries
  <1>10. Tasks(task, cpc, claimed, sent, buf)
    BY <1>0 DEF Init, Tasks, TaskType, Free
  <1>11. Order(rbatch, chan, returned, claimed, sent, buf)
    <2>1. /\ \A w \in Workers : claimed[w] = <<>>
          /\ \A c \in Conns : sent[c] = <<>> /\ buf[c] = 0
          /\ \A c \in Conns : WorkerOf[c] \in Workers
      BY <1>0 DEF Init
    <2>2. returned = <<>> /\ RowsAscend(rbatch) /\ ChannelAscends(chan)
      BY NoRows DEF Init, ChannelAscends
    <2>3. \A X : Before({}, X) /\ Before(X, {})
      BY DEF Before
    <2>4. <<>> \in Seq(Rows \cup {Backfill})
      OBVIOUS
    <2>5. RowsOf(Newest(<<>>, 0)) = {}
      BY <2>4, AllFlown
    <2>. QED
      BY <1>1, <2>1, <2>2, <2>3, <2>5, NoRows DEF Order
  <1>. QED
    BY <1>3, <1>4, <1>5, <1>6, <1>7, <1>8, <1>9, <1>10, <1>11 DEF ReplayInv

LEMMA NextKeeps ==
  ASSUME ReplayInv, [Next]_vars
  PROVE  StepKeeps
  <1>1. CASE Reader
    <2>1. CASE ReadRow
      BY <2>1, ReadRowKeeps
    <2>2. CASE ReadEnds
      BY <2>2, ReadEndsKeeps
    <2>3. CASE CountBatch
      BY <2>3, CountBatchKeeps
    <2>4. CASE SendBatch
      BY <2>4, SendBatchKeeps
    <2>5. CASE ReaderStops
      BY <2>5, ReaderStopsKeeps
    <2>. QED
      BY <1>1, <2>1, <2>2, <2>3, <2>4, <2>5 DEF Reader
  <1>2. CASE Runner
    <2>1. CASE StartReplay \/ LoadStopped \/ StopEarly
      BY <2>1, RunnerMoves
    <2>2. CASE LoadDone
      BY <2>2, LoadDoneKeeps
    <2>3. CASE LoadSent
      BY <2>3, LoadSentKeeps
    <2>. QED
      BY <1>2, <2>1, <2>2, <2>3 DEF Runner
  <1>3. CASE \E c \in Conns : Connection(c)
    <2>1. PICK c \in Conns : Connection(c)
      BY <1>3
    <2>2. CASE Wake(c)
      BY <2>2, WakeKeeps
    <2>3. CASE Reply(c)
      BY <2>3, ReplyKeeps
    <2>4. CASE ConnFails(c)
      BY <2>4, ConnFailsKeeps
    <2>5. CASE Connect(c)
      BY <2>5, ConnectKeeps
    <2>6. CASE Exit(c)
      BY <2>6, ExitKeeps
    <2>7. CASE Top(WorkerOf[c], c)
      BY <2>7, TopKeeps
    <2>8. CASE ClaimReturned(WorkerOf[c], c)
      BY <2>8, ClaimReturnedKeeps
    <2>9. CASE ClaimBatchOrWait(WorkerOf[c], c)
      BY <2>9, ClaimBatchKeeps
    <2>10. CASE FlushEarly(WorkerOf[c], c)
      BY <2>10, FlushEarlyKeeps
    <2>11. CASE FlushEarlyFails(WorkerOf[c], c)
      BY <2>11, FlushEarlyFailsKeeps
    <2>12. CASE Fire(WorkerOf[c], c)
      BY <2>12, FireKeeps
    <2>13. CASE FireFails(WorkerOf[c], c)
      BY <2>13, FireFailsKeeps
    <2>14. CASE FillEnds(WorkerOf[c], c)
      BY <2>14, FillEndsKeeps
    <2>15. CASE Flush(WorkerOf[c], c)
      BY <2>15, FlushKeeps
    <2>16. CASE FlushFails(WorkerOf[c], c)
      BY <2>16, FlushFailsKeeps
    <2>. QED
      BY <2>1, <2>2, <2>3, <2>4, <2>5, <2>6, <2>7, <2>8, <2>9, <2>10, <2>11, <2>12,
         <2>13, <2>14, <2>15, <2>16 DEF Connection
  <1>4. CASE UNCHANGED vars
    BY <1>4, RunnerMoves
  <1>. QED
    BY <1>1, <1>2, <1>3, <1>4 DEF Next, Ended

-----------------------------------------------------------------------------
(* What the invariant says of a replay                                     *)

LEMMA TypesFollow ==
  ASSUME ReplayInv
  PROVE  SentAtMostOnce
  <1>1. /\ RunTypes /\ Len(chan) <= ReadAhead /\ disorder \in BOOLEAN
        /\ backfill \in [Conns -> 0 .. BackfillCap]
    BY DEF ReplayInv
  <1>2. ListTypes(rbatch, chan, returned, answered, abandoned, claimed, sent, buf)
    BY DEF ReplayInv
  <1>3. \A c \in Conns : Len(sent[c]) <= Depth /\ buf[c] \in 0 .. Len(sent[c])
    <2>. TAKE c \in Conns
    <2>1. /\ sent[c] \in Seq(Rows \cup {Backfill}) /\ buf[c] \in Nat
          /\ buf[c] <= Len(sent[c]) /\ Len(sent[c]) <= Depth
      BY <1>2 DEF ListTypes
    <2>2. Len(sent[c]) \in Nat
      BY <2>1
    <2>. QED
      BY <2>1, <2>2
  <1>4. wired \in [Rows -> 0 .. 1] /\ attempts \in [Rows -> 0 .. MaxAttempts]
    BY DEF ReplayInv, OnWire, Tries
  <1>5. /\ wired \in [Rows -> Nat] /\ \A r \in Rows : wired[r] <= 1
    BY <1>4
  <1>6. /\ task \in [Workers -> TaskType] /\ cpc \in [Conns -> {"down", "idle", "recv", "exited"}]
    BY DEF ReplayInv, Tasks
  <1>7. done \in Nat /\ counted \in 0 .. NRows
    BY TakenFacts
  <1>8. TypeOK
    BY <1>1, <1>2, <1>3, <1>4, <1>5, <1>6, <1>7 DEF TypeOK, RunTypes, ListTypes
  <1>. QED
    BY <1>5, <1>8 DEF SentAtMostOnce

LEMMA OrderFollows ==
  ASSUME ReplayInv
  PROVE  FileOrder
  <1>1. SUFFICES ASSUME ~disorder, NEW c \in Conns
                 PROVE  Ascending(RowsIn(sent[c]) \o claimed[WorkerOf[c]])
    BY DEF FileOrder
  <1>. DEFINE K == Rows \cup {Backfill}
              y == sent[c]
              s == RowsIn(y)
              t == claimed[WorkerOf[c]]
  <1>2. /\ K \subseteq Nat /\ K \ {Backfill} \subseteq Rows /\ WorkerOf[c] \in Workers
    BY TraceAssumption DEF Rows, Backfill
  <1>3. y \in Seq(K) /\ t \in Seq(Rows)
    BY <1>2 DEF ReplayInv, ListTypes
  <1>4. RowsAscend(y) /\ RowsAscend(t) /\ Before(RowsOf(y), RowsOf(t))
    BY <1>1, <1>2 DEF ReplayInv, Order
  <1>. HIDE DEF K, y, t
  <1>5. s \in Seq(Rows) /\ RowsOf(s) = RowsOf(y) /\ RowsAscend(s)
    <2>1. s \in Seq(K \ {Backfill}) /\ RowsOf(s) = RowsOf(y) /\ (RowsAscend(y) => RowsAscend(s))
      BY <1>2, <1>3, RowsInFacts
    <2>2. s \in Seq(Rows)
      BY <1>2, <2>1, WiderSeq
    <2>. QED
      BY <1>4, <2>1, <2>2
  <1>. HIDE DEF s
  <1>6. s \in Seq(Nat) /\ t \in Seq(Nat) /\ s \o t \in Seq(Rows)
    BY <1>3, <1>5, PlainRows
  <1>7. RowsAscend(s \o t)
    BY <1>4, <1>5, <1>6, ConcatRows
  <1>8. Ascending(s \o t)
    BY <1>6, <1>7, PlainRows
  <1>. QED
    BY <1>8 DEF s, y, t

(* Where a row is in a list.                                               *)
LEMMA PlaceFacts ==
  ASSUME NEW K, NEW s \in Seq(K), NEW r \in Rows
  PROVE  /\ r \notin RowsOf(s) => At1(s, r) = {}
         /\ RowsOnce(s) /\ r \in RowsOf(s) => \E i : At1(s, r) = {i}
         /\ At1(s, r) # {} => r \in RowsOf(s)
         /\ Entries(s) \ {Backfill} = RowsOf(s)
  <1>0. r # Backfill /\ DOMAIN s = 1 .. Len(s)
    BY TraceAssumption DEF Rows, Backfill
  <1>1. At1(s, r) # {} => r \in RowsOf(s)
    BY <1>0 DEF At1, RowsOf
  <1>2. ASSUME RowsOnce(s), r \in RowsOf(s)
        PROVE  \E i : At1(s, r) = {i}
    <2>1. PICK i \in DOMAIN s : s[i] = r
      BY <1>2 DEF RowsOf
    <2>2. \A j \in DOMAIN s : s[j] = r => j = i
      BY <1>0, <1>2, <2>1 DEF RowsOnce
    <2>3. At1(s, r) = {i}
      BY <1>0, <2>1, <2>2 DEF At1
    <2>. QED
      BY <2>3
  <1>3. Entries(s) \ {Backfill} = RowsOf(s)
    BY <1>0 DEF Entries, RowsOf
  <1>. QED
    BY <1>1, <1>2, <1>3

(* The parts of Places(r): they are empty where r is not, and hold one     *)
(* place where it is.                                                      *)
InBatch(r) == {<<"reader", i>> : i \in At1(rbatch, r)}
InFlight(r) == {<<"channel", i>> : i \in {j \in 1..Len(chan) : r \in Entries(chan[j])}}
InReturned(r) == {<<"returned", i>> : i \in At1(returned, r)}
InClaimed(r, w) == {<<"claimed", w, i>> : i \in At1(claimed[w], r)}
OnConn(r, c) == {<<"sent", c, i>> : i \in At1(sent[c], r)}
InAnyClaimed(r) == UNION {InClaimed(r, w) : w \in Workers}
OnAnyConn(r) == UNION {OnConn(r, c) : c \in Conns}
InAnswered(r) == IF r \in answered THEN {<<"answered">>} ELSE {}
InAbandoned(r) == IF r \in abandoned THEN {<<"abandoned">>} ELSE {}

(* P is the one place of something that is in S, and empty otherwise.      *)
OneIf(P, r, S) == (r \notin S => P = {}) /\ (r \in S => \E p : P = {p})

LEMMA PlacesParts ==
  ASSUME NEW r
  PROVE  /\ Places(r) = Waiting(r) \cup InAnswered(r) \cup InAbandoned(r)
         /\ Waiting(r) = InBatch(r) \cup InFlight(r) \cup InReturned(r)
                           \cup InAnyClaimed(r) \cup OnAnyConn(r)
  <1>1. Waiting(r) = InBatch(r) \cup InFlight(r) \cup InReturned(r)
                           \cup InAnyClaimed(r) \cup OnAnyConn(r)
    BY Zenon DEF Waiting, InBatch, InFlight, InReturned, InClaimed, OnConn,
              InAnyClaimed, OnAnyConn
  <1>2. Places(r) = Waiting(r) \cup InAnswered(r) \cup InAbandoned(r)
    <2>1. Places(r) = Waiting(r) \cup (InAnswered(r) \cup InAbandoned(r))
      BY Zenon DEF Places, Settled, InAnswered, InAbandoned
    <2>. QED
      BY <2>1
  <1>. QED
    BY <1>1, <1>2

LEMMA InList ==
  ASSUME NEW K, NEW s \in Seq(K), NEW r \in Rows, RowsOnce(s)
  PROVE  \/ r \notin RowsOf(s) /\ At1(s, r) = {}
         \/ r \in RowsOf(s) /\ \E i : At1(s, r) = {i}
  BY PlaceFacts

LEMMA ListPlaces ==
  ASSUME ReplayInv, NEW r \in Rows
  PROVE  /\ OneIf(InBatch(r), r, RowsOf(rbatch))
         /\ OneIf(InReturned(r), r, RowsOf(returned))
         /\ \A w \in Workers : OneIf(InClaimed(r, w), r, RowsOf(claimed[w]))
         /\ \A c \in Conns : OneIf(OnConn(r, c), r, RowsOf(sent[c]))
         /\ OneIf(InAnswered(r), r, answered) /\ OneIf(InAbandoned(r), r, abandoned)
  <1>1. /\ rbatch \in Seq(Rows) /\ returned \in Seq(Rows)
        /\ \A w \in Workers : claimed[w] \in Seq(Rows) /\ RowsOnce(claimed[w])
        /\ \A c \in Conns : sent[c] \in Seq(Rows \cup {Backfill}) /\ RowsOnce(sent[c])
        /\ RowsOnce(rbatch) /\ RowsOnce(returned)
    BY DEF ReplayInv, ListTypes, Once
  <1>2. OneIf(InBatch(r), r, RowsOf(rbatch))
    <2>1. \/ r \notin RowsOf(rbatch) /\ At1(rbatch, r) = {}
          \/ r \in RowsOf(rbatch) /\ \E i : At1(rbatch, r) = {i}
      BY <1>1, InList
    <2>2. CASE r \notin RowsOf(rbatch) /\ At1(rbatch, r) = {}
      BY <2>2 DEF OneIf, InBatch
    <2>3. CASE r \in RowsOf(rbatch) /\ \E i : At1(rbatch, r) = {i}
      <3>1. PICK i : At1(rbatch, r) = {i}
        BY <2>3
      <3>2. InBatch(r) = {<<"reader", i>>}
        BY <3>1 DEF InBatch
      <3>. QED
        BY <2>3, <3>2 DEF OneIf
    <2>. QED
      BY <2>1, <2>2, <2>3
  <1>3. OneIf(InReturned(r), r, RowsOf(returned))
    <2>1. \/ r \notin RowsOf(returned) /\ At1(returned, r) = {}
          \/ r \in RowsOf(returned) /\ \E i : At1(returned, r) = {i}
      BY <1>1, InList
    <2>2. CASE r \notin RowsOf(returned) /\ At1(returned, r) = {}
      BY <2>2 DEF OneIf, InReturned
    <2>3. CASE r \in RowsOf(returned) /\ \E i : At1(returned, r) = {i}
      <3>1. PICK i : At1(returned, r) = {i}
        BY <2>3
      <3>2. InReturned(r) = {<<"returned", i>>}
        BY <3>1 DEF InReturned
      <3>. QED
        BY <2>3, <3>2 DEF OneIf
    <2>. QED
      BY <2>1, <2>2, <2>3
  <1>4. ASSUME NEW w \in Workers
        PROVE  OneIf(InClaimed(r, w), r, RowsOf(claimed[w]))
    <2>. DEFINE s == claimed[w]
    <2>0. s \in Seq(Rows) /\ RowsOnce(s)
      BY <1>1
    <2>1. \/ r \notin RowsOf(s) /\ At1(s, r) = {}
          \/ r \in RowsOf(s) /\ \E i : At1(s, r) = {i}
      <3>. HIDE DEF s
      <3>. QED
        BY <2>0, InList
    <2>2. CASE r \notin RowsOf(s) /\ At1(s, r) = {}
      BY <2>2 DEF OneIf, InClaimed
    <2>3. CASE r \in RowsOf(s) /\ \E i : At1(s, r) = {i}
      <3>1. PICK i : At1(s, r) = {i}
        BY <2>3
      <3>2. InClaimed(r, w) = {<<"claimed", w, i>>}
        BY <3>1 DEF InClaimed
      <3>. QED
        BY <2>3, <3>2 DEF OneIf
    <2>. QED
      BY <2>1, <2>2, <2>3
  <1>5. ASSUME NEW c \in Conns
        PROVE  OneIf(OnConn(r, c), r, RowsOf(sent[c]))
    <2>. DEFINE s == sent[c]
    <2>0. s \in Seq(Rows \cup {Backfill}) /\ RowsOnce(s)
      BY <1>1
    <2>1. \/ r \notin RowsOf(s) /\ At1(s, r) = {}
          \/ r \in RowsOf(s) /\ \E i : At1(s, r) = {i}
      <3>. HIDE DEF s
      <3>. QED
        BY <2>0, InList
    <2>2. CASE r \notin RowsOf(s) /\ At1(s, r) = {}
      BY <2>2 DEF OneIf, OnConn
    <2>3. CASE r \in RowsOf(s) /\ \E i : At1(s, r) = {i}
      <3>1. PICK i : At1(s, r) = {i}
        BY <2>3
      <3>2. OnConn(r, c) = {<<"sent", c, i>>}
        BY <3>1 DEF OnConn
      <3>. QED
        BY <2>3, <3>2 DEF OneIf
    <2>. QED
      BY <2>1, <2>2, <2>3
  <1>6. OneIf(InAnswered(r), r, answered) /\ OneIf(InAbandoned(r), r, abandoned)
    BY DEF OneIf, InAnswered, InAbandoned
  <1>. QED
    BY <1>2, <1>3, <1>4, <1>5, <1>6

LEMMA ChannelPlace ==
  ASSUME ReplayInv, NEW r \in Rows
  PROVE  OneIf(InFlight(r), r, InChannel(chan))
  <1>. DEFINE J == {j \in 1..Len(chan) : r \in Entries(chan[j])}
  <1>1. chan \in Seq(Seq(Rows)) /\ ChannelOnce(chan) /\ DOMAIN chan = 1 .. Len(chan)
    BY DEF ReplayInv, ListTypes, Once
  <1>2. \A j \in 1 .. Len(chan) : Entries(chan[j]) = RowsOf(chan[j])
    BY <1>1, PlainRows
  <1>3. J = {j \in DOMAIN chan : r \in RowsOf(chan[j])}
    BY <1>1, <1>2
  <1>. HIDE DEF J
  <1>4. CASE r \notin InChannel(chan)
    <2>1. J = {}
      BY <1>3, <1>4 DEF InChannel
    <2>. QED
      BY <1>4, <2>1 DEF OneIf, InFlight, J
  <1>5. CASE r \in InChannel(chan)
    <2>1. PICK j \in DOMAIN chan : r \in RowsOf(chan[j])
      BY <1>5 DEF InChannel
    <2>2. ASSUME NEW k \in DOMAIN chan, r \in RowsOf(chan[k])
          PROVE  k = j
      <3>1. k # j => RowsOf(chan[k]) \cap RowsOf(chan[j]) = {}
        BY <1>1, <2>1, <2>2 DEF ChannelOnce
      <3>. QED
        BY <2>1, <2>2, <3>1
    <2>3. J = {j}
      BY <1>3, <2>1, <2>2
    <2>4. InFlight(r) = {<<"channel", i>> : i \in J}
      BY DEF InFlight, J
    <2>5. InFlight(r) = {<<"channel", j>>}
      BY <2>3, <2>4
    <2>. QED
      BY <1>5, <2>5 DEF OneIf
  <1>. QED
    BY <1>4, <1>5

LEMMA SpreadPlace ==
  ASSUME NEW I, NEW H, NEW P, NEW r,
         \A i \in I : OneIf(P[i], r, H[i]),
         \A i, j \in I : i # j => H[i] \cap H[j] = {}
  PROVE  /\ (\A i \in I : r \notin H[i]) => UNION {P[i] : i \in I} = {}
         /\ (\E i \in I : r \in H[i]) => \E p : UNION {P[i] : i \in I} = {p}
  <1>1. ASSUME \A i \in I : r \notin H[i]
        PROVE  UNION {P[i] : i \in I} = {}
    <2>1. \A i \in I : P[i] = {}
      BY <1>1 DEF OneIf
    <2>. QED
      BY <2>1
  <1>2. ASSUME NEW i \in I, r \in H[i]
        PROVE  \E p : UNION {P[k] : k \in I} = {p}
    <2>1. PICK p : P[i] = {p}
      BY <1>2 DEF OneIf
    <2>2. \A j \in I : j # i => P[j] = {}
      <3>1. \A j \in I : j # i => r \notin H[j]
        BY <1>2
      <3>. QED
        BY <3>1 DEF OneIf
    <2>3. UNION {P[k] : k \in I} = {p}
      BY <2>1, <2>2
    <2>. QED
      BY <2>3
  <1>. QED
    BY <1>1, <1>2

(* Each of these is the one place of row r when r is in its set.           *)
Homes(r, R, C, T, A, B, L, S, P1, P2, P3, P4, P5, PL, PS) ==
  /\ Apart(R, C, T, A, B, L, S)
  /\ OneIf(P1, r, R) /\ OneIf(P2, r, C) /\ OneIf(P3, r, T)
  /\ OneIf(P4, r, A) /\ OneIf(P5, r, B)
  /\ (\A w \in Workers : r \notin L[w]) => PL = {}
  /\ (\E w \in Workers : r \in L[w]) => \E p : PL = {p}
  /\ (\A c \in Conns : r \notin S[c]) => PS = {}
  /\ (\E c \in Conns : r \in S[c]) => \E p : PS = {p}

LEMMA OnePlace ==
  ASSUME NEW r \in Rows, NEW R, NEW C, NEW T, NEW A, NEW B, NEW L, NEW S,
         NEW P1, NEW P2, NEW P3, NEW P4, NEW P5, NEW PL, NEW PS,
         Homes(r, R, C, T, A, B, L, S, P1, P2, P3, P4, P5, PL, PS)
  PROVE  LET W == P1 \cup P2 \cup P3 \cup PL \cup PS
         IN  /\ r \in All(R, C, T, A, B, L, S) => \E p : W \cup P4 \cup P5 = {p}
             /\ r \notin All(R, C, T, A, B, L, S) => W = {} /\ W \cup P4 \cup P5 = {}
             /\ r \in A \cup B => W = {}
  <1>. DEFINE W == P1 \cup P2 \cup P3 \cup PL \cup PS
              inL == \E w \in Workers : r \in L[w]
              inS == \E c \in Conns : r \in S[c]
  <1>00. /\ Apart(R, C, T, A, B, L, S)
         /\ OneIf(P1, r, R) /\ OneIf(P2, r, C) /\ OneIf(P3, r, T)
         /\ OneIf(P4, r, A) /\ OneIf(P5, r, B)
         /\ (\A w \in Workers : r \notin L[w]) => PL = {}
         /\ (\E w \in Workers : r \in L[w]) => \E p : PL = {p}
         /\ (\A c \in Conns : r \notin S[c]) => PS = {}
         /\ (\E c \in Conns : r \in S[c]) => \E p : PS = {p}
    BY DEF Homes
  <1>. USE <1>00
  <1>1. /\ r \in R => r \notin C /\ r \notin T /\ r \notin A /\ r \notin B
        /\ r \in C => r \notin T /\ r \notin A /\ r \notin B
        /\ r \in T => r \notin A /\ r \notin B
        /\ r \in A => r \notin B
    BY DEF Apart, Apart4, Union4
  <1>2. inL => r \notin R /\ r \notin C /\ r \notin T /\ r \notin A /\ r \notin B /\ ~inS
    BY DEF Apart, Union4
  <1>3. inS => r \notin R /\ r \notin C /\ r \notin T /\ r \notin A /\ r \notin B
    BY DEF Apart, Union4
  <1>4. (~inL => PL = {}) /\ (inL => \E p : PL = {p}) /\ (~inS => PS = {}) /\ (inS => \E p : PS = {p})
    OBVIOUS
  <1>5. r \in All(R, C, T, A, B, L, S) <=>
          r \in R \/ r \in C \/ r \in T \/ r \in A \/ r \in B \/ inL \/ inS
    BY DEF All, Union4
  <1>. HIDE DEF inL, inS
  <1>6. CASE r \in R
    BY <1>1, <1>2, <1>3, <1>4, <1>5, <1>6 DEF OneIf
  <1>7. CASE r \in C
    BY <1>1, <1>2, <1>3, <1>4, <1>5, <1>7 DEF OneIf
  <1>8. CASE r \in T
    BY <1>1, <1>2, <1>3, <1>4, <1>5, <1>8 DEF OneIf
  <1>9. CASE r \in A
    BY <1>1, <1>2, <1>3, <1>4, <1>5, <1>9 DEF OneIf
  <1>10. CASE r \in B
    BY <1>1, <1>2, <1>3, <1>4, <1>5, <1>10 DEF OneIf
  <1>11. CASE inL
    BY <1>1, <1>2, <1>3, <1>4, <1>5, <1>11 DEF OneIf
  <1>12. CASE inS
    BY <1>1, <1>2, <1>3, <1>4, <1>5, <1>12 DEF OneIf
  <1>13. CASE ~(r \in R \/ r \in C \/ r \in T \/ r \in A \/ r \in B \/ inL \/ inS)
    BY <1>4, <1>5, <1>13 DEF OneIf
  <1>. QED
    BY <1>6, <1>7, <1>8, <1>9, <1>10, <1>11, <1>12, <1>13

(* A row the reader has taken up is in one place, any other in none, and   *)
(* a settled row waits nowhere.                                            *)
LEMMA PlacesFollow ==
  ReplayInv => \A r \in Rows : /\ r \in TakenUp => Cardinality(Places(r)) = 1
                               /\ r \notin TakenUp => Places(r) = {} /\ Waiting(r) = {}
                               /\ r \in answered \cup abandoned => Waiting(r) = {}
  <1>. SUFFICES ASSUME ReplayInv, NEW r \in Rows
                PROVE  /\ r \in TakenUp => Cardinality(Places(r)) = 1
                       /\ r \notin TakenUp => Places(r) = {} /\ Waiting(r) = {}
                       /\ r \in answered \cup abandoned => Waiting(r) = {}
    OBVIOUS
  <1>. DEFINE R == RowsOf(rbatch)
              C == InChannel(chan)
              T == RowsOf(returned)
              L == HeldBy(claimed, Workers)
              S == HeldBy(sent, Conns)
              QL == [w \in Workers |-> InClaimed(r, w)]
              QS == [c \in Conns |-> OnConn(r, c)]
              PL == UNION {QL[w] : w \in Workers}
              PS == UNION {QS[c] : c \in Conns}
              W == InBatch(r) \cup InFlight(r) \cup InReturned(r) \cup PL \cup PS
  <1>1. /\ Apart(R, C, T, answered, abandoned, L, S)
        /\ TakenUp = All(R, C, T, answered, abandoned, L, S)
    BY DEF ReplayInv, Books, TakenUp, Taken
  <1>2. /\ OneIf(InBatch(r), r, R) /\ OneIf(InFlight(r), r, C) /\ OneIf(InReturned(r), r, T)
        /\ OneIf(InAnswered(r), r, answered) /\ OneIf(InAbandoned(r), r, abandoned)
    BY ListPlaces, ChannelPlace
  <1>3. \A w \in Workers : OneIf(QL[w], r, L[w])
    BY ListPlaces DEF HeldBy
  <1>4. \A c \in Conns : OneIf(QS[c], r, S[c])
    BY ListPlaces DEF HeldBy
  <1>5. /\ \A w, v \in Workers : w # v => L[w] \cap L[v] = {}
        /\ \A c, d \in Conns : c # d => S[c] \cap S[d] = {}
    BY <1>1, Zenon DEF Apart
  <1>6. W = Waiting(r) /\ Places(r) = W \cup InAnswered(r) \cup InAbandoned(r)
    <2>1. InAnyClaimed(r) = PL /\ OnAnyConn(r) = PS
      BY DEF InAnyClaimed, OnAnyConn
    <2>. HIDE DEF PL, PS
    <2>. QED
      BY <2>1, PlacesParts
  <1>. HIDE DEF R, C, T, L, S, QL, QS
  <1>7. /\ (\A w \in Workers : r \notin L[w]) => PL = {}
        /\ (\E w \in Workers : r \in L[w]) => \E p : PL = {p}
    <2>1. \A w, v \in Workers : w # v => L[w] \cap L[v] = {}
      BY <1>5
    <2>. QED
      BY <1>3, <2>1, SpreadPlace, Zenon
  <1>8. /\ (\A c \in Conns : r \notin S[c]) => PS = {}
        /\ (\E c \in Conns : r \in S[c]) => \E p : PS = {p}
    <2>1. \A c, d \in Conns : c # d => S[c] \cap S[d] = {}
      BY <1>5
    <2>. QED
      BY <1>4, <2>1, SpreadPlace, Zenon
  <1>. HIDE DEF PL, PS
  <1>9. /\ r \in TakenUp => \E p : W \cup InAnswered(r) \cup InAbandoned(r) = {p}
        /\ r \notin TakenUp => W = {} /\ W \cup InAnswered(r) \cup InAbandoned(r) = {}
        /\ r \in answered \cup abandoned => W = {}
    <2>1. Homes(r, R, C, T, answered, abandoned, L, S, InBatch(r), InFlight(r), InReturned(r),
                InAnswered(r), InAbandoned(r), PL, PS)
      BY <1>1, <1>2, <1>7, <1>8 DEF Homes
    <2>. QED
      BY <1>1, <2>1, OnePlace
  <1>. HIDE DEF W
  <1>10. \A p : Cardinality({p}) = 1
    BY FS_Singleton
  <1>. QED
    BY <1>6, <1>9, <1>10

LEMMA FinishFollows ==
  ASSUME ReplayInv
  PROVE  FinishedMeansAll
  <1>1. SUFFICES ASSUME finished
                 PROVE  stopped /\ \A r \in Rows : Waiting(r) = {}
    BY DEF FinishedMeansAll
  <1>2. rd \in {"stop", "gone"} /\ TakenUp = answered \cup abandoned
    BY <1>1 DEF ReplayInv, Watched
  <1>3. \A r \in Rows : Waiting(r) = {}
    BY <1>2, PlacesFollow
  <1>. QED
    BY <1>2, <1>3 DEF stopped

-----------------------------------------------------------------------------
(* The theorems                                                            *)

LEMMA Replaying == Spec => []ReplayInv /\ [][StepKeeps]_vars
  <1>1. Init => ReplayInv
    BY InitHolds
  <1>2. ReplayInv /\ [Next]_vars => StepKeeps
    BY NextKeeps
  <1>3. StepKeeps => ReplayInv'
    BY DEF StepKeeps
  <1>. QED
    BY <1>1, <1>2, <1>3, PTL DEF Spec

(* A row reaches a server at most once, whatever sends, flushes and        *)
(* connections fail; each worker sends in the order of the file until a    *)
(* connection fails; and is_finished, which reads three counters one after *)
(* the other, finds the replay finished only when no row is waiting        *)
(* (tracereplay.rs: requeue, drive, is_finished).                          *)
THEOREM TraceReplayCorrect == Spec => []RowsSound
  <1>1. ReplayInv => RowsSound
    BY TypesFollow, OrderFollows, FinishFollows DEF RowsSound
  <1>. QED
    BY <1>1, Replaying, PTL

EachOnce == \A r \in Rows : r \in TakenUp => Cardinality(Places(r)) = 1

(* No step loses or duplicates a row that the reader has taken up, be it   *)
(* claimed, sent, put back, returned, answered or abandoned                *)
(* (tracereplay.rs: next_row, unclaim, return_claimed, requeue, drive).    *)
THEOREM RowsKept == Spec => RowsConserved
  <1>. DEFINE Kept == \A r \in Rows : Places(r) # {} => Cardinality(Places(r)') = 1
  <1>1. ReplayInv => \A r \in Rows : Places(r) # {} => r \in TakenUp
    BY PlacesFollow
  <1>2. ReplayInv => EachOnce
    BY PlacesFollow DEF EachOnce
  <1>3. ReplayInv' => EachOnce'
    BY <1>2, PTL
  <1>4. ReplayInv /\ StepKeeps => Kept
    BY <1>1, <1>3 DEF StepKeeps, EachOnce
  <1>5. ReplayInv /\ [StepKeeps]_vars => [Kept]_vars
    BY <1>4
  <1>. QED
    BY <1>5, Replaying, PTL DEF RowsConserved
=============================================================================
