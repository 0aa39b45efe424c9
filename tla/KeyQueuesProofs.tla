-------------------------- MODULE KeyQueuesProofs ---------------------------
(***************************************************************************)
(* The keys of the prefill and the ids of the append stream travel the     *)
(* same way: from the queue of an endpoint into the flight of a connection *)
(* and, when they are not confirmed there, back into a queue.  What both   *)
(* guarantee for any number of keys, endpoints and connections is proved   *)
(* here, from one account of the queues and the flights.                   *)
(***************************************************************************)
EXTENDS Prefill, MCAppendStream, FiniteSetTheorems, SequenceTheorems, TLAPS

-----------------------------------------------------------------------------
(* Sequences that hold no key twice                                        *)

(* What a sequence holds, and that it holds each of them once.             *)
Ran(s) == {s[i] : i \in DOMAIN s}
Inj(s) == \A i, j \in DOMAIN s : s[i] = s[j] => i = j

(* A key a sequence holds is at one of its places.                         *)
LEMMA SeqFacts ==
  ASSUME NEW K, NEW s \in Seq(K)
  PROVE  /\ Len(s) \in Nat /\ DOMAIN s = 1 .. Len(s)
         /\ \A i \in 1 .. Len(s) : s[i] \in K
         /\ Ran(s) \subseteq K
         /\ s = <<>> <=> Ran(s) = {}
         /\ s = <<>> <=> Len(s) = 0
  <1>1. Len(s) \in Nat /\ DOMAIN s = 1 .. Len(s) /\ \A i \in 1 .. Len(s) : s[i] \in K
    OBVIOUS
  <1>2. s = <<>> <=> Len(s) = 0
    OBVIOUS
  <1>3. Len(s) = 0 => Ran(s) = {}
    BY <1>1 DEF Ran
  <1>4. Len(s) # 0 => s[1] \in Ran(s)
    BY <1>1 DEF Ran
  <1>5. Ran(s) \subseteq K
    BY <1>1 DEF Ran
  <1>. QED
    BY <1>1, <1>2, <1>3, <1>4, <1>5

(* The empty sequence and the sequence of one key.                         *)
LEMMA NoKeys ==
  Ran(<<>>) = {} /\ Inj(<<>>)
  BY DEF Ran, Inj

LEMMA OneKey ==
  ASSUME NEW k
  PROVE  Ran(<<k>>) = {k} /\ Inj(<<k>>)
  BY DEF Ran, Inj

(* Popping the front: the rest holds what the sequence held but the head.  *)
LEMMA TailKeys ==
  ASSUME NEW K, NEW s \in Seq(K), s # <<>>
  PROVE  /\ Head(s) \in K /\ Tail(s) \in Seq(K) /\ Len(Tail(s)) = Len(s) - 1
         /\ Ran(s) = Ran(Tail(s)) \cup {Head(s)}
         /\ Inj(s) => Inj(Tail(s)) /\ Head(s) \notin Ran(Tail(s))
  <1>1. /\ Head(s) = s[1] /\ Tail(s) \in Seq(K) /\ Len(Tail(s)) = Len(s) - 1
        /\ \A i \in 1 .. Len(s) - 1 : Tail(s)[i] = s[i + 1]
        /\ Len(s) \in Nat /\ Len(s) >= 1 /\ DOMAIN s = 1 .. Len(s)
        /\ DOMAIN Tail(s) = 1 .. Len(s) - 1
    OBVIOUS
  <1>2. Ran(s) \subseteq Ran(Tail(s)) \cup {Head(s)}
    <2>. SUFFICES ASSUME NEW i \in 1 .. Len(s), i # 1
                  PROVE  s[i] \in Ran(Tail(s))
      BY <1>1 DEF Ran
    <2>1. i - 1 \in 1 .. Len(s) - 1 /\ Tail(s)[i - 1] = s[i]
      BY <1>1
    <2>. QED
      BY <1>1, <2>1 DEF Ran
  <1>3. Ran(Tail(s)) \cup {Head(s)} \subseteq Ran(s)
    BY <1>1 DEF Ran
  <1>4. ASSUME Inj(s)
        PROVE  Inj(Tail(s)) /\ Head(s) \notin Ran(Tail(s))
    BY <1>1, <1>4 DEF Ran, Inj
  <1>5. Head(s) \in K
    BY <1>1
  <1>. QED
    BY <1>1, <1>2, <1>3, <1>4, <1>5

LEMMA AppendKeys ==
  ASSUME NEW K, NEW s \in Seq(K), NEW k \in K
  PROVE  /\ Append(s, k) \in Seq(K) /\ Len(Append(s, k)) = Len(s) + 1
         /\ Ran(Append(s, k)) = Ran(s) \cup {k}
         /\ Inj(s) /\ k \notin Ran(s) => Inj(Append(s, k))
  <1>1. /\ Append(s, k) \in Seq(K) /\ Len(Append(s, k)) = Len(s) + 1
        /\ \A i \in 1 .. Len(s) : Append(s, k)[i] = s[i]
        /\ Append(s, k)[Len(s) + 1] = k
        /\ Len(s) \in Nat /\ DOMAIN s = 1 .. Len(s)
        /\ DOMAIN Append(s, k) = 1 .. Len(s) + 1
    OBVIOUS
  <1>2. \A i \in 1 .. Len(s) + 1 : i \in 1 .. Len(s) \/ i = Len(s) + 1
    BY <1>1
  <1>3. Ran(Append(s, k)) = Ran(s) \cup {k}
    <2>1. Ran(Append(s, k)) \subseteq Ran(s) \cup {k}
      BY <1>1, <1>2 DEF Ran
    <2>2. Ran(s) \subseteq Ran(Append(s, k)) /\ k \in Ran(Append(s, k))
      BY <1>1 DEF Ran
    <2>. QED
      BY <2>1, <2>2
  <1>4. ASSUME Inj(s), k \notin Ran(s)
        PROVE  Inj(Append(s, k))
    BY <1>1, <1>2, <1>4 DEF Ran, Inj
  <1>. QED
    BY <1>1, <1>3, <1>4

LEMMA ConcatKeys ==
  ASSUME NEW K, NEW s \in Seq(K), NEW t \in Seq(K)
  PROVE  /\ s \o t \in Seq(K) /\ Len(s \o t) = Len(s) + Len(t)
         /\ Ran(s \o t) = Ran(s) \cup Ran(t)
         /\ Inj(s) /\ Inj(t) /\ Ran(s) \cap Ran(t) = {} => Inj(s \o t)
  <1>. DEFINE m == Len(s)
              n == Len(t)
              u == s \o t
  <1>1. /\ m \in Nat /\ n \in Nat
        /\ DOMAIN s = 1 .. m /\ DOMAIN t = 1 .. n /\ DOMAIN u = 1 .. m + n
        /\ u \in Seq(K) /\ Len(u) = m + n
        /\ \A i \in 1 .. m : u[i] = s[i]
        /\ \A i \in m + 1 .. m + n : u[i] = t[i - m]
    OBVIOUS
  <1>. HIDE DEF m, n, u
  <1>2. \A i \in 1 .. m + n : i \in 1 .. m \/ (i \in m + 1 .. m + n /\ i - m \in 1 .. n)
    BY <1>1
  <1>3. \A i \in 1 .. n : i + m \in m + 1 .. m + n /\ u[i + m] = t[i]
    <2>1. \A i \in 1 .. n : i + m \in m + 1 .. m + n /\ (i + m) - m = i
      BY <1>1
    <2>. QED
      BY <1>1, <2>1
  <1>4. Ran(u) = Ran(s) \cup Ran(t)
    <2>1. Ran(u) \subseteq Ran(s) \cup Ran(t)
      BY <1>1, <1>2 DEF Ran
    <2>2. Ran(s) \subseteq Ran(u)
      BY <1>1 DEF Ran
    <2>3. Ran(t) \subseteq Ran(u)
      <3>. SUFFICES ASSUME NEW i \in 1 .. n
                    PROVE  t[i] \in Ran(u)
        BY <1>1 DEF Ran
      <3>1. i + m \in 1 .. m + n /\ u[i + m] = t[i]
        BY <1>1, <1>3
      <3>. QED
        BY <1>1, <3>1 DEF Ran
    <2>. QED
      BY <2>1, <2>2, <2>3
  <1>5. ASSUME Inj(s), Inj(t), Ran(s) \cap Ran(t) = {}
        PROVE  Inj(u)
    <2>. SUFFICES ASSUME NEW i \in 1 .. m + n, NEW j \in 1 .. m + n, u[i] = u[j]
                  PROVE  i = j
      BY <1>1 DEF Inj
    <2>1. CASE i \in 1 .. m /\ j \in 1 .. m
      BY <1>1, <1>5, <2>1 DEF Inj
    <2>2. CASE i - m \in 1 .. n /\ j - m \in 1 .. n /\ i \in m + 1 .. m + n /\ j \in m + 1 .. m + n
      <3>1. t[i - m] = t[j - m]
        BY <1>1, <2>2
      <3>2. i - m = j - m
        BY <1>1, <1>5, <2>2, <3>1 DEF Inj
      <3>. QED
        BY <1>1, <3>2
    <2>3. CASE i \in 1 .. m /\ j - m \in 1 .. n /\ j \in m + 1 .. m + n
      BY <1>1, <1>5, <2>3 DEF Ran
    <2>4. CASE j \in 1 .. m /\ i - m \in 1 .. n /\ i \in m + 1 .. m + n
      BY <1>1, <1>5, <2>4 DEF Ran
    <2>. QED
      BY <1>2, <2>1, <2>2, <2>3, <2>4
  <1>. QED
    BY <1>1, <1>4, <1>5 DEF m, n, u

(* What requeue_newest cuts off and what it leaves are the sequence.       *)
LEMMA SplitKeys ==
  ASSUME NEW K, NEW s \in Seq(K), NEW n \in 0 .. Len(s)
  PROVE  /\ Newest(s, n) \in Seq(K) /\ Older(s, n) \in Seq(K)
         /\ Len(Older(s, n)) = Len(s) - n
         /\ Ran(s) = Ran(Newest(s, n)) \cup Ran(Older(s, n))
         /\ Inj(s) => /\ Inj(Newest(s, n)) /\ Inj(Older(s, n))
                      /\ Ran(Newest(s, n)) \cap Ran(Older(s, n)) = {}
  <1>. DEFINE m == Len(s) - n
              new == Newest(s, n)
              old == Older(s, n)
  <1>1. m \in Nat /\ n \in Nat /\ m + n = Len(s) /\ Len(s) \in Nat /\ DOMAIN s = 1 .. m + n
    OBVIOUS
  <1>2. /\ old \in Seq(K) /\ Len(old) = m /\ DOMAIN old = 1 .. m
        /\ \A i \in 1 .. m : old[i] = s[i]
    <2>1. old = SubSeq(s, 1, m)
      BY DEF Older
    <2>. HIDE DEF m, old
    <2>. QED
      BY <1>1, <2>1
  <1>3. /\ new \in Seq(K) /\ DOMAIN new = 1 .. n
        /\ \A i \in 1 .. n : new[i] = s[i + m]
    <2>1. new = SubSeq(s, m + 1, m + n)
      BY <1>1 DEF Newest
    <2>. HIDE DEF m, new
    <2>2. new \in Seq(K) /\ Len(new) = n
      BY <1>1, <2>1
    <2>3. \A i \in 1 .. n : new[i] = s[m + 1 + i - 1]
      BY <1>1, <2>1
    <2>4. \A i \in 1 .. n : m + 1 + i - 1 = i + m
      BY <1>1
    <2>. QED
      BY <2>2, <2>3, <2>4
  <1>. HIDE DEF m, new, old
  <1>4. \A i \in 1 .. m + n : i \in 1 .. m \/ (i - m \in 1 .. n /\ (i - m) + m = i)
    BY <1>1
  <1>5. \A i \in 1 .. n : i + m \in 1 .. m + n /\ i + m \notin 1 .. m
    BY <1>1
  <1>6. Ran(s) = Ran(new) \cup Ran(old)
    <2>1. ASSUME NEW i \in 1 .. m + n
          PROVE  s[i] \in Ran(new) \cup Ran(old)
      <3>1. CASE i \in 1 .. m
        BY <1>2, <3>1 DEF Ran
      <3>2. CASE i - m \in 1 .. n /\ (i - m) + m = i
        BY <1>3, <3>2 DEF Ran
      <3>. QED
        BY <1>4, <3>1, <3>2
    <2>2. Ran(new) \subseteq Ran(s)
      BY <1>1, <1>3, <1>5 DEF Ran
    <2>3. Ran(old) \subseteq Ran(s)
      BY <1>1, <1>2 DEF Ran
    <2>4. Ran(s) \subseteq Ran(new) \cup Ran(old)
      BY <1>1, <2>1 DEF Ran
    <2>. QED
      BY <2>2, <2>3, <2>4
  <1>7. ASSUME Inj(s)
        PROVE  Inj(new) /\ Inj(old) /\ Ran(new) \cap Ran(old) = {}
    <2>1. Inj(old)
      BY <1>1, <1>2, <1>7 DEF Inj
    <2>2. ASSUME NEW i \in 1 .. n, NEW j \in 1 .. n, new[i] = new[j]
          PROVE  i = j
      <3>1. i + m = j + m
        BY <1>1, <1>3, <1>5, <1>7, <2>2 DEF Inj
      <3>. QED
        BY <1>1, <3>1
    <2>3. Inj(new)
      BY <1>3, <2>2 DEF Inj
    <2>4. ASSUME NEW i \in 1 .. n, NEW j \in 1 .. m
          PROVE  new[i] # old[j]
      <3>1. i + m \in 1 .. m + n /\ j \in 1 .. m + n /\ i + m # j
        BY <1>1
      <3>. QED
        BY <1>1, <1>2, <1>3, <1>7, <3>1 DEF Inj
    <2>5. Ran(new) \cap Ran(old) = {}
      BY <1>2, <1>3, <2>4 DEF Ran
    <2>. QED
      BY <2>1, <2>3, <2>5
  <1>. QED
    BY <1>2, <1>3, <1>6, <1>7 DEF m, new, old

(* The ranks of a finite set of places: strictly ascending, from one up.   *)
LEMMA RankFacts ==
  ASSUME NEW T, T \subseteq Nat, IsFiniteSet(T)
  PROVE  /\ \A i \in T : Rank(T, i) \in 1 .. Cardinality(T)
         /\ \A i, j \in T : i < j => Rank(T, i) < Rank(T, j)
  <1>. DEFINE Upto(i) == {j \in T : j <= i}
  <1>0. \A i \in T : i \in Nat
    OBVIOUS
  <1>1. ASSUME NEW i \in T
        PROVE  /\ IsFiniteSet(Upto(i)) /\ Cardinality(Upto(i)) \in Nat
               /\ Cardinality(Upto(i)) <= Cardinality(T)
               /\ Cardinality(Upto(i)) > 0
    <2>1. Upto(i) \subseteq T /\ i \in Upto(i)
      BY <1>0
    <2>2. IsFiniteSet(Upto(i)) /\ Cardinality(Upto(i)) \in Nat
          /\ Cardinality(Upto(i)) <= Cardinality(T)
      BY <2>1, FS_Subset, FS_CardinalityType
    <2>3. Cardinality(Upto(i)) # 0
      BY <2>1, <2>2, FS_EmptySet
    <2>. QED
      BY <2>2, <2>3
  <1>2. ASSUME NEW i \in T, NEW j \in T, i < j
        PROVE  Cardinality(Upto(i)) < Cardinality(Upto(j))
    <2>0. j <= j /\ ~(j <= i) /\ \A x \in T : x <= i => x <= j
      BY <1>0, <1>2
    <2>1. Upto(i) \subseteq Upto(j) /\ j \in Upto(j) /\ j \notin Upto(i)
      BY <2>0, Zenon
    <2>2. Upto(i) # Upto(j)
      BY <2>1
    <2>3. Cardinality(Upto(i)) <= Cardinality(Upto(j))
          /\ (Cardinality(Upto(i)) = Cardinality(Upto(j)) => Upto(i) = Upto(j))
      BY <1>1, <2>1, FS_Subset
    <2>4. Cardinality(Upto(i)) \in Nat /\ Cardinality(Upto(j)) \in Nat
      BY <1>1
    <2>. HIDE DEF Upto
    <2>. QED
      BY <2>2, <2>3, <2>4
  <1>3. \A i : Rank(T, i) = Cardinality(Upto(i))
    BY DEF Rank
  <1>4. Cardinality(T) \in Nat
    BY FS_CardinalityType
  <1>. HIDE DEF Upto
  <1>. QED
    BY <1>1, <1>2, <1>3, <1>4

(* Every rank is some place's: ranks are an injection between finite sets  *)
(* of the same size.                                                       *)
LEMMA RankOnto ==
  ASSUME NEW T, T \subseteq Nat, IsFiniteSet(T), NEW k \in 1 .. Cardinality(T)
  PROVE  \E i \in T : Rank(T, i) = k
  <1>. DEFINE N == 1 .. Cardinality(T)
              f == [i \in T |-> Rank(T, i)]
  <1>1. Cardinality(T) \in Nat
    BY FS_CardinalityType
  <1>2. IsFiniteSet(N) /\ Cardinality(N) = Cardinality(T)
    BY <1>1, FS_Interval
  <1>3. f \in [T -> N] /\ \A a, b \in T : f[a] = f[b] => a = b
    <2>1. \A i, j \in T : i < j => Rank(T, i) < Rank(T, j)
      BY RankFacts
    <2>2. \A i \in T : Rank(T, i) \in N
      BY RankFacts
    <2>3. ASSUME NEW a \in T, NEW b \in T, Rank(T, a) = Rank(T, b)
          PROVE  a = b
      <3>1. a \in Nat /\ b \in Nat /\ Rank(T, a) \in Nat /\ Rank(T, b) \in Nat
        BY <2>2
      <3>. QED
        BY <3>1, <2>1, <2>3
    <2>. QED
      BY <2>2, <2>3
  <1>4. f \in Injection(T, N)
    BY <1>3 DEF Injection, IsInjective
  <1>5. f \in Surjection(T, N)
    BY <1>2, <1>4, FS_Injection
  <1>. QED
    BY <1>5 DEF Surjection

(* That p reads s through the map g from its places onto those in T, which *)
(* takes no place twice.                                                   *)
ReadsThrough(p, s, T, g) ==
  /\ g \in [1 .. Cardinality(T) -> T]
  /\ \A k \in 1 .. Cardinality(T) : p[k] = s[g[k]]
  /\ \A k, l \in 1 .. Cardinality(T) : g[k] = g[l] => k = l
  /\ \A i \in T : \E k \in 1 .. Cardinality(T) : g[k] = i

LEMMA PickedMap ==
  ASSUME NEW s, NEW T, T \subseteq Nat, IsFiniteSet(T)
  PROVE  \E g : ReadsThrough(Picked(s, T), s, T, g)
  <1>. DEFINE N == 1 .. Cardinality(T)
              At(k) == CHOOSE i \in T : Rank(T, i) = k
              g == [k \in N |-> At(k)]
  <1>1. \A k \in N : At(k) \in T /\ Rank(T, At(k)) = k
    BY RankOnto
  <1>2. \A i \in T : Rank(T, i) \in N /\ At(Rank(T, i)) = i
    <2>. TAKE i \in T
    <2>1. Rank(T, i) \in N
      BY RankFacts
    <2>2. At(Rank(T, i)) \in T /\ Rank(T, At(Rank(T, i))) = Rank(T, i)
      BY <1>1, <2>1, Zenon
    <2>. DEFINE j == At(Rank(T, i))
    <2>3. \A a, b \in T : a < b => Rank(T, a) < Rank(T, b)
      BY RankFacts
    <2>5. j \in T /\ Rank(T, j) = Rank(T, i)
      BY <2>2
    <2>. HIDE DEF j
    <2>4. i \in Nat /\ j \in Nat /\ Rank(T, i) \in Nat
      BY <2>1, <2>5
    <2>6. j = i
      BY <2>3, <2>4, <2>5
    <2>. QED
      BY <2>1, <2>6 DEF j
  <1>3. \A k \in N : Picked(s, T)[k] = s[At(k)]
    BY DEF Picked
  <1>. HIDE DEF N, At
  <1>4. g \in [N -> T] /\ \A k \in N : g[k] = At(k)
    BY <1>1
  <1>. HIDE DEF g
  <1>5. /\ \A k \in N : Picked(s, T)[k] = s[g[k]]
        /\ \A k, l \in N : g[k] = g[l] => k = l
        /\ \A i \in T : \E k \in N : g[k] = i
    BY <1>1, <1>2, <1>3, <1>4, Zenon
  <1>6. ReadsThrough(Picked(s, T), s, T, g)
    BY <1>4, <1>5 DEF N, ReadsThrough
  <1>. QED
    BY <1>6

(* So what is picked from a sequence holds the keys at the picked places.  *)
LEMMA PickedKeys ==
  ASSUME NEW K, NEW s \in Seq(K), NEW T \in SUBSET (DOMAIN s)
  PROVE  /\ Picked(s, T) \in Seq(K)
         /\ Ran(Picked(s, T)) = {s[i] : i \in T}
         /\ Inj(s) => Inj(Picked(s, T))
  <1>. DEFINE n == Cardinality(T)
              p == Picked(s, T)
  <1>1. /\ Len(s) \in Nat /\ DOMAIN s = 1 .. Len(s) /\ \A i \in DOMAIN s : s[i] \in K
    OBVIOUS
  <1>2. IsFiniteSet(1 .. Len(s))
    BY <1>1, FS_Interval
  <1>3. T \subseteq Nat /\ IsFiniteSet(T) /\ n \in Nat
    BY <1>1, <1>2, FS_Subset, FS_CardinalityType
  <1>4. PICK g : ReadsThrough(p, s, T, g)
    BY <1>3, PickedMap, Zenon
  <1>5. p = [k \in 1 .. n |-> p[k]] /\ DOMAIN p = 1 .. n
    BY DEF Picked
  <1>. HIDE DEF n, p
  <1>41. /\ g \in [1 .. n -> T] /\ \A k \in 1 .. n : p[k] = s[g[k]]
         /\ \A k, l \in 1 .. n : g[k] = g[l] => k = l
         /\ \A i \in T : \E k \in 1 .. n : g[k] = i
    BY <1>4 DEF ReadsThrough, n
  <1>6. \A k \in 1 .. n : g[k] \in T /\ g[k] \in DOMAIN s /\ s[g[k]] \in K
    <2>1. \A k \in 1 .. n : g[k] \in T
      BY <1>41
    <2>2. T \subseteq DOMAIN s
      OBVIOUS
    <2>. QED
      BY <1>1, <2>1, <2>2, Zenon
  <1>7. p \in Seq(K)
    <2>1. \A k \in 1 .. n : p[k] \in K
      BY <1>41, <1>6
    <2>2. p \in [1 .. n -> K]
      BY <1>5, <2>1
    <2>. QED
      BY <1>3, <2>2
  <1>8. Ran(p) = {s[i] : i \in T}
    <2>1. Ran(p) \subseteq {s[i] : i \in T}
      BY <1>41, <1>5, <1>6 DEF Ran
    <2>2. {s[i] : i \in T} \subseteq Ran(p)
      BY <1>41, <1>5 DEF Ran
    <2>. QED
      BY <2>1, <2>2
  <1>9. Inj(s) => Inj(p)
    BY <1>41, <1>5, <1>6 DEF Inj
  <1>. QED
    BY <1>7, <1>8, <1>9 DEF p

(* The queue that build_prefill_queues makes of a finite set of keys.      *)
LEMMA SetToSeqKeys ==
  ASSUME NEW S, IsFiniteSet(S)
  PROVE  SetToSeq(S) \in Seq(S) /\ Ran(SetToSeq(S)) = S /\ Inj(SetToSeq(S))
  <1>. DEFINE n == Cardinality(S)
              f == SetToSeq(S)
  <1>1. n \in Nat /\ ExistsBijection(1 .. n, S)
    BY FS_CardinalityType
  <1>2. PICK b : b \in Bijection(1 .. n, S)
    BY <1>1 DEF ExistsBijection
  <1>3. \E h \in [1 .. n -> S] : IsInjective(h)
    BY <1>2 DEF Bijection, Injection
  <1>4. f \in [1 .. n -> S] /\ IsInjective(f)
    BY <1>3 DEF SetToSeq
  <1>5. IsFiniteSet(1 .. n) /\ Cardinality(1 .. n) = n
    BY <1>1, FS_Interval
  <1>6. f \in Injection(1 .. n, S)
    BY <1>4 DEF Injection
  <1>. HIDE DEF f
  <1>7. f \in Surjection(1 .. n, S)
    BY <1>5, <1>6, FS_Injection
  <1>8. DOMAIN f = 1 .. n /\ (\A i \in 1 .. n : f[i] \in S)
        /\ \A x \in S : \E i \in 1 .. n : f[i] = x
    BY <1>4, <1>7 DEF Surjection
  <1>. HIDE DEF n
  <1>9. Ran(f) = S
    <2>1. Ran(f) \subseteq S
      BY <1>8 DEF Ran
    <2>2. S \subseteq Ran(f)
      BY <1>8 DEF Ran
    <2>. QED
      BY <2>1, <2>2
  <1>10. Inj(f)
    BY <1>4, <1>8 DEF Inj, IsInjective
  <1>11. f \in Seq(S)
    BY <1>1, <1>4
  <1>. QED
    BY <1>9, <1>10, <1>11 DEF f

-----------------------------------------------------------------------------
(* The books: queues q of the endpoints E and flights f of the connections *)
(* C in which no key of K is held twice                                    *)

Books(q, E, f, C, K) ==
  /\ q \in [E -> Seq(K)] /\ f \in [C -> Seq(K)]
  /\ \A e \in E : Inj(q[e])
  /\ \A c \in C : Inj(f[c])
  /\ \A d, e \in E : d # e => Ran(q[d]) \cap Ran(q[e]) = {}
  /\ \A b, c \in C : b # c => Ran(f[b]) \cap Ran(f[c]) = {}
  /\ \A e \in E, c \in C : Ran(q[e]) \cap Ran(f[c]) = {}

Held(q, E, f, C, K) ==
  {k \in K : (\E e \in E : k \in Ran(q[e])) \/ (\E c \in C : k \in Ran(f[c]))}

(* Where the lists of a family hold key k.                                 *)
LEMMA KeptInFacts ==
  ASSUME NEW place, NEW lists, NEW k, NEW p
  PROVE  p \in KeptIn(place, lists, k) <=>
           \E x \in DOMAIN lists : \E i \in DOMAIN lists[x] :
             lists[x][i] = k /\ p = <<place, x, i>>
  <1>. DEFINE In(x) == {<<place, x, i>> : i \in {j \in DOMAIN lists[x] : lists[x][j] = k}}
  <1>1. \A x : p \in In(x) <=> \E i \in DOMAIN lists[x] : lists[x][i] = k /\ p = <<place, x, i>>
    BY Zenon
  <1>2. KeptIn(place, lists, k) = UNION {In(x) : x \in DOMAIN lists}
    BY DEF KeptIn
  <1>. HIDE DEF In
  <1>3. p \in UNION {In(x) : x \in DOMAIN lists} <=> \E x \in DOMAIN lists : p \in In(x)
    BY Zenon
  <1>. QED
    BY <1>1, <1>2, <1>3, Zenon

(* By the books a key has one place, and none just when it is not held.    *)
LEMMA BooksPlaces ==
  ASSUME NEW q, NEW E, NEW f, NEW C, NEW K, NEW k \in K, Books(q, E, f, C, K)
  PROVE  LET P == KeptIn("queue", q, k) \cup KeptIn("flight", f, k)
         IN  Cardinality(P) <= 1 /\ (P = {} <=> k \notin Held(q, E, f, C, K))
  <1>. DEFINE P == KeptIn("queue", q, k) \cup KeptIn("flight", f, k)
  <1>a. DOMAIN q = E /\ DOMAIN f = C
    BY DEF Books
  <1>1. ASSUME NEW x, x \in P
        PROVE  \/ \E e \in E : \E i \in DOMAIN q[e] : q[e][i] = k /\ x = <<"queue", e, i>>
               \/ \E c \in C : \E i \in DOMAIN f[c] : f[c][i] = k /\ x = <<"flight", c, i>>
    <2>1. CASE x \in KeptIn("queue", q, k)
      <3>1. \E e \in DOMAIN q : \E i \in DOMAIN q[e] : q[e][i] = k /\ x = <<"queue", e, i>>
        BY <2>1, KeptInFacts
      <3>. QED
        BY <1>a, <3>1
    <2>2. CASE x \in KeptIn("flight", f, k)
      <3>1. \E e \in DOMAIN f : \E i \in DOMAIN f[e] : f[e][i] = k /\ x = <<"flight", e, i>>
        BY <2>2, KeptInFacts
      <3>. QED
        BY <1>a, <3>1
    <2>. QED
      BY <1>1, <2>1, <2>2
  <1>2. \A e \in E : \A i \in DOMAIN q[e] : q[e][i] = k => <<"queue", e, i>> \in P
    BY <1>a, KeptInFacts, Zenon
  <1>3. \A c \in C : \A i \in DOMAIN f[c] : f[c][i] = k => <<"flight", c, i>> \in P
    BY <1>a, KeptInFacts, Zenon
  <1>. HIDE DEF P
  <1>4. P = {} => k \notin Held(q, E, f, C, K)
    BY <1>2, <1>3 DEF Held, Ran
  <1>5. P # {} => k \in Held(q, E, f, C, K)
    <2>. SUFFICES ASSUME NEW x \in P
                  PROVE  k \in Held(q, E, f, C, K)
      OBVIOUS
    <2>. QED
      BY <1>1 DEF Held, Ran
  <1>6. ASSUME NEW x \in P, NEW y \in P
        PROVE  x = y
    <2>1. CASE \E e \in E : \E i \in DOMAIN q[e] : q[e][i] = k /\ x = <<"queue", e, i>>
      <3>1. PICK e \in E : \E i \in DOMAIN q[e] : q[e][i] = k /\ x = <<"queue", e, i>>
        BY <2>1
      <3>2. PICK i \in DOMAIN q[e] : q[e][i] = k /\ x = <<"queue", e, i>>
        BY <3>1
      <3>3. k \in Ran(q[e])
        BY <3>2 DEF Ran
      <3>4. \A c \in C : k \notin Ran(f[c])
        BY <3>3 DEF Books
      <3>5. \A d \in E : k \in Ran(q[d]) => d = e
        BY <3>3 DEF Books
      <3>6. PICK d \in E : \E j \in DOMAIN q[d] : q[d][j] = k /\ y = <<"queue", d, j>>
        BY <1>1, <3>4 DEF Ran
      <3>7. PICK j \in DOMAIN q[d] : q[d][j] = k /\ y = <<"queue", d, j>>
        BY <3>6
      <3>8. d = e
        BY <3>5, <3>7 DEF Ran
      <3>9. i = j
        BY <3>2, <3>7, <3>8 DEF Books, Inj
      <3>. QED
        BY <3>2, <3>7, <3>8, <3>9
    <2>2. CASE \E c \in C : \E i \in DOMAIN f[c] : f[c][i] = k /\ x = <<"flight", c, i>>
      <3>1. PICK c \in C : \E i \in DOMAIN f[c] : f[c][i] = k /\ x = <<"flight", c, i>>
        BY <2>2
      <3>2. PICK i \in DOMAIN f[c] : f[c][i] = k /\ x = <<"flight", c, i>>
        BY <3>1
      <3>3. k \in Ran(f[c])
        BY <3>2 DEF Ran
      <3>4. \A e \in E : k \notin Ran(q[e])
        BY <3>3 DEF Books
      <3>5. \A b \in C : k \in Ran(f[b]) => b = c
        BY <3>3 DEF Books
      <3>6. PICK b \in C : \E j \in DOMAIN f[b] : f[b][j] = k /\ y = <<"flight", b, j>>
        BY <1>1, <3>4 DEF Ran
      <3>7. PICK j \in DOMAIN f[b] : f[b][j] = k /\ y = <<"flight", b, j>>
        BY <3>6
      <3>8. b = c
        BY <3>5, <3>7 DEF Ran
      <3>9. i = j
        BY <3>2, <3>7, <3>8 DEF Books, Inj
      <3>. QED
        BY <3>2, <3>7, <3>8, <3>9
    <2>. QED
      BY <1>1, <2>1, <2>2
  <1>7. Cardinality(P) <= 1
    <2>1. CASE P = {}
      BY <2>1, FS_EmptySet
    <2>2. CASE P # {}
      <3>1. PICK x : x \in P
        BY <2>2
      <3>2. P = {x}
        BY <1>6, <3>1
      <3>3. Cardinality({x}) = 1
        BY FS_Singleton
      <3>. QED
        BY <3>2, <3>3
    <2>. QED
      BY <2>1, <2>2
  <1>. QED
    BY <1>4, <1>5, <1>7 DEF P

(* One queue and one flight change and hold between them nothing they did  *)
(* not hold before.                                                        *)
Exchanged(q, E, f, C, K, e, c, s, t, q2, f2) ==
  /\ Books(q, E, f, C, K) /\ e \in E /\ c \in C /\ s \in Seq(K) /\ t \in Seq(K)
  /\ Inj(s) /\ Inj(t) /\ Ran(s) \cap Ran(t) = {}
  /\ Ran(s) \cup Ran(t) \subseteq Ran(q[e]) \cup Ran(f[c])
  /\ q2 = [q EXCEPT ![e] = s] /\ f2 = [f EXCEPT ![c] = t]

LEMMA Exchange ==
  ASSUME NEW q, NEW E, NEW f, NEW C, NEW K, NEW e, NEW c, NEW s, NEW t, NEW q2, NEW f2,
         Exchanged(q, E, f, C, K, e, c, s, t, q2, f2)
  PROVE  /\ Books(q2, E, f2, C, K)
         /\ Held(q2, E, f2, C, K)
              = (Held(q, E, f, C, K) \ (Ran(q[e]) \cup Ran(f[c]))) \cup (Ran(s) \cup Ran(t))
  <1>0. /\ e \in E /\ c \in C /\ s \in Seq(K) /\ t \in Seq(K)
        /\ Inj(s) /\ Inj(t) /\ Ran(s) \cap Ran(t) = {}
        /\ Ran(s) \cup Ran(t) \subseteq Ran(q[e]) \cup Ran(f[c])
        /\ q2 = [q EXCEPT ![e] = s] /\ f2 = [f EXCEPT ![c] = t]
    BY DEF Exchanged
  <1>1. /\ q \in [E -> Seq(K)] /\ f \in [C -> Seq(K)]
        /\ \A d \in E : Inj(q[d])
        /\ \A d \in C : Inj(f[d])
        /\ \A a, d \in E : a # d => Ran(q[a]) \cap Ran(q[d]) = {}
        /\ \A a, d \in C : a # d => Ran(f[a]) \cap Ran(f[d]) = {}
        /\ \A a \in E, d \in C : Ran(q[a]) \cap Ran(f[d]) = {}
    BY DEF Books, Exchanged
  <1>2. /\ q2 \in [E -> Seq(K)] /\ q2[e] = s /\ \A d \in E \ {e} : q2[d] = q[d]
        /\ f2 \in [C -> Seq(K)] /\ f2[c] = t /\ \A d \in C \ {c} : f2[d] = f[d]
    BY <1>0, <1>1
  <1>3. (\A d \in E : Inj(q2[d])) /\ (\A d \in C : Inj(f2[d]))
    BY <1>0, <1>1, <1>2
  <1>4. ASSUME NEW a \in E, NEW d \in E, a # d
        PROVE  Ran(q2[a]) \cap Ran(q2[d]) = {}
    BY <1>0, <1>1, <1>2, <1>4
  <1>5. ASSUME NEW a \in C, NEW d \in C, a # d
        PROVE  Ran(f2[a]) \cap Ran(f2[d]) = {}
    BY <1>0, <1>1, <1>2, <1>5
  <1>6. ASSUME NEW a \in E, NEW d \in C
        PROVE  Ran(q2[a]) \cap Ran(f2[d]) = {}
    BY <1>0, <1>1, <1>2
  <1>7. Books(q2, E, f2, C, K)
    BY <1>2, <1>3, <1>4, <1>5, <1>6 DEF Books
  <1>8. ASSUME NEW k \in K
        PROVE  k \in Held(q2, E, f2, C, K) <=>
                 \/ k \in Held(q, E, f, C, K) /\ k \notin Ran(q[e]) /\ k \notin Ran(f[c])
                 \/ k \in Ran(s) \/ k \in Ran(t)
    <2>1. k \in Held(q2, E, f2, C, K) <=>
            (\E d \in E : k \in Ran(q2[d])) \/ (\E d \in C : k \in Ran(f2[d]))
      BY DEF Held
    <2>2. k \in Held(q, E, f, C, K) <=>
            (\E d \in E : k \in Ran(q[d])) \/ (\E d \in C : k \in Ran(f[d]))
      BY DEF Held
    <2>3. CASE k \in Ran(s) \/ k \in Ran(t)
      BY <1>0, <1>2, <2>1, <2>3
    <2>4. CASE k \notin Ran(s) /\ k \notin Ran(t)
      BY <1>0, <1>1, <1>2, <2>1, <2>2, <2>4
    <2>. QED
      BY <2>3, <2>4
  <1>9. Held(q2, E, f2, C, K)
          = (Held(q, E, f, C, K) \ (Ran(q[e]) \cup Ran(f[c]))) \cup (Ran(s) \cup Ran(t))
    <2>1. Ran(s) \subseteq K /\ Ran(t) \subseteq K
      BY <1>0, SeqFacts
    <2>2. \A k \in Held(q2, E, f2, C, K) \cup Held(q, E, f, C, K) : k \in K
      BY DEF Held
    <2>. QED
      BY <1>8, <2>1, <2>2
  <1>. QED
    BY <1>7, <1>9 

(* Two queues change and hold between them what they held before.          *)
HandedOver(q, E, f, C, K, d, e, s, t, q2) ==
  /\ Books(q, E, f, C, K) /\ d \in E /\ e \in E /\ d # e /\ s \in Seq(K) /\ t \in Seq(K)
  /\ Inj(s) /\ Inj(t) /\ Ran(s) \cap Ran(t) = {}
  /\ Ran(s) \cup Ran(t) = Ran(q[d]) \cup Ran(q[e])
  /\ q2 = [[q EXCEPT ![d] = s] EXCEPT ![e] = t]

LEMMA Handover ==
  ASSUME NEW q, NEW E, NEW f, NEW C, NEW K, NEW d, NEW e, NEW s, NEW t, NEW q2,
         HandedOver(q, E, f, C, K, d, e, s, t, q2)
  PROVE  Books(q2, E, f, C, K) /\ Held(q2, E, f, C, K) = Held(q, E, f, C, K)
  <1>0. /\ d \in E /\ e \in E /\ d # e /\ s \in Seq(K) /\ t \in Seq(K)
        /\ Inj(s) /\ Inj(t) /\ Ran(s) \cap Ran(t) = {}
        /\ Ran(s) \cup Ran(t) = Ran(q[d]) \cup Ran(q[e])
        /\ q2 = [[q EXCEPT ![d] = s] EXCEPT ![e] = t]
    BY DEF HandedOver
  <1>1. /\ q \in [E -> Seq(K)] /\ f \in [C -> Seq(K)]
        /\ \A a \in E : Inj(q[a])
        /\ \A a \in C : Inj(f[a])
        /\ \A a, b \in E : a # b => Ran(q[a]) \cap Ran(q[b]) = {}
        /\ \A a, b \in C : a # b => Ran(f[a]) \cap Ran(f[b]) = {}
        /\ \A a \in E, b \in C : Ran(q[a]) \cap Ran(f[b]) = {}
    BY DEF Books, HandedOver
  <1>2. /\ q2 \in [E -> Seq(K)] /\ q2[d] = s /\ q2[e] = t
        /\ \A a \in E \ {d, e} : q2[a] = q[a]
    BY <1>0, <1>1
  <1>3. \A a \in E : Inj(q2[a])
    BY <1>0, <1>1, <1>2
  <1>4. ASSUME NEW a \in E, NEW b \in E, a # b
        PROVE  Ran(q2[a]) \cap Ran(q2[b]) = {}
    <2>. DEFINE R(x) == Ran(q[x])
    <2>1. /\ R(a) \cap R(b) = {}
          /\ d # a => R(d) \cap R(a) = {}
          /\ d # b => R(d) \cap R(b) = {}
          /\ e # a => R(e) \cap R(a) = {}
          /\ e # b => R(e) \cap R(b) = {}
      BY <1>0, <1>1, <1>4
    <2>2. Ran(s) \cup Ran(t) = R(d) \cup R(e)
      BY <1>0
    <2>3. a \in {d, e} \/ q2[a] = q[a]
      BY <1>0, <1>2
    <2>4. b \in {d, e} \/ q2[b] = q[b]
      BY <1>0, <1>2
    <2>5. CASE a \in {d, e} /\ b \in {d, e}
      BY <1>0, <1>2, <1>4, <2>5
    <2>6. CASE a \in {d, e} /\ b \notin {d, e}
      BY <1>0, <1>2, <2>1, <2>2, <2>4, <2>6
    <2>7. CASE a \notin {d, e} /\ b \in {d, e}
      BY <1>0, <1>2, <2>1, <2>2, <2>3, <2>7
    <2>8. CASE a \notin {d, e} /\ b \notin {d, e}
      BY <1>0, <2>1, <2>3, <2>4, <2>8
    <2>. QED
      BY <2>5, <2>6, <2>7, <2>8
  <1>5. ASSUME NEW a \in E, NEW b \in C
        PROVE  Ran(q2[a]) \cap Ran(f[b]) = {}
    BY <1>0, <1>1, <1>2
  <1>6. Books(q2, E, f, C, K)
    BY <1>0, <1>1, <1>2, <1>3, <1>4, <1>5 DEF Books
  <1>7. ASSUME NEW k
        PROVE  (\E a \in E : k \in Ran(q2[a])) <=> (\E a \in E : k \in Ran(q[a]))
    BY <1>0, <1>2
  <1>8. Held(q2, E, f, C, K) = Held(q, E, f, C, K)
    BY <1>7 DEF Held
  <1>. QED
    BY <1>6, <1>8

(* A key nobody holds joins the end of a queue.                            *)
Joined(q, E, f, C, K, e, k, q2) ==
  /\ Books(q, E, f, C, K) /\ e \in E /\ k \in K /\ k \notin Held(q, E, f, C, K)
  /\ q2 = [q EXCEPT ![e] = Append(q[e], k)]

LEMMA Joins ==
  ASSUME NEW q, NEW E, NEW f, NEW C, NEW K, NEW e, NEW k, NEW q2,
         Joined(q, E, f, C, K, e, k, q2)
  PROVE  Books(q2, E, f, C, K) /\ Held(q2, E, f, C, K) = Held(q, E, f, C, K) \cup {k}
  <1>0. /\ e \in E /\ k \in K /\ k \notin Held(q, E, f, C, K)
        /\ q2 = [q EXCEPT ![e] = Append(q[e], k)]
    BY DEF Joined
  <1>1. /\ q \in [E -> Seq(K)] /\ f \in [C -> Seq(K)]
        /\ \A a \in E : Inj(q[a])
        /\ \A a \in C : Inj(f[a])
        /\ \A a, b \in E : a # b => Ran(q[a]) \cap Ran(q[b]) = {}
        /\ \A a, b \in C : a # b => Ran(f[a]) \cap Ran(f[b]) = {}
        /\ \A a \in E, b \in C : Ran(q[a]) \cap Ran(f[b]) = {}
    BY DEF Books, Joined
  <1>2. (\A a \in E : k \notin Ran(q[a])) /\ (\A a \in C : k \notin Ran(f[a]))
    BY <1>0 DEF Held
  <1>3. /\ Append(q[e], k) \in Seq(K)
        /\ Ran(Append(q[e], k)) = Ran(q[e]) \cup {k} /\ Inj(Append(q[e], k))
    <2>1. q[e] \in Seq(K)
      BY <1>0, <1>1
    <2>. QED
      BY <1>0, <1>1, <1>2, <2>1, AppendKeys
  <1>4. /\ q2 \in [E -> Seq(K)] /\ q2[e] = Append(q[e], k)
        /\ \A a \in E \ {e} : q2[a] = q[a]
    BY <1>0, <1>1, <1>3
  <1>5. \A a \in E : Inj(q2[a])
    BY <1>0, <1>1, <1>3, <1>4
  <1>6. ASSUME NEW a \in E, NEW b \in E, a # b
        PROVE  Ran(q2[a]) \cap Ran(q2[b]) = {}
    <2>1. Ran(q[a]) \cap Ran(q[b]) = {}
      BY <1>0, <1>1, <1>6
    <2>2. CASE a = e
      BY <1>0, <1>2, <1>3, <1>4, <1>6, <2>1, <2>2
    <2>3. CASE b = e
      BY <1>0, <1>2, <1>3, <1>4, <1>6, <2>1, <2>3
    <2>4. CASE a # e /\ b # e
      BY <1>4, <2>1, <2>4
    <2>. QED
      BY <2>2, <2>3, <2>4
  <1>7. ASSUME NEW a \in E, NEW b \in C
        PROVE  Ran(q2[a]) \cap Ran(f[b]) = {}
    BY <1>0, <1>1, <1>2, <1>3, <1>4
  <1>8. Books(q2, E, f, C, K)
    BY <1>0, <1>1, <1>4, <1>5, <1>6, <1>7 DEF Books
  <1>9. ASSUME NEW x
        PROVE  (\E a \in E : x \in Ran(q2[a])) <=> x = k \/ (\E a \in E : x \in Ran(q[a]))
    BY <1>0, <1>3, <1>4
  <1>10. Held(q2, E, f, C, K) = Held(q, E, f, C, K) \cup {k}
    BY <1>0, <1>9 DEF Held
  <1>. QED
    BY <1>8, <1>10

(* A connection is lost: each key of its flight goes to the queue r has it *)
(* in, and nothing else moves.                                             *)
Drains(q, E, f, C, K, c, r, q2, f2) ==
  /\ Books(q, E, f, C, K) /\ c \in C /\ r \in [K -> E]
  /\ q2 = [e \in E |-> q[e] \o Picked(f[c], {i \in DOMAIN f[c] : r[f[c][i]] = e})]
  /\ f2 = [f EXCEPT ![c] = <<>>]

LEMMA Drained ==
  ASSUME NEW q, NEW E, NEW f, NEW C, NEW K, NEW c, NEW r, NEW q2, NEW f2,
         Drains(q, E, f, C, K, c, r, q2, f2)
  PROVE  Books(q2, E, f2, C, K) /\ Held(q2, E, f2, C, K) = Held(q, E, f, C, K)
  <1>. DEFINE T(e) == {i \in DOMAIN f[c] : r[f[c][i]] = e}
              p(e) == Picked(f[c], T(e))
  <1>0. /\ c \in C /\ r \in [K -> E]
        /\ q2 = [e \in E |-> q[e] \o p(e)] /\ f2 = [f EXCEPT ![c] = <<>>]
    BY DEF Drains
  <1>1. /\ q \in [E -> Seq(K)] /\ f \in [C -> Seq(K)]
        /\ \A a \in E : Inj(q[a])
        /\ \A a \in C : Inj(f[a])
        /\ \A a, b \in E : a # b => Ran(q[a]) \cap Ran(q[b]) = {}
        /\ \A a, b \in C : a # b => Ran(f[a]) \cap Ran(f[b]) = {}
        /\ \A a \in E, b \in C : Ran(q[a]) \cap Ran(f[b]) = {}
    BY DEF Books, Drains
  <1>2. f[c] \in Seq(K) /\ Inj(f[c]) /\ DOMAIN f[c] = 1 .. Len(f[c])
        /\ \A i \in DOMAIN f[c] : f[c][i] \in K
    BY <1>0, <1>1
  <1>3. ASSUME NEW e \in E
        PROVE  /\ p(e) \in Seq(K) /\ Inj(p(e))
               /\ \A k : k \in Ran(p(e)) <=> k \in Ran(f[c]) /\ r[k] = e
    <2>1. T(e) \in SUBSET (DOMAIN f[c])
      OBVIOUS
    <2>2. \A k : k \in {f[c][i] : i \in T(e)} <=> k \in Ran(f[c]) /\ r[k] = e
      BY DEF Ran
    <2>. HIDE DEF T
    <2>3. p(e) \in Seq(K) /\ Inj(p(e)) /\ Ran(p(e)) = {f[c][i] : i \in T(e)}
      BY <1>2, <2>1, PickedKeys
    <2>. QED
      BY <2>2, <2>3
  <1>. HIDE DEF p, T
  <1>4. ASSUME NEW e \in E
        PROVE  /\ q[e] \o p(e) \in Seq(K) /\ Inj(q[e] \o p(e))
               /\ Ran(q[e] \o p(e)) = Ran(q[e]) \cup Ran(p(e))
    <2>1. q[e] \in Seq(K) /\ Inj(q[e]) /\ p(e) \in Seq(K) /\ Inj(p(e))
      BY <1>0, <1>1, <1>3
    <2>2. Ran(q[e]) \cap Ran(p(e)) = {}
      BY <1>0, <1>1, <1>3
    <2>. QED
      BY <2>1, <2>2, ConcatKeys
  <1>5. /\ q2 \in [E -> Seq(K)] /\ \A e \in E : q2[e] = q[e] \o p(e)
    BY <1>0, <1>4
  <1>6. f2 \in [C -> Seq(K)] /\ f2[c] = <<>> /\ \A d \in C \ {c} : f2[d] = f[d]
    BY <1>0, <1>1
  <1>7. \A e \in E : Inj(q2[e]) /\ Ran(q2[e]) = Ran(q[e]) \cup Ran(p(e))
    BY <1>4, <1>5
  <1>8. /\ \A d \in C : Inj(f2[d]) /\ Ran(f2[d]) \subseteq Ran(f[d])
        /\ Ran(f2[c]) = {}
    BY <1>0, <1>1, <1>6, NoKeys
  <1>9. ASSUME NEW a \in E, NEW b \in E, a # b
        PROVE  Ran(q2[a]) \cap Ran(q2[b]) = {}
    <2>1. Ran(q[a]) \cap Ran(q[b]) = {} /\ Ran(q[a]) \cap Ran(f[c]) = {}
          /\ Ran(q[b]) \cap Ran(f[c]) = {}
      BY <1>0, <1>1, <1>9
    <2>2. Ran(p(a)) \cap Ran(p(b)) = {} /\ Ran(p(a)) \subseteq Ran(f[c])
          /\ Ran(p(b)) \subseteq Ran(f[c])
      BY <1>3, <1>9
    <2>. QED
      BY <1>7, <2>1, <2>2
  <1>10. ASSUME NEW a \in C, NEW b \in C, a # b
         PROVE  Ran(f2[a]) \cap Ran(f2[b]) = {}
    BY <1>0, <1>1, <1>8, <1>10
  <1>11. ASSUME NEW a \in E, NEW b \in C
         PROVE  Ran(q2[a]) \cap Ran(f2[b]) = {}
    <2>1. CASE b = c
      BY <1>8, <2>1
    <2>2. CASE b # c
      <3>1. Ran(q[a]) \cap Ran(f[b]) = {} /\ Ran(f[c]) \cap Ran(f[b]) = {}
        BY <1>0, <1>1, <2>2
      <3>2. Ran(p(a)) \subseteq Ran(f[c])
        BY <1>3
      <3>. QED
        BY <1>7, <1>8, <3>1, <3>2
    <2>. QED
      BY <2>1, <2>2
  <1>12. Books(q2, E, f2, C, K)
    BY <1>5, <1>6, <1>7, <1>8, <1>9, <1>10, <1>11 DEF Books
  <1>13. ASSUME NEW k \in K
         PROVE  k \in Held(q2, E, f2, C, K) <=> k \in Held(q, E, f, C, K)
    <2>1. k \in Held(q2, E, f2, C, K) <=>
            (\E d \in E : k \in Ran(q2[d])) \/ (\E d \in C : k \in Ran(f2[d]))
      BY DEF Held
    <2>2. k \in Held(q, E, f, C, K) <=>
            (\E d \in E : k \in Ran(q[d])) \/ (\E d \in C : k \in Ran(f[d]))
      BY DEF Held
    <2>3. CASE k \in Ran(f[c])
      <3>1. r[k] \in E /\ k \in Ran(p(r[k]))
        BY <1>0, <1>3, <2>3
      <3>2. k \in Ran(q2[r[k]])
        BY <1>7, <3>1
      <3>. QED
        BY <1>0, <2>1, <2>2, <2>3, <3>1, <3>2
    <2>4. CASE k \notin Ran(f[c])
      <3>1. \A d \in E : k \in Ran(q2[d]) <=> k \in Ran(q[d])
        BY <1>0, <1>3, <1>7, <2>4
      <3>2. \A d \in C : k \in Ran(f2[d]) <=> k \in Ran(f[d])
        BY <1>0, <1>6, <1>8, <2>4
      <3>. QED
        BY <2>1, <2>2, <3>1, <3>2
    <2>. QED
      BY <2>3, <2>4
  <1>14. Held(q2, E, f2, C, K) = Held(q, E, f, C, K)
    <2>1. \A k \in Held(q2, E, f2, C, K) \cup Held(q, E, f, C, K) : k \in K
      BY DEF Held
    <2>. QED
      BY <1>13, <2>1
  <1>. QED
    BY <1>12, <1>14

-----------------------------------------------------------------------------
(* The prefill                                                             *)

(* The keys that wait in a queue or are in flight.                         *)
KeysHeld == Held(queue, Endpoints, inFlight, Conns, Keys)

KeyBooks == Books(queue, Endpoints, inFlight, Conns, Keys)

(* A task that receives has something outstanding, all of it flushed.      *)
Receiving ==
  \A c \in Conns : cpc[c] = "recv" => client[c] # <<>> /\ buffered[c] = 0

(* The counter counts the keys nobody holds, and the cluster has them.     *)
Counted ==
  /\ confirmed = Cardinality(Keys \ KeysHeld)
  /\ Keys \ KeysHeld \subseteq stored
  /\ phase = "Warmup" => KeysHeld = {}

PrefillInv ==
  /\ TypeOK /\ buffered \in [Conns -> Nat] /\ inFlight = client
  /\ KeyBooks /\ Receiving /\ Counted

(* What the parts of the invariant say about one connection.               *)
LEMMA ConnFacts ==
  ASSUME PrefillInv, NEW c \in Conns
  PROVE  /\ client[c] \in Seq(Keys) /\ inFlight[c] = client[c]
         /\ Inj(client[c]) /\ Len(client[c]) \in Nat /\ Len(client[c]) <= Depth
         /\ buffered[c] \in 0 .. Len(client[c]) /\ buffered[c] \in Nat
         /\ EndpointOf[c] \in Endpoints /\ WorkerOf[c] \in Workers
         /\ queue[EndpointOf[c]] \in Seq(Keys) /\ Inj(queue[EndpointOf[c]])
         /\ Ran(queue[EndpointOf[c]]) \cap Ran(client[c]) = {}
         /\ table[WorkerOf[c]] \in [Keys -> Endpoints]
         /\ Depth \in Nat
  <1>1. EndpointOf[c] \in Endpoints /\ WorkerOf[c] \in Workers /\ Depth \in Nat
    BY PrefillAssumption
  <1>2. client[c] \in Seq(Keys) /\ Len(client[c]) <= Depth /\ buffered[c] \in 0 .. Len(client[c])
        /\ table[WorkerOf[c]] \in [Keys -> Endpoints]
    BY <1>1 DEF PrefillInv, TypeOK
  <1>3. inFlight[c] = client[c]
    BY DEF PrefillInv
  <1>4. Inj(inFlight[c]) /\ queue[EndpointOf[c]] \in Seq(Keys) /\ Inj(queue[EndpointOf[c]])
        /\ Ran(queue[EndpointOf[c]]) \cap Ran(inFlight[c]) = {}
    BY <1>1 DEF PrefillInv, KeyBooks, Books
  <1>. QED
    BY <1>1, <1>2, <1>3, <1>4

(* The books after a step, and the count and the cluster's keys with them, *)
(* are all that an invariant of the keys asks of it.                       *)
LEMMA CountKept ==
  ASSUME PrefillInv, KeysHeld' = KeysHeld, confirmed' = confirmed,
         stored \subseteq stored', phase' = phase
  PROVE  Counted'
  BY DEF PrefillInv, Counted

LEMMA CountType ==
  ASSUME NEW H, NEW n, n = Cardinality(Keys \ H)
  PROVE  n \in 0 .. Cardinality(Keys)
  <1>1. IsFiniteSet(Keys) /\ Keys \ H \subseteq Keys
    BY PrefillAssumption
  <1>2. IsFiniteSet(Keys \ H) /\ Cardinality(Keys \ H) <= Cardinality(Keys)
    BY <1>1, FS_Subset
  <1>. QED
    BY <1>1, <1>2, FS_CardinalityType

LEMMA PrefillInitInv == Init => PrefillInv
  <1>. SUFFICES ASSUME Init PROVE PrefillInv
    OBVIOUS
  <1>. DEFINE S(e) == {k \in Keys : Home[k] = e}
  <1>1. IsFiniteSet(Keys) /\ Home \in [Keys -> Endpoints] /\ Home \in [Keys -> Nodes]
    BY PrefillAssumption
  <1>2. ASSUME NEW e \in Endpoints
        PROVE  queue[e] \in Seq(Keys) /\ Ran(queue[e]) = S(e) /\ Inj(queue[e])
    <2>1. queue[e] = SetToSeq(S(e))
      BY DEF Init
    <2>2. S(e) \subseteq Keys
      OBVIOUS
    <2>3. IsFiniteSet(S(e))
      BY <1>1, <2>2, FS_Subset
    <2>. HIDE DEF S
    <2>4. queue[e] \in Seq(S(e)) /\ Ran(queue[e]) = S(e) /\ Inj(queue[e])
      BY <2>1, <2>3, SetToSeqKeys
    <2>5. queue[e] \in Seq(Keys)
      BY <2>2, <2>4
    <2>. QED
      BY <2>4, <2>5
  <1>3. queue \in [Endpoints -> Seq(Keys)]
    <2>1. queue = [e \in Endpoints |-> queue[e]]
      BY DEF Init
    <2>. QED
      BY <1>2, <2>1
  <1>4. \A c \in Conns : client[c] = <<>> /\ inFlight[c] = <<>> /\ buffered[c] = 0 /\ cpc[c] = "down"
    BY DEF Init
  <1>5. /\ inFlight \in [Conns -> Seq(Keys)] /\ inFlight = client
        /\ buffered \in [Conns -> Nat]
    BY DEF Init
  <1>6. \A c \in Conns : Ran(inFlight[c]) = {} /\ Inj(inFlight[c])
    BY <1>4, NoKeys
  <1>7. KeyBooks
    <2>1. \A d, e \in Endpoints : d # e => Ran(queue[d]) \cap Ran(queue[e]) = {}
      BY <1>2
    <2>. QED
      BY <1>2, <1>3, <1>5, <1>6, <2>1 DEF KeyBooks, Books
  <1>8. KeysHeld = Keys
    <2>1. ASSUME NEW k \in Keys
          PROVE  k \in Ran(queue[Home[k]]) /\ Home[k] \in Endpoints
      BY <1>1, <1>2
    <2>. QED
      BY <2>1 DEF KeysHeld, Held
  <1>9. Counted
    <2>1. Keys \ KeysHeld = {}
      BY <1>8
    <2>2. Cardinality({}) = 0
      BY FS_EmptySet
    <2>. QED
      BY <2>1, <2>2 DEF Counted, Init
  <1>10. confirmed \in 0 .. Cardinality(Keys)
    BY <1>9, CountType DEF Counted
  <1>11. /\ table \in [Workers -> [Keys -> Endpoints]] /\ owner \in [Keys -> Nodes]
         /\ cpc \in [Conns -> {"down", "top", "fill", "flush", "recv", "traffic", "gone"}]
         /\ stored \subseteq Keys /\ phase \in {"Prefill", "Warmup", "Stop"}
    BY <1>1 DEF Init
  <1>12. \A c \in Conns : Len(client[c]) <= Depth /\ buffered[c] \in 0 .. Len(client[c])
    BY <1>4, PrefillAssumption
  <1>13. Receiving
    BY <1>4 DEF Receiving
  <1>14. TypeOK
    BY <1>3, <1>5, <1>10, <1>11, <1>12 DEF TypeOK
  <1>. QED
    BY <1>5, <1>7, <1>9, <1>13, <1>14 DEF PrefillInv

Places == {"down", "top", "fill", "flush", "recv", "traffic", "gone"}

(* A step of one connection task: its client comes to hold t, of which the *)
(* newest b are not flushed, and it goes to p.                             *)
LEMMA TaskStep ==
  ASSUME PrefillInv, NEW c \in Conns, NEW t \in Seq(Keys), Len(t) <= Depth,
         NEW b \in 0 .. Len(t), NEW p \in Places, p = "recv" => t # <<>> /\ b = 0,
         client' = [client EXCEPT ![c] = t], inFlight' = [inFlight EXCEPT ![c] = t],
         buffered' = [buffered EXCEPT ![c] = b], cpc' = [cpc EXCEPT ![c] = p],
         KeyBooks', Counted', table' \in [Workers -> [Keys -> Endpoints]],
         owner' = owner, stored' \subseteq Keys, phase' = phase
  PROVE  PrefillInv'
  <1>1. /\ client \in [Conns -> Seq(Keys)] /\ inFlight = client
        /\ buffered \in [Conns -> Nat] /\ cpc \in [Conns -> Places]
        /\ \A d \in Conns : Len(client[d]) <= Depth /\ buffered[d] \in 0 .. Len(client[d])
        /\ owner \in [Keys -> Nodes] /\ phase \in {"Prefill", "Warmup", "Stop"}
    BY DEF PrefillInv, TypeOK, Places
  <1>2. /\ client' \in [Conns -> Seq(Keys)] /\ inFlight' = client'
        /\ client'[c] = t /\ \A d \in Conns \ {c} : client'[d] = client[d]
    BY <1>1
  <1>3. Len(t) \in Nat /\ b \in Nat
    OBVIOUS
  <1>4. /\ buffered' \in [Conns -> Nat]
        /\ buffered'[c] = b /\ \A d \in Conns \ {c} : buffered'[d] = buffered[d]
    BY <1>1, <1>3
  <1>5. /\ cpc' \in [Conns -> Places]
        /\ cpc'[c] = p /\ \A d \in Conns \ {c} : cpc'[d] = cpc[d]
    BY <1>1
  <1>6. \A d \in Conns : Len(client'[d]) <= Depth /\ buffered'[d] \in 0 .. Len(client'[d])
    BY <1>1, <1>2, <1>4
  <1>7. Receiving'
    <2>1. \A d \in Conns : cpc[d] = "recv" => client[d] # <<>> /\ buffered[d] = 0
      BY DEF PrefillInv, Receiving
    <2>2. \A d \in Conns : cpc'[d] = "recv" => client'[d] # <<>> /\ buffered'[d] = 0
      BY <1>2, <1>4, <1>5, <2>1
    <2>. QED
      BY <2>2 DEF Receiving
  <1>8. confirmed' \in 0 .. Cardinality(Keys)
    BY CountType DEF Counted
  <1>9. queue' \in [Endpoints -> Seq(Keys)]
    BY DEF KeyBooks, Books
  <1>10. TypeOK'
    BY <1>1, <1>2, <1>5, <1>6, <1>8, <1>9 DEF TypeOK, Places
  <1>. QED
    BY <1>2, <1>4, <1>7, <1>10 DEF PrefillInv

(* A task that only moves on.                                              *)
LEMMA TaskMoves ==
  ASSUME PrefillInv, NEW c \in Conns, NEW b \in 0 .. Len(client[c]), NEW p \in Places,
         p = "recv" => client[c] # <<>> /\ b = 0,
         buffered' = [buffered EXCEPT ![c] = b], cpc' = [cpc EXCEPT ![c] = p],
         UNCHANGED <<phase, queue, table, client, inFlight, confirmed, owner, stored>>
  PROVE  PrefillInv'
  <1>1. client[c] \in Seq(Keys) /\ Len(client[c]) <= Depth /\ inFlight[c] = client[c]
    BY ConnFacts
  <1>2. client \in [Conns -> Seq(Keys)] /\ inFlight \in [Conns -> Seq(Keys)]
        /\ table \in [Workers -> [Keys -> Endpoints]] /\ stored \subseteq Keys
    BY DEF PrefillInv, TypeOK
  <1>3. client' = [client EXCEPT ![c] = client[c]] /\ inFlight' = [inFlight EXCEPT ![c] = client[c]]
    BY <1>1, <1>2
  <1>4. KeyBooks' /\ Counted'
    BY DEF PrefillInv, KeyBooks, Counted, KeysHeld
  <1>5. /\ table' \in [Workers -> [Keys -> Endpoints]]
        /\ owner' = owner /\ stored' \subseteq Keys /\ phase' = phase
    BY <1>2
  <1>. QED
    BY <1>1, <1>3, <1>4, <1>5, TaskStep

LEMMA SameBuffered ==
  ASSUME PrefillInv, NEW c \in Conns
  PROVE  buffered = [buffered EXCEPT ![c] = buffered[c]] /\ buffered[c] \in 0 .. Len(client[c])
         /\ client = [client EXCEPT ![c] = client[c]]
         /\ inFlight = [inFlight EXCEPT ![c] = client[c]]
         /\ cpc = [cpc EXCEPT ![c] = cpc[c]] /\ cpc[c] \in Places
  BY ConnFacts DEF PrefillInv, TypeOK, Places

LEMMA MovesInv ==
  ASSUME PrefillInv, NEW c \in Conns,
         Connect(c) \/ LoopTop(c) \/ FillEnds(c) \/ PacerRefuses(c) \/ Flush(c)
  PROVE  PrefillInv'
  <1>1. CASE Connect(c)
    <2>1. PICK p \in {"gone", "top"} : cpc' = [cpc EXCEPT ![c] = p]
      BY <1>1 DEF Connect, Go
    <2>2. UNCHANGED <<phase, queue, table, client, buffered, inFlight, confirmed, owner, stored>>
      BY <1>1 DEF Connect, cluster
    <2>. QED
      BY <2>1, <2>2, SameBuffered, TaskMoves DEF Places
  <1>2. CASE LoopTop(c)
    <2>1. PICK p \in {"gone", "traffic", "fill", "flush"} : cpc' = [cpc EXCEPT ![c] = p]
      BY <1>2 DEF LoopTop, Go
    <2>2. UNCHANGED <<phase, queue, table, client, buffered, inFlight, confirmed, owner, stored>>
      BY <1>2 DEF LoopTop, cluster
    <2>. QED
      BY <2>1, <2>2, SameBuffered, TaskMoves DEF Places
  <1>3. CASE FillEnds(c)
    <2>1. cpc' = [cpc EXCEPT ![c] = "flush"]
      BY <1>3 DEF FillEnds, Go
    <2>2. UNCHANGED <<phase, queue, table, client, buffered, inFlight, confirmed, owner, stored>>
      BY <1>3 DEF FillEnds, cluster
    <2>. QED
      BY <2>1, <2>2, SameBuffered, TaskMoves DEF Places
  <1>4. CASE PacerRefuses(c)
    <2>1. cpc' = [cpc EXCEPT ![c] = "flush"]
      BY <1>4 DEF PacerRefuses, Go
    <2>2. UNCHANGED <<phase, table, client, buffered, inFlight, confirmed, owner, stored>>
      BY <1>4 DEF PacerRefuses, cluster
    <2>3. queue' = queue
      <3>. DEFINE e == EndpointOf[c]
      <3>1. queue[e] \in Seq(Keys) /\ queue[e] # <<>> /\ e \in Endpoints
        BY <1>4, ConnFacts DEF PacerRefuses, Pops
      <3>2. <<Head(queue[e])>> \o Tail(queue[e]) = queue[e]
        BY <3>1
      <3>3. queue \in [Endpoints -> Seq(Keys)]
        BY DEF PrefillInv, TypeOK
      <3>4. queue' = [[queue EXCEPT ![e] = Tail(@)] EXCEPT ![e] = <<Head(queue[e])>> \o @]
        BY <1>4 DEF PacerRefuses, PushFront, PopFront, Popped
      <3>. HIDE DEF e
      <3>5. queue' = [queue EXCEPT ![e] = <<Head(queue[e])>> \o Tail(queue[e])]
        BY <3>1, <3>3, <3>4
      <3>. QED
        BY <3>2, <3>3, <3>5
    <2>. QED
      BY <2>1, <2>2, <2>3, SameBuffered, TaskMoves DEF Places
  <1>5. CASE Flush(c)
    <2>1. PICK p \in {"top", "recv"} : cpc' = [cpc EXCEPT ![c] = p] /\ (p = "recv" => client[c] # <<>>)
      <3>1. cpc' = [cpc EXCEPT ![c] = IF client[c] = <<>> THEN "top" ELSE "recv"]
        BY <1>5 DEF Flush, AfterFlush, Go
      <3>. QED
        BY <3>1
    <2>2. UNCHANGED <<phase, queue, table, client, inFlight, confirmed, owner, stored>>
          /\ buffered' = [buffered EXCEPT ![c] = 0]
      BY <1>5 DEF Flush, cluster
    <2>3. 0 \in 0 .. Len(client[c])
      BY ConnFacts
    <2>. QED
      BY <2>1, <2>2, <2>3, TaskMoves DEF Places
  <1>. QED
    BY <1>1, <1>2, <1>3, <1>4, <1>5

(* The endpoint's queue comes to hold s and the flight t; between them     *)
(* nothing is lost.                                                        *)
LEMMA KeysExchanged ==
  ASSUME PrefillInv, NEW c \in Conns, NEW s \in Seq(Keys), NEW t \in Seq(Keys),
         Inj(s), Inj(t), Ran(s) \cap Ran(t) = {},
         Ran(s) \cup Ran(t) = Ran(queue[EndpointOf[c]]) \cup Ran(client[c]),
         queue' = [queue EXCEPT ![EndpointOf[c]] = s],
         inFlight' = [inFlight EXCEPT ![c] = t]
  PROVE  KeyBooks' /\ KeysHeld' = KeysHeld
  <1>. DEFINE e == EndpointOf[c]
  <1>1. e \in Endpoints /\ inFlight[c] = client[c] /\ queue[e] \in Seq(Keys)
        /\ inFlight[c] \in Seq(Keys)
    BY ConnFacts
  <1>2. Books(queue, Endpoints, inFlight, Conns, Keys)
    BY DEF PrefillInv, KeyBooks
  <1>3. Ran(s) \cup Ran(t) \subseteq Ran(queue[e]) \cup Ran(inFlight[c])
    BY <1>1
  <1>4. /\ Books(queue', Endpoints, inFlight', Conns, Keys)
        /\ Held(queue', Endpoints, inFlight', Conns, Keys)
             = (Held(queue, Endpoints, inFlight, Conns, Keys)
                  \ (Ran(queue[e]) \cup Ran(inFlight[c]))) \cup (Ran(s) \cup Ran(t))
    <2>1. Exchanged(queue, Endpoints, inFlight, Conns, Keys, e, c, s, t, queue', inFlight')
      BY <1>1, <1>2, <1>3 DEF Exchanged
    <2>. DEFINE q2 == queue'
                f2 == inFlight'
                q == queue
                f == inFlight
    <2>2. Exchanged(q, Endpoints, f, Conns, Keys, e, c, s, t, q2, f2)
      BY <2>1
    <2>. HIDE DEF e, q2, f2, q, f
    <2>3. /\ Books(q2, Endpoints, f2, Conns, Keys)
          /\ Held(q2, Endpoints, f2, Conns, Keys)
               = (Held(q, Endpoints, f, Conns, Keys)
                    \ (Ran(q[e]) \cup Ran(f[c]))) \cup (Ran(s) \cup Ran(t))
      BY <2>2, Exchange
    <2>. QED
      BY <2>3 DEF q2, f2, q, f
  <1>5. Ran(queue[e]) \cup Ran(inFlight[c]) \subseteq Held(queue, Endpoints, inFlight, Conns, Keys)
    <2>1. Ran(queue[e]) \subseteq Keys /\ Ran(inFlight[c]) \subseteq Keys
      BY <1>1, SeqFacts
    <2>. QED
      BY <1>1, <2>1 DEF Held
  <1>6. Held(queue', Endpoints, inFlight', Conns, Keys)
          = Held(queue, Endpoints, inFlight, Conns, Keys)
    BY <1>1, <1>4, <1>5
  <1>. QED
    BY <1>4, <1>6 DEF KeyBooks, KeysHeld

(* The key at the front of the queue a task fills from.                    *)
LEMMA PoppedFacts ==
  ASSUME PrefillInv, NEW c \in Conns, Pops(c)
  PROVE  /\ Popped(c) \in Keys /\ Tail(queue[EndpointOf[c]]) \in Seq(Keys)
         /\ Ran(queue[EndpointOf[c]]) = Ran(Tail(queue[EndpointOf[c]])) \cup {Popped(c)}
         /\ Inj(Tail(queue[EndpointOf[c]])) /\ Popped(c) \notin Ran(Tail(queue[EndpointOf[c]]))
         /\ Popped(c) \notin Ran(client[c])
         /\ <<Popped(c)>> \o Tail(queue[EndpointOf[c]]) = queue[EndpointOf[c]]
         /\ PopFront(c) = [queue EXCEPT ![EndpointOf[c]] = Tail(queue[EndpointOf[c]])]
         /\ Len(client[c]) < Depth /\ cpc[c] = "fill"
  <1>. DEFINE e == EndpointOf[c]
  <1>1. queue[e] \in Seq(Keys) /\ queue[e] # <<>> /\ e \in Endpoints /\ Inj(queue[e])
        /\ Ran(queue[e]) \cap Ran(client[c]) = {}
        /\ Len(client[c]) < Depth /\ cpc[c] = "fill"
    BY ConnFacts DEF Pops
  <1>2. /\ Head(queue[e]) \in Keys /\ Tail(queue[e]) \in Seq(Keys)
        /\ Ran(queue[e]) = Ran(Tail(queue[e])) \cup {Head(queue[e])}
        /\ Inj(Tail(queue[e])) /\ Head(queue[e]) \notin Ran(Tail(queue[e]))
    BY <1>1, TailKeys
  <1>3. <<Head(queue[e])>> \o Tail(queue[e]) = queue[e]
    BY <1>1
  <1>4. Head(queue[e]) \notin Ran(client[c])
    BY <1>1, <1>2
  <1>5. PopFront(c) = [queue EXCEPT ![e] = Tail(queue[e])]
    BY DEF PopFront
  <1>. QED
    BY <1>1, <1>2, <1>3, <1>4, <1>5 DEF Popped

LEMMA FireInv ==
  ASSUME PrefillInv, NEW c \in Conns, Fire(c)
  PROVE  PrefillInv'
  <1>. DEFINE e == EndpointOf[c]
              k == Popped(c)
              t == Append(client[c], k)
              s == Tail(queue[e])
  <1>1. Pops(c)
    BY DEF Fire
  <1>2. /\ k \in Keys /\ s \in Seq(Keys) /\ Ran(queue[e]) = Ran(s) \cup {k}
        /\ Inj(s) /\ k \notin Ran(s) /\ k \notin Ran(client[c])
        /\ Len(client[c]) < Depth /\ PopFront(c) = [queue EXCEPT ![e] = s]
        /\ cpc[c] = "fill"
    BY <1>1, PoppedFacts
  <1>3. /\ client[c] \in Seq(Keys) /\ inFlight[c] = client[c] /\ Inj(client[c])
        /\ Len(client[c]) \in Nat /\ buffered[c] \in 0 .. Len(client[c]) /\ Depth \in Nat
        /\ Ran(queue[e]) \cap Ran(client[c]) = {}
    BY ConnFacts
  <1>4. /\ queue' = [queue EXCEPT ![e] = s]
        /\ client' = [client EXCEPT ![c] = t] /\ inFlight' = [inFlight EXCEPT ![c] = t]
        /\ buffered' = [buffered EXCEPT ![c] = buffered[c] + 1]
        /\ UNCHANGED <<phase, table, cpc, confirmed, owner, stored>>
    BY <1>2, <1>3 DEF Fire, cluster
  <1>. HIDE DEF e, k, s
  <1>5. t \in Seq(Keys) /\ Len(t) = Len(client[c]) + 1 /\ Ran(t) = Ran(client[c]) \cup {k} /\ Inj(t)
    BY <1>2, <1>3, AppendKeys
  <1>. HIDE DEF t
  <1>6. Ran(s) \cap Ran(t) = {} /\ Ran(s) \cup Ran(t) = Ran(queue[e]) \cup Ran(client[c])
    BY <1>2, <1>3, <1>5
  <1>7. KeyBooks' /\ KeysHeld' = KeysHeld
    BY <1>2, <1>4, <1>5, <1>6, KeysExchanged DEF e
  <1>8. Counted'
    BY <1>4, <1>7, CountKept
  <1>9. Len(t) <= Depth /\ buffered[c] + 1 \in 0 .. Len(t)
    BY <1>2, <1>3, <1>5
  <1>10. cpc' = [cpc EXCEPT ![c] = "fill"] /\ "fill" \in Places
    BY <1>2, <1>4, SameBuffered DEF Places
  <1>11. /\ table' \in [Workers -> [Keys -> Endpoints]]
         /\ owner' = owner /\ stored' \subseteq Keys /\ phase' = phase
    BY <1>4 DEF PrefillInv, TypeOK
  <1>. QED
    BY <1>4, <1>5, <1>7, <1>8, <1>9, <1>10, <1>11, TaskStep

(* The client drops the n newest of its requests and their keys go to the  *)
(* front of the queue: FireFails and FlushFails.                           *)
LEMMA DropInv ==
  ASSUME PrefillInv, NEW c \in Conns, NEW n \in 0 .. buffered[c], NEW p \in Places,
         Discard(c, n), RequeueNewest(queue, c, n), cpc' = [cpc EXCEPT ![c] = p],
         p = "recv" => client'[c] # <<>> /\ n = buffered[c],
         UNCHANGED <<phase, table, confirmed, owner, stored>>
  PROVE  PrefillInv'
  <1>. DEFINE e == EndpointOf[c]
              t == Older(client[c], n)
              m == Newest(client[c], n)
              s == m \o queue[e]
  <1>1. /\ client[c] \in Seq(Keys) /\ inFlight[c] = client[c] /\ Inj(client[c])
        /\ Len(client[c]) \in Nat /\ Len(client[c]) <= Depth
        /\ buffered[c] \in 0 .. Len(client[c]) /\ Depth \in Nat
        /\ Ran(queue[e]) \cap Ran(client[c]) = {} /\ e \in Endpoints
        /\ queue[e] \in Seq(Keys) /\ Inj(queue[e])
    BY ConnFacts
  <1>2. /\ queue' = [queue EXCEPT ![e] = s]
        /\ client' = [client EXCEPT ![c] = t] /\ inFlight' = [inFlight EXCEPT ![c] = t]
        /\ buffered' = [buffered EXCEPT ![c] = buffered[c] - n]
    BY <1>1 DEF Discard, RequeueNewest
  <1>3. n \in 0 .. Len(client[c])
    BY <1>1
  <1>. HIDE DEF e
  <1>4. /\ m \in Seq(Keys) /\ t \in Seq(Keys) /\ Len(t) = Len(client[c]) - n
        /\ Ran(client[c]) = Ran(m) \cup Ran(t)
        /\ Inj(m) /\ Inj(t) /\ Ran(m) \cap Ran(t) = {}
    <2>. DEFINE x == client[c]
    <2>1. x \in Seq(Keys) /\ Inj(x) /\ n \in 0 .. Len(x)
      BY <1>1, <1>3
    <2>. HIDE DEF x
    <2>2. /\ Newest(x, n) \in Seq(Keys) /\ Older(x, n) \in Seq(Keys)
          /\ Len(Older(x, n)) = Len(x) - n
          /\ Ran(x) = Ran(Newest(x, n)) \cup Ran(Older(x, n))
          /\ Inj(Newest(x, n)) /\ Inj(Older(x, n))
          /\ Ran(Newest(x, n)) \cap Ran(Older(x, n)) = {}
      BY <2>1, SplitKeys
    <2>. QED
      BY <2>2 DEF x
  <1>. HIDE DEF m, t
  <1>5. s \in Seq(Keys) /\ Ran(s) = Ran(m) \cup Ran(queue[e]) /\ Inj(s)
    <2>1. Ran(m) \cap Ran(queue[e]) = {}
      BY <1>1, <1>4
    <2>. QED
      BY <1>1, <1>4, <2>1, ConcatKeys
  <1>. HIDE DEF s
  <1>6. Ran(s) \cap Ran(t) = {} /\ Ran(s) \cup Ran(t) = Ran(queue[e]) \cup Ran(client[c])
    BY <1>1, <1>4, <1>5
  <1>7. KeyBooks' /\ KeysHeld' = KeysHeld
    BY <1>2, <1>4, <1>5, <1>6, KeysExchanged DEF e
  <1>8. Counted'
    BY <1>7, CountKept
  <1>9. Len(t) <= Depth /\ buffered[c] - n \in 0 .. Len(t)
    BY <1>1, <1>4
  <1>10. p = "recv" => t # <<>> /\ buffered[c] - n = 0
    <2>1. client'[c] = t
      BY <1>2 DEF PrefillInv, TypeOK
    <2>. QED
      BY <1>1, <2>1
  <1>11. /\ table' \in [Workers -> [Keys -> Endpoints]]
         /\ owner' = owner /\ stored' \subseteq Keys /\ phase' = phase
    BY DEF PrefillInv, TypeOK
  <1>. QED
    BY <1>2, <1>4, <1>7, <1>8, <1>9, <1>10, <1>11, TaskStep

LEMMA SendFailsInv ==
  ASSUME PrefillInv, NEW c \in Conns, FireFails(c) \/ FlushFails(c)
  PROVE  PrefillInv'
  <1>1. CASE FireFails(c)
    <2>. DEFINE e == EndpointOf[c]
    <2>1. Pops(c)
      BY <1>1 DEF FireFails
    <2>2. PushFront(PopFront(c), e, Popped(c)) = queue
      <3>1. /\ <<Popped(c)>> \o Tail(queue[e]) = queue[e]
            /\ PopFront(c) = [queue EXCEPT ![e] = Tail(queue[e])]
        BY <2>1, PoppedFacts
      <3>2. queue \in [Endpoints -> Seq(Keys)] /\ e \in Endpoints
        BY ConnFacts DEF PrefillInv, TypeOK
      <3>. HIDE DEF e
      <3>3. PushFront(PopFront(c), e, Popped(c))
              = [queue EXCEPT ![e] = <<Popped(c)>> \o Tail(queue[e])]
        BY <3>1, <3>2 DEF PushFront
      <3>. QED
        BY <3>1, <3>2, <3>3
    <2>3. PICK n \in 0 .. buffered[c] :
            Discard(c, n) /\ RequeueNewest(PushFront(PopFront(c), e, Popped(c)), c, n)
      BY <1>1 DEF FireFails
    <2>4. RequeueNewest(queue, c, n)
      BY <2>2, <2>3
    <2>5. cpc' = [cpc EXCEPT ![c] = "flush"] /\ UNCHANGED <<phase, table, confirmed, owner, stored>>
      BY <1>1 DEF FireFails, Go, cluster
    <2>. QED
      BY <2>3, <2>4, <2>5, DropInv DEF Places
  <1>2. CASE FlushFails(c)
    <2>1. Discard(c, buffered[c]) /\ RequeueNewest(queue, c, buffered[c])
          /\ UNCHANGED <<phase, table, confirmed, owner, stored>>
      BY <1>2 DEF FlushFails, cluster
    <2>2. PICK p \in {"top", "recv"} : cpc' = [cpc EXCEPT ![c] = p] /\ (p = "recv" => client'[c] # <<>>)
      <3>1. cpc' = [cpc EXCEPT ![c] = IF client'[c] = <<>> THEN "top" ELSE "recv"]
        BY <1>2 DEF FlushFails, AfterFlush, Go
      <3>. QED
        BY <3>1
    <2>3. buffered[c] \in 0 .. buffered[c]
      BY ConnFacts
    <2>. QED
      BY <2>1, <2>2, <2>3, DropInv DEF Places
  <1>. QED
    BY <1>1, <1>2

(* The oldest request is answered: its key leaves the flight, and the      *)
(* queue takes it back or nobody holds it any more.                        *)
LEMMA HeadFacts ==
  ASSUME PrefillInv, NEW c \in Conns, cpc[c] = "recv"
  PROVE  /\ client[c] # <<>> /\ buffered[c] = 0 /\ Head(client[c]) \in Keys
         /\ Tail(client[c]) \in Seq(Keys) /\ Len(Tail(client[c])) <= Depth
         /\ 0 \in 0 .. Len(Tail(client[c]))
         /\ Ran(client[c]) = Ran(Tail(client[c])) \cup {Head(client[c])}
         /\ Inj(Tail(client[c])) /\ Head(client[c]) \notin Ran(Tail(client[c]))
         /\ Head(client[c]) \notin Ran(queue[EndpointOf[c]])
         /\ Head(client[c]) \in KeysHeld
         /\ buffered = [buffered EXCEPT ![c] = 0]
  <1>. DEFINE x == client[c]
  <1>1. /\ x \in Seq(Keys) /\ Inj(x) /\ Len(x) \in Nat /\ Len(x) <= Depth /\ Depth \in Nat
        /\ Ran(queue[EndpointOf[c]]) \cap Ran(x) = {} /\ inFlight[c] = x
    BY ConnFacts
  <1>2. x # <<>> /\ buffered[c] = 0
    BY DEF PrefillInv, Receiving
  <1>3. buffered = [buffered EXCEPT ![c] = 0]
    BY <1>2 DEF PrefillInv
  <1>. HIDE DEF x
  <1>4. /\ Head(x) \in Keys /\ Tail(x) \in Seq(Keys) /\ Len(Tail(x)) = Len(x) - 1
        /\ Ran(x) = Ran(Tail(x)) \cup {Head(x)}
        /\ Inj(Tail(x)) /\ Head(x) \notin Ran(Tail(x))
    BY <1>1, <1>2, TailKeys
  <1>5. Len(Tail(x)) \in Nat
    BY <1>4
  <1>6. Head(x) \notin Ran(queue[EndpointOf[c]])
    BY <1>1, <1>4
  <1>7. Head(x) \in KeysHeld
    BY <1>1, <1>4 DEF KeysHeld, Held
  <1>8. Len(Tail(x)) <= Depth /\ 0 \in 0 .. Len(Tail(x))
    BY <1>1, <1>4, <1>5
  <1>. QED
    BY <1>2, <1>3, <1>4, <1>6, <1>7, <1>8 DEF x

LEMMA RetryInv ==
  ASSUME PrefillInv, NEW c \in Conns, cpc[c] = "recv", Retry(c),
         table' \in [Workers -> [Keys -> Endpoints]],
         UNCHANGED <<phase, buffered, confirmed, owner, stored>>
  PROVE  PrefillInv'
  <1>. DEFINE e == EndpointOf[c]
              k == Head(client[c])
              t == Tail(client[c])
              s == Append(queue[e], k)
  <1>1. /\ k \in Keys /\ t \in Seq(Keys) /\ Len(t) <= Depth /\ 0 \in 0 .. Len(t)
        /\ Ran(client[c]) = Ran(t) \cup {k} /\ Inj(t) /\ k \notin Ran(t)
        /\ k \notin Ran(queue[e]) /\ buffered = [buffered EXCEPT ![c] = 0]
    BY HeadFacts
  <1>2. /\ queue[e] \in Seq(Keys) /\ Inj(queue[e]) /\ inFlight[c] = client[c]
        /\ Ran(queue[e]) \cap Ran(client[c]) = {}
    BY ConnFacts
  <1>3. /\ queue' = [queue EXCEPT ![e] = s] /\ client' = [client EXCEPT ![c] = t]
        /\ inFlight' = [inFlight EXCEPT ![c] = t] /\ cpc' = [cpc EXCEPT ![c] = "top"]
    BY <1>2 DEF Retry, PushBack, Go
  <1>. HIDE DEF e, k, t
  <1>4. s \in Seq(Keys) /\ Ran(s) = Ran(queue[e]) \cup {k} /\ Inj(s)
    BY <1>1, <1>2, AppendKeys
  <1>. HIDE DEF s
  <1>5. Ran(s) \cap Ran(t) = {} /\ Ran(s) \cup Ran(t) = Ran(queue[e]) \cup Ran(client[c])
    BY <1>1, <1>2, <1>4
  <1>6. KeyBooks' /\ KeysHeld' = KeysHeld
    BY <1>1, <1>3, <1>4, <1>5, KeysExchanged DEF e
  <1>7. Counted'
    BY <1>6, CountKept
  <1>8. /\ owner' = owner /\ stored' \subseteq Keys /\ phase' = phase
        /\ buffered' = [buffered EXCEPT ![c] = 0] /\ "top" \in Places
    BY <1>1 DEF PrefillInv, TypeOK, Places
  <1>. QED
    BY <1>1, <1>3, <1>6, <1>7, <1>8, TaskStep

LEMMA RepliesInv ==
  ASSUME PrefillInv, NEW c \in Conns, Moved(c) \/ Refused(c)
  PROVE  PrefillInv'
  <1>1. CASE Moved(c)
    <2>1. /\ cpc[c] = "recv" /\ Retry(c)
          /\ Learn(c, Head(client[c]))
          /\ UNCHANGED <<phase, buffered, confirmed, owner, stored>>
      BY <1>1 DEF Moved, cluster
    <2>2. Head(client[c]) \in Keys /\ WorkerOf[c] \in Workers
      BY <2>1, HeadFacts, ConnFacts
    <2>3. table \in [Workers -> [Keys -> Endpoints]] /\ owner \in [Keys -> Nodes]
      BY DEF PrefillInv, TypeOK
    <2>4. table' \in [Workers -> [Keys -> Endpoints]]
      BY <2>1, <2>2, <2>3, PrefillAssumption DEF Learn
    <2>. QED
      BY <2>1, <2>4, RetryInv
  <1>2. CASE Refused(c)
    <2>1. /\ cpc[c] = "recv" /\ Retry(c)
          /\ UNCHANGED <<phase, table, buffered, confirmed, owner, stored>>
      BY <1>2 DEF Refused, cluster
    <2>2. table' \in [Workers -> [Keys -> Endpoints]]
      BY <2>1 DEF PrefillInv, TypeOK
    <2>. QED
      BY <2>1, <2>2, RetryInv
  <1>. QED
    BY <1>1, <1>2

(* A confirmed key is held by nobody from then on: it is counted once.     *)
LEMMA StoredInv ==
  ASSUME PrefillInv, NEW c \in Conns, Stored(c)
  PROVE  PrefillInv'
  <1>. DEFINE e == EndpointOf[c]
              k == Head(client[c])
              t == Tail(client[c])
              x == queue[e]
              q == queue
              f == inFlight
              f2 == inFlight'
  <1>1. /\ k \in Keys /\ t \in Seq(Keys) /\ Len(t) <= Depth /\ 0 \in 0 .. Len(t)
        /\ Ran(client[c]) = Ran(t) \cup {k} /\ Inj(t) /\ k \notin Ran(t)
        /\ k \notin Ran(x) /\ buffered = [buffered EXCEPT ![c] = 0] /\ k \in KeysHeld
    BY HeadFacts DEF Stored
  <1>2. /\ x \in Seq(Keys) /\ Inj(x) /\ f[c] = client[c] /\ e \in Endpoints
        /\ Ran(x) \cap Ran(client[c]) = {}
    BY ConnFacts
  <1>3. /\ client' = [client EXCEPT ![c] = t] /\ f2 = [f EXCEPT ![c] = t]
        /\ cpc' = [cpc EXCEPT ![c] = "top"] /\ stored' = stored \cup {k}
        /\ confirmed' = confirmed + 1
        /\ UNCHANGED <<phase, queue, table, buffered, owner>>
    BY <1>2 DEF Stored, Go, cluster
  <1>4. Books(q, Endpoints, f, Conns, Keys) /\ q = [q EXCEPT ![e] = x]
    BY <1>2 DEF PrefillInv, KeyBooks, Books
  <1>5. Exchanged(q, Endpoints, f, Conns, Keys, e, c, x, t, q, f2)
    <2>1. Ran(x) \cap Ran(t) = {} /\ Ran(x) \cup Ran(t) \subseteq Ran(q[e]) \cup Ran(f[c])
      BY <1>1, <1>2
    <2>. QED
      BY <1>1, <1>2, <1>3, <1>4, <2>1 DEF Exchanged
  <1>6. /\ KeysHeld = Held(q, Endpoints, f, Conns, Keys)
        /\ KeysHeld' = Held(q, Endpoints, f2, Conns, Keys)
        /\ KeyBooks' = Books(q, Endpoints, f2, Conns, Keys)
        /\ q[e] = x /\ Ran(f[c]) = Ran(t) \cup {k}
    BY <1>1, <1>2, <1>3 DEF KeysHeld, KeyBooks
  <1>. HIDE DEF e, k, t, x, q, f, f2
  <1>7. /\ Books(q, Endpoints, f2, Conns, Keys)
        /\ Held(q, Endpoints, f2, Conns, Keys)
             = (Held(q, Endpoints, f, Conns, Keys) \ (Ran(q[e]) \cup Ran(f[c]))) \cup (Ran(x) \cup Ran(t))
    BY <1>5, Exchange
  <1>8. KeysHeld' = KeysHeld \ {k}
    <2>1. Ran(x) \subseteq KeysHeld /\ Ran(t) \subseteq KeysHeld
      <3>1. Ran(x) \subseteq Keys /\ Ran(t) \subseteq Keys
        BY <1>1, <1>2, SeqFacts
      <3>. QED
        BY <1>2, <1>6, <3>1 DEF Held
    <2>. QED
      BY <1>1, <1>6, <1>7, <2>1
  <1>9. Counted'
    <2>1. /\ confirmed = Cardinality(Keys \ KeysHeld) /\ Keys \ KeysHeld \subseteq stored
          /\ phase = "Warmup" => KeysHeld = {}
      BY DEF PrefillInv, Counted
    <2>2. Keys \ KeysHeld' = (Keys \ KeysHeld) \cup {k} /\ k \notin Keys \ KeysHeld
      BY <1>1, <1>8
    <2>3. IsFiniteSet(Keys \ KeysHeld)
      BY PrefillAssumption, FS_Difference
    <2>4. Cardinality(Keys \ KeysHeld') = Cardinality(Keys \ KeysHeld) + 1
      BY <2>2, <2>3, FS_AddElement
    <2>5. Keys \ KeysHeld' \subseteq stored'
      BY <1>3, <2>1, <2>2
    <2>6. phase' = "Warmup" => KeysHeld' = {}
      BY <1>1, <1>3, <2>1
    <2>. QED
      BY <1>3, <2>1, <2>4, <2>5, <2>6 DEF Counted
  <1>10. KeyBooks'
    BY <1>6, <1>7
  <1>11. /\ table' \in [Workers -> [Keys -> Endpoints]] /\ owner' = owner /\ phase' = phase
         /\ stored' \subseteq Keys /\ "top" \in Places
         /\ buffered' = [buffered EXCEPT ![c] = 0]
    BY <1>1, <1>3 DEF PrefillInv, TypeOK, Places
  <1>12. inFlight' = [inFlight EXCEPT ![c] = t]
    BY <1>3 DEF f, f2
  <1>. QED
    BY <1>1, <1>3, <1>9, <1>10, <1>11, <1>12, TaskStep

(* A key that is routed elsewhere now changes queues.                      *)
LEMMA RerouteInv ==
  ASSUME PrefillInv, NEW c \in Conns, Reroute(c)
  PROVE  PrefillInv'
  <1>. DEFINE e == EndpointOf[c]
              k == Popped(c)
              d == Route(c, k)
              s == Tail(queue[e])
              t == Append(queue[d], k)
              q == queue
              f == inFlight
              q2 == queue'
  <1>1. Pops(c) /\ d # e
    BY DEF Reroute, Ours
  <1>2. /\ k \in Keys /\ s \in Seq(Keys) /\ Ran(q[e]) = Ran(s) \cup {k}
        /\ Inj(s) /\ k \notin Ran(s) /\ PopFront(c) = [q EXCEPT ![e] = s]
        /\ cpc[c] = "fill"
    BY <1>1, PoppedFacts
  <1>3. d \in Endpoints /\ e \in Endpoints
    BY <1>2, ConnFacts DEF Route
  <1>4. Books(q, Endpoints, f, Conns, Keys)
    BY DEF PrefillInv, KeyBooks
  <1>5. /\ q2 = PushBack(PopFront(c), d, k)
        /\ UNCHANGED <<phase, table, cpc, client, buffered, inFlight, confirmed, owner, stored>>
    BY DEF Reroute, conn, cluster
  <1>. HIDE DEF e, k, d, s, q, f, q2
  <1>6. /\ q[d] \in Seq(Keys) /\ Inj(q[d]) /\ Ran(q[e]) \cap Ran(q[d]) = {}
        /\ q \in [Endpoints -> Seq(Keys)] /\ queue[d] = q[d]
    BY <1>1, <1>3, <1>4 DEF Books, q
  <1>7. t \in Seq(Keys) /\ Ran(t) = Ran(q[d]) \cup {k} /\ Inj(t)
    <2>1. k \notin Ran(q[d])
      BY <1>2, <1>6
    <2>. QED
      BY <1>2, <1>6, <2>1, AppendKeys
  <1>8. q2 = [[q EXCEPT ![e] = s] EXCEPT ![d] = t]
    <2>1. q2 = [[q EXCEPT ![e] = s] EXCEPT ![d] = Append([q EXCEPT ![e] = s][d], k)]
      BY <1>2, <1>5 DEF PushBack
    <2>2. [q EXCEPT ![e] = s][d] = q[d]
      BY <1>1, <1>3, <1>6
    <2>. QED
      BY <1>6, <2>1, <2>2
  <1>. HIDE DEF t
  <1>9. HandedOver(q, Endpoints, f, Conns, Keys, e, d, s, t, q2)
    <2>1. Ran(s) \cap Ran(t) = {} /\ Ran(s) \cup Ran(t) = Ran(q[e]) \cup Ran(q[d])
      BY <1>2, <1>6, <1>7
    <2>. QED
      BY <1>1, <1>2, <1>3, <1>4, <1>7, <1>8, <2>1 DEF HandedOver
  <1>10. Books(q2, Endpoints, f, Conns, Keys)
         /\ Held(q2, Endpoints, f, Conns, Keys) = Held(q, Endpoints, f, Conns, Keys)
    BY <1>9, Handover
  <1>11. KeyBooks' /\ KeysHeld' = KeysHeld
    BY <1>5, <1>10 DEF KeyBooks, KeysHeld, q2, f, q
  <1>12. Counted'
    BY <1>5, <1>11, CountKept
  <1>13. /\ client' = [client EXCEPT ![c] = client[c]]
         /\ inFlight' = [inFlight EXCEPT ![c] = client[c]]
         /\ buffered' = [buffered EXCEPT ![c] = buffered[c]]
         /\ cpc' = [cpc EXCEPT ![c] = "fill"] /\ "fill" \in Places
    BY <1>2, <1>5, SameBuffered
  <1>14. /\ client[c] \in Seq(Keys) /\ Len(client[c]) <= Depth /\ buffered[c] \in 0 .. Len(client[c])
         /\ table' \in [Workers -> [Keys -> Endpoints]]
         /\ owner' = owner /\ stored' \subseteq Keys /\ phase' = phase
    BY <1>5, ConnFacts DEF PrefillInv, TypeOK
  <1>. QED
    BY <1>11, <1>12, <1>13, <1>14, TaskStep

(* A lost connection's keys are queued where they route now.               *)
LEMMA LostInv ==
  ASSUME PrefillInv, NEW c \in Conns, RequeueDrained(c),
         client' = [client EXCEPT ![c] = <<>>], buffered' = [buffered EXCEPT ![c] = 0],
         inFlight' = [inFlight EXCEPT ![c] = <<>>], cpc' = [cpc EXCEPT ![c] = "down"],
         UNCHANGED <<phase, table, confirmed, owner>>,
         stored \subseteq stored', stored' \subseteq Keys
  PROVE  PrefillInv'
  <1>. DEFINE q == queue
              f == inFlight
              q2 == queue'
              f2 == inFlight'
              r == table[WorkerOf[c]]
  <1>1. r \in [Keys -> Endpoints] /\ Depth \in Nat
    BY ConnFacts
  <1>2. Books(q, Endpoints, f, Conns, Keys)
    BY DEF PrefillInv, KeyBooks
  <1>3. q2 = [e \in Endpoints |-> q[e] \o Picked(f[c], {i \in DOMAIN f[c] : r[f[c][i]] = e})]
    BY DEF RequeueDrained, RoutedTo, Route
  <1>4. Drains(q, Endpoints, f, Conns, Keys, c, r, q2, f2)
    BY <1>1, <1>2, <1>3 DEF Drains
  <1>. HIDE DEF q, f, q2, f2, r
  <1>5. Books(q2, Endpoints, f2, Conns, Keys)
        /\ Held(q2, Endpoints, f2, Conns, Keys) = Held(q, Endpoints, f, Conns, Keys)
    BY <1>4, Drained
  <1>6. KeyBooks' /\ KeysHeld' = KeysHeld
    BY <1>5 DEF KeyBooks, KeysHeld, q2, f2, f, q
  <1>7. Counted'
    BY <1>6, CountKept
  <1>8. /\ <<>> \in Seq(Keys) /\ Len(<<>>) <= Depth /\ 0 \in 0 .. Len(<<>>) /\ "down" \in Places
        /\ table' \in [Workers -> [Keys -> Endpoints]] /\ owner' = owner /\ phase' = phase
    BY <1>1 DEF PrefillInv, TypeOK, Places
  <1>. QED
    BY <1>6, <1>7, <1>8, TaskStep

LEMMA LosesInv ==
  ASSUME PrefillInv, NEW c \in Conns, Lose(c) \/ FoundClosed(c)
  PROVE  PrefillInv'
  <1>0. stored \subseteq Keys /\ inFlight = client
    BY DEF PrefillInv, TypeOK
  <1>1. CASE Lose(c)
    <2>1. PICK n \in 0 .. Len(client[c]) :
            stored' = stored \cup {k \in ToSet(SubSeq(client[c], 1, n)) : owner[k] = EndpointOf[c]}
      BY <1>1 DEF Lose
    <2>2. ToSet(SubSeq(client[c], 1, n)) \subseteq Keys
      <3>. DEFINE x == client[c]
      <3>1. x \in Seq(Keys) /\ n \in 0 .. Len(x)
        BY ConnFacts
      <3>. HIDE DEF x
      <3>2. SubSeq(x, 1, n) \in Seq(Keys)
        BY <3>1
      <3>3. Ran(SubSeq(x, 1, n)) \subseteq Keys
        BY <3>2, SeqFacts
      <3>. QED
        BY <3>3 DEF x, Ran, ToSet
    <2>3. stored \subseteq stored' /\ stored' \subseteq Keys
      BY <1>0, <2>1, <2>2
    <2>4. /\ RequeueDrained(c)
          /\ client' = [client EXCEPT ![c] = <<>>] /\ buffered' = [buffered EXCEPT ![c] = 0]
          /\ inFlight' = [inFlight EXCEPT ![c] = <<>>] /\ cpc' = [cpc EXCEPT ![c] = "down"]
          /\ UNCHANGED <<phase, table, confirmed, owner>>
      BY <1>1 DEF Lose, Go, cluster
    <2>. QED
      BY <2>3, <2>4, LostInv
  <1>2. CASE FoundClosed(c)
    <2>1. /\ RequeueDrained(c) /\ client[c] = <<>>
          /\ inFlight' = [inFlight EXCEPT ![c] = <<>>] /\ cpc' = [cpc EXCEPT ![c] = "down"]
          /\ UNCHANGED <<phase, table, client, buffered, confirmed, owner, stored>>
      BY <1>2 DEF FoundClosed, Go, cluster
    <2>2. buffered[c] = 0
      <3>1. buffered[c] \in 0 .. Len(client[c])
        BY ConnFacts
      <3>. QED
        BY <2>1, <3>1
    <2>3. client' = [client EXCEPT ![c] = <<>>] /\ buffered' = [buffered EXCEPT ![c] = 0]
      BY <2>1, <2>2, SameBuffered
    <2>4. stored \subseteq stored' /\ stored' \subseteq Keys
      BY <1>0, <2>1
    <2>. QED
      BY <2>1, <2>3, <2>4, LostInv
  <1>. QED
    BY <1>1, <1>2

(* The gate opens when all keys are counted, and then nobody holds one.    *)
LEMMA GateInv ==
  ASSUME PrefillInv, ToWarmup \/ StopEarly \/ MoveSlot
  PROVE  PrefillInv'
  <1>1. /\ UNCHANGED <<queue, table, cpc, client, buffered, inFlight, confirmed, stored>>
        /\ phase' \in {"Prefill", "Warmup", "Stop"}
        /\ owner' \in [Keys -> Nodes]
        /\ phase' = "Warmup" => phase = "Warmup" \/ ToWarmup
    <2>0. owner \in [Keys -> Nodes] /\ phase \in {"Prefill", "Warmup", "Stop"}
      BY DEF PrefillInv, TypeOK
    <2>1. CASE ToWarmup
      BY <2>0, <2>1 DEF ToWarmup, conn, cluster
    <2>2. CASE StopEarly
      BY <2>0, <2>2 DEF StopEarly, conn, cluster
    <2>3. CASE MoveSlot
      <3>1. PICK k \in Keys, e \in Nodes : owner' = [owner EXCEPT ![k] = e]
        BY <2>3 DEF MoveSlot
      <3>. QED
        BY <2>0, <2>3, <3>1 DEF MoveSlot, conn
    <2>. QED
      BY <2>1, <2>2, <2>3
  <1>2. KeyBooks' /\ Receiving' /\ KeysHeld' = KeysHeld
    BY <1>1 DEF PrefillInv, KeyBooks, Receiving, KeysHeld
  <1>3. ToWarmup => KeysHeld = {}
    <2>. SUFFICES ASSUME ToWarmup PROVE KeysHeld = {}
      OBVIOUS
    <2>1. confirmed >= Cardinality(Keys) /\ confirmed = Cardinality(Keys \ KeysHeld)
      BY DEF ToWarmup, AllConfirmed, PrefillInv, Counted
    <2>2. IsFiniteSet(Keys) /\ Keys \ KeysHeld \subseteq Keys /\ KeysHeld \subseteq Keys
      BY PrefillAssumption DEF KeysHeld, Held
    <2>3. /\ Cardinality(Keys \ KeysHeld) <= Cardinality(Keys)
          /\ Cardinality(Keys) = Cardinality(Keys \ KeysHeld) => Keys = Keys \ KeysHeld
          /\ Cardinality(Keys) \in Nat /\ IsFiniteSet(Keys \ KeysHeld)
      BY <2>2, FS_Subset, FS_CardinalityType
    <2>4. Cardinality(Keys \ KeysHeld) \in Nat
      BY <2>3, FS_CardinalityType
    <2>5. Keys = Keys \ KeysHeld
      BY <2>1, <2>3, <2>4
    <2>. QED
      BY <2>2, <2>5
  <1>4. Counted'
    BY <1>1, <1>2, <1>3 DEF PrefillInv, Counted
  <1>5. TypeOK' /\ buffered' \in [Conns -> Nat] /\ inFlight' = client'
    BY <1>1 DEF PrefillInv, TypeOK
  <1>. QED
    BY <1>2, <1>4, <1>5 DEF PrefillInv

LEMMA PrefillNextInv ==
  ASSUME PrefillInv, [Next]_vars
  PROVE  PrefillInv'
  <1>1. CASE UNCHANGED vars
    BY <1>1 DEF vars, conn, cluster, PrefillInv, TypeOK, KeyBooks, Receiving, Counted, KeysHeld
  <1>2. CASE ToWarmup \/ StopEarly \/ MoveSlot
    BY <1>2, GateInv
  <1>3. ASSUME NEW c \in Conns,
               Connect(c) \/ LoopTop(c) \/ Fills(c) \/ PacerRefuses(c)
                 \/ Flush(c) \/ Receives(c) \/ Fails(c)
        PROVE  PrefillInv'
    BY <1>3, MovesInv, FireInv, RerouteInv, SendFailsInv, RepliesInv, StoredInv, LosesInv
       DEF Fills, Receives, Fails
  <1>. QED
    BY <1>1, <1>2, <1>3 DEF Next

LEMMA PrefillInvSound ==
  ASSUME PrefillInv
  PROVE  PrefillSound
  <1>1. /\ TypeOK /\ \A c \in Conns : inFlight[c] = client[c]
    BY DEF PrefillInv
  <1>2. Books(queue, Endpoints, inFlight, Conns, Keys)
    BY DEF PrefillInv, KeyBooks
  <1>3. \A k \in Keys : Cardinality(Kept(k)) <= 1 /\ (Kept(k) = {} <=> k \notin KeysHeld)
    <2>. DEFINE q == queue
                f == inFlight
    <2>1. Books(q, Endpoints, f, Conns, Keys)
      BY <1>2
    <2>2. \A k : Kept(k) = KeptIn("queue", q, k) \cup KeptIn("flight", f, k)
      BY DEF Kept
    <2>3. KeysHeld = Held(q, Endpoints, f, Conns, Keys)
      BY DEF KeysHeld
    <2>. HIDE DEF q, f
    <2>4. ASSUME NEW k \in Keys
          PROVE  LET P == KeptIn("queue", q, k) \cup KeptIn("flight", f, k)
                 IN  Cardinality(P) <= 1 /\ (P = {} <=> k \notin Held(q, Endpoints, f, Conns, Keys))
      BY <2>1, BooksPlaces
    <2>. QED
      BY <2>2, <2>3, <2>4
  <1>4. {k \in Keys : Kept(k) = {}} = Keys \ KeysHeld
    BY <1>3
  <1>5. /\ confirmed = Cardinality(Keys \ KeysHeld) /\ Keys \ KeysHeld \subseteq stored
        /\ phase = "Warmup" => KeysHeld = {}
    BY DEF PrefillInv, Counted
  <1>6. KeysConserved
    BY <1>1, <1>3, <1>4, <1>5 DEF KeysConserved
  <1>7. WarmupMeansStored
    <2>. SUFFICES ASSUME phase = "Warmup"
                  PROVE  stored = Keys /\ \A k \in Keys : Kept(k) = {}
      BY DEF WarmupMeansStored
    <2>1. KeysHeld = {} /\ stored \subseteq Keys
      BY <1>1, <1>5 DEF TypeOK
    <2>. QED
      BY <1>3, <1>5, <2>1
  <1>. QED
    BY <1>6, <1>7 DEF PrefillSound

(* The prefill loses no key and counts none twice, whatever connections    *)
(* fail and slots move, and the run leaves Prefill only when the cluster   *)
(* holds every key: for any number of keys, nodes, workers and             *)
(* connections, any pipeline depth and any number of faults and moves.     *)
THEOREM PrefillCorrect == Spec => []PrefillSound
  <1>1. PrefillInv /\ [Next]_vars => PrefillInv'
    BY PrefillNextInv
  <1>2. PrefillInv => PrefillSound
    BY PrefillInvSound
  <1>. QED
    BY <1>1, <1>2, PrefillInitInv, PTL DEF Spec

-----------------------------------------------------------------------------
(* The append stream: AppendStream's instance A of MCAppendStream, whose   *)
(* variables are its own.                                                  *)

(* The operators that AppendStream's instance has copies of.               *)
LEMMA SameOperators ==
  /\ \A S : A!Cardinality(S) = Cardinality(S)
  /\ \A s, T : A!Picked(s, T) = Picked(s, T)
  /\ \A s : A!ToSet(s) = ToSet(s)
  /\ \A place, lists, k : A!KeptIn(place, lists, k) = KeptIn(place, lists, k)
  /\ \A s, n : A!Newest(s, n) = Newest(s, n) /\ A!Older(s, n) = Older(s, n)
  <1>1. \A S : A!Cardinality(S) = Cardinality(S)
    BY DEF A!Cardinality, Cardinality
  <1>3. \A s, T : A!Picked(s, T) = Picked(s, T)
    BY DEF A!Picked, Picked, A!Rank, Rank, A!Cardinality, Cardinality
  <1>4. \A s : A!ToSet(s) = ToSet(s)
    BY DEF A!ToSet, ToSet
  <1>5. \A place, lists, k : A!KeptIn(place, lists, k) = KeptIn(place, lists, k)
    BY DEF A!KeptIn, KeptIn
  <1>6. \A s, n : A!Newest(s, n) = Newest(s, n) /\ A!Older(s, n) = Older(s, n)
    BY DEF A!Newest, Newest, A!Older, Older
  <1>. QED
    BY <1>1, <1>3, <1>4, <1>5, <1>6

(* The ids that wait in a queue or are in flight.                          *)
IdsHeld == Held(idQueue, AppendNodes, idFlight, Writers, A!NewIds)

IdBooks == Books(idQueue, AppendNodes, idFlight, Writers, A!NewIds)

WriterPlaces == {"down", "top", "fill", "flush", "recv", "gone"}

WriterTypes ==
  /\ stopped \in BOOLEAN
  /\ idTable \in [AppendWorkers -> [A!NewIds -> AppendNodes]] /\ idOwner \in [A!NewIds -> AppendCluster]
  /\ wpc \in [Writers -> WriterPlaces]
  /\ idClient \in [Writers -> Seq(A!NewIds)] /\ idFlight = idClient
  /\ idBuffered \in [Writers -> Nat] /\ budget \in [Writers -> 0 .. AppendDepth]
  /\ \A c \in Writers : Len(idClient[c]) <= AppendDepth /\ idBuffered[c] <= Len(idClient[c])

(* A writer that receives has something outstanding, all of it flushed.    *)
WritersReceiving ==
  \A c \in Writers : wpc[c] = "recv" => idClient[c] # <<>> /\ idBuffered[c] = 0

(* The first id that no batch has.                                         *)
End == Body + BatchSize * Batches

(* The head is where a batch starts.  Between batches it is the next id;   *)
(* the batch that is open has its full size when the total counts it.      *)
RunnerInv ==
  /\ rpc \in {"idle", "enqueue", "open"} /\ nextId \in Nat
  /\ \E m \in 0 .. Batches : head = Body + BatchSize * m
  /\ rpc = "idle" => nextId = head
  /\ rpc # "idle" => head < End /\ head <= nextId /\ nextId <= head + BatchSize
  /\ rpc = "open" => nextId = head + BatchSize
  /\ total = IF rpc = "open" THEN nextId - Body ELSE head - Body

(* What is held is of the open batch; the ids enqueued that nobody holds   *)
(* are written, and are the ones that were confirmed.                      *)
IdsCounted ==
  /\ IdsHeld \subseteq head .. nextId - 1
  /\ idConfirmed = Cardinality((Body .. nextId - 1) \ IdsHeld)
  /\ (Body .. nextId - 1) \ IdsHeld \subseteq idStored
  /\ 0 .. Body - 1 \subseteq idStored /\ idStored \subseteq A!Ids

(* The inductive invariant, for legal parameters.                          *)
AppendInv ==
  /\ A!AppendAssumption
  /\ WriterTypes /\ IdBooks /\ WritersReceiving /\ RunnerInv /\ IdsCounted

(* A multiple of b below another is at least b below it.                   *)
LEMMA NextMultiple ==
  ASSUME NEW b \in Nat, NEW m \in Nat, NEW n \in Nat, b * m < b * n
  PROVE  b * m + b <= b * n /\ b * (m + 1) = b * m + b /\ m < n
  <1>1. b * (m + 1) = b * m + b
    OBVIOUS
  <1>2. ASSUME m >= n PROVE FALSE
    <2>1. m - n \in Nat /\ b * (m - n) \in Nat /\ b * m \in Nat /\ b * n \in Nat
      BY <1>2
    <2>2. b * m = b * n + b * (m - n)
      OBVIOUS
    <2>. QED
      BY <2>1, <2>2
  <1>3. n - (m + 1) \in Nat /\ b * (n - (m + 1)) \in Nat
    BY <1>2
  <1>4. b * n = b * (m + 1) + b * (n - (m + 1))
    OBVIOUS
  <1>5. b * m \in Nat /\ b * n \in Nat
    OBVIOUS
  <1>. QED
    BY <1>1, <1>2, <1>3, <1>4, <1>5

LEMMA AppendParams ==
  ASSUME A!AppendAssumption
  PROVE  /\ Body \in Nat /\ BatchSize \in Nat /\ Batches \in Nat /\ BatchSize > 0
         /\ Generations \in Nat /\ AppendDepth \in Nat /\ AppendDepth > 0
         /\ WriterWorker \in [Writers -> AppendWorkers] /\ WriterEndpoint \in [Writers -> AppendNodes]
         /\ IdHome \in [A!NewIds -> AppendNodes] /\ IdHome \in [A!NewIds -> AppendCluster]
         /\ BatchSize * Batches \in Nat /\ End \in Nat /\ Body <= End
         /\ A!NewIds = Body .. End - 1 /\ A!Ids = 0 .. End - 1
  <1>1. /\ Body \in Nat /\ BatchSize \in Nat /\ Batches \in Nat /\ BatchSize > 0
        /\ Generations \in Nat /\ AppendDepth \in Nat /\ AppendDepth > 0
        /\ WriterWorker \in [Writers -> AppendWorkers] /\ WriterEndpoint \in [Writers -> AppendNodes]
        /\ IdHome \in [A!NewIds -> AppendNodes] /\ IdHome \in [A!NewIds -> AppendCluster]
    BY DEF A!AppendAssumption
  <1>2. BatchSize * Batches \in Nat
    BY <1>1
  <1>3. End \in Nat /\ Body <= End
    BY <1>1, <1>2 DEF End
  <1>4. A!NewIds = Body .. End - 1 /\ A!Ids = 0 .. End - 1
    BY <1>1, <1>2 DEF A!NewIds, A!Ids, End
  <1>. QED
    BY <1>1, <1>2, <1>3, <1>4

(* The ids the runner is at.                                               *)
LEMMA RunnerFacts ==
  ASSUME A!AppendAssumption, RunnerInv
  PROVE  /\ head \in Nat /\ nextId \in Nat /\ Body <= head /\ head <= End
         /\ head <= nextId /\ nextId <= head + BatchSize /\ nextId <= End
         /\ rpc # "idle" => head + BatchSize <= End
         /\ total \in Nat
  <1>1. /\ Body \in Nat /\ BatchSize \in Nat /\ Batches \in Nat /\ BatchSize > 0
        /\ BatchSize * Batches \in Nat /\ End \in Nat /\ End = Body + BatchSize * Batches
    BY AppendParams DEF End
  <1>2. PICK m \in 0 .. Batches : head = Body + BatchSize * m
    BY DEF RunnerInv
  <1>3. m \in Nat /\ Batches - m \in Nat /\ BatchSize * m \in Nat
    BY <1>1, <1>2
  <1>4. BatchSize * (Batches - m) \in Nat
        /\ BatchSize * Batches = BatchSize * m + BatchSize * (Batches - m)
    <2>1. BatchSize * (Batches - m) \in Nat
      BY <1>1, <1>3
    <2>2. BatchSize * Batches = BatchSize * m + BatchSize * (Batches - m)
      BY <1>1, <1>3
    <2>. QED
      BY <2>1, <2>2
  <1>5. head \in Nat /\ Body <= head /\ head <= End
    BY <1>1, <1>2, <1>3, <1>4
  <1>6. rpc # "idle" => head + BatchSize <= End
    <2>. SUFFICES ASSUME rpc # "idle" PROVE head + BatchSize <= End
      OBVIOUS
    <2>1. BatchSize * m < BatchSize * Batches
      BY <1>1, <1>2, <1>3 DEF RunnerInv
    <2>2. BatchSize * m + BatchSize <= BatchSize * Batches
      BY <1>1, <1>3, <2>1, NextMultiple
    <2>. QED
      BY <1>1, <1>2, <1>3, <2>2
  <1>7. /\ nextId \in Nat
        /\ rpc = "idle" => nextId = head
        /\ rpc # "idle" => head <= nextId /\ nextId <= head + BatchSize
        /\ total = IF rpc = "open" THEN nextId - Body ELSE head - Body
    BY DEF RunnerInv
  <1>8. head <= nextId /\ nextId <= head + BatchSize /\ nextId <= End
    BY <1>1, <1>5, <1>6, <1>7
  <1>9. total \in Nat
    BY <1>1, <1>5, <1>7, <1>8
  <1>. QED
    BY <1>5, <1>6, <1>7, <1>8, <1>9

(* What the parts of the invariant say about one writer.                   *)
LEMMA WriterFacts ==
  ASSUME AppendInv, NEW c \in Writers
  PROVE  /\ idClient[c] \in Seq(A!NewIds) /\ idFlight[c] = idClient[c]
         /\ Inj(idClient[c]) /\ Len(idClient[c]) \in Nat /\ Len(idClient[c]) <= AppendDepth
         /\ idBuffered[c] \in 0 .. Len(idClient[c]) /\ idBuffered[c] \in Nat
         /\ budget[c] \in 0 .. AppendDepth /\ budget[c] \in Nat
         /\ WriterEndpoint[c] \in AppendNodes /\ WriterWorker[c] \in AppendWorkers
         /\ idQueue[WriterEndpoint[c]] \in Seq(A!NewIds) /\ Inj(idQueue[WriterEndpoint[c]])
         /\ Ran(idQueue[WriterEndpoint[c]]) \cap Ran(idClient[c]) = {}
         /\ idTable[WriterWorker[c]] \in [A!NewIds -> AppendNodes]
         /\ AppendDepth \in Nat /\ AppendDepth > 0
  <1>0. A!AppendAssumption /\ WriterTypes /\ IdBooks
    BY DEF AppendInv
  <1>1. WriterEndpoint[c] \in AppendNodes /\ WriterWorker[c] \in AppendWorkers
        /\ AppendDepth \in Nat /\ AppendDepth > 0
    BY <1>0, AppendParams
  <1>2. idClient[c] \in Seq(A!NewIds) /\ Len(idClient[c]) <= AppendDepth /\ idBuffered[c] <= Len(idClient[c])
        /\ idBuffered[c] \in Nat /\ budget[c] \in 0 .. AppendDepth
        /\ idTable[WriterWorker[c]] \in [A!NewIds -> AppendNodes] /\ idFlight[c] = idClient[c]
    BY <1>0, <1>1 DEF WriterTypes
  <1>3. Len(idClient[c]) \in Nat
    BY <1>2
  <1>4. Inj(idFlight[c]) /\ idQueue[WriterEndpoint[c]] \in Seq(A!NewIds)
        /\ Inj(idQueue[WriterEndpoint[c]])
        /\ Ran(idQueue[WriterEndpoint[c]]) \cap Ran(idFlight[c]) = {}
    BY <1>0, <1>1 DEF IdBooks, Books
  <1>5. idBuffered[c] \in 0 .. Len(idClient[c]) /\ budget[c] \in Nat
    BY <1>1, <1>2, <1>3
  <1>. QED
    BY <1>1, <1>2, <1>3, <1>4, <1>5

LEMMA IdsKept ==
  ASSUME AppendInv, IdsHeld' = IdsHeld, idConfirmed' = idConfirmed,
         idStored \subseteq idStored', idStored' \subseteq A!Ids, UNCHANGED <<head, nextId>>
  PROVE  IdsCounted'
  <1>. DEFINE N == nextId
  <1>1. /\ IdsHeld \subseteq head .. N - 1
        /\ idConfirmed = Cardinality((Body .. N - 1) \ IdsHeld)
        /\ (Body .. N - 1) \ IdsHeld \subseteq idStored
        /\ 0 .. Body - 1 \subseteq idStored
    BY DEF AppendInv, IdsCounted
  <1>. QED
    BY <1>1 DEF IdsCounted

(* A step of one writer: its client comes to hold t, of which the newest b *)
(* are not flushed, with g left of its budget, and it goes to p.           *)
LEMMA WriterStep ==
  ASSUME AppendInv, NEW c \in Writers, NEW t \in Seq(A!NewIds), Len(t) <= AppendDepth,
         NEW b \in 0 .. Len(t), NEW g \in 0 .. AppendDepth,
         NEW p \in WriterPlaces, p = "recv" => t # <<>> /\ b = 0,
         idClient' = [idClient EXCEPT ![c] = t], idFlight' = [idFlight EXCEPT ![c] = t],
         idBuffered' = [idBuffered EXCEPT ![c] = b], budget' = [budget EXCEPT ![c] = g],
         wpc' = [wpc EXCEPT ![c] = p],
         IdBooks', IdsCounted', idTable' \in [AppendWorkers -> [A!NewIds -> AppendNodes]],
         UNCHANGED <<idOwner, stopped, total, head, rpc, nextId>>
  PROVE  AppendInv'
  <1>1. /\ idClient \in [Writers -> Seq(A!NewIds)] /\ idFlight = idClient
        /\ idBuffered \in [Writers -> Nat] /\ budget \in [Writers -> 0 .. AppendDepth]
        /\ wpc \in [Writers -> WriterPlaces]
        /\ \A d \in Writers : Len(idClient[d]) <= AppendDepth /\ idBuffered[d] <= Len(idClient[d])
        /\ idOwner \in [A!NewIds -> AppendCluster] /\ stopped \in BOOLEAN
    BY DEF AppendInv, WriterTypes
  <1>2. /\ idClient' \in [Writers -> Seq(A!NewIds)] /\ idFlight' = idClient'
        /\ idClient'[c] = t /\ \A d \in Writers \ {c} : idClient'[d] = idClient[d]
    BY <1>1
  <1>3. Len(t) \in Nat /\ b \in Nat /\ b <= Len(t)
    OBVIOUS
  <1>4. /\ idBuffered' \in [Writers -> Nat]
        /\ idBuffered'[c] = b /\ \A d \in Writers \ {c} : idBuffered'[d] = idBuffered[d]
    BY <1>1, <1>3
  <1>5. /\ wpc' \in [Writers -> WriterPlaces]
        /\ wpc'[c] = p /\ \A d \in Writers \ {c} : wpc'[d] = wpc[d]
    BY <1>1
  <1>6. budget' \in [Writers -> 0 .. AppendDepth]
    BY <1>1
  <1>7. \A d \in Writers : Len(idClient'[d]) <= AppendDepth /\ idBuffered'[d] <= Len(idClient'[d])
    BY <1>1, <1>2, <1>3, <1>4
  <1>8. WritersReceiving'
    <2>1. \A d \in Writers : wpc[d] = "recv" => idClient[d] # <<>> /\ idBuffered[d] = 0
      BY DEF AppendInv, WritersReceiving
    <2>2. \A d \in Writers : wpc'[d] = "recv" => idClient'[d] # <<>> /\ idBuffered'[d] = 0
      BY <1>2, <1>4, <1>5, <2>1
    <2>. QED
      BY <2>2 DEF WritersReceiving
  <1>9. WriterTypes'
    BY <1>1, <1>2, <1>4, <1>5, <1>6, <1>7 DEF WriterTypes
  <1>10. RunnerInv'
    BY DEF AppendInv, RunnerInv
  <1>. QED
    BY <1>8, <1>9, <1>10 DEF AppendInv

LEMMA SameWriter ==
  ASSUME AppendInv, NEW c \in Writers
  PROVE  /\ idBuffered = [idBuffered EXCEPT ![c] = idBuffered[c]]
         /\ budget = [budget EXCEPT ![c] = budget[c]]
         /\ idClient = [idClient EXCEPT ![c] = idClient[c]]
         /\ idFlight = [idFlight EXCEPT ![c] = idClient[c]]
         /\ wpc = [wpc EXCEPT ![c] = wpc[c]] /\ wpc[c] \in WriterPlaces
  BY DEF AppendInv, WriterTypes

(* A writer that only moves on.                                            *)
LEMMA WriterMoves ==
  ASSUME AppendInv, NEW c \in Writers, NEW b \in 0 .. Len(idClient[c]),
         NEW g \in 0 .. AppendDepth, NEW p \in WriterPlaces,
         p = "recv" => idClient[c] # <<>> /\ b = 0,
         idBuffered' = [idBuffered EXCEPT ![c] = b], budget' = [budget EXCEPT ![c] = g],
         wpc' = [wpc EXCEPT ![c] = p],
         UNCHANGED <<stopped, idQueue, idTable, idClient, idFlight, idConfirmed, idOwner, idStored,
                     total, head, rpc, nextId>>
  PROVE  AppendInv'
  <1>1. idClient[c] \in Seq(A!NewIds) /\ Len(idClient[c]) <= AppendDepth
    BY WriterFacts
  <1>2. /\ idClient' = [idClient EXCEPT ![c] = idClient[c]]
        /\ idFlight' = [idFlight EXCEPT ![c] = idClient[c]]
    BY SameWriter
  <1>3. IdBooks' /\ IdsHeld' = IdsHeld
    BY DEF AppendInv, IdBooks, IdsHeld
  <1>4. idStored' = idStored /\ idConfirmed' = idConfirmed /\ UNCHANGED <<head, nextId>>
        /\ idStored \subseteq idStored' /\ idStored' \subseteq A!Ids
    BY DEF AppendInv, IdsCounted
  <1>5. IdsCounted'
    BY <1>3, <1>4, IdsKept
  <1>6. idTable' \in [AppendWorkers -> [A!NewIds -> AppendNodes]]
        /\ UNCHANGED <<idOwner, stopped, total, head, rpc, nextId>>
    BY DEF AppendInv, WriterTypes
  <1>. QED
    BY <1>1, <1>2, <1>3, <1>5, <1>6, WriterStep

LEMMA WriterMovesInv ==
  ASSUME AppendInv, NEW c \in Writers,
         A!Connect(c) \/ A!LoopTop(c) \/ A!FillEnds(c) \/ A!Flush(c)
  PROVE  AppendInv'
  <1>0. /\ idBuffered[c] \in 0 .. Len(idClient[c]) /\ budget[c] \in 0 .. AppendDepth
        /\ Len(idClient[c]) \in Nat /\ AppendDepth \in Nat /\ AppendDepth > 0
        /\ Len(idClient[c]) <= AppendDepth
    BY WriterFacts
  <1>1. CASE A!Connect(c)
    <2>1. PICK p \in {"gone", "top"} : wpc' = [wpc EXCEPT ![c] = p]
      BY <1>1 DEF A!Connect, A!Go
    <2>2. UNCHANGED <<stopped, idQueue, idTable, idClient, idFlight, idConfirmed, idOwner, idStored,
                      total, head, rpc, nextId, idBuffered, budget>>
      BY <1>1 DEF A!Connect, A!cluster, A!runner
    <2>3. /\ idBuffered' = [idBuffered EXCEPT ![c] = idBuffered[c]]
          /\ budget' = [budget EXCEPT ![c] = budget[c]]
          /\ p \in WriterPlaces /\ p # "recv"
      BY <2>1, <2>2, SameWriter DEF WriterPlaces
    <2>. QED
      BY <1>0, <2>1, <2>2, <2>3, WriterMoves
  <1>2. CASE A!LoopTop(c)
    <2>1. UNCHANGED <<stopped, idQueue, idTable, idClient, idFlight, idConfirmed, idOwner, idStored,
                      total, head, rpc, nextId, idBuffered>>
      BY <1>2 DEF A!LoopTop, A!cluster, A!runner
    <2>2. CASE UNCHANGED budget
      <3>1. PICK p \in {"gone", "fill", "flush"} : wpc' = [wpc EXCEPT ![c] = p]
        BY <1>2 DEF A!LoopTop, A!Go
      <3>2. /\ idBuffered' = [idBuffered EXCEPT ![c] = idBuffered[c]]
            /\ budget' = [budget EXCEPT ![c] = budget[c]]
            /\ p \in WriterPlaces /\ p # "recv"
        BY <2>1, <2>2, <3>1, SameWriter DEF WriterPlaces
      <3>. QED
        BY <1>0, <2>1, <3>1, <3>2, WriterMoves
    <2>3. CASE budget' # budget
      <3>1. /\ A!Room(c) > 0 /\ wpc' = [wpc EXCEPT ![c] = "fill"]
            /\ \E b \in A!Budgets(c) : budget' = [budget EXCEPT ![c] = b]
        BY <1>2, <2>3 DEF A!LoopTop, A!Go
      <3>2. PICK b \in A!Budgets(c) : budget' = [budget EXCEPT ![c] = b]
        BY <3>1
      <3>3. b = 0 \/ b = 1 \/ b = A!Room(c)
        BY <3>2 DEF A!Budgets
      <3>4. A!Room(c) = AppendDepth - Len(idClient[c])
        BY DEF A!Room
      <3>5. b \in 0 .. AppendDepth
        BY <1>0, <3>1, <3>3, <3>4
      <3>. QED
        BY <1>0, <2>1, <3>1, <3>2, <3>5, SameWriter, WriterMoves DEF WriterPlaces
    <2>. QED
      BY <2>2, <2>3
  <1>3. CASE A!FillEnds(c)
    <2>1. wpc' = [wpc EXCEPT ![c] = "flush"] /\ budget' = [budget EXCEPT ![c] = 0]
      BY <1>3 DEF A!FillEnds, A!Leaves, A!Go
    <2>2. UNCHANGED <<stopped, idQueue, idTable, idClient, idFlight, idConfirmed, idOwner, idStored,
                      total, head, rpc, nextId, idBuffered>>
      BY <1>3 DEF A!FillEnds, A!cluster, A!runner
    <2>3. 0 \in 0 .. AppendDepth
      BY <1>0
    <2>. QED
      BY <1>0, <2>1, <2>2, <2>3, SameWriter, WriterMoves DEF WriterPlaces
  <1>4. CASE A!Flush(c)
    <2>1. PICK p \in {"top", "recv"} : wpc' = [wpc EXCEPT ![c] = p] /\ (p = "recv" => idClient[c] # <<>>)
      <3>1. wpc' = [wpc EXCEPT ![c] = IF idClient[c] = <<>> THEN "top" ELSE "recv"]
        BY <1>4 DEF A!Flush, A!AfterFlush, A!Go
      <3>. QED
        BY <3>1
    <2>2. UNCHANGED <<stopped, idQueue, idTable, idClient, idFlight, idConfirmed, idOwner, idStored,
                      total, head, rpc, nextId, budget>>
          /\ idBuffered' = [idBuffered EXCEPT ![c] = 0]
      BY <1>4 DEF A!Flush, A!cluster, A!runner
    <2>3. 0 \in 0 .. Len(idClient[c])
      BY <1>0
    <2>. QED
      BY <1>0, <2>1, <2>2, <2>3, SameWriter, WriterMoves DEF WriterPlaces
  <1>. QED
    BY <1>1, <1>2, <1>3, <1>4

(* The endpoint's queue comes to hold s and the flight t; between them     *)
(* nothing is lost.                                                        *)
LEMMA IdsExchanged ==
  ASSUME AppendInv, NEW c \in Writers, NEW s \in Seq(A!NewIds), NEW t \in Seq(A!NewIds),
         Inj(s), Inj(t), Ran(s) \cap Ran(t) = {},
         Ran(s) \cup Ran(t) = Ran(idQueue[WriterEndpoint[c]]) \cup Ran(idClient[c]),
         idQueue' = [idQueue EXCEPT ![WriterEndpoint[c]] = s],
         idFlight' = [idFlight EXCEPT ![c] = t]
  PROVE  IdBooks' /\ IdsHeld' = IdsHeld
  <1>. DEFINE e == WriterEndpoint[c]
              K == A!NewIds
              q == idQueue
              f == idFlight
              q2 == idQueue'
              f2 == idFlight'
  <1>1. e \in AppendNodes /\ f[c] = idClient[c] /\ q[e] \in Seq(K) /\ f[c] \in Seq(K)
    BY WriterFacts
  <1>2. Books(q, AppendNodes, f, Writers, K)
    BY DEF AppendInv, IdBooks
  <1>3. Ran(s) \cup Ran(t) = Ran(q[e]) \cup Ran(f[c])
    BY <1>1
  <1>4. Exchanged(q, AppendNodes, f, Writers, K, e, c, s, t, q2, f2)
    BY <1>1, <1>2, <1>3 DEF Exchanged
  <1>5. /\ IdsHeld = Held(q, AppendNodes, f, Writers, K)
        /\ IdsHeld' = Held(q2, AppendNodes, f2, Writers, K)
        /\ IdBooks' = Books(q2, AppendNodes, f2, Writers, K)
    BY DEF IdsHeld, IdBooks
  <1>. HIDE DEF e, K, q, f, q2, f2
  <1>6. /\ Books(q2, AppendNodes, f2, Writers, K)
        /\ Held(q2, AppendNodes, f2, Writers, K)
             = (Held(q, AppendNodes, f, Writers, K)
                  \ (Ran(q[e]) \cup Ran(f[c]))) \cup (Ran(s) \cup Ran(t))
    BY <1>4, Exchange
  <1>7. Ran(q[e]) \cup Ran(f[c]) \subseteq Held(q, AppendNodes, f, Writers, K)
    <2>1. Ran(q[e]) \subseteq K /\ Ran(f[c]) \subseteq K
      BY <1>1, SeqFacts
    <2>. QED
      BY <1>1, <2>1 DEF Held
  <1>. QED
    BY <1>3, <1>5, <1>6, <1>7

(* The id at the front of the queue a writer fills from.                   *)
LEMMA WriterPops ==
  ASSUME AppendInv, NEW c \in Writers, A!Pops(c)
  PROVE  /\ A!Popped(c) \in A!NewIds /\ Tail(idQueue[WriterEndpoint[c]]) \in Seq(A!NewIds)
         /\ Ran(idQueue[WriterEndpoint[c]]) = Ran(Tail(idQueue[WriterEndpoint[c]])) \cup {A!Popped(c)}
         /\ Inj(Tail(idQueue[WriterEndpoint[c]]))
         /\ A!Popped(c) \notin Ran(Tail(idQueue[WriterEndpoint[c]]))
         /\ A!Popped(c) \notin Ran(idClient[c])
         /\ A!PopFront(c) = [idQueue EXCEPT ![WriterEndpoint[c]] = Tail(idQueue[WriterEndpoint[c]])]
         /\ Len(idClient[c]) < AppendDepth /\ wpc[c] = "fill" /\ budget[c] > 0
  <1>. DEFINE e == WriterEndpoint[c]
              x == idQueue[e]
              K == A!NewIds
  <1>1. /\ x \in Seq(K) /\ e \in AppendNodes /\ Inj(x)
        /\ Ran(x) \cap Ran(idClient[c]) = {}
        /\ Len(idClient[c]) \in Nat /\ AppendDepth \in Nat
    BY WriterFacts
  <1>2. x # <<>> /\ wpc[c] = "fill" /\ budget[c] > 0 /\ AppendDepth - Len(idClient[c]) > 0
    BY DEF A!Pops, A!Room
  <1>3. A!PopFront(c) = [idQueue EXCEPT ![e] = Tail(x)] /\ A!Popped(c) = Head(x)
    BY DEF A!PopFront, A!Popped
  <1>. HIDE DEF x, K
  <1>4. /\ Head(x) \in K /\ Tail(x) \in Seq(K)
        /\ Ran(x) = Ran(Tail(x)) \cup {Head(x)}
        /\ Inj(Tail(x)) /\ Head(x) \notin Ran(Tail(x))
    BY <1>1, <1>2, TailKeys
  <1>5. Head(x) \notin Ran(idClient[c]) /\ Len(idClient[c]) < AppendDepth
    BY <1>1, <1>2, <1>4
  <1>. QED
    BY <1>2, <1>3, <1>4, <1>5 DEF x, K

LEMMA WriterFires ==
  ASSUME AppendInv, NEW c \in Writers, A!Fire(c)
  PROVE  AppendInv'
  <1>. DEFINE e == WriterEndpoint[c]
              K == A!NewIds
              k == A!Popped(c)
              t == Append(idClient[c], k)
              s == Tail(idQueue[e])
  <1>1. A!Pops(c)
    BY DEF A!Fire
  <1>2. /\ k \in K /\ s \in Seq(K) /\ Ran(idQueue[e]) = Ran(s) \cup {k}
        /\ Inj(s) /\ k \notin Ran(s) /\ k \notin Ran(idClient[c])
        /\ Len(idClient[c]) < AppendDepth /\ A!PopFront(c) = [idQueue EXCEPT ![e] = s]
        /\ wpc[c] = "fill" /\ budget[c] > 0
    BY <1>1, WriterPops
  <1>3. /\ idClient[c] \in Seq(K) /\ idFlight[c] = idClient[c] /\ Inj(idClient[c])
        /\ Len(idClient[c]) \in Nat /\ idBuffered[c] \in 0 .. Len(idClient[c]) /\ AppendDepth \in Nat
        /\ budget[c] \in 0 .. AppendDepth
        /\ Ran(idQueue[e]) \cap Ran(idClient[c]) = {}
    BY WriterFacts
  <1>4. /\ idQueue' = [idQueue EXCEPT ![e] = s]
        /\ idClient' = [idClient EXCEPT ![c] = t] /\ idFlight' = [idFlight EXCEPT ![c] = t]
        /\ idBuffered' = [idBuffered EXCEPT ![c] = idBuffered[c] + 1]
        /\ budget' = [budget EXCEPT ![c] = budget[c] - 1]
        /\ UNCHANGED <<stopped, idTable, wpc, idConfirmed, idOwner, idStored, total, head, rpc, nextId>>
    BY <1>2, <1>3 DEF A!Fire, A!cluster, A!runner
  <1>. HIDE DEF e, k, s, K
  <1>5. t \in Seq(K) /\ Len(t) = Len(idClient[c]) + 1 /\ Ran(t) = Ran(idClient[c]) \cup {k} /\ Inj(t)
    BY <1>2, <1>3, AppendKeys
  <1>. HIDE DEF t
  <1>6. Ran(s) \cap Ran(t) = {} /\ Ran(s) \cup Ran(t) = Ran(idQueue[e]) \cup Ran(idClient[c])
    BY <1>2, <1>3, <1>5
  <1>7. IdBooks' /\ IdsHeld' = IdsHeld
    BY <1>2, <1>4, <1>5, <1>6, IdsExchanged DEF e, K
  <1>8. idStored \subseteq idStored' /\ idStored' \subseteq A!Ids
        /\ idTable' \in [AppendWorkers -> [A!NewIds -> AppendNodes]]
    BY <1>4 DEF AppendInv, IdsCounted, WriterTypes
  <1>9. IdsCounted'
    BY <1>4, <1>7, <1>8, IdsKept
  <1>10. Len(t) <= AppendDepth /\ idBuffered[c] + 1 \in 0 .. Len(t)
         /\ budget[c] - 1 \in 0 .. AppendDepth
    BY <1>2, <1>3, <1>5
  <1>11. wpc' = [wpc EXCEPT ![c] = "fill"] /\ "fill" \in WriterPlaces
    BY <1>2, <1>4, SameWriter DEF WriterPlaces
  <1>. QED
    BY <1>4, <1>5, <1>7, <1>8, <1>9, <1>10, <1>11, WriterStep DEF K

(* The client drops the n newest of its requests and their ids go to the   *)
(* front of the queue: FireFails and FlushFails.                           *)
LEMMA WriterDrops ==
  ASSUME AppendInv, NEW c \in Writers, NEW n \in 0 .. idBuffered[c],
         NEW g \in 0 .. AppendDepth, NEW p \in WriterPlaces,
         A!Discard(c, n, idQueue), wpc' = [wpc EXCEPT ![c] = p],
         budget' = [budget EXCEPT ![c] = g],
         p = "recv" => idClient'[c] # <<>> /\ n = idBuffered[c],
         UNCHANGED <<stopped, idTable, idConfirmed, idOwner, idStored, total, head, rpc, nextId>>
  PROVE  AppendInv'
  <1>. DEFINE e == WriterEndpoint[c]
              K == A!NewIds
              x == idClient[c]
              t == Older(x, n)
              m == Newest(x, n)
              s == m \o idQueue[e]
  <1>1. /\ x \in Seq(K) /\ idFlight[c] = x /\ Inj(x)
        /\ Len(x) \in Nat /\ Len(x) <= AppendDepth
        /\ idBuffered[c] \in 0 .. Len(x) /\ AppendDepth \in Nat
        /\ Ran(idQueue[e]) \cap Ran(x) = {} /\ e \in AppendNodes
        /\ idQueue[e] \in Seq(K) /\ Inj(idQueue[e])
    BY WriterFacts
  <1>2. /\ idQueue' = [idQueue EXCEPT ![e] = s]
        /\ idClient' = [idClient EXCEPT ![c] = t] /\ idFlight' = [idFlight EXCEPT ![c] = t]
        /\ idBuffered' = [idBuffered EXCEPT ![c] = idBuffered[c] - n]
    BY <1>1, SameOperators DEF A!Discard
  <1>3. n \in 0 .. Len(x)
    BY <1>1
  <1>4. idClient'[c] = t
    BY <1>2 DEF AppendInv, WriterTypes
  <1>. HIDE DEF e, K, x
  <1>5. /\ m \in Seq(K) /\ t \in Seq(K) /\ Len(t) = Len(x) - n
        /\ Ran(x) = Ran(m) \cup Ran(t)
        /\ Inj(m) /\ Inj(t) /\ Ran(m) \cap Ran(t) = {}
    <2>1. x \in Seq(K) /\ Inj(x) /\ n \in 0 .. Len(x)
      BY <1>1, <1>3
    <2>2. /\ Newest(x, n) \in Seq(K) /\ Older(x, n) \in Seq(K)
          /\ Len(Older(x, n)) = Len(x) - n
          /\ Ran(x) = Ran(Newest(x, n)) \cup Ran(Older(x, n))
          /\ Inj(Newest(x, n)) /\ Inj(Older(x, n))
          /\ Ran(Newest(x, n)) \cap Ran(Older(x, n)) = {}
      BY <2>1, SplitKeys
    <2>. QED
      BY <2>2
  <1>. HIDE DEF m, t
  <1>6. s \in Seq(K) /\ Ran(s) = Ran(m) \cup Ran(idQueue[e]) /\ Inj(s)
    <2>1. Ran(m) \cap Ran(idQueue[e]) = {}
      BY <1>1, <1>5
    <2>. QED
      BY <1>1, <1>5, <2>1, ConcatKeys
  <1>. HIDE DEF s
  <1>7. Ran(s) \cap Ran(t) = {} /\ Ran(s) \cup Ran(t) = Ran(idQueue[e]) \cup Ran(x)
    BY <1>1, <1>5, <1>6
  <1>8. IdBooks' /\ IdsHeld' = IdsHeld
    BY <1>2, <1>5, <1>6, <1>7, IdsExchanged DEF e, K, x
  <1>9. idStored \subseteq idStored' /\ idStored' \subseteq A!Ids
        /\ idTable' \in [AppendWorkers -> [A!NewIds -> AppendNodes]]
        /\ UNCHANGED <<idOwner, stopped, total, head, rpc, nextId>>
    BY DEF AppendInv, IdsCounted, WriterTypes
  <1>10. IdsCounted'
    BY <1>8, <1>9, IdsKept
  <1>11. Len(t) <= AppendDepth /\ idBuffered[c] - n \in 0 .. Len(t)
    BY <1>1, <1>5
  <1>12. p = "recv" => t # <<>> /\ idBuffered[c] - n = 0
    BY <1>1, <1>4
  <1>. QED
    BY <1>2, <1>5, <1>8, <1>9, <1>10, <1>11, <1>12, WriterStep DEF K

LEMMA WriterSendFails ==
  ASSUME AppendInv, NEW c \in Writers, A!FireFails(c) \/ A!FlushFails(c)
  PROVE  AppendInv'
  <1>0. /\ idBuffered[c] \in 0 .. idBuffered[c] /\ budget[c] \in 0 .. AppendDepth
        /\ 0 \in 0 .. AppendDepth
    BY WriterFacts
  <1>1. CASE A!FireFails(c)
    <2>1. PICK n \in 0 .. idBuffered[c] : A!Discard(c, n, idQueue)
      BY <1>1 DEF A!FireFails
    <2>2. /\ wpc' = [wpc EXCEPT ![c] = "flush"] /\ budget' = [budget EXCEPT ![c] = 0]
          /\ UNCHANGED <<stopped, idTable, idConfirmed, idOwner, idStored, total, head, rpc, nextId>>
      BY <1>1 DEF A!FireFails, A!Leaves, A!Go, A!cluster, A!runner
    <2>. QED
      BY <1>0, <2>1, <2>2, WriterDrops DEF WriterPlaces
  <1>2. CASE A!FlushFails(c)
    <2>1. /\ A!Discard(c, idBuffered[c], idQueue) /\ budget' = budget
          /\ UNCHANGED <<stopped, idTable, idConfirmed, idOwner, idStored, total, head, rpc, nextId>>
      BY <1>2 DEF A!FlushFails, A!cluster, A!runner
    <2>2. PICK p \in {"top", "recv"} : wpc' = [wpc EXCEPT ![c] = p] /\ (p = "recv" => idClient'[c] # <<>>)
      <3>1. wpc' = [wpc EXCEPT ![c] = IF idClient'[c] = <<>> THEN "top" ELSE "recv"]
        BY <1>2 DEF A!FlushFails, A!AfterFlush, A!Go
      <3>. QED
        BY <3>1
    <2>3. budget' = [budget EXCEPT ![c] = budget[c]] /\ p \in WriterPlaces
      BY <2>1, <2>2, SameWriter DEF WriterPlaces
    <2>. QED
      BY <1>0, <2>1, <2>2, <2>3, WriterDrops
  <1>. QED
    BY <1>1, <1>2

(* The oldest request is answered: its id leaves the flight, and the       *)
(* queue takes it back or nobody holds it any more.                        *)
LEMMA WriterHead ==
  ASSUME AppendInv, NEW c \in Writers, wpc[c] = "recv"
  PROVE  /\ idClient[c] # <<>> /\ idBuffered[c] = 0 /\ Head(idClient[c]) \in A!NewIds
         /\ Tail(idClient[c]) \in Seq(A!NewIds) /\ Len(Tail(idClient[c])) <= AppendDepth
         /\ 0 \in 0 .. Len(Tail(idClient[c]))
         /\ Ran(idClient[c]) = Ran(Tail(idClient[c])) \cup {Head(idClient[c])}
         /\ Inj(Tail(idClient[c])) /\ Head(idClient[c]) \notin Ran(Tail(idClient[c]))
         /\ Head(idClient[c]) \notin Ran(idQueue[WriterEndpoint[c]])
         /\ Head(idClient[c]) \in IdsHeld
         /\ idBuffered = [idBuffered EXCEPT ![c] = 0]
  <1>. DEFINE x == idClient[c]
              K == A!NewIds
  <1>1. /\ x \in Seq(K) /\ Inj(x) /\ Len(x) \in Nat /\ Len(x) <= AppendDepth
        /\ AppendDepth \in Nat
        /\ Ran(idQueue[WriterEndpoint[c]]) \cap Ran(x) = {} /\ idFlight[c] = x
    BY WriterFacts
  <1>2. x # <<>> /\ idBuffered[c] = 0
    BY DEF AppendInv, WritersReceiving
  <1>3. idBuffered = [idBuffered EXCEPT ![c] = 0]
    BY <1>2, SameWriter
  <1>. HIDE DEF x, K
  <1>4. /\ Head(x) \in K /\ Tail(x) \in Seq(K) /\ Len(Tail(x)) = Len(x) - 1
        /\ Ran(x) = Ran(Tail(x)) \cup {Head(x)}
        /\ Inj(Tail(x)) /\ Head(x) \notin Ran(Tail(x))
    BY <1>1, <1>2, TailKeys
  <1>5. Len(Tail(x)) \in Nat
    BY <1>4
  <1>6. Head(x) \notin Ran(idQueue[WriterEndpoint[c]])
    BY <1>1, <1>4
  <1>7. Head(x) \in IdsHeld
    BY <1>1, <1>4 DEF IdsHeld, Held, K
  <1>8. Len(Tail(x)) <= AppendDepth /\ 0 \in 0 .. Len(Tail(x))
    BY <1>1, <1>4, <1>5
  <1>. QED
    BY <1>2, <1>3, <1>4, <1>6, <1>7, <1>8 DEF x, K

LEMMA WriterRetries ==
  ASSUME AppendInv, NEW c \in Writers, wpc[c] = "recv", A!Retry(c), A!Pop(c),
         idTable' \in [AppendWorkers -> [A!NewIds -> AppendNodes]],
         UNCHANGED <<stopped, idConfirmed, idOwner, idStored, total, head, rpc, nextId>>
  PROVE  AppendInv'
  <1>. DEFINE e == WriterEndpoint[c]
              K == A!NewIds
              k == Head(idClient[c])
              t == Tail(idClient[c])
              s == Append(idQueue[e], k)
  <1>1. /\ k \in K /\ t \in Seq(K) /\ Len(t) <= AppendDepth /\ 0 \in 0 .. Len(t)
        /\ Ran(idClient[c]) = Ran(t) \cup {k} /\ Inj(t) /\ k \notin Ran(t)
        /\ k \notin Ran(idQueue[e]) /\ idBuffered = [idBuffered EXCEPT ![c] = 0]
    BY WriterHead
  <1>2. /\ idQueue[e] \in Seq(K) /\ Inj(idQueue[e]) /\ idFlight[c] = idClient[c]
        /\ Ran(idQueue[e]) \cap Ran(idClient[c]) = {} /\ budget[c] \in 0 .. AppendDepth
    BY WriterFacts
  <1>3. /\ idQueue' = [idQueue EXCEPT ![e] = s] /\ idClient' = [idClient EXCEPT ![c] = t]
        /\ idFlight' = [idFlight EXCEPT ![c] = t] /\ wpc' = [wpc EXCEPT ![c] = "top"]
        /\ UNCHANGED <<budget, idBuffered>>
    BY <1>2 DEF A!Retry, A!Pop, A!PushBack, A!Go
  <1>4. budget' = [budget EXCEPT ![c] = budget[c]] /\ "top" \in WriterPlaces
        /\ idBuffered' = [idBuffered EXCEPT ![c] = 0]
    BY <1>1, <1>3, SameWriter DEF WriterPlaces
  <1>. HIDE DEF e, k, t, K
  <1>5. s \in Seq(K) /\ Ran(s) = Ran(idQueue[e]) \cup {k} /\ Inj(s)
    BY <1>1, <1>2, AppendKeys
  <1>. HIDE DEF s
  <1>6. Ran(s) \cap Ran(t) = {} /\ Ran(s) \cup Ran(t) = Ran(idQueue[e]) \cup Ran(idClient[c])
    BY <1>1, <1>2, <1>5
  <1>7. IdBooks' /\ IdsHeld' = IdsHeld
    BY <1>1, <1>3, <1>5, <1>6, IdsExchanged DEF e, K
  <1>8. idStored \subseteq idStored' /\ idStored' \subseteq A!Ids
        /\ UNCHANGED <<idOwner, stopped, total, head, rpc, nextId>>
    BY DEF AppendInv, IdsCounted
  <1>9. IdsCounted'
    BY <1>7, <1>8, IdsKept
  <1>10. /\ t \in Seq(A!NewIds) /\ Len(t) <= AppendDepth /\ 0 \in 0 .. Len(t)
         /\ idClient' = [idClient EXCEPT ![c] = t] /\ idFlight' = [idFlight EXCEPT ![c] = t]
         /\ wpc' = [wpc EXCEPT ![c] = "top"]
    BY <1>1, <1>3 DEF K
  <1>. QED
    BY <1>2, <1>4, <1>7, <1>8, <1>9, <1>10, WriterStep

LEMMA WriterReplies ==
  ASSUME AppendInv, NEW c \in Writers, A!Moved(c) \/ A!Refused(c)
  PROVE  AppendInv'
  <1>1. CASE A!Moved(c)
    <2>1. /\ wpc[c] = "recv" /\ A!Retry(c) /\ A!Pop(c)
          /\ A!Learn(c, Head(idClient[c]))
          /\ UNCHANGED <<stopped, idConfirmed, idOwner, idStored, total, head, rpc, nextId>>
      BY <1>1 DEF A!Moved, A!cluster, A!runner
    <2>2. Head(idClient[c]) \in A!NewIds /\ WriterWorker[c] \in AppendWorkers
      BY <2>1, WriterHead, WriterFacts
    <2>3. idTable \in [AppendWorkers -> [A!NewIds -> AppendNodes]] /\ idOwner \in [A!NewIds -> AppendCluster]
      BY DEF AppendInv, WriterTypes
    <2>4. idTable' \in [AppendWorkers -> [A!NewIds -> AppendNodes]]
      <3>1. AppendRecognised \subseteq AppendNodes
        BY DEF AppendInv, A!AppendAssumption
      <3>. QED
        BY <2>1, <2>2, <2>3, <3>1 DEF A!Learn
    <2>. QED
      BY <2>1, <2>4, WriterRetries
  <1>2. CASE A!Refused(c)
    <2>1. /\ wpc[c] = "recv" /\ A!Retry(c) /\ A!Pop(c)
          /\ UNCHANGED <<stopped, idTable, idConfirmed, idOwner, idStored, total, head, rpc, nextId>>
      BY <1>2 DEF A!Refused, A!cluster, A!runner
    <2>2. idTable' \in [AppendWorkers -> [A!NewIds -> AppendNodes]]
      BY <2>1 DEF AppendInv, WriterTypes
    <2>. QED
      BY <2>1, <2>2, WriterRetries
  <1>. QED
    BY <1>1, <1>2

(* A confirmed id is held by nobody from then on: it is counted once.      *)
LEMMA WriterStores ==
  ASSUME AppendInv, NEW c \in Writers, A!Stored(c)
  PROVE  AppendInv'
  <1>. DEFINE e == WriterEndpoint[c]
              K == A!NewIds
              k == Head(idClient[c])
              t == Tail(idClient[c])
              x == idQueue[e]
              q == idQueue
              f == idFlight
              f2 == idFlight'
  <1>0. wpc[c] = "recv"
    BY DEF A!Stored
  <1>1. /\ k \in K /\ t \in Seq(K) /\ Len(t) <= AppendDepth /\ 0 \in 0 .. Len(t)
        /\ Ran(idClient[c]) = Ran(t) \cup {k} /\ Inj(t) /\ k \notin Ran(t)
        /\ k \notin Ran(x) /\ idBuffered = [idBuffered EXCEPT ![c] = 0] /\ k \in IdsHeld
    BY <1>0, WriterHead
  <1>2. /\ x \in Seq(K) /\ Inj(x) /\ f[c] = idClient[c] /\ e \in AppendNodes
        /\ Ran(x) \cap Ran(idClient[c]) = {} /\ budget[c] \in 0 .. AppendDepth
    BY WriterFacts
  <1>3. /\ idClient' = [idClient EXCEPT ![c] = t] /\ f2 = [f EXCEPT ![c] = t]
        /\ wpc' = [wpc EXCEPT ![c] = "top"] /\ idStored' = idStored \cup {k}
        /\ idConfirmed' = idConfirmed + 1
        /\ UNCHANGED <<stopped, idQueue, idTable, idBuffered, budget, idOwner, total, head, rpc, nextId>>
    BY <1>2 DEF A!Stored, A!Pop, A!Go, A!cluster, A!runner
  <1>31. /\ budget' = [budget EXCEPT ![c] = budget[c]] /\ "top" \in WriterPlaces
         /\ idBuffered' = [idBuffered EXCEPT ![c] = 0]
    BY <1>1, <1>3, SameWriter DEF WriterPlaces
  <1>4. Books(q, AppendNodes, f, Writers, K) /\ q = [q EXCEPT ![e] = x]
    BY <1>2 DEF AppendInv, IdBooks, Books
  <1>5. Exchanged(q, AppendNodes, f, Writers, K, e, c, x, t, q, f2)
    <2>1. Ran(x) \cap Ran(t) = {} /\ Ran(x) \cup Ran(t) \subseteq Ran(q[e]) \cup Ran(f[c])
      BY <1>1, <1>2
    <2>. QED
      BY <1>1, <1>2, <1>3, <1>4, <2>1 DEF Exchanged
  <1>6. /\ IdsHeld = Held(q, AppendNodes, f, Writers, K)
        /\ IdsHeld' = Held(q, AppendNodes, f2, Writers, K)
        /\ IdBooks' = Books(q, AppendNodes, f2, Writers, K)
        /\ q[e] = x /\ Ran(f[c]) = Ran(t) \cup {k}
    BY <1>1, <1>2, <1>3 DEF IdsHeld, IdBooks
  <1>61. K \subseteq A!Ids
    <2>1. A!AppendAssumption
      BY DEF AppendInv
    <2>2. K = Body .. End - 1 /\ A!Ids = 0 .. End - 1 /\ Body \in Nat /\ End \in Nat
      BY <2>1, AppendParams
    <2>. QED
      BY <2>2
  <1>. HIDE DEF e, k, t, x, q, f, f2, K
  <1>7. /\ Books(q, AppendNodes, f2, Writers, K)
        /\ Held(q, AppendNodes, f2, Writers, K)
             = (Held(q, AppendNodes, f, Writers, K) \ (Ran(q[e]) \cup Ran(f[c]))) \cup (Ran(x) \cup Ran(t))
    BY <1>5, Exchange
  <1>8. IdsHeld' = IdsHeld \ {k}
    <2>1. Ran(x) \subseteq IdsHeld /\ Ran(t) \subseteq IdsHeld
      <3>1. Ran(x) \subseteq K /\ Ran(t) \subseteq K
        BY <1>1, <1>2, SeqFacts
      <3>. QED
        BY <1>2, <1>6, <3>1 DEF Held
    <2>. QED
      BY <1>1, <1>6, <1>7, <2>1
  <1>9. IdsCounted'
    <2>. DEFINE B == Body .. nextId - 1
    <2>1. /\ IdsHeld \subseteq head .. nextId - 1
          /\ idConfirmed = Cardinality(B \ IdsHeld) /\ B \ IdsHeld \subseteq idStored
          /\ 0 .. Body - 1 \subseteq idStored /\ idStored \subseteq A!Ids
      BY DEF AppendInv, IdsCounted
    <2>2. /\ Body \in Nat /\ head \in Nat /\ nextId \in Nat /\ Body <= head
      BY AppendParams, RunnerFacts DEF AppendInv
    <2>3. head .. nextId - 1 \subseteq B /\ IsFiniteSet(B)
      BY <2>2, FS_Interval
    <2>4. (Body .. nextId' - 1) = B /\ head' .. nextId' - 1 = head .. nextId - 1
      BY <1>3
    <2>. HIDE DEF B
    <2>5. B \ IdsHeld' = (B \ IdsHeld) \cup {k} /\ k \notin B \ IdsHeld
      BY <1>1, <1>8, <2>1, <2>3
    <2>6. IsFiniteSet(B \ IdsHeld)
      BY <2>3, FS_Difference
    <2>7. Cardinality(B \ IdsHeld') = Cardinality(B \ IdsHeld) + 1
      BY <2>5, <2>6, FS_AddElement
    <2>8. B \ IdsHeld' \subseteq idStored' /\ idStored' \subseteq A!Ids /\ 0 .. Body - 1 \subseteq idStored'
      BY <1>1, <1>3, <1>61, <2>1, <2>5
    <2>9. IdsHeld' \subseteq head' .. nextId' - 1
      BY <1>8, <2>1, <2>4
    <2>10. idConfirmed' = Cardinality(B \ IdsHeld')
      BY <1>3, <2>1, <2>7
    <2>. QED
      BY <2>4, <2>8, <2>9, <2>10 DEF IdsCounted
  <1>10. IdBooks'
    BY <1>6, <1>7
  <1>11. /\ idTable' \in [AppendWorkers -> [A!NewIds -> AppendNodes]]
         /\ UNCHANGED <<idOwner, stopped, total, head, rpc, nextId>>
    BY <1>3 DEF AppendInv, WriterTypes
  <1>12. /\ t \in Seq(A!NewIds) /\ Len(t) <= AppendDepth /\ 0 \in 0 .. Len(t)
         /\ idClient' = [idClient EXCEPT ![c] = t] /\ idFlight' = [idFlight EXCEPT ![c] = t]
         /\ wpc' = [wpc EXCEPT ![c] = "top"]
    BY <1>1, <1>3 DEF K, f, f2
  <1>. QED
    BY <1>2, <1>31, <1>9, <1>10, <1>11, <1>12, WriterStep

(* An id that is routed elsewhere now changes queues.                      *)
LEMMA WriterReroutes ==
  ASSUME AppendInv, NEW c \in Writers, A!Reroute(c)
  PROVE  AppendInv'
  <1>. DEFINE e == WriterEndpoint[c]
              K == A!NewIds
              k == A!Popped(c)
              d == A!Route(c, k)
              s == Tail(idQueue[e])
              t == Append(idQueue[d], k)
              q == idQueue
              f == idFlight
              q2 == idQueue'
  <1>1. A!Pops(c) /\ d # e
    BY DEF A!Reroute, A!Ours
  <1>2. /\ k \in K /\ s \in Seq(K) /\ Ran(q[e]) = Ran(s) \cup {k}
        /\ Inj(s) /\ k \notin Ran(s) /\ A!PopFront(c) = [q EXCEPT ![e] = s]
        /\ wpc[c] = "fill"
    BY <1>1, WriterPops
  <1>3. d \in AppendNodes /\ e \in AppendNodes
    <2>1. idTable[WriterWorker[c]] \in [K -> AppendNodes] /\ e \in AppendNodes
      BY WriterFacts
    <2>. QED
      BY <1>2, <2>1 DEF A!Route
  <1>4. Books(q, AppendNodes, f, Writers, K)
    BY DEF AppendInv, IdBooks
  <1>5. /\ q2 = A!PushBack(A!PopFront(c), d, k)
        /\ UNCHANGED <<stopped, idTable, wpc, idClient, idBuffered, budget, idFlight, idConfirmed,
                       idOwner, idStored, total, head, rpc, nextId>>
    BY DEF A!Reroute, A!writer, A!cluster, A!runner
  <1>. HIDE DEF e, k, d, s, q, f, q2, K
  <1>6. /\ q[d] \in Seq(K) /\ Inj(q[d]) /\ Ran(q[e]) \cap Ran(q[d]) = {}
        /\ q \in [AppendNodes -> Seq(K)] /\ idQueue[d] = q[d]
    BY <1>1, <1>3, <1>4 DEF Books, q
  <1>7. t \in Seq(K) /\ Ran(t) = Ran(q[d]) \cup {k} /\ Inj(t)
    <2>1. k \notin Ran(q[d])
      BY <1>2, <1>6
    <2>. QED
      BY <1>2, <1>6, <2>1, AppendKeys
  <1>8. q2 = [[q EXCEPT ![e] = s] EXCEPT ![d] = t]
    <2>1. q2 = [[q EXCEPT ![e] = s] EXCEPT ![d] = Append([q EXCEPT ![e] = s][d], k)]
      BY <1>2, <1>5 DEF A!PushBack
    <2>2. [q EXCEPT ![e] = s][d] = q[d]
      BY <1>1, <1>3, <1>6
    <2>. QED
      BY <1>6, <2>1, <2>2
  <1>. HIDE DEF t
  <1>9. HandedOver(q, AppendNodes, f, Writers, K, e, d, s, t, q2)
    <2>1. Ran(s) \cap Ran(t) = {} /\ Ran(s) \cup Ran(t) = Ran(q[e]) \cup Ran(q[d])
      BY <1>2, <1>6, <1>7
    <2>. QED
      BY <1>1, <1>2, <1>3, <1>4, <1>7, <1>8, <2>1 DEF HandedOver
  <1>10. Books(q2, AppendNodes, f, Writers, K)
         /\ Held(q2, AppendNodes, f, Writers, K) = Held(q, AppendNodes, f, Writers, K)
    BY <1>9, Handover
  <1>11. IdBooks' /\ IdsHeld' = IdsHeld
    BY <1>5, <1>10 DEF IdBooks, IdsHeld, q2, f, q, K
  <1>12. idStored \subseteq idStored' /\ idStored' \subseteq A!Ids
         /\ idTable' \in [AppendWorkers -> [A!NewIds -> AppendNodes]]
         /\ UNCHANGED <<idOwner, stopped, total, head, rpc, nextId>>
    BY <1>5 DEF AppendInv, IdsCounted, WriterTypes
  <1>13. IdsCounted'
    BY <1>5, <1>11, <1>12, IdsKept
  <1>14. /\ idClient' = [idClient EXCEPT ![c] = idClient[c]]
         /\ idFlight' = [idFlight EXCEPT ![c] = idClient[c]]
         /\ idBuffered' = [idBuffered EXCEPT ![c] = idBuffered[c]]
         /\ budget' = [budget EXCEPT ![c] = budget[c]]
         /\ wpc' = [wpc EXCEPT ![c] = "fill"] /\ "fill" \in WriterPlaces
    BY <1>2, <1>5, SameWriter
  <1>15. /\ idClient[c] \in Seq(A!NewIds) /\ Len(idClient[c]) <= AppendDepth
         /\ idBuffered[c] \in 0 .. Len(idClient[c]) /\ budget[c] \in 0 .. AppendDepth
    BY WriterFacts
  <1>. QED
    BY <1>11, <1>12, <1>13, <1>14, <1>15, WriterStep

(* A lost connection's ids are queued where they route now.                *)
LEMMA WriterLost ==
  ASSUME AppendInv, NEW c \in Writers, A!RequeueDrained(c),
         idClient' = [idClient EXCEPT ![c] = <<>>], idBuffered' = [idBuffered EXCEPT ![c] = 0],
         idFlight' = [idFlight EXCEPT ![c] = <<>>], wpc' = [wpc EXCEPT ![c] = "down"],
         UNCHANGED <<stopped, idTable, idConfirmed, idOwner, budget, total, head, rpc, nextId>>,
         idStored \subseteq idStored', idStored' \subseteq A!Ids
  PROVE  AppendInv'
  <1>. DEFINE K == A!NewIds
              q == idQueue
              f == idFlight
              q2 == idQueue'
              f2 == idFlight'
              r == idTable[WriterWorker[c]]
  <1>1. r \in [K -> AppendNodes] /\ AppendDepth \in Nat /\ budget[c] \in 0 .. AppendDepth
    BY WriterFacts
  <1>2. Books(q, AppendNodes, f, Writers, K)
    BY DEF AppendInv, IdBooks
  <1>3. q2 = [e \in AppendNodes |-> q[e] \o Picked(f[c], {i \in DOMAIN f[c] : r[f[c][i]] = e})]
    BY SameOperators DEF A!RequeueDrained, A!RoutedTo, A!Route
  <1>4. Drains(q, AppendNodes, f, Writers, K, c, r, q2, f2)
    BY <1>1, <1>2, <1>3 DEF Drains
  <1>. HIDE DEF q, f, q2, f2, r, K
  <1>5. Books(q2, AppendNodes, f2, Writers, K)
        /\ Held(q2, AppendNodes, f2, Writers, K) = Held(q, AppendNodes, f, Writers, K)
    BY <1>4, Drained
  <1>6. IdBooks' /\ IdsHeld' = IdsHeld
    BY <1>5 DEF IdBooks, IdsHeld, q2, f2, f, q, K
  <1>7. /\ idTable' \in [AppendWorkers -> [A!NewIds -> AppendNodes]]
        /\ UNCHANGED <<idOwner, stopped, total, head, rpc, nextId>>
    BY DEF AppendInv, WriterTypes
  <1>8. IdsCounted'
    BY <1>6, <1>7, IdsKept
  <1>9. /\ <<>> \in Seq(A!NewIds) /\ Len(<<>>) <= AppendDepth /\ 0 \in 0 .. Len(<<>>)
        /\ "down" \in WriterPlaces /\ budget' = [budget EXCEPT ![c] = budget[c]]
    BY <1>1, SameWriter DEF WriterPlaces
  <1>. QED
    BY <1>1, <1>6, <1>7, <1>8, <1>9, WriterStep

LEMMA WriterLoses ==
  ASSUME AppendInv, NEW c \in Writers, A!Lose(c) \/ A!FoundClosed(c)
  PROVE  AppendInv'
  <1>0. idStored \subseteq A!Ids /\ A!AppendAssumption
    BY DEF AppendInv, IdsCounted
  <1>1. CASE A!Lose(c)
    <2>1. PICK n \in 0 .. Len(idClient[c]) :
            idStored' = idStored \cup {k \in ToSet(SubSeq(idClient[c], 1, n)) : idOwner[k] = WriterEndpoint[c]}
      BY <1>1, SameOperators DEF A!Lose
    <2>2. ToSet(SubSeq(idClient[c], 1, n)) \subseteq A!NewIds
      <3>. DEFINE x == idClient[c]
                  K == A!NewIds
      <3>1. x \in Seq(K) /\ n \in 0 .. Len(x)
        BY WriterFacts
      <3>. HIDE DEF x, K
      <3>2. SubSeq(x, 1, n) \in Seq(K)
        BY <3>1
      <3>3. Ran(SubSeq(x, 1, n)) \subseteq K
        BY <3>2, SeqFacts
      <3>. QED
        BY <3>3 DEF x, Ran, ToSet, K
    <2>3. A!NewIds \subseteq A!Ids
      <3>1. A!NewIds = Body .. End - 1 /\ A!Ids = 0 .. End - 1 /\ Body \in Nat /\ End \in Nat
        BY <1>0, AppendParams
      <3>. QED
        BY <3>1
    <2>4. idStored \subseteq idStored' /\ idStored' \subseteq A!Ids
      BY <1>0, <2>1, <2>2, <2>3
    <2>5. /\ A!RequeueDrained(c)
          /\ idClient' = [idClient EXCEPT ![c] = <<>>] /\ idBuffered' = [idBuffered EXCEPT ![c] = 0]
          /\ idFlight' = [idFlight EXCEPT ![c] = <<>>] /\ wpc' = [wpc EXCEPT ![c] = "down"]
          /\ UNCHANGED <<stopped, idTable, idConfirmed, idOwner, budget, total, head, rpc, nextId>>
      BY <1>1 DEF A!Lose, A!Go, A!cluster, A!runner
    <2>. QED
      BY <2>4, <2>5, WriterLost
  <1>2. CASE A!FoundClosed(c)
    <2>1. /\ A!RequeueDrained(c) /\ idClient[c] = <<>>
          /\ idFlight' = [idFlight EXCEPT ![c] = <<>>] /\ wpc' = [wpc EXCEPT ![c] = "down"]
          /\ UNCHANGED <<stopped, idTable, idClient, idBuffered, idConfirmed, idOwner, budget, idStored,
                         total, head, rpc, nextId>>
      BY <1>2 DEF A!FoundClosed, A!Go, A!cluster, A!runner
    <2>2. idBuffered[c] = 0
      <3>1. idBuffered[c] \in 0 .. Len(idClient[c])
        BY WriterFacts
      <3>. QED
        BY <2>1, <3>1
    <2>3. idClient' = [idClient EXCEPT ![c] = <<>>] /\ idBuffered' = [idBuffered EXCEPT ![c] = 0]
      BY <2>1, <2>2, SameWriter
    <2>4. idStored \subseteq idStored' /\ idStored' \subseteq A!Ids
      BY <1>0, <2>1
    <2>. QED
      BY <2>1, <2>3, <2>4, WriterLost
  <1>. QED
    BY <1>1, <1>2

(* A step of the runner leaves the writers alone.                          *)
LEMMA WritersRest ==
  ASSUME AppendInv, stopped' \in BOOLEAN, idOwner' \in [A!NewIds -> AppendCluster],
         UNCHANGED <<idTable, wpc, budget, idClient, idBuffered, idFlight>>,
         IdBooks', RunnerInv', IdsCounted'
  PROVE  AppendInv'
  BY DEF AppendInv, WriterTypes, WritersReceiving

LEMMA OpenBatchInv ==
  ASSUME AppendInv, A!OpenBatch
  PROVE  AppendInv'
  <1>1. /\ rpc = "idle" /\ nextId \in A!Ids /\ rpc' = "enqueue"
        /\ UNCHANGED <<stopped, idQueue, idConfirmed, total, head, nextId, idTable, wpc, budget,
                       idClient, idBuffered, idFlight, idOwner, idStored>>
    BY DEF A!OpenBatch, A!writer, A!cluster
  <1>2. A!AppendAssumption /\ RunnerInv
    BY DEF AppendInv
  <1>3. nextId < End /\ BatchSize \in Nat /\ head \in Nat
    BY <1>1, <1>2, AppendParams, RunnerFacts
  <1>4. RunnerInv'
    <2>1. /\ nextId' = head' /\ head' < End /\ head' <= nextId' /\ nextId' <= head' + BatchSize
          /\ nextId' \in Nat /\ rpc' = "enqueue" /\ total' = head' - Body
      BY <1>1, <1>2, <1>3 DEF RunnerInv
    <2>2. \E m \in 0 .. Batches : head' = Body + BatchSize * m
      BY <1>1, <1>2 DEF RunnerInv
    <2>. QED
      BY <2>1, <2>2 DEF RunnerInv
  <1>5. IdBooks' /\ IdsCounted' /\ stopped' \in BOOLEAN /\ idOwner' \in [A!NewIds -> AppendCluster]
    BY <1>1 DEF AppendInv, IdBooks, IdsCounted, IdsHeld, WriterTypes
  <1>. QED
    BY <1>1, <1>4, <1>5, WritersRest

(* The id that is pushed is new: nobody holds it.                          *)
LEMMA EnqueueInv ==
  ASSUME AppendInv, A!Enqueue
  PROVE  AppendInv'
  <1>. DEFINE K == A!NewIds
              k == nextId
              e == IdHome[k]
              q == idQueue
              f == idFlight
              q2 == idQueue'
  <1>1. /\ rpc = "enqueue" /\ k < head + BatchSize
        /\ q2 = [q EXCEPT ![e] = Append(@, k)] /\ nextId' = k + 1
        /\ UNCHANGED <<stopped, idConfirmed, total, head, rpc, idTable, wpc, budget, idClient,
                       idBuffered, idFlight, idOwner, idStored>>
    BY DEF A!Enqueue, A!PushBack, A!BatchEnd, A!writer, A!cluster
  <1>2. A!AppendAssumption /\ RunnerInv
    BY DEF AppendInv
  <1>3. /\ Body \in Nat /\ head \in Nat /\ k \in Nat /\ BatchSize \in Nat /\ End \in Nat
        /\ Body <= head /\ head <= k /\ head + BatchSize <= End
        /\ K = Body .. End - 1 /\ IdHome \in [K -> AppendNodes]
    BY <1>1, <1>2, AppendParams, RunnerFacts
  <1>4. k \in K
    BY <1>1, <1>3
  <1>5. e \in AppendNodes
    BY <1>3, <1>4
  <1>6. /\ IdsHeld \subseteq head .. k - 1
        /\ idConfirmed = Cardinality((Body .. k - 1) \ IdsHeld)
        /\ (Body .. k - 1) \ IdsHeld \subseteq idStored
        /\ 0 .. Body - 1 \subseteq idStored /\ idStored \subseteq A!Ids
    BY DEF AppendInv, IdsCounted
  <1>7. k \notin IdsHeld
    BY <1>3, <1>6
  <1>8. Joined(q, AppendNodes, f, Writers, K, e, k, q2)
    <2>1. Books(q, AppendNodes, f, Writers, K) /\ k \notin Held(q, AppendNodes, f, Writers, K)
      BY <1>7 DEF AppendInv, IdBooks, IdsHeld
    <2>2. q2 = [q EXCEPT ![e] = Append(q[e], k)]
      BY <1>1
    <2>. QED
      BY <1>4, <1>5, <2>1, <2>2 DEF Joined
  <1>9. /\ IdsHeld = Held(q, AppendNodes, f, Writers, K)
        /\ IdsHeld' = Held(q2, AppendNodes, f, Writers, K)
        /\ IdBooks' = Books(q2, AppendNodes, f, Writers, K)
    BY <1>1 DEF IdsHeld, IdBooks
  <1>. HIDE DEF K, e, q, f, q2
  <1>10. Books(q2, AppendNodes, f, Writers, K)
         /\ Held(q2, AppendNodes, f, Writers, K) = Held(q, AppendNodes, f, Writers, K) \cup {k}
    <2>. HIDE DEF k
    <2>. QED
      BY <1>8, Joins
  <1>11. IdBooks' /\ IdsHeld' = IdsHeld \cup {k}
    BY <1>9, <1>10
  <1>12. IdsCounted'
    <2>1. /\ IdsHeld' \subseteq head .. k
          /\ (Body .. k) \ IdsHeld' = (Body .. k - 1) \ IdsHeld
      BY <1>3, <1>6, <1>11
    <2>2. nextId' - 1 = k
      BY <1>1, <1>3
    <2>3. (Body .. nextId' - 1) \ IdsHeld' = (Body .. k - 1) \ IdsHeld
          /\ head' .. nextId' - 1 = head .. k
      BY <1>1, <2>1, <2>2
    <2>. QED
      BY <1>1, <1>6, <2>1, <2>3 DEF IdsCounted
  <1>13. RunnerInv'
    BY <1>1, <1>2, <1>3 DEF RunnerInv
  <1>14. stopped' \in BOOLEAN /\ idOwner' \in [A!NewIds -> AppendCluster]
    BY <1>1 DEF AppendInv, WriterTypes
  <1>. QED
    BY <1>1, <1>11, <1>12, <1>13, <1>14, WritersRest

LEMMA EnqueuedInv ==
  ASSUME AppendInv, A!Enqueued
  PROVE  AppendInv'
  <1>1. /\ rpc = "enqueue" /\ nextId = head + BatchSize
        /\ total' = total + BatchSize /\ rpc' = "open"
        /\ UNCHANGED <<stopped, idQueue, idConfirmed, head, nextId, idTable, wpc, budget,
                       idClient, idBuffered, idFlight, idOwner, idStored>>
    BY DEF A!Enqueued, A!BatchEnd, A!writer, A!cluster
  <1>2. A!AppendAssumption /\ RunnerInv
    BY DEF AppendInv
  <1>3. Body \in Nat /\ BatchSize \in Nat /\ head \in Nat /\ nextId \in Nat /\ total \in Nat
    BY <1>2, AppendParams, RunnerFacts
  <1>4. total = head - Body
    BY <1>1, <1>2 DEF RunnerInv
  <1>5. total' = nextId - Body
    BY <1>1, <1>3, <1>4
  <1>6. RunnerInv'
    BY <1>1, <1>2, <1>3, <1>5 DEF RunnerInv
  <1>7. IdBooks' /\ IdsCounted' /\ stopped' \in BOOLEAN /\ idOwner' \in [A!NewIds -> AppendCluster]
    BY <1>1 DEF AppendInv, IdBooks, IdsCounted, IdsHeld, WriterTypes
  <1>. QED
    BY <1>1, <1>6, <1>7, WritersRest

(* The batch is committed when everything that was enqueued is confirmed,  *)
(* and then nobody holds an id.                                            *)
LEMMA CommitInv ==
  ASSUME AppendInv, A!Commit
  PROVE  AppendInv'
  <1>1. /\ rpc = "open" /\ idConfirmed >= total /\ rpc' = "idle" /\ head' = nextId
        /\ UNCHANGED <<stopped, idQueue, idConfirmed, total, nextId, idTable, wpc, budget,
                       idClient, idBuffered, idFlight, idOwner, idStored>>
    BY DEF A!Commit, A!writer, A!cluster
  <1>2. A!AppendAssumption /\ RunnerInv
    BY DEF AppendInv
  <1>3. /\ Body \in Nat /\ BatchSize \in Nat /\ head \in Nat /\ nextId \in Nat /\ total \in Nat
        /\ Body <= head /\ head <= nextId /\ Batches \in Nat
    BY <1>2, AppendParams, RunnerFacts
  <1>4. /\ nextId = head + BatchSize /\ head < End /\ total = nextId - Body
        /\ \E m \in 0 .. Batches : head = Body + BatchSize * m
    BY <1>1, <1>2 DEF RunnerInv
  <1>5. \E m \in 0 .. Batches : nextId = Body + BatchSize * m
    <2>1. PICK m \in 0 .. Batches : head = Body + BatchSize * m
      BY <1>4
    <2>2. m \in Nat /\ BatchSize * m \in Nat /\ BatchSize * Batches \in Nat
      BY <1>3, <2>1
    <2>3. BatchSize * m < BatchSize * Batches
      BY <1>3, <1>4, <2>1, <2>2 DEF End
    <2>4. BatchSize * (m + 1) = BatchSize * m + BatchSize /\ m < Batches
      BY <1>3, <2>2, <2>3, NextMultiple
    <2>5. m + 1 \in 0 .. Batches
      BY <1>3, <2>2, <2>4
    <2>6. nextId = Body + BatchSize * (m + 1)
      BY <1>3, <1>4, <2>1, <2>2, <2>4
    <2>. QED
      BY <2>5, <2>6
  <1>6. RunnerInv'
    <2>1. total' = head' - Body /\ nextId' = head' /\ nextId' \in Nat /\ rpc' = "idle"
      BY <1>1, <1>3, <1>4
    <2>2. \E m \in 0 .. Batches : head' = Body + BatchSize * m
      BY <1>1, <1>5
    <2>. QED
      BY <2>1, <2>2 DEF RunnerInv
  <1>7. /\ IdsHeld \subseteq head .. nextId - 1
        /\ idConfirmed = Cardinality((Body .. nextId - 1) \ IdsHeld)
        /\ (Body .. nextId - 1) \ IdsHeld \subseteq idStored
        /\ 0 .. Body - 1 \subseteq idStored /\ idStored \subseteq A!Ids
    BY DEF AppendInv, IdsCounted
  <1>8. IdsHeld = {}
    <2>. DEFINE B == Body .. nextId - 1
    <2>1. IsFiniteSet(B) /\ Cardinality(B) = nextId - Body /\ IdsHeld \subseteq B
      <3>1. /\ Cardinality(B) = IF Body > nextId - 1 THEN 0 ELSE (nextId - 1) - Body + 1
            /\ IsFiniteSet(B)
        <4>. DEFINE last == nextId - 1
        <4>1. Body \in Int /\ last \in Int
          BY <1>3
        <4>. HIDE DEF last
        <4>2. /\ Cardinality(Body .. last) = IF Body > last THEN 0 ELSE last - Body + 1
              /\ IsFiniteSet(Body .. last)
          BY <4>1, FS_Interval
        <4>. QED
          BY <4>2 DEF last
      <3>2. head .. nextId - 1 \subseteq B
        BY <1>3
      <3>3. Cardinality(B) = nextId - Body
        BY <1>3, <3>1
      <3>. QED
        BY <1>7, <3>1, <3>2, <3>3
    <2>2. Cardinality(B \ IdsHeld) >= Cardinality(B)
      BY <1>1, <1>4, <1>7, <2>1
    <2>. HIDE DEF B
    <2>3. B \ IdsHeld \subseteq B
      OBVIOUS
    <2>4. /\ Cardinality(B \ IdsHeld) <= Cardinality(B)
          /\ Cardinality(B) = Cardinality(B \ IdsHeld) => B = B \ IdsHeld
          /\ Cardinality(B) \in Nat /\ IsFiniteSet(B \ IdsHeld)
      BY <2>1, <2>3, FS_Subset, FS_CardinalityType
    <2>5. Cardinality(B \ IdsHeld) \in Nat
      BY <2>4, FS_CardinalityType
    <2>6. B = B \ IdsHeld
      BY <2>2, <2>4, <2>5
    <2>. QED
      BY <2>1, <2>6
  <1>9. IdsHeld' = IdsHeld /\ IdBooks'
    BY <1>1 DEF AppendInv, IdBooks, IdsHeld
  <1>10. IdsCounted'
    BY <1>1, <1>7, <1>8, <1>9 DEF IdsCounted
  <1>11. stopped' \in BOOLEAN /\ idOwner' \in [A!NewIds -> AppendCluster]
    BY <1>1 DEF AppendInv, WriterTypes
  <1>. QED
    BY <1>1, <1>6, <1>9, <1>10, <1>11, WritersRest

LEMMA StopMoveInv ==
  ASSUME AppendInv, A!Stop \/ A!MoveSlot
  PROVE  AppendInv'
  <1>0. stopped \in BOOLEAN /\ idOwner \in [A!NewIds -> AppendCluster]
    BY DEF AppendInv, WriterTypes
  <1>1. /\ stopped' \in BOOLEAN /\ idOwner' \in [A!NewIds -> AppendCluster]
        /\ UNCHANGED <<idQueue, idConfirmed, total, head, rpc, nextId, idTable, wpc, budget,
                       idClient, idBuffered, idFlight, idStored>>
    <2>1. CASE A!Stop
      BY <1>0, <2>1 DEF A!Stop, A!runner, A!writer, A!cluster
    <2>2. CASE A!MoveSlot
      <3>1. PICK k \in A!NewIds, e \in AppendCluster : idOwner' = [idOwner EXCEPT ![k] = e]
        BY <2>2 DEF A!MoveSlot
      <3>2. UNCHANGED <<stopped, idQueue, idConfirmed, total, head, rpc, nextId, idTable, wpc, budget,
                        idClient, idBuffered, idFlight, idStored>>
        BY <2>2 DEF A!MoveSlot, A!runner, A!writer
      <3>. QED
        BY <1>0, <3>1, <3>2
    <2>. QED
      BY <2>1, <2>2
  <1>2. IdBooks' /\ IdsCounted' /\ RunnerInv'
    BY <1>1 DEF AppendInv, IdBooks, IdsCounted, IdsHeld, RunnerInv
  <1>. QED
    BY <1>1, <1>2, WritersRest

LEMMA AppendNextInv ==
  ASSUME AppendInv, [A!Next]_A!vars
  PROVE  AppendInv'
  <1>1. CASE UNCHANGED A!vars
    <2>1. UNCHANGED <<stopped, idQueue, idConfirmed, total, head, rpc, nextId, idTable, wpc, budget,
                      idClient, idBuffered, idFlight, idOwner, idStored>>
      BY <1>1 DEF A!vars, A!runner, A!writer, A!cluster
    <2>2. IdBooks' /\ IdsCounted' /\ RunnerInv'
          /\ stopped' \in BOOLEAN /\ idOwner' \in [A!NewIds -> AppendCluster]
      BY <2>1 DEF AppendInv, IdBooks, IdsCounted, IdsHeld, RunnerInv, WriterTypes
    <2>. QED
      BY <2>1, <2>2, WritersRest
  <1>2. CASE A!OpenBatch \/ A!Enqueue \/ A!Enqueued \/ A!Commit \/ A!Stop \/ A!MoveSlot
    BY <1>2, OpenBatchInv, EnqueueInv, EnqueuedInv, CommitInv, StopMoveInv
  <1>3. ASSUME NEW c \in Writers,
               A!Connect(c) \/ A!LoopTop(c) \/ A!Fills(c) \/ A!Flush(c)
                 \/ A!Receives(c) \/ A!Fails(c)
        PROVE  AppendInv'
    BY <1>3, WriterMovesInv, WriterFires, WriterReroutes, WriterSendFails, WriterReplies,
       WriterStores, WriterLoses
       DEF A!Fills, A!Receives, A!Fails
  <1>. QED
    BY <1>1, <1>2, <1>3 DEF A!Next

LEMMA AppendInitInv ==
  ASSUME A!AppendAssumption, A!Init
  PROVE  AppendInv
  <1>1. /\ stopped = FALSE /\ idQueue = [e \in AppendNodes |-> <<>>]
        /\ total = 0 /\ idConfirmed = 0 /\ head = Body /\ rpc = "idle" /\ nextId = Body
        /\ idTable = [w \in AppendWorkers |-> IdHome]
        /\ wpc = [c \in Writers |-> "down"] /\ budget = [c \in Writers |-> 0]
        /\ idClient = [c \in Writers |-> <<>>] /\ idBuffered = [c \in Writers |-> 0]
        /\ idFlight = [c \in Writers |-> <<>>]
        /\ idOwner = IdHome /\ idStored = 0 .. Body - 1
    BY DEF A!Init
  <1>2. /\ Body \in Nat /\ BatchSize \in Nat /\ Batches \in Nat /\ End \in Nat /\ Body <= End
        /\ AppendDepth \in Nat /\ IdHome \in [A!NewIds -> AppendNodes]
        /\ IdHome \in [A!NewIds -> AppendCluster]
        /\ A!Ids = 0 .. End - 1
    BY AppendParams
  <1>3. /\ \A e \in AppendNodes : idQueue[e] = <<>>
        /\ \A c \in Writers : idFlight[c] = <<>> /\ idClient[c] = <<>> /\ idBuffered[c] = 0
                              /\ wpc[c] = "down"
        /\ idQueue \in [AppendNodes -> Seq(A!NewIds)] /\ idFlight \in [Writers -> Seq(A!NewIds)]
    BY <1>1
  <1>4. IdBooks /\ IdsHeld = {}
    BY <1>3, NoKeys DEF IdBooks, Books, IdsHeld, Held
  <1>5. WriterTypes
    <2>1. /\ idClient \in [Writers -> Seq(A!NewIds)] /\ idFlight = idClient
          /\ idBuffered \in [Writers -> Nat] /\ budget \in [Writers -> 0 .. AppendDepth]
          /\ wpc \in [Writers -> WriterPlaces]
      BY <1>1, <1>2 DEF WriterPlaces
    <2>2. \A c \in Writers : Len(idClient[c]) <= AppendDepth /\ idBuffered[c] <= Len(idClient[c])
      BY <1>2, <1>3
    <2>. QED
      BY <1>1, <1>2, <2>1, <2>2 DEF WriterTypes
  <1>6. WritersReceiving
    BY <1>3 DEF WritersReceiving
  <1>7. RunnerInv
    <2>1. head = Body + BatchSize * 0 /\ 0 \in 0 .. Batches
      BY <1>1, <1>2
    <2>2. \E m \in 0 .. Batches : head = Body + BatchSize * m
      BY <2>1
    <2>3. total = head - Body /\ nextId \in Nat
      BY <1>1, <1>2
    <2>. QED
      BY <1>1, <2>2, <2>3 DEF RunnerInv
  <1>8. IdsCounted
    <2>1. Body .. nextId - 1 = {}
      BY <1>1, <1>2
    <2>2. Cardinality({}) = 0
      BY FS_EmptySet
    <2>3. idStored \subseteq A!Ids
      BY <1>1, <1>2
    <2>. QED
      BY <1>1, <1>4, <2>1, <2>2, <2>3 DEF IdsCounted
  <1>. QED
    BY <1>4, <1>5, <1>6, <1>7, <1>8 DEF AppendInv

(* A draw stays below the head, whatever generation it takes.              *)
LEMMA DrawsBelowHead ==
  ASSUME NEW h \in Nat, BatchSize \in Nat, Generations \in Nat
  PROVE  A!Samples(h) \subseteq 0 .. h - 1
  <1>1. \A n \in Nat : A!Below(h, n) \in 0 .. h
    BY DEF A!Below
  <1>2. ASSUME NEW a \in 0 .. Generations - 1
        PROVE  A!Generation(h, a) \subseteq 0 .. h - 1
    <2>1. a \in Nat /\ a + 1 \in Nat
      OBVIOUS
    <2>2. a * BatchSize \in Nat /\ (a + 1) * BatchSize \in Nat
      BY <2>1
    <2>3. A!Below(h, (a + 1) * BatchSize) \in 0 .. h /\ A!Below(h, a * BatchSize) \in 0 .. h
      BY <1>1, <2>2
    <2>4. A!Generation(h, a)
            = A!Below(h, (a + 1) * BatchSize) .. A!Below(h, a * BatchSize) - 1
      BY DEF A!Generation
    <2>. QED
      BY <2>3, <2>4
  <1>. DEFINE hot(a) == IF A!Generation(h, a) # {} THEN A!Generation(h, a) ELSE 0 .. h - 1
              cold   == 0 .. A!Below(h, Generations * BatchSize) - 1
              Hot    == UNION {hot(a) : a \in 0 .. Generations - 1}
              Cold   == IF cold # {} THEN cold ELSE 0 .. h - 1
  <1>3. A!Samples(h) = Hot \cup Cold
    BY DEF A!Samples
  <1>4. cold \subseteq 0 .. h - 1
    <2>1. Generations * BatchSize \in Nat
      OBVIOUS
    <2>2. A!Below(h, Generations * BatchSize) \in 0 .. h
      BY <1>1, <2>1
    <2>. QED
      BY <2>2
  <1>5. \A a \in 0 .. Generations - 1 : hot(a) \subseteq 0 .. h - 1
    BY <1>2, Zenon
  <1>. HIDE DEF hot, cold
  <1>6. Cold \subseteq 0 .. h - 1
    BY <1>4, Zenon
  <1>7. Hot \subseteq 0 .. h - 1
    BY <1>5, Zenon
  <1>. QED
    BY <1>3, <1>6, <1>7, Zenon

LEMMA AppendInvSound ==
  ASSUME AppendInv
  PROVE  A!AppendsSound
  <1>. DEFINE B == Body .. nextId - 1
  <1>0. A!AppendAssumption /\ WriterTypes /\ IdBooks /\ RunnerInv /\ IdsCounted
    BY DEF AppendInv
  <1>1. /\ Body \in Nat /\ BatchSize \in Nat /\ Batches \in Nat /\ Generations \in Nat
        /\ AppendDepth \in Nat /\ End \in Nat /\ A!NewIds = Body .. End - 1
    BY <1>0, AppendParams
  <1>2. /\ head \in Nat /\ nextId \in Nat /\ Body <= head /\ head <= End
        /\ head <= nextId /\ nextId <= head + BatchSize /\ nextId <= End /\ total \in Nat
    BY <1>0, RunnerFacts
  <1>3. /\ IdsHeld \subseteq head .. nextId - 1
        /\ idConfirmed = Cardinality(B \ IdsHeld) /\ B \ IdsHeld \subseteq idStored
        /\ 0 .. Body - 1 \subseteq idStored /\ idStored \subseteq A!Ids
    BY <1>0 DEF IdsCounted
  <1>4. idConfirmed \in Nat
    <2>1. Body \in Int /\ nextId - 1 \in Int
      BY <1>1, <1>2
    <2>2. IsFiniteSet(B)
      BY <2>1, FS_Interval
    <2>3. IsFiniteSet(B \ IdsHeld)
      BY <2>2, FS_Difference
    <2>. QED
      BY <1>3, <2>3, FS_CardinalityType
  <1>5. A!TypeOK
    <2>1. /\ head \in Body .. Body + BatchSize * Batches
          /\ nextId \in head .. A!BatchEnd
      BY <1>1, <1>2 DEF End, A!BatchEnd
    <2>2. idQueue \in [AppendNodes -> Seq(A!NewIds)]
      BY <1>0 DEF IdBooks, Books
    <2>3. \A c \in Writers :
            /\ idClient[c] \in Seq(A!NewIds) /\ Len(idClient[c]) <= AppendDepth
            /\ idBuffered[c] \in 0 .. Len(idClient[c]) /\ budget[c] \in 0 .. AppendDepth
      BY WriterFacts
    <2>4. /\ stopped \in BOOLEAN /\ idTable \in [AppendWorkers -> [A!NewIds -> AppendNodes]]
          /\ wpc \in [Writers -> {"down", "top", "fill", "flush", "recv", "gone"}]
      BY <1>0 DEF WriterTypes, WriterPlaces
    <2>5. rpc \in {"idle", "enqueue", "open"}
      BY <1>0 DEF RunnerInv
    <2>. QED
      BY <1>2, <1>3, <1>4, <2>1, <2>2, <2>3, <2>4, <2>5 DEF A!TypeOK
  <1>6. \A k \in A!NewIds : A!Cardinality(A!Kept(k)) <= 1 /\ (A!Kept(k) = {} <=> k \notin IdsHeld)
    <2>. DEFINE q == idQueue
                f == idFlight
                K == A!NewIds
    <2>1. Books(q, AppendNodes, f, Writers, K)
      BY <1>0 DEF IdBooks
    <2>2. \A k : A!Kept(k) = KeptIn("queue", q, k) \cup KeptIn("flight", f, k)
      BY SameOperators DEF A!Kept
    <2>3. IdsHeld = Held(q, AppendNodes, f, Writers, K)
      BY DEF IdsHeld
    <2>. HIDE DEF q, f, K
    <2>4. ASSUME NEW k \in K
          PROVE  LET P == KeptIn("queue", q, k) \cup KeptIn("flight", f, k)
                 IN  Cardinality(P) <= 1 /\ (P = {} <=> k \notin Held(q, AppendNodes, f, Writers, K))
      BY <2>1, BooksPlaces
    <2>5. ASSUME NEW k \in K
          PROVE  Cardinality(A!Kept(k)) <= 1 /\ (A!Kept(k) = {} <=> k \notin IdsHeld)
      BY <2>2, <2>3, <2>4
    <2>6. \A S : A!Cardinality(S) = Cardinality(S)
      BY SameOperators
    <2>. QED
      BY <2>5, <2>6 DEF K
  <1>7. B \subseteq A!NewIds
    BY <1>1, <1>2
  <1>8. {k \in B : A!Kept(k) = {}} = B \ IdsHeld
    BY <1>6, <1>7
  <1>9. \A k \in A!NewIds : A!Kept(k) # {} => k \in head .. A!BatchEnd - 1
    <2>1. head .. nextId - 1 \subseteq head .. A!BatchEnd - 1
      BY <1>1, <1>2 DEF A!BatchEnd
    <2>. QED
      BY <1>3, <1>6, <2>1
  <1>10. A!AppendsConserved
    <2>1. A!Cardinality(B \ IdsHeld) = Cardinality(B \ IdsHeld)
      BY SameOperators
    <2>2. \A c \in Writers : idFlight[c] = idClient[c]
      BY <1>0 DEF WriterTypes
    <2>. QED
      BY <1>3, <1>5, <1>6, <1>8, <1>9, <2>1, <2>2 DEF A!AppendsConserved
  <1>11. A!ReadsWritten
    <2>1. 0 .. head - 1 \subseteq idStored
      <3>1. ASSUME NEW i \in 0 .. head - 1 PROVE i \in idStored
        <4>1. CASE i < Body
          BY <1>1, <1>3, <4>1
        <4>2. CASE i >= Body
          <5>1. i \in B /\ i \notin head .. nextId - 1
            BY <1>1, <1>2, <4>2
          <5>. QED
            BY <1>3, <5>1
        <4>. QED
          BY <1>1, <4>1, <4>2
      <3>. QED
        BY <3>1
    <2>2. A!Samples(head) \subseteq 0 .. head - 1
      BY <1>1, <1>2, DrawsBelowHead
    <2>. QED
      BY <2>1, <2>2 DEF A!ReadsWritten
  <1>. QED
    BY <1>10, <1>11 DEF A!AppendsSound

(* The append stream loses no id and confirms none twice, whatever fails,  *)
(* and readers are shown a batch only when all of it is written: for any   *)
(* number of batches, writers, workers and endpoints, any batch size and   *)
(* pipeline depth, and any number of faults and moved slots.               *)
THEOREM AppendsCorrect == AppendsSpec => []AppendsSound
  <1>1. A!Init => AppendInv
    BY AppendParameters, AppendInitInv
  <1>2. AppendInv /\ [A!Next]_A!vars => AppendInv'
    BY AppendNextInv
  <1>3. AppendInv => AppendsSound
    BY AppendInvSound DEF AppendsSound
  <1>. QED
    BY <1>1, <1>2, <1>3, PTL DEF AppendsSpec, A!LiveSpec, A!Spec
=============================================================================
