------------------------- MODULE RoutedQueuesProofs -------------------------
(***************************************************************************)
(* The proofs that the waiter lists of RoutedQueues hold exactly the tasks *)
(* that wait (WaitersExact) and that no queued request is left without a   *)
(* connection on its way to it (NoStrandedRequest).                        *)
(***************************************************************************)
EXTENDS RoutedQueues, SequenceTheorems, FiniteSetTheorems, WellFoundedInduction, NaturalsInduction, TLAPS

-----------------------------------------------------------------------------
(* The inductive invariant                                                 *)

EntriesOf(n) == [conn : ConnsOf(n), live : BOOLEAN]
Lists(n)     == Seq(EntriesOf(n))

(* No connection has two live entries.                                     *)
OneLive(ws) ==
  \A i, j \in DOMAIN ws : ws[i].live /\ ws[j].live /\ ws[i].conn = ws[j].conn => i = j

(* ws may be the waiter list of node n.                                    *)
Good(ws, n) == ws \in Lists(n) /\ Len(ws) <= WaitersCap(n) /\ OneLive(ws)

(* Task c waits, and no push or close has called its waker.                *)
Waits(c) == cpc[c] \in {"park", "select"} /\ c \notin woken

Places == {"down", "top", "park", "select", "recv", "nap", "gone"}

QueueTypes ==
  /\ phase \in {"Warmup", "Stop"} /\ closed \in BOOLEAN
  /\ queued \in [Nodes -> Nat] /\ \A n \in Nodes : queued[n] <= Cap(n)

ConnTypes ==
  /\ cpc \in [Conns -> Places]
  /\ pend \in [Conns -> 0 .. Depth] /\ dead \in [Conns -> BOOLEAN]
  /\ woken \subseteq Conns /\ thread \in Conns \cup {Free}

Entries   == [conn : Conns, live : BOOLEAN]
ListsGood == waiters \in [Nodes -> Seq(Entries)] /\ \A n \in Nodes : Good(waiters[n], n)

(* A live entry is a task that waits unwoken: the part of WaitersExact     *)
(* that every step needs.                                                  *)
LiveWaits == \A c \in Conns : HasLive(waiters[NodeOf[c]], c) <=> Waits(c)

(* The task that has the thread is the one at the top of its loop; a woken *)
(* task waits; one that waits for a reply has a request in flight; a task  *)
(* is gone only after the stop.                                            *)
OneRuns      == \A c \in Conns : cpc[c] = "top" <=> thread = c
WokenWaits   == \A c \in woken : cpc[c] \in {"park", "select"}
InFlight     == \A c \in Conns : cpc[c] \in {"recv", "select"} => pend[c] > 0
GoneStopped  == \A c \in Conns : cpc[c] = "gone" => phase = "Stop"
ConnsInStep  == OneRuns /\ WokenWaits /\ InFlight /\ GoneStopped

IInv == QueueTypes /\ ConnTypes /\ ListsGood /\ LiveWaits /\ ConnsInStep /\ NoStrandedRequest

-----------------------------------------------------------------------------
(* What the operators on a waiter list do                                  *)

(* The entries of node n's lists, in the form the provers use.             *)
LEMMA ListFacts ==
  ASSUME NEW n, NEW ws \in Lists(n)
  PROVE  /\ Len(ws) \in Nat /\ DOMAIN ws = 1 .. Len(ws)
         /\ \A i \in 1 .. Len(ws) : /\ ws[i] \in EntriesOf(n)
                                    /\ ws[i].conn \in ConnsOf(n) /\ ws[i].conn \in Conns
  <1>1. Len(ws) \in Nat /\ DOMAIN ws = 1 .. Len(ws)
        /\ \A i \in 1 .. Len(ws) : ws[i] \in EntriesOf(n)
    BY DEF Lists
  <1>2. \A e \in EntriesOf(n) : e.conn \in ConnsOf(n)
    BY DEF EntriesOf
  <1>3. \A i \in 1 .. Len(ws) : ws[i].conn \in ConnsOf(n)
    BY <1>1, <1>2, Zenon
  <1>. QED
    BY <1>1, <1>3 DEF ConnsOf

(* The positions of the live entries are finitely many, and the rank of    *)
(* one counts the live entries up to it.                                   *)
LEMMA LiveAtFacts ==
  ASSUME NEW n, NEW ws \in Lists(n)
  PROVE  /\ LiveAt(ws) \subseteq 1 .. Len(ws) /\ IsFiniteSet(LiveAt(ws))
         /\ Cardinality(LiveAt(ws)) \in Nat /\ Cardinality(LiveAt(ws)) <= Len(ws)
  <1>1. LiveAt(ws) \subseteq 1 .. Len(ws) /\ Len(ws) \in Nat
    BY ListFacts DEF LiveAt
  <1>2. IsFiniteSet(1 .. Len(ws)) /\ Cardinality(1 .. Len(ws)) = Len(ws)
    <2>1. /\ IsFiniteSet(1 .. Len(ws))
          /\ Cardinality(1 .. Len(ws)) = IF 1 > Len(ws) THEN 0 ELSE Len(ws) - 1 + 1
      BY <1>1, FS_Interval
    <2>. QED
      BY <1>1, <2>1
  <1>3. IsFiniteSet(LiveAt(ws)) /\ Cardinality(LiveAt(ws)) <= Cardinality(1 .. Len(ws))
    BY <1>1, <1>2, FS_Subset, Zenon
  <1>. QED
    BY <1>1, <1>2, <1>3, FS_CardinalityType

LEMMA RankFacts ==
  ASSUME NEW n, NEW ws \in Lists(n)
  PROVE  /\ \A i \in LiveAt(ws) : Rank(ws, i) \in 1 .. Cardinality(LiveAt(ws))
         /\ \A i, j \in LiveAt(ws) : i < j => Rank(ws, i) < Rank(ws, j)
  <1>. DEFINE Upto(i) == {j \in LiveAt(ws) : j <= i}
  <1>1. LiveAt(ws) \subseteq Nat /\ IsFiniteSet(LiveAt(ws))
    BY LiveAtFacts, ListFacts
  <1>2. ASSUME NEW i \in LiveAt(ws)
        PROVE  /\ IsFiniteSet(Upto(i)) /\ Cardinality(Upto(i)) \in Nat
               /\ Cardinality(Upto(i)) <= Cardinality(LiveAt(ws))
               /\ Cardinality(Upto(i)) > 0
    <2>1. Upto(i) \subseteq LiveAt(ws) /\ i \in Upto(i)
      BY <1>1
    <2>2. IsFiniteSet(Upto(i)) /\ Cardinality(Upto(i)) \in Nat
          /\ Cardinality(Upto(i)) <= Cardinality(LiveAt(ws))
      BY <1>1, <2>1, FS_Subset, FS_CardinalityType
    <2>3. Cardinality(Upto(i)) # 0
      BY <2>1, <2>2, FS_EmptySet
    <2>. QED
      BY <2>2, <2>3
  <1>3. ASSUME NEW i \in LiveAt(ws), NEW j \in LiveAt(ws), i < j
        PROVE  Cardinality(Upto(i)) < Cardinality(Upto(j))
    <2>1. Upto(i) \subseteq Upto(j) /\ j \in Upto(j) /\ j \notin Upto(i)
      BY <1>1, <1>3
    <2>2. Upto(i) # Upto(j)
      BY <2>1
    <2>3. Cardinality(Upto(i)) <= Cardinality(Upto(j))
          /\ (Cardinality(Upto(i)) = Cardinality(Upto(j)) => Upto(i) = Upto(j))
      BY <1>2, <2>1, FS_Subset
    <2>4. Cardinality(Upto(i)) \in Nat /\ Cardinality(Upto(j)) \in Nat
      BY <1>2
    <2>. HIDE DEF Upto
    <2>. QED
      BY <2>2, <2>3, <2>4
  <1>4. \A i : Rank(ws, i) = Cardinality(Upto(i))
    BY DEF Rank
  <1>. HIDE DEF Upto
  <1>. QED
    BY <1>2, <1>3, <1>4, LiveAtFacts

(* Every rank is some live entry's: the ranks are an injection between     *)
(* finite sets of the same size.                                           *)
LEMMA RankOnto ==
  ASSUME NEW n, NEW ws \in Lists(n), NEW k \in 1 .. Cardinality(LiveAt(ws))
  PROVE  \E i \in LiveAt(ws) : Rank(ws, i) = k
  <1>. DEFINE S == LiveAt(ws)
              T == 1 .. Cardinality(S)
              f == [i \in S |-> Rank(ws, i)]
  <1>1. S \subseteq Nat /\ IsFiniteSet(S) /\ Cardinality(S) \in Nat
    BY LiveAtFacts, ListFacts
  <1>2. IsFiniteSet(T) /\ Cardinality(T) = Cardinality(S)
    BY <1>1, FS_Interval
  <1>3. f \in [S -> T] /\ \A a, b \in S : f[a] = f[b] => a = b
    <2>1. \A i, j \in S : i < j => Rank(ws, i) < Rank(ws, j)
      BY RankFacts
    <2>2. \A i \in S : Rank(ws, i) \in T
      BY RankFacts
    <2>3. ASSUME NEW a \in S, NEW b \in S, Rank(ws, a) = Rank(ws, b)
          PROVE  a = b
      <3>1. a \in Nat /\ b \in Nat /\ Rank(ws, a) \in Nat /\ Rank(ws, b) \in Nat
        BY <1>1, <2>2
      <3>. QED
        BY <3>1, <2>1, <2>3
    <2>. QED
      BY <2>2, <2>3
  <1>4. f \in Injection(S, T)
    BY <1>3 DEF Injection, IsInjective
  <1>5. f \in Surjection(S, T)
    BY <1>2, <1>4, FS_Injection
  <1>. QED
    BY <1>5 DEF Surjection

(* Compaction keeps the live entries, each once, and nothing else: it is   *)
(* read through a one-to-one map of the new positions to the live old ones. *)
LEMMA CompactedFacts ==
  ASSUME NEW n, NEW ws \in Lists(n)
  PROVE  \E g \in [1 .. Cardinality(LiveAt(ws)) -> LiveAt(ws)] :
           /\ \A k \in 1 .. Cardinality(LiveAt(ws)) : Compacted(ws)[k] = ws[g[k]]
           /\ \A k, l \in 1 .. Cardinality(LiveAt(ws)) : g[k] = g[l] => k = l
           /\ \A i \in LiveAt(ws) : \E k \in 1 .. Cardinality(LiveAt(ws)) : g[k] = i
  <1>. DEFINE T == 1 .. Cardinality(LiveAt(ws))
              At(k) == CHOOSE i \in LiveAt(ws) : Rank(ws, i) = k
              g == [k \in T |-> At(k)]
  <1>1. \A k \in T : At(k) \in LiveAt(ws) /\ Rank(ws, At(k)) = k
    BY RankOnto
  <1>2. \A i \in LiveAt(ws) : Rank(ws, i) \in T /\ At(Rank(ws, i)) = i
    <2>. TAKE i \in LiveAt(ws)
    <2>1. Rank(ws, i) \in T
      BY RankFacts
    <2>2. At(Rank(ws, i)) \in LiveAt(ws) /\ Rank(ws, At(Rank(ws, i))) = Rank(ws, i)
      BY <1>1, <2>1, Zenon
    <2>. DEFINE j == At(Rank(ws, i))
    <2>3. \A a, b \in LiveAt(ws) : a < b => Rank(ws, a) < Rank(ws, b)
      BY RankFacts
    <2>4. i \in Nat /\ j \in Nat /\ Rank(ws, i) \in Nat
      BY <2>1, <2>2, LiveAtFacts, ListFacts
    <2>5. j \in LiveAt(ws) /\ Rank(ws, j) = Rank(ws, i)
      BY <2>2
    <2>. HIDE DEF j
    <2>6. j = i
      BY <2>3, <2>4, <2>5
    <2>. QED
      BY <2>1, <2>6 DEF j
  <1>3. \A k \in T : Compacted(ws)[k] = ws[At(k)]
    BY DEF Compacted
  <1>. HIDE DEF T, At
  <1>4. g \in [T -> LiveAt(ws)] /\ \A k \in T : g[k] = At(k)
    BY <1>1
  <1>. HIDE DEF g
  <1>5. /\ \A k \in T : Compacted(ws)[k] = ws[g[k]]
        /\ \A k, l \in T : g[k] = g[l] => k = l
        /\ \A i \in LiveAt(ws) : \E k \in T : g[k] = i
    BY <1>1, <1>2, <1>3, <1>4, Zenon
  <1>. QED
    BY <1>4, <1>5 DEF T

(* So a list that may be node n's is one after a compaction, with the same *)
(* connections live, and it is no longer than n has connections.           *)
LEMMA CompactedGood ==
  ASSUME NEW n \in Nodes, NEW ws \in Lists(n), OneLive(ws)
  PROVE  /\ Compacted(ws) \in Lists(n) /\ OneLive(Compacted(ws))
         /\ Len(Compacted(ws)) = Cardinality(LiveAt(ws))
         /\ Cardinality(LiveAt(ws)) <= Cardinality(ConnsOf(n))
         /\ \A d : HasLive(Compacted(ws), d) <=> HasLive(ws, d)
  <1>. DEFINE N == Cardinality(LiveAt(ws))
              cs == Compacted(ws)
  <1>1. N \in Nat /\ LiveAt(ws) \subseteq 1 .. Len(ws) /\ IsFiniteSet(LiveAt(ws))
    BY LiveAtFacts
  <1>2. PICK g \in [1 .. N -> LiveAt(ws)] :
           /\ \A k \in 1 .. N : cs[k] = ws[g[k]]
           /\ \A k, l \in 1 .. N : g[k] = g[l] => k = l
           /\ \A i \in LiveAt(ws) : \E k \in 1 .. N : g[k] = i
    BY CompactedFacts
  <1>3. \A i \in LiveAt(ws) : ws[i].live /\ ws[i] \in EntriesOf(n) /\ i \in DOMAIN ws
    BY <1>1, ListFacts DEF LiveAt
  <1>4. \A i \in DOMAIN ws : ws[i].live => i \in LiveAt(ws)
    BY DEF LiveAt
  <1>5. DOMAIN cs = 1 .. N
    BY DEF Compacted
  <1>6. \A k \in 1 .. N : g[k] \in LiveAt(ws)
    BY <1>2
  <1>7. cs \in [1 .. N -> EntriesOf(n)]
    <2>1. cs = [k \in 1 .. N |-> cs[k]]
      BY DEF Compacted
    <2>2. \A k \in 1 .. N : cs[k] \in EntriesOf(n)
      BY <1>2, <1>3, <1>6
    <2>. HIDE DEF N, cs
    <2>. QED
      BY <2>1, <2>2
  <1>. HIDE DEF N, cs
  <1>8. cs \in Lists(n) /\ Len(cs) = N
    BY <1>1, <1>7 DEF Lists
  <1>9. OneLive(cs)
    <2>. SUFFICES ASSUME NEW k \in 1 .. N, NEW l \in 1 .. N, cs[k].conn = cs[l].conn
                  PROVE  k = l
      BY <1>5 DEF OneLive
    <2>1. ws[g[k]].conn = ws[g[l]].conn
      BY <1>2
    <2>2. g[k] = g[l]
      BY <1>3, <1>6, <2>1, Zenon DEF OneLive
    <2>. QED
      BY <1>2, <2>2
  <1>10. ASSUME NEW d PROVE HasLive(cs, d) <=> HasLive(ws, d)
    <2>1. ASSUME HasLive(cs, d) PROVE HasLive(ws, d)
      <3>1. PICK k \in 1 .. N : cs[k].conn = d
        BY <1>5, <2>1 DEF HasLive
      <3>2. g[k] \in LiveAt(ws) /\ cs[k] = ws[g[k]]
        BY <1>2
      <3>. QED
        BY <1>3, <3>1, <3>2, Zenon DEF HasLive
    <2>2. ASSUME HasLive(ws, d) PROVE HasLive(cs, d)
      <3>1. PICK i \in DOMAIN ws : ws[i].conn = d /\ ws[i].live
        BY <2>2 DEF HasLive
      <3>2. PICK k \in 1 .. N : g[k] = i
        BY <1>2, <1>4, <3>1
      <3>. QED
        BY <1>2, <1>5, <3>1, <3>2 DEF HasLive
    <2>. QED
      BY <2>1, <2>2
  <1>11. N <= Cardinality(ConnsOf(n))
    <2>. DEFINE f == [i \in LiveAt(ws) |-> ws[i].conn]
    <2>1. IsFiniteSet(ConnsOf(n))
      <3>1. ConnsOf(n) \subseteq Conns
        BY DEF ConnsOf
      <3>. QED
        BY <3>1, RoutedAssumption, FS_Subset
    <2>2. \A i \in LiveAt(ws) : ws[i].conn \in ConnsOf(n)
      BY <1>1, ListFacts
    <2>3. \A i, j \in LiveAt(ws) : ws[i].conn = ws[j].conn => i = j
      BY <1>3, Zenon DEF OneLive
    <2>4. f \in Injection(LiveAt(ws), ConnsOf(n))
      BY <2>2, <2>3 DEF Injection, IsInjective
    <2>. HIDE DEF f
    <2>5. Cardinality(LiveAt(ws)) <= Cardinality(ConnsOf(n))
      BY <2>1, <2>4, FS_Injection, Zenon
    <2>. QED
      BY <2>5 DEF N
  <1>. QED
    BY <1>8, <1>9, <1>10, <1>11 DEF N, cs

(* A wait that ends leaves its connection's entry dead and the others as   *)
(* they were.                                                              *)
LEMMA KillGood ==
  ASSUME NEW n \in Nodes, NEW ws, Good(ws, n), NEW c
  PROVE  /\ Good(Kill(ws, c), n)
         /\ \A d : HasLive(Kill(ws, c), d) <=> (HasLive(ws, d) /\ d # c)
  <1>. DEFINE ks == Kill(ws, c)
  <1>1. ws \in Lists(n) /\ Len(ws) <= WaitersCap(n) /\ OneLive(ws)
    BY DEF Good
  <1>2. /\ Len(ws) \in Nat /\ DOMAIN ws = 1 .. Len(ws)
        /\ \A i \in 1 .. Len(ws) : ws[i] \in EntriesOf(n)
    BY <1>1, ListFacts
  <1>3. ks = [i \in 1 .. Len(ws) |-> ks[i]]
    BY <1>2 DEF Kill
  <1>4. ASSUME NEW i \in 1 .. Len(ws)
        PROVE  /\ ks[i] \in EntriesOf(n) /\ ks[i].conn = ws[i].conn
               /\ ks[i].live <=> (ws[i].live /\ ws[i].conn # c)
    <2>1. ks[i] = [ws[i] EXCEPT !.live = ws[i].live /\ ws[i].conn # c]
      BY <1>2 DEF Kill
    <2>2. ws[i] \in [conn : ConnsOf(n), live : BOOLEAN]
      BY <1>2 DEF EntriesOf
    <2>. DEFINE b == ws[i].live /\ ws[i].conn # c
    <2>3. b \in BOOLEAN
      OBVIOUS
    <2>4. b <=> (ws[i].live /\ ws[i].conn # c)
      OBVIOUS
    <2>5. ks[i] = [ws[i] EXCEPT !.live = b]
      BY <2>1
    <2>. HIDE DEF b, ks
    <2>6. ks[i] \in [conn : ConnsOf(n), live : BOOLEAN] /\ ks[i].conn = ws[i].conn /\ ks[i].live = b
      BY <2>2, <2>3, <2>5
    <2>. QED
      BY <2>4, <2>6, Zenon DEF EntriesOf
  <1>. HIDE DEF ks
  <1>5. ks \in Lists(n) /\ Len(ks) = Len(ws) /\ DOMAIN ks = 1 .. Len(ws)
    BY <1>2, <1>3, <1>4 DEF Lists
  <1>6. OneLive(ks)
    BY <1>1, <1>2, <1>4, <1>5, Zenon DEF OneLive
  <1>7. \A d : HasLive(ks, d) <=> (HasLive(ws, d) /\ d # c)
    BY <1>2, <1>4, <1>5, Zenon DEF HasLive
  <1>8. Good(ks, n)
    BY <1>1, <1>5, <1>6 DEF Good
  <1>. QED
    BY <1>7, <1>8 DEF ks

(* An entry appended for a connection that has none that is live.          *)
LEMMA AppendGood ==
  ASSUME NEW n \in Nodes, NEW ws \in Lists(n), OneLive(ws), Len(ws) < WaitersCap(n),
         NEW c \in ConnsOf(n), ~HasLive(ws, c)
  PROVE  /\ Good(Append(ws, [conn |-> c, live |-> TRUE]), n)
         /\ \A d : HasLive(Append(ws, [conn |-> c, live |-> TRUE]), d) <=> (HasLive(ws, d) \/ d = c)
  <1>. DEFINE e == [conn |-> c, live |-> TRUE]
              as == Append(ws, e)
              k == Len(ws) + 1
  <1>1. Len(ws) \in Nat /\ DOMAIN ws = 1 .. Len(ws)
    BY ListFacts
  <1>2. e \in EntriesOf(n) /\ e.conn = c /\ e.live
    BY DEF EntriesOf
  <1>. HIDE DEF e
  <1>3. as \in Lists(n) /\ Len(as) = k /\ DOMAIN as = 1 .. k
    BY <1>1, <1>2 DEF Lists
  <1>4. as[k] = e /\ \A i \in 1 .. Len(ws) : as[i] = ws[i]
    BY <1>1, <1>2 DEF Lists
  <1>5. k \in Nat /\ k \in 1 .. k /\ 1 .. Len(ws) \subseteq 1 .. k
        /\ \A i \in 1 .. k : i = k \/ i \in 1 .. Len(ws)
    BY <1>1
  <1>6. k <= WaitersCap(n)
    <2>1. WaitersCap(n) \in Nat
      <3>1. ConnsOf(n) \subseteq Conns
        BY DEF ConnsOf
      <3>2. Cardinality(ConnsOf(n)) \in Nat
        BY <3>1, RoutedAssumption, FS_Subset, FS_CardinalityType
      <3>. QED
        BY <3>2, RoutedAssumption DEF WaitersCap
    <2>. QED
      BY <1>1, <2>1
  <1>. HIDE DEF as, k
  <1>7. OneLive(as)
    <2>. SUFFICES ASSUME NEW i \in 1 .. k, NEW j \in 1 .. k,
                         as[i].live, as[j].live, as[i].conn = as[j].conn
                  PROVE  i = j
      BY <1>3, Zenon DEF OneLive
    <2>1. CASE i = k /\ j = k
      BY <2>1
    <2>2. CASE i \in 1 .. Len(ws) /\ j \in 1 .. Len(ws)
      BY <1>1, <1>4, <2>2, Zenon DEF OneLive
    <2>3. ~(i \in 1 .. Len(ws) /\ j = k) /\ ~(j \in 1 .. Len(ws) /\ i = k)
      BY <1>1, <1>2, <1>4, Zenon DEF HasLive
    <2>. QED
      BY <1>5, <2>1, <2>2, <2>3
  <1>8. ASSUME NEW d PROVE HasLive(as, d) <=> (HasLive(ws, d) \/ d = c)
    <2>1. HasLive(as, d) => HasLive(ws, d) \/ d = c
      BY <1>1, <1>2, <1>3, <1>4, <1>5, Zenon DEF HasLive
    <2>2. HasLive(ws, d) => HasLive(as, d)
      BY <1>1, <1>3, <1>4, <1>5, Zenon DEF HasLive
    <2>3. HasLive(as, c)
      BY <1>2, <1>3, <1>4, <1>5, Zenon DEF HasLive
    <2>. QED
      BY <2>1, <2>2, <2>3
  <1>9. Good(as, n)
    BY <1>3, <1>6, <1>7 DEF Good
  <1>. QED
    BY <1>8, <1>9 DEF as, e

(* NodeWait::poll with nothing queued: the connection has a live entry in  *)
(* its node's list, the others are as before, and the list is within its   *)
(* cap, since a compacted list has at most one entry a connection.         *)
LEMMA RegisterGood ==
  ASSUME NEW c \in Conns, NEW ws, Good(ws, NodeOf[c])
  PROVE  /\ Good(Register(ws, c), NodeOf[c])
         /\ \A d : HasLive(Register(ws, c), d) <=> (HasLive(ws, d) \/ d = c)
  <1>. DEFINE n == NodeOf[c]
              e == [conn |-> c, live |-> TRUE]
  <1>1. n \in Nodes /\ c \in ConnsOf(n)
    BY RoutedAssumption DEF ConnsOf
  <1>2. ws \in Lists(n) /\ OneLive(ws) /\ Len(ws) \in Nat
    BY ListFacts DEF Good
  <1>3. Cardinality(ConnsOf(n)) \in Nat
    <2>1. ConnsOf(n) \subseteq Conns
      BY DEF ConnsOf
    <2>. QED
      BY <2>1, RoutedAssumption, FS_Subset, FS_CardinalityType
  <1>4. Register(ws, c) = IF HasLive(ws, c) THEN ws
                          ELSE Append(IF Len(ws) >= WaitersCap(n) THEN Compacted(ws) ELSE ws, e)
    BY DEF Register
  <1>5. Good(ws, n)
    OBVIOUS
  <1>. HIDE DEF n
  <1>6. CASE HasLive(ws, c)
    <2>1. Register(ws, c) = ws
      BY <1>4, <1>6
    <2>. QED
      BY <1>5, <1>6, <2>1 DEF n
  <1>7. CASE ~HasLive(ws, c) /\ Len(ws) < WaitersCap(n)
    <2>1. WaitersCap(n) \in Nat
      BY <1>3, RoutedAssumption DEF WaitersCap
    <2>2. ~(Len(ws) >= WaitersCap(n))
      BY <1>2, <1>7, <2>1
    <2>3. Register(ws, c) = Append(ws, e)
      BY <1>4, <1>7, <2>2
    <2>4. Good(Append(ws, e), n) /\ \A d : HasLive(Append(ws, e), d) <=> (HasLive(ws, d) \/ d = c)
      BY <1>1, <1>2, <1>7, AppendGood
    <2>. QED
      BY <2>3, <2>4 DEF n
  <1>8. CASE ~HasLive(ws, c) /\ ~(Len(ws) < WaitersCap(n))
    <2>. DEFINE cs == Compacted(ws)
    <2>1. /\ cs \in Lists(n) /\ OneLive(cs)
          /\ Len(cs) = Cardinality(LiveAt(ws)) /\ Cardinality(LiveAt(ws)) <= Cardinality(ConnsOf(n))
          /\ \A d : HasLive(cs, d) <=> HasLive(ws, d)
      BY <1>1, <1>2, CompactedGood
    <2>2. Cardinality(LiveAt(ws)) \in Nat
      BY <1>2, LiveAtFacts
    <2>3. Len(cs) < WaitersCap(n)
      BY <1>3, <2>1, <2>2, RoutedAssumption DEF WaitersCap
    <2>4. Len(ws) >= WaitersCap(n)
      BY <1>2, <1>3, <1>8, RoutedAssumption DEF WaitersCap
    <2>5. Register(ws, c) = Append(cs, e)
      BY <1>4, <1>8, <2>4
    <2>. HIDE DEF cs
    <2>6. Good(Append(cs, e), n) /\ \A d : HasLive(Append(cs, e), d) <=> (HasLive(cs, d) \/ d = c)
      BY <1>1, <1>8, <2>1, <2>3, AppendGood
    <2>. QED
      BY <2>1, <2>5, <2>6 DEF n
  <1>. QED
    BY <1>6, <1>7, <1>8

(* push pops up to the first live entry: a live connection that has then   *)
(* no live entry, and the other connections keep theirs.                   *)
SomeLive(ws)  == \E i \in DOMAIN ws : ws[i].live
AfterFirst(ws) == SubSeq(ws, FirstLive(ws) + 1, Len(ws))

LEMMA FirstLiveFacts ==
  ASSUME NEW n \in Nodes, NEW ws, Good(ws, n), SomeLive(ws)
  PROVE  /\ FirstLive(ws) \in 1 .. Len(ws) /\ ws[FirstLive(ws)].live
         /\ \A j \in 1 .. FirstLive(ws) - 1 : ~ws[j].live
  <1>. DEFINE L == LiveAt(ws)
  <1>1. Len(ws) \in Nat /\ DOMAIN ws = 1 .. Len(ws)
    BY ListFacts DEF Good
  <1>2. L \subseteq Nat /\ L # {} /\ L = {i \in 1 .. Len(ws) : ws[i].live}
    BY <1>1 DEF LiveAt, SomeLive
  <1>. HIDE DEF L
  <1>3. PICK i \in L : \A j \in L : ~(<<j, i>> \in OpToRel(<, Nat))
    BY <1>2, NatLessThanWellFounded, WFMin
  <1>4. \A j \in L : ~(j < i)
    BY <1>2, <1>3 DEF OpToRel
  <1>5. i \in DOMAIN ws /\ ws[i].live /\ \A j \in 1 .. i - 1 : ~ws[j].live
    <2>1. i \in 1 .. Len(ws) /\ ws[i].live
      BY <1>2
    <2>2. ASSUME NEW j \in 1 .. i - 1, ws[j].live PROVE FALSE
      <3>1. j \in 1 .. Len(ws) /\ j < i
        BY <1>1, <2>1
      <3>2. j \in L
        BY <1>2, <2>2, <3>1
      <3>. QED
        BY <1>4, <3>1, <3>2
    <2>. QED
      BY <1>1, <2>1, <2>2
  <1>. QED
    BY <1>1, <1>5 DEF FirstLive

LEMMA AfterFirstGood ==
  ASSUME NEW n \in Nodes, NEW ws, Good(ws, n), SomeLive(ws)
  PROVE  /\ Good(AfterFirst(ws), n) /\ ws[FirstLive(ws)].conn \in ConnsOf(n)
         /\ HasLive(ws, ws[FirstLive(ws)].conn)
         /\ \A d : HasLive(AfterFirst(ws), d) <=> (HasLive(ws, d) /\ d # ws[FirstLive(ws)].conn)
  <1>. DEFINE p == FirstLive(ws)
              rs == AfterFirst(ws)
  <1>1. /\ ws \in Lists(n) /\ Len(ws) <= WaitersCap(n) /\ OneLive(ws)
        /\ Len(ws) \in Nat /\ DOMAIN ws = 1 .. Len(ws)
    BY ListFacts DEF Good
  <1>2. p \in 1 .. Len(ws) /\ ws[p].live /\ \A j \in 1 .. p - 1 : ~ws[j].live
    BY FirstLiveFacts
  <1>3. ws[p].conn \in ConnsOf(n)
    BY <1>1, <1>2, ListFacts
  <1>4. rs = SubSeq(ws, p + 1, Len(ws))
    BY DEF AfterFirst
  <1>. HIDE DEF p, rs
  <1>5. /\ rs \in Lists(n) /\ Len(rs) = Len(ws) - p /\ DOMAIN rs = 1 .. Len(ws) - p
        /\ \A k \in 1 .. Len(ws) - p : rs[k] = ws[p + k]
    <2>. DEFINE m == p + 1
                l == Len(ws)
    <2>1. m \in Int /\ l \in Int /\ \A i \in m .. l : ws[i] \in EntriesOf(n)
      BY <1>1, <1>2, ListFacts
    <2>0. rs = SubSeq(ws, m, l) /\ m <= l + 1 /\ m = p + 1 /\ l = Len(ws)
      BY <1>1, <1>2, <1>4
    <2>. HIDE DEF m, l
    <2>2. /\ rs \in Seq(EntriesOf(n)) /\ Len(rs) = (IF m <= l THEN l - m + 1 ELSE 0)
          /\ \A k \in 1 .. l - m + 1 : rs[k] = ws[m + k - 1]
      BY <2>0, <2>1, SubSeqProperties
    <2>3. DOMAIN rs = 1 .. Len(rs)
      BY <2>2
    <2>4. Len(rs) = Len(ws) - p
      <3>1. p \in Int /\ l \in Int /\ m = p + 1 /\ m <= l + 1
        BY <1>1, <1>2, <2>0, <2>1
      <3>2. CASE m <= l
        BY <2>0, <2>2, <3>1, <3>2
      <3>3. CASE ~(m <= l)
        BY <2>0, <2>2, <3>1, <3>3
      <3>. QED
        BY <3>2, <3>3
    <2>5. ASSUME NEW k \in 1 .. Len(ws) - p PROVE rs[k] = ws[p + k]
      <3>1. k \in 1 .. l - m + 1 /\ m + k - 1 = p + k
        BY <1>1, <1>2, <2>0
      <3>. QED
        BY <2>2, <3>1
    <2>. QED
      BY <2>2, <2>3, <2>4, <2>5 DEF Lists
  <1>6. \A k \in 1 .. Len(ws) - p : p + k \in 1 .. Len(ws) /\ p + k # p
    BY <1>1, <1>2
  <1>7. \A i \in 1 .. Len(ws) : ws[i].live /\ i # p => \E k \in 1 .. Len(ws) - p : p + k = i
    <2>. SUFFICES ASSUME NEW i \in 1 .. Len(ws), ws[i].live, i # p
                  PROVE  \E k \in 1 .. Len(ws) - p : p + k = i
      OBVIOUS
    <2>1. ~(i \in 1 .. p - 1)
      BY <1>2
    <2>2. i - p \in 1 .. Len(ws) - p /\ p + (i - p) = i
      BY <1>1, <1>2, <2>1
    <2>. QED
      BY <2>2
  <1>8. OneLive(rs)
    <2>. SUFFICES ASSUME NEW i \in 1 .. Len(ws) - p, NEW j \in 1 .. Len(ws) - p,
                         rs[i].live, rs[j].live, rs[i].conn = rs[j].conn
                  PROVE  i = j
      BY <1>5, Zenon DEF OneLive
    <2>1. p + i = p + j
      BY <1>1, <1>5, <1>6, Zenon DEF OneLive
    <2>. QED
      BY <1>2, <2>1
  <1>9. ASSUME NEW d PROVE HasLive(rs, d) <=> (HasLive(ws, d) /\ d # ws[p].conn)
    <2>1. ASSUME HasLive(rs, d) PROVE HasLive(ws, d) /\ d # ws[p].conn
      <3>1. PICK k \in 1 .. Len(ws) - p : rs[k].conn = d /\ rs[k].live
        BY <1>5, <2>1, Zenon DEF HasLive
      <3>2. p + k \in DOMAIN ws /\ ws[p + k].conn = d /\ ws[p + k].live /\ p + k # p
        BY <1>1, <1>5, <1>6, <3>1
      <3>. QED
        BY <1>1, <1>2, <3>2, Zenon DEF HasLive, OneLive
    <2>2. ASSUME HasLive(ws, d), d # ws[p].conn PROVE HasLive(rs, d)
      <3>1. PICK i \in 1 .. Len(ws) : ws[i].conn = d /\ ws[i].live
        BY <1>1, <2>2, Zenon DEF HasLive
      <3>2. PICK k \in 1 .. Len(ws) - p : p + k = i
        BY <1>7, <2>2, <3>1
      <3>. QED
        BY <1>5, <3>1, <3>2 DEF HasLive
    <2>. QED
      BY <2>1, <2>2
  <1>10. HasLive(ws, ws[p].conn)
    BY <1>1, <1>2, Zenon DEF HasLive
  <1>11. Len(rs) <= WaitersCap(n)
    <2>1. WaitersCap(n) \in Int
      <3>1. ConnsOf(n) \subseteq Conns
        BY DEF ConnsOf
      <3>2. Cardinality(ConnsOf(n)) \in Nat
        BY <3>1, RoutedAssumption, FS_Subset, FS_CardinalityType
      <3>. QED
        BY <3>2, RoutedAssumption DEF WaitersCap
    <2>. QED
      BY <1>1, <1>2, <1>5, <2>1
  <1>. QED
    BY <1>3, <1>5, <1>8, <1>9, <1>10, <1>11 DEF Good, p, rs

LEMMA EmptyGood ==
  ASSUME NEW n \in Nodes
  PROVE  Good(<<>>, n) /\ \A d : ~HasLive(<<>>, d)
  <1>1. ConnsOf(n) \subseteq Conns
    BY DEF ConnsOf
  <1>2. Cardinality(ConnsOf(n)) \in Nat
    BY <1>1, RoutedAssumption, FS_Subset, FS_CardinalityType
  <1>3. 0 <= WaitersCap(n)
    BY <1>2, RoutedAssumption DEF WaitersCap
  <1>4. <<>> \in Lists(n) /\ Len(<<>>) = 0 /\ DOMAIN <<>> = {}
    BY DEF Lists
  <1>5. OneLive(<<>>) /\ \A d : ~HasLive(<<>>, d)
    BY <1>4, Zenon DEF OneLive, HasLive
  <1>. QED
    BY <1>3, <1>4, <1>5 DEF Good

-----------------------------------------------------------------------------
(* The invariant gives the properties                                      *)

(* One live entry or none, counted.                                        *)
LEMMA LiveCount ==
  ASSUME NEW n \in Nodes, NEW ws, Good(ws, n), NEW c
  PROVE  Cardinality({i \in DOMAIN ws : ws[i] = [conn |-> c, live |-> TRUE]})
           = IF HasLive(ws, c) THEN 1 ELSE 0
  <1>. DEFINE S == {i \in DOMAIN ws : ws[i] = [conn |-> c, live |-> TRUE]}
  <1>1. /\ OneLive(ws) /\ DOMAIN ws = 1 .. Len(ws)
        /\ \A i \in 1 .. Len(ws) : ws[i] \in [conn : ConnsOf(n), live : BOOLEAN]
    BY ListFacts DEF Good, EntriesOf
  <1>2. \A i \in DOMAIN ws : ws[i] = [conn |-> c, live |-> TRUE] => ws[i].conn = c /\ ws[i].live
    OBVIOUS
  <1>3. ASSUME NEW i \in DOMAIN ws, ws[i].conn = c, ws[i].live
        PROVE  ws[i] = [conn |-> c, live |-> TRUE]
    <2>1. ws[i] \in [conn : ConnsOf(n), live : BOOLEAN]
      BY <1>1
    <2>2. PICK a \in ConnsOf(n), b \in BOOLEAN : ws[i] = [conn |-> a, live |-> b]
      BY <2>1
    <2>3. a = c /\ b
      BY <1>3, <2>2
    <2>4. b = TRUE
      BY <2>3, Zenon
    <2>. QED
      BY <2>2, <2>3, <2>4, Zenon
  <1>4. CASE HasLive(ws, c)
    <2>1. PICK i \in DOMAIN ws : ws[i].conn = c /\ ws[i].live
      BY <1>4 DEF HasLive
    <2>2. S = {i}
      BY <1>1, <1>2, <1>3, <2>1, Zenon DEF OneLive
    <2>. QED
      BY <1>4, <2>2, FS_Singleton
  <1>5. CASE ~HasLive(ws, c)
    <2>1. S = {}
      BY <1>2, <1>5, Zenon DEF HasLive
    <2>. QED
      BY <1>5, <2>1, FS_EmptySet
  <1>. QED
    BY <1>4, <1>5

LEMMA InvariantMeans == IInv => WaitersExact
  <1>. SUFFICES ASSUME IInv PROVE WaitersExact
    OBVIOUS
  <1>1. TypeOK
    <2>1. \A n \in Nodes : waiters[n] \in Seq([conn : ConnsOf(n), live : BOOLEAN])
                           /\ Len(waiters[n]) <= WaitersCap(n)
      BY Zenon DEF IInv, ListsGood, Good, Lists, EntriesOf
    <2>2. \A n \in Nodes : queued[n] \in 0 .. Cap(n)
      <3>. TAKE n \in Nodes
      <3>1. ConnsOf(n) \subseteq Conns
        BY DEF ConnsOf
      <3>2. Cardinality(ConnsOf(n)) \in Nat
        BY <3>1, RoutedAssumption, FS_Subset, FS_CardinalityType
      <3>3. Cap(n) \in Int
        BY <3>2, RoutedAssumption DEF Cap
      <3>4. queued[n] \in Nat /\ queued[n] <= Cap(n)
        BY DEF IInv, QueueTypes
      <3>. QED
        BY <3>3, <3>4
    <2>. QED
      BY <2>1, <2>2, Zenon DEF IInv, QueueTypes, ConnTypes, TypeOK, Places
  <1>2. ASSUME NEW c \in Conns
        PROVE  Cardinality({i \in DOMAIN waiters[NodeOf[c]] :
                              waiters[NodeOf[c]][i] = [conn |-> c, live |-> TRUE]})
                 = IF cpc[c] \in {"park", "select"} /\ c \notin woken THEN 1 ELSE 0
    <2>1. NodeOf[c] \in Nodes
      BY RoutedAssumption
    <2>2. Good(waiters[NodeOf[c]], NodeOf[c])
      BY <2>1 DEF IInv, ListsGood
    <2>3. HasLive(waiters[NodeOf[c]], c) <=> Waits(c)
      BY DEF IInv, LiveWaits
    <2>. QED
      BY <2>1, <2>2, <2>3, LiveCount DEF Waits
  <1>. QED
    BY <1>1, <1>2 DEF WaitersExact

-----------------------------------------------------------------------------
(* A step of one connection task                                           *)

(* Node n's list becomes vs, and no other list changes.                    *)
ListBecomes(n, vs) == waiters' = [waiters EXCEPT ![n] = vs]

LEMMA ListStep ==
  ASSUME ListsGood, NEW n \in Nodes, NEW vs, Good(vs, n), ListBecomes(n, vs)
  PROVE  /\ ListsGood' /\ waiters'[n] = vs
         /\ \A m \in Nodes : m # n => waiters'[m] = waiters[m]
  <1>1. waiters \in [Nodes -> Seq(Entries)] /\ \A m \in Nodes : Good(waiters[m], m)
    BY DEF ListsGood
  <1>2. vs \in Seq(Entries)
    <2>1. vs \in Seq(EntriesOf(n)) /\ EntriesOf(n) \subseteq Entries
      BY DEF Good, Lists, EntriesOf, Entries, ConnsOf
    <2>. QED
      BY <2>1
  <1>3. /\ waiters' \in [Nodes -> Seq(Entries)] /\ waiters'[n] = vs
        /\ \A m \in Nodes : m # n => waiters'[m] = waiters[m]
    BY <1>1, <1>2 DEF ListBecomes
  <1>4. \A m \in Nodes : Good(waiters'[m], m)
    BY <1>1, <1>3
  <1>5. ListsGood' <=> (waiters' \in [Nodes -> Seq(Entries)] /\ \A m \in Nodes : Good(waiters'[m], m))
    BY DEF ListsGood, Good, OneLive, Lists, EntriesOf, WaitersCap, ConnsOf, Entries
  <1>. QED
    BY <1>3, <1>4, <1>5

(* The live entries of the connections other than c are as before.         *)
OthersListed(c) ==
  \A d \in Conns : d # c =>
    (HasLive(waiters'[NodeOf[d]], d) <=> HasLive(waiters[NodeOf[d]], d))

LEMMA LeaveStep ==
  ASSUME ListsGood, NEW c \in Conns, Leave(c)
  PROVE  ListsGood' /\ OthersListed(c) /\ ~HasLive(waiters'[NodeOf[c]], c)
  <1>. DEFINE n == NodeOf[c]
              vs == Kill(waiters[n], c)
  <1>1. n \in Nodes /\ Good(waiters[n], n) /\ waiters \in [Nodes -> Seq(Entries)]
    BY RoutedAssumption DEF ListsGood
  <1>2. Good(vs, n) /\ \A d : HasLive(vs, d) <=> (HasLive(waiters[n], d) /\ d # c)
    BY <1>1, KillGood
  <1>3. ListBecomes(n, vs)
    BY <1>1 DEF Leave, ListBecomes
  <1>4. \A d \in Conns : NodeOf[d] \in Nodes
    BY RoutedAssumption
  <1>. HIDE DEF n, vs
  <1>5. ListsGood' /\ waiters'[n] = vs /\ \A m \in Nodes : m # n => waiters'[m] = waiters[m]
    BY <1>1, <1>2, <1>3, ListStep
  <1>6. n = NodeOf[c]
    BY DEF n
  <1>. QED
    BY <1>2, <1>4, <1>5, <1>6, Zenon DEF OthersListed

LEMMA RegisterStep ==
  ASSUME ListsGood, NEW c \in Conns,
         waiters' = [waiters EXCEPT ![NodeOf[c]] = Register(@, c)]
  PROVE  ListsGood' /\ OthersListed(c) /\ HasLive(waiters'[NodeOf[c]], c)
  <1>. DEFINE n == NodeOf[c]
              vs == Register(waiters[n], c)
  <1>1. n \in Nodes /\ Good(waiters[n], n) /\ waiters \in [Nodes -> Seq(Entries)]
    BY RoutedAssumption DEF ListsGood
  <1>2. Good(vs, n) /\ \A d : HasLive(vs, d) <=> (HasLive(waiters[n], d) \/ d = c)
    BY <1>1, RegisterGood
  <1>3. ListBecomes(n, vs)
    BY <1>1 DEF ListBecomes
  <1>4. \A d \in Conns : NodeOf[d] \in Nodes
    BY RoutedAssumption
  <1>. HIDE DEF n, vs
  <1>5. ListsGood' /\ waiters'[n] = vs /\ \A m \in Nodes : m # n => waiters'[m] = waiters[m]
    BY <1>1, <1>2, <1>3, ListStep
  <1>6. n = NodeOf[c]
    BY DEF n
  <1>. QED
    BY <1>2, <1>4, <1>5, <1>6, Zenon DEF OthersListed

LEMMA ListsKept ==
  ASSUME ListsGood, NEW c \in Conns, UNCHANGED waiters
  PROVE  ListsGood' /\ OthersListed(c)
         /\ (HasLive(waiters'[NodeOf[c]], c) <=> HasLive(waiters[NodeOf[c]], c))
  <1>1. ListsGood'
    BY DEF ListsGood, Good, OneLive, Lists, EntriesOf, WaitersCap, ConnsOf, Entries
  <1>. QED
    BY <1>1, Zenon DEF OthersListed

(* Nothing of the other tasks changes.                                     *)
OthersStay(c) ==
  \A d \in Conns : d # c => /\ cpc'[d] = cpc[d] /\ pend'[d] = pend[d]
                            /\ d \in woken' <=> d \in woken
                            /\ thread' = d <=> thread = d

(* Task c itself is where the invariant wants it ...                       *)
OwnInStep(c) ==
  /\ cpc'[c] = "top" <=> thread' = c
  /\ c \in woken' => cpc'[c] \in {"park", "select"}
  /\ cpc'[c] \in {"recv", "select"} => pend'[c] > 0
  /\ cpc'[c] = "gone" => phase' = "Stop"
  /\ HasLive(waiters'[NodeOf[c]], c) <=> (cpc'[c] \in {"park", "select"} /\ c \notin woken')

(* ... and it leaves no request behind.                                    *)
LeavesNone(c) ==
  /\ \A n \in Nodes : queued'[n] > 0 => queued[n] > 0
  /\ \/ phase' = "Stop" \/ ~(queued'[NodeOf[c]] > 0)
     \/ c \in woken' \/ cpc'[c] \notin {"park", "select", "gone"}

LEMMA ConnStep ==
  ASSUME IInv, NEW c \in Conns, QueueTypes', ConnTypes', ListsGood', UNCHANGED phase,
         OthersListed(c), OthersStay(c), OwnInStep(c), LeavesNone(c)
  PROVE  IInv'
  <1>1. LiveWaits'
    <2>1. \A d \in Conns : HasLive(waiters[NodeOf[d]], d) <=> (cpc[d] \in {"park", "select"} /\ d \notin woken)
      BY DEF IInv, LiveWaits, Waits
    <2>2. ASSUME NEW d \in Conns
          PROVE  HasLive(waiters'[NodeOf[d]], d) <=> (cpc'[d] \in {"park", "select"} /\ d \notin woken')
      <3>1. CASE d = c
        BY <3>1, Zenon DEF OwnInStep
      <3>2. CASE d # c
        BY <2>1, <3>2, Zenon DEF OthersListed, OthersStay
      <3>. QED
        BY <3>1, <3>2
    <2>. QED
      BY <2>2 DEF LiveWaits, Waits, HasLive
  <1>2. OneRuns'
    <2>1. ASSUME NEW d \in Conns PROVE cpc'[d] = "top" <=> thread' = d
      <3>1. CASE d = c
        BY <3>1, Zenon DEF OwnInStep
      <3>2. CASE d # c
        BY <3>2, Zenon DEF OthersStay, IInv, ConnsInStep, OneRuns
      <3>. QED
        BY <3>1, <3>2
    <2>. QED
      BY <2>1 DEF OneRuns
  <1>3. WokenWaits'
    <2>1. ASSUME NEW d \in Conns, d \in woken' PROVE cpc'[d] \in {"park", "select"}
      <3>1. CASE d = c
        BY <2>1, <3>1, Zenon DEF OwnInStep
      <3>2. CASE d # c
        BY <2>1, <3>2, Zenon DEF OthersStay, IInv, ConnsInStep, WokenWaits
      <3>. QED
        BY <3>1, <3>2
    <2>. QED
      BY <2>1 DEF WokenWaits, ConnTypes
  <1>4. InFlight'
    <2>1. ASSUME NEW d \in Conns, cpc'[d] \in {"recv", "select"} PROVE pend'[d] > 0
      <3>1. CASE d = c
        BY <2>1, <3>1, Zenon DEF OwnInStep
      <3>2. CASE d # c
        BY <2>1, <3>2, Zenon DEF OthersStay, IInv, ConnsInStep, InFlight
      <3>. QED
        BY <3>1, <3>2
    <2>. QED
      BY <2>1 DEF InFlight
  <1>5. GoneStopped'
    <2>1. ASSUME NEW d \in Conns, cpc'[d] = "gone" PROVE phase' = "Stop"
      <3>1. CASE d = c
        BY <2>1, <3>1, Zenon DEF OwnInStep
      <3>2. CASE d # c
        BY <2>1, <3>2, Zenon DEF OthersStay, IInv, ConnsInStep, GoneStopped
      <3>. QED
        BY <3>1, <3>2
    <2>. QED
      BY <2>1 DEF GoneStopped
  <1>6. NoStrandedRequest'
    <2>. SUFFICES ASSUME NEW n \in Nodes, queued'[n] > 0, phase' = "Warmup"
                  PROVE  \E d \in ConnsOf(n) : Attends(d)'
      BY DEF NoStrandedRequest, ConnsOf
    <2>1. queued[n] > 0 /\ phase = "Warmup"
      BY Zenon DEF LeavesNone
    <2>2. PICK d \in ConnsOf(n) : Attends(d)
      BY <2>1, Zenon DEF IInv, NoStrandedRequest
    <2>3. d \in Conns /\ NodeOf[d] = n
      BY DEF ConnsOf
    <2>4. CASE d = c
      <3>1. c \in woken' \/ cpc'[c] \notin {"park", "select", "gone"}
        BY <2>3, <2>4 DEF LeavesNone
      <3>. QED
        BY <2>4, <3>1 DEF Attends
    <2>5. CASE d # c
      BY <2>2, <2>3, <2>5, Zenon DEF Attends, OthersStay
    <2>. QED
      BY <2>4, <2>5
  <1>. QED
    BY <1>1, <1>2, <1>3, <1>4, <1>5, <1>6 DEF IInv, ConnsInStep

(* The pipeline of no task but c changes; the queues only shrink.          *)
PendMoves(c) == pend' \in [Conns -> 0 .. Depth] /\ \A d \in Conns : d # c => pend'[d] = pend[d]
QueuesShrink ==
  QueueTypes' /\ UNCHANGED phase /\ \A n \in Nodes : queued'[n] > 0 => queued[n] > 0

LEMMA QueuesKept ==
  ASSUME IInv, UNCHANGED <<phase, queued, closed>>
  PROVE  QueuesShrink
  BY DEF IInv, QueueTypes, QueuesShrink, Cap, ConnsOf

LEMMA PendKept ==
  ASSUME IInv, NEW c \in Conns, UNCHANGED pend
  PROVE  PendMoves(c)
  BY DEF IInv, ConnTypes, PendMoves

LEMMA GoFacts ==
  ASSUME IInv, NEW c \in Conns, NEW p \in Places, Go(c, p)
  PROVE  /\ cpc' \in [Conns -> Places] /\ cpc'[c] = p
         /\ \A d \in Conns : d # c => cpc'[d] = cpc[d]
  BY DEF IInv, ConnTypes, Go

LEMMA ThreadFacts ==
  ASSUME NEW c \in Conns, thread \in {c, Free}, thread' \in {c, Free}
  PROVE  /\ thread' \in Conns \cup {Free} /\ c # Free
         /\ \A d \in Conns : d # c => (thread' = d <=> thread = d)
  BY FreeAssumption, Zenon

(* A task that was polled is back at the top of its loop, in no list.      *)
LEMMA ResumeStep ==
  ASSUME IInv, NEW c \in Conns, thread = Free, Resumes(c), QueuesShrink, PendMoves(c),
         dead' \in [Conns -> BOOLEAN],
         ListsGood', OthersListed(c), ~HasLive(waiters'[NodeOf[c]], c)
  PROVE  IInv'
  <1>1. thread' = c /\ woken' = woken \ {c} /\ Go(c, "top") /\ woken \subseteq Conns
    BY DEF Resumes, IInv, ConnTypes
  <1>2. "top" \in Places /\ "top" \notin {"park", "select", "gone", "recv"}
    BY DEF Places
  <1>3. /\ cpc' \in [Conns -> Places] /\ cpc'[c] = "top"
        /\ \A d \in Conns : d # c => cpc'[d] = cpc[d]
    BY <1>1, <1>2, GoFacts
  <1>4. thread' \in Conns \cup {Free} /\ \A d \in Conns : d # c => (thread' = d <=> thread = d)
    BY <1>1, ThreadFacts
  <1>5. c \notin woken' /\ woken' \subseteq Conns /\ \A d \in Conns : d # c => (d \in woken' <=> d \in woken)
    BY <1>1
  <1>6. ConnTypes'
    BY <1>3, <1>4, <1>5 DEF ConnTypes, PendMoves, Places
  <1>7. OthersStay(c)
    BY <1>3, <1>4, <1>5, Zenon DEF OthersStay, PendMoves
  <1>8. OwnInStep(c)
    BY <1>1, <1>3, <1>5 DEF OwnInStep
  <1>9. LeavesNone(c)
    BY <1>3 DEF LeavesNone, QueuesShrink
  <1>. QED
    BY <1>6, <1>7, <1>8, <1>9, ConnStep DEF QueuesShrink

(* A running task comes to an await at p, in its node's list if it waits   *)
(* for the queue there, which is then empty.                               *)
MayAwait(c, p) ==
  /\ p \in Places \ {"top"}
  /\ HasLive(waiters'[NodeOf[c]], c) <=> p \in {"park", "select"}
  /\ p \in {"recv", "select"} => pend'[c] > 0
  /\ p = "gone" => phase = "Stop"
  /\ p \in {"park", "select"} => ~(queued'[NodeOf[c]] > 0)

LEMMA AwaitStep ==
  ASSUME IInv, NEW c \in Conns, NEW p, thread = c, Awaits(c, p), MayAwait(c, p), QueuesShrink,
         PendMoves(c), dead' \in [Conns -> BOOLEAN], ListsGood', OthersListed(c)
  PROVE  IInv'
  <1>1. thread' = Free /\ woken' = woken /\ Go(c, p) /\ woken \subseteq Conns
    BY DEF Awaits, IInv, ConnTypes
  <1>2. p \in Places /\ p # "top"
    BY DEF MayAwait
  <1>3. /\ cpc' \in [Conns -> Places] /\ cpc'[c] = p
        /\ \A d \in Conns : d # c => cpc'[d] = cpc[d]
    BY <1>1, <1>2, GoFacts
  <1>4. /\ thread' \in Conns \cup {Free} /\ c # Free
        /\ \A d \in Conns : d # c => (thread' = d <=> thread = d)
    BY <1>1, ThreadFacts
  <1>5. c \notin woken
    <2>1. cpc[c] = "top"
      BY DEF IInv, ConnsInStep, OneRuns
    <2>. QED
      BY <2>1 DEF IInv, ConnsInStep, WokenWaits
  <1>6. ConnTypes'
    BY <1>1, <1>3, <1>4 DEF ConnTypes, PendMoves, Places
  <1>7. OthersStay(c)
    BY <1>1, <1>3, <1>4, Zenon DEF OthersStay, PendMoves
  <1>8. OwnInStep(c)
    BY <1>1, <1>2, <1>3, <1>4, <1>5 DEF OwnInStep, MayAwait, QueuesShrink
  <1>9. LeavesNone(c)
    BY <1>3 DEF LeavesNone, QueuesShrink, MayAwait
  <1>. QED
    BY <1>6, <1>7, <1>8, <1>9, ConnStep DEF QueuesShrink

(* A running task goes round its loop again.                               *)
LEMMA AgainStep ==
  ASSUME IInv, NEW c \in Conns, thread = c, UNCHANGED <<cpc, thread, woken, waiters, dead>>,
         QueuesShrink, PendMoves(c)
  PROVE  IInv'
  <1>1. cpc' = cpc /\ thread' = thread /\ woken' = woken /\ waiters' = waiters /\ dead' = dead
    OBVIOUS
  <1>2. cpc[c] = "top"
    BY DEF IInv, ConnsInStep, OneRuns
  <1>3. ListsGood' /\ OthersListed(c)
        /\ (HasLive(waiters'[NodeOf[c]], c) <=> HasLive(waiters[NodeOf[c]], c))
    BY <1>1, ListsKept DEF IInv
  <1>4. ~HasLive(waiters[NodeOf[c]], c) /\ c \notin woken
    BY <1>2 DEF IInv, LiveWaits, Waits, ConnsInStep, WokenWaits
  <1>5. ConnTypes'
    BY <1>1 DEF IInv, ConnTypes, PendMoves, Places
  <1>6. OthersStay(c)
    BY <1>1, Zenon DEF OthersStay, PendMoves
  <1>7. OwnInStep(c)
    BY <1>1, <1>2, <1>3, <1>4 DEF OwnInStep
  <1>8. LeavesNone(c)
    BY <1>1, <1>2 DEF LeavesNone, QueuesShrink
  <1>. QED
    BY <1>3, <1>5, <1>6, <1>7, <1>8, ConnStep DEF QueuesShrink

-----------------------------------------------------------------------------
(* The actions of a connection task                                        *)

(* A task that is not waiting is in no list and was not woken.             *)
LEMMA NotListed ==
  ASSUME IInv, NEW c \in Conns, cpc[c] \notin {"park", "select"}
  PROVE  ~HasLive(waiters[NodeOf[c]], c) /\ c \notin woken
  BY DEF IInv, LiveWaits, Waits, ConnsInStep, WokenWaits

LEMMA ConnectKeeps ==
  ASSUME IInv, NEW c \in Conns, Connect(c)
  PROVE  IInv'
  <1>1. /\ thread = Free /\ cpc[c] = "down" /\ phase' = phase /\ queued' = queued /\ waiters' = waiters
        /\ closed' = closed /\ pend' = pend /\ woken' = woken /\ woken \subseteq Conns
    BY DEF Connect, queues, IInv, ConnTypes
  <1>2. dead' \in [Conns -> BOOLEAN]
    BY Zenon DEF Connect, IInv, ConnTypes
  <1>3. ListsGood' /\ OthersListed(c) /\ ~HasLive(waiters'[NodeOf[c]], c) /\ c \notin woken'
    BY <1>1, ListsKept, NotListed DEF IInv
  <1>4. QueuesShrink /\ PendMoves(c)
    BY <1>1, QueuesKept, PendKept
  <1>5. CASE phase = "Warmup" /\ thread' = c /\ Go(c, "top")
    <2>1. Resumes(c)
      <3>1. woken' = woken \ {c}
        BY <1>1, <1>3
      <3>. QED
        BY <1>5, <3>1 DEF Resumes
    <2>. QED
      BY <1>1, <1>2, <1>3, <1>4, <2>1, ResumeStep
  <1>6. CASE phase = "Stop" /\ thread' = Free /\ Go(c, "gone")
    <2>1. "gone" \in Places
      BY DEF Places
    <2>2. /\ cpc' \in [Conns -> Places] /\ cpc'[c] = "gone"
          /\ \A d \in Conns : d # c => cpc'[d] = cpc[d]
      BY <1>6, <2>1, GoFacts
    <2>3. /\ thread' \in Conns \cup {Free} /\ c # Free
          /\ \A d \in Conns : d # c => (thread' = d <=> thread = d)
      BY <1>1, <1>6, ThreadFacts
    <2>4. ConnTypes'
      BY <1>1, <1>2, <1>4, <2>2, <2>3 DEF ConnTypes, PendMoves, Places
    <2>5. OthersStay(c)
      BY <1>1, <1>4, <2>2, <2>3, Zenon DEF OthersStay, PendMoves
    <2>6. OwnInStep(c)
      BY <1>1, <1>3, <1>6, <2>2, <2>3 DEF OwnInStep
    <2>7. LeavesNone(c)
      BY <1>1, <1>4, <1>6 DEF LeavesNone, QueuesShrink
    <2>. QED
      BY <1>1, <1>3, <1>4, <2>4, <2>5, <2>6, <2>7, ConnStep DEF QueuesShrink
  <1>. QED
    BY <1>5, <1>6 DEF Connect

(* The place of the running task.                                          *)
LEMMA AtTop ==
  ASSUME IInv, NEW c \in Conns, thread = c
  PROVE  cpc[c] = "top" /\ ~HasLive(waiters[NodeOf[c]], c) /\ c \notin woken
  <1>1. cpc[c] = "top"
    BY DEF IInv, ConnsInStep, OneRuns
  <1>. QED
    BY <1>1, NotListed

LEMMA ExitsKeeps ==
  ASSUME IInv, NEW c \in Conns, Exits(c)
  PROVE  IInv'
  <1>1. /\ thread = c /\ phase = "Stop" /\ phase' = phase /\ queued' = queued /\ waiters' = waiters
        /\ closed' = closed /\ pend' = pend /\ woken' = woken /\ dead' = dead /\ Awaits(c, "gone")
    BY DEF Exits, queues, Awaits
  <1>2. dead' \in [Conns -> BOOLEAN]
    BY <1>1 DEF IInv, ConnTypes
  <1>3. ListsGood' /\ OthersListed(c) /\ ~HasLive(waiters'[NodeOf[c]], c)
    BY <1>1, ListsKept, AtTop DEF IInv
  <1>4. QueuesShrink /\ PendMoves(c)
    BY <1>1, QueuesKept, PendKept
  <1>5. MayAwait(c, "gone")
    BY <1>1, <1>3 DEF MayAwait, Places
  <1>. QED
    BY <1>1, <1>2, <1>3, <1>4, <1>5, AwaitStep

LEMMA FindsClosedKeeps ==
  ASSUME IInv, NEW c \in Conns, FindsClosed(c)
  PROVE  IInv'
  <1>1. /\ thread = c /\ phase' = phase /\ queued' = queued /\ waiters' = waiters
        /\ closed' = closed /\ pend' = pend /\ dead' = dead /\ Awaits(c, "down")
    BY DEF FindsClosed, queues
  <1>2. dead' \in [Conns -> BOOLEAN]
    BY <1>1 DEF IInv, ConnTypes
  <1>3. ListsGood' /\ OthersListed(c) /\ ~HasLive(waiters'[NodeOf[c]], c)
    BY <1>1, ListsKept, AtTop DEF IInv
  <1>4. QueuesShrink /\ PendMoves(c)
    BY <1>1, QueuesKept, PendKept
  <1>5. MayAwait(c, "down")
    BY <1>1, <1>3 DEF MayAwait, Places
  <1>. QED
    BY <1>1, <1>2, <1>3, <1>4, <1>5, AwaitStep

(* What the fill loop takes fits the pipeline and is queued.               *)
LEMMA TakesFacts ==
  ASSUME IInv, NEW c \in Conns
  PROVE  /\ Takes(c) \in Nat /\ Takes(c) <= queued[NodeOf[c]] /\ Takes(c) <= Depth - pend[c]
         /\ pend[c] \in 0 .. Depth /\ queued[NodeOf[c]] \in Nat /\ Depth \in Nat
  <1>1. pend[c] \in 0 .. Depth /\ queued[NodeOf[c]] \in Nat /\ Depth \in Nat /\ Batch \in 1 .. Depth
    BY RoutedAssumption DEF IInv, ConnTypes, QueueTypes
  <1>2. Room(c) \in Nat /\ Room(c) <= Depth - pend[c]
    BY <1>1 DEF Room
  <1>. QED
    BY <1>1, <1>2 DEF Takes

(* m requests leave the queue of c's node.                                 *)
LEMMA TakenShrinks ==
  ASSUME IInv, NEW c \in Conns, NEW m \in Nat, m <= queued[NodeOf[c]],
         queued' = [queued EXCEPT ![NodeOf[c]] = @ - m], UNCHANGED <<phase, closed>>
  PROVE  QueuesShrink /\ queued'[NodeOf[c]] = queued[NodeOf[c]] - m
  <1>. DEFINE n == NodeOf[c]
  <1>1. n \in Nodes /\ queued \in [Nodes -> Nat] /\ \A i \in Nodes : queued[i] <= Cap(i)
    BY RoutedAssumption DEF IInv, QueueTypes
  <1>2. Cap(n) \in Int
    <2>1. ConnsOf(n) \subseteq Conns
      BY DEF ConnsOf
    <2>2. Cardinality(ConnsOf(n)) \in Nat
      BY <2>1, RoutedAssumption, FS_Subset, FS_CardinalityType
    <2>. QED
      BY <2>2, RoutedAssumption DEF Cap
  <1>3. queued' = [queued EXCEPT ![n] = @ - m] /\ m <= queued[n]
    OBVIOUS
  <1>. HIDE DEF n
  <1>4. queued[n] \in Nat /\ queued[n] <= Cap(n)
    BY <1>1
  <1>5. queued[n] - m \in Nat /\ queued[n] - m <= Cap(n) /\ (queued[n] - m > 0 => queued[n] > 0)
    BY <1>2, <1>3, <1>4
  <1>6. queued' \in [Nodes -> Nat] /\ queued'[n] = queued[n] - m
        /\ \A i \in Nodes : i # n => queued'[i] = queued[i]
    BY <1>1, <1>3, <1>5
  <1>7. \A i \in Nodes : queued'[i] <= Cap(i) /\ (queued'[i] > 0 => queued[i] > 0)
    BY <1>1, <1>5, <1>6
  <1>8. QueueTypes'
    BY <1>6, <1>7 DEF QueueTypes, IInv, Cap, ConnsOf
  <1>. QED
    BY <1>6, <1>7, <1>8 DEF QueuesShrink, n

(* The rest of an iteration, with p in flight and q queued.                *)
LEMMA WaitOnKeeps ==
  ASSUME IInv, NEW c \in Conns, thread = c, QueuesShrink, PendMoves(c), NEW p \in Nat, pend'[c] = p,
         NEW q \in Nat, queued'[NodeOf[c]] = q, WaitOn(c, p, q)
  PROVE  IInv'
  <1>1. dead' = dead /\ closed' = closed /\ dead' \in [Conns -> BOOLEAN]
    BY DEF WaitOn, IInv, ConnTypes
  <1>2. ~HasLive(waiters[NodeOf[c]], c)
    BY AtTop
  <1>3. CASE p > 0 /\ Awaits(c, "recv") /\ UNCHANGED waiters
    <2>1. ListsGood' /\ OthersListed(c) /\ ~HasLive(waiters'[NodeOf[c]], c)
      BY <1>2, <1>3, ListsKept DEF IInv
    <2>2. MayAwait(c, "recv")
      BY <1>3, <2>1 DEF MayAwait, Places
    <2>. QED
      BY <1>1, <1>3, <2>1, <2>2, AwaitStep
  <1>4. CASE UNCHANGED <<cpc, thread, woken, waiters>>
    BY <1>1, <1>4, AgainStep
  <1>. DEFINE to == IF p = 0 THEN "park" ELSE "select"
  <1>5. CASE /\ ~(q > 0) /\ Awaits(c, to)
             /\ waiters' = [waiters EXCEPT ![NodeOf[c]] = Register(@, c)]
    <2>1. ListsGood' /\ OthersListed(c) /\ HasLive(waiters'[NodeOf[c]], c)
      BY <1>5, RegisterStep DEF IInv
    <2>2. /\ to \in Places \ {"top"} /\ to \in {"park", "select"} /\ to # "gone"
          /\ to \in {"recv", "select"} => p > 0
      BY DEF Places
    <2>. HIDE DEF to
    <2>3. MayAwait(c, to)
      BY <1>5, <2>1, <2>2 DEF MayAwait
    <2>. QED
      BY <1>1, <1>5, <2>1, <2>3, AwaitStep
  <1>. QED
    BY <1>3, <1>4, <1>5 DEF WaitOn

LEMMA FillKeeps ==
  ASSUME IInv, NEW c \in Conns, Fill(c)
  PROVE  IInv'
  <1>. DEFINE m == Takes(c)
  <1>1. /\ thread = c /\ queued' = [queued EXCEPT ![NodeOf[c]] = @ - m]
        /\ pend' = [pend EXCEPT ![c] = @ + m] /\ UNCHANGED <<phase, closed>>
        /\ WaitOn(c, pend[c] + m, queued[NodeOf[c]] - m)
    BY DEF Fill, Runs, WaitOn
  <1>2. /\ m \in Nat /\ m <= queued[NodeOf[c]] /\ m <= Depth - pend[c]
        /\ pend[c] \in 0 .. Depth /\ queued[NodeOf[c]] \in Nat /\ Depth \in Nat
    BY TakesFacts
  <1>. HIDE DEF m
  <1>3. QueuesShrink /\ queued'[NodeOf[c]] = queued[NodeOf[c]] - m
    BY <1>1, <1>2, TakenShrinks
  <1>4. pend[c] + m \in 0 .. Depth /\ pend[c] + m \in Nat /\ queued[NodeOf[c]] - m \in Nat
    BY <1>2
  <1>5. pend \in [Conns -> 0 .. Depth]
    BY DEF IInv, ConnTypes
  <1>6. PendMoves(c) /\ pend'[c] = pend[c] + m
    BY <1>1, <1>4, <1>5 DEF PendMoves
  <1>. QED
    BY <1>1, <1>3, <1>4, <1>6, WaitOnKeeps

LEMMA FlushFailsKeeps ==
  ASSUME IInv, NEW c \in Conns, FlushFails(c)
  PROVE  IInv'
  <1>. DEFINE m == Takes(c)
  <1>1. /\ thread = c /\ queued' = [queued EXCEPT ![NodeOf[c]] = @ - m]
        /\ pend' = pend /\ UNCHANGED <<phase, closed>>
        /\ WaitOn(c, pend[c], queued[NodeOf[c]] - m)
    BY DEF FlushFails, Runs, WaitOn
  <1>2. /\ m \in Nat /\ m <= queued[NodeOf[c]] /\ m <= Depth - pend[c]
        /\ pend[c] \in 0 .. Depth /\ queued[NodeOf[c]] \in Nat /\ Depth \in Nat
    BY TakesFacts
  <1>. HIDE DEF m
  <1>3. QueuesShrink /\ queued'[NodeOf[c]] = queued[NodeOf[c]] - m
    BY <1>1, <1>2, TakenShrinks
  <1>4. pend[c] \in Nat /\ queued[NodeOf[c]] - m \in Nat
    BY <1>2
  <1>5. PendMoves(c) /\ pend'[c] = pend[c]
    BY <1>1, PendKept
  <1>. QED
    BY <1>1, <1>3, <1>4, <1>5, WaitOnKeeps

LEMMA FireFailsKeeps ==
  ASSUME IInv, NEW c \in Conns, FireFails(c)
  PROVE  IInv'
  <1>0. PICK m \in 1 .. Takes(c) : \E d \in 0 .. m - 1 :
          /\ Runs(c)
          /\ queued' = [queued EXCEPT ![NodeOf[c]] = @ - m]
          /\ pend' = [pend EXCEPT ![c] = @ + m - 1 - d]
          /\ Awaits(c, IF pend'[c] = 0 THEN "nap" ELSE "recv")
          /\ UNCHANGED <<phase, waiters, closed, dead, minted>>
    BY DEF FireFails
  <1>1. PICK d \in 0 .. m - 1 :
          /\ thread = c /\ queued' = [queued EXCEPT ![NodeOf[c]] = @ - m]
          /\ pend' = [pend EXCEPT ![c] = @ + m - 1 - d]
          /\ Awaits(c, IF pend'[c] = 0 THEN "nap" ELSE "recv")
          /\ phase' = phase /\ closed' = closed /\ waiters' = waiters /\ dead' = dead
    BY <1>0 DEF Runs
  <1>2. /\ Takes(c) \in Nat /\ Takes(c) <= queued[NodeOf[c]] /\ Takes(c) <= Depth - pend[c]
        /\ pend[c] \in 0 .. Depth /\ queued[NodeOf[c]] \in Nat /\ Depth \in Nat
    BY TakesFacts
  <1>3. m \in Nat /\ m <= queued[NodeOf[c]] /\ pend[c] + m - 1 - d \in 0 .. Depth
    BY <1>2
  <1>4. QueuesShrink
    BY <1>1, <1>3, TakenShrinks
  <1>5. pend \in [Conns -> 0 .. Depth] /\ dead' \in [Conns -> BOOLEAN]
    BY <1>1 DEF IInv, ConnTypes
  <1>6. PendMoves(c) /\ pend'[c] \in Nat
    BY <1>1, <1>3, <1>5 DEF PendMoves
  <1>7. ListsGood' /\ OthersListed(c) /\ ~HasLive(waiters'[NodeOf[c]], c)
    BY <1>1, ListsKept, AtTop DEF IInv
  <1>. DEFINE to == IF pend'[c] = 0 THEN "nap" ELSE "recv"
  <1>8. MayAwait(c, to)
    <2>1. /\ to \in Places \ {"top"} /\ to \notin {"park", "select", "gone"}
          /\ to \in {"recv", "select"} => pend'[c] > 0
      BY <1>6 DEF Places
    <2>. HIDE DEF to
    <2>. QED
      BY <1>7, <2>1 DEF MayAwait
  <1>9. Awaits(c, to)
    BY <1>1
  <1>. HIDE DEF to
  <1>. QED
    BY <1>1, <1>4, <1>5, <1>6, <1>7, <1>8, <1>9, AwaitStep

LEMMA NapEndsKeeps ==
  ASSUME IInv, NEW c \in Conns, NapEnds(c)
  PROVE  IInv'
  <1>1. /\ thread = Free /\ cpc[c] = "nap" /\ Resumes(c) /\ phase' = phase /\ queued' = queued
        /\ waiters' = waiters /\ closed' = closed /\ pend' = pend /\ dead' = dead
    BY DEF NapEnds, queues
  <1>2. dead' \in [Conns -> BOOLEAN]
    BY <1>1 DEF IInv, ConnTypes
  <1>3. ListsGood' /\ OthersListed(c) /\ ~HasLive(waiters'[NodeOf[c]], c)
    BY <1>1, ListsKept, NotListed DEF IInv
  <1>4. QueuesShrink /\ PendMoves(c)
    BY <1>1, QueuesKept, PendKept
  <1>. QED
    BY <1>1, <1>2, <1>3, <1>4, ResumeStep

LEMMA WaitReturnsKeeps ==
  ASSUME IInv, NEW c \in Conns, WaitReturns(c)
  PROVE  IInv'
  <1>1. /\ thread = Free /\ Leave(c) /\ Resumes(c) /\ phase' = phase /\ queued' = queued
        /\ closed' = closed /\ pend' = pend /\ dead' = dead
    BY DEF WaitReturns
  <1>2. dead' \in [Conns -> BOOLEAN]
    BY <1>1 DEF IInv, ConnTypes
  <1>3. ListsGood' /\ OthersListed(c) /\ ~HasLive(waiters'[NodeOf[c]], c)
    BY <1>1, LeaveStep DEF IInv
  <1>4. QueuesShrink /\ PendMoves(c)
    BY <1>1, QueuesKept, PendKept
  <1>. QED
    BY <1>1, <1>2, <1>3, <1>4, ResumeStep

(* A task woken for a request that another took waits in the list again;   *)
(* its node's queue is empty, so nothing is stranded by it.                *)
LEMMA WaitsAgainKeeps ==
  ASSUME IInv, NEW c \in Conns, WaitsAgain(c)
  PROVE  IInv'
  <1>1. /\ thread = Free /\ cpc[c] \in {"park", "select"} /\ ~(queued[NodeOf[c]] > 0)
        /\ waiters' = [waiters EXCEPT ![NodeOf[c]] = Register(@, c)] /\ woken' = woken \ {c}
        /\ phase' = phase /\ queued' = queued /\ closed' = closed /\ cpc' = cpc /\ pend' = pend
        /\ dead' = dead /\ thread' = thread
    BY DEF WaitsAgain, Ready
  <1>2. ListsGood' /\ OthersListed(c) /\ HasLive(waiters'[NodeOf[c]], c)
    BY <1>1, RegisterStep DEF IInv
  <1>3. QueuesShrink /\ PendMoves(c)
    BY <1>1, QueuesKept, PendKept
  <1>4. ConnTypes'
    BY <1>1 DEF IInv, ConnTypes, Places
  <1>5. OthersStay(c)
    BY <1>1 DEF OthersStay
  <1>6. c # Free /\ c \notin woken'
    BY <1>1, FreeAssumption
  <1>7. OwnInStep(c)
    <2>1. cpc'[c] \in {"recv", "select"} => pend'[c] > 0
      BY <1>1 DEF IInv, ConnsInStep, InFlight
    <2>. QED
      BY <1>1, <1>2, <1>6, <2>1 DEF OwnInStep
  <1>8. LeavesNone(c)
    BY <1>1 DEF LeavesNone
  <1>. QED
    BY <1>1, <1>2, <1>3, <1>4, <1>5, <1>7, <1>8, ConnStep DEF QueuesShrink

LEMMA ReplyTaken ==
  ASSUME IInv, NEW c \in Conns, cpc[c] \in {"recv", "select"},
         pend' = [pend EXCEPT ![c] = @ - 1]
  PROVE  PendMoves(c)
  <1>1. pend \in [Conns -> 0 .. Depth] /\ Depth \in Nat /\ pend[c] > 0
    BY RoutedAssumption DEF IInv, ConnTypes, ConnsInStep, InFlight
  <1>2. pend[c] \in 0 .. Depth
    BY <1>1
  <1>3. pend[c] - 1 \in 0 .. Depth
    BY <1>1, <1>2
  <1>. QED
    BY <1>1, <1>3 DEF PendMoves

LEMMA ReplyFoundKeeps ==
  ASSUME IInv, NEW c \in Conns, ReplyFound(c)
  PROVE  IInv'
  <1>1. /\ thread = Free /\ cpc[c] = "select" /\ Leave(c) /\ Resumes(c)
        /\ pend' = [pend EXCEPT ![c] = IF Ready(c) THEN @ ELSE @ - 1]
        /\ phase' = phase /\ queued' = queued /\ closed' = closed /\ dead' = dead
    BY DEF ReplyFound
  <1>2. dead' \in [Conns -> BOOLEAN] /\ pend \in [Conns -> 0 .. Depth]
    BY <1>1 DEF IInv, ConnTypes
  <1>3. ListsGood' /\ OthersListed(c) /\ ~HasLive(waiters'[NodeOf[c]], c)
    BY <1>1, LeaveStep DEF IInv
  <1>4. QueuesShrink
    BY <1>1, QueuesKept
  <1>5. PendMoves(c)
    <2>1. CASE Ready(c)
      <3>1. pend' = pend
        BY <1>1, <1>2, <2>1
      <3>. QED
        BY <3>1, PendKept
    <2>2. CASE ~Ready(c)
      <3>1. pend' = [pend EXCEPT ![c] = @ - 1]
        BY <1>1, <2>2
      <3>. QED
        BY <1>1, <3>1, ReplyTaken
    <2>. QED
      BY <2>1, <2>2
  <1>. QED
    BY <1>1, <1>2, <1>3, <1>4, <1>5, ResumeStep

LEMMA ReplyKeeps ==
  ASSUME IInv, NEW c \in Conns, Reply(c)
  PROVE  IInv'
  <1>1. /\ thread = Free /\ cpc[c] = "recv" /\ Resumes(c) /\ pend' = [pend EXCEPT ![c] = @ - 1]
        /\ phase' = phase /\ queued' = queued /\ closed' = closed /\ dead' = dead
        /\ waiters' = waiters
    BY DEF Reply, queues
  <1>2. dead' \in [Conns -> BOOLEAN]
    BY <1>1 DEF IInv, ConnTypes
  <1>3. ListsGood' /\ OthersListed(c) /\ ~HasLive(waiters'[NodeOf[c]], c)
    BY <1>1, ListsKept, NotListed DEF IInv
  <1>4. QueuesShrink /\ PendMoves(c)
    BY <1>1, QueuesKept, ReplyTaken
  <1>. QED
    BY <1>1, <1>2, <1>3, <1>4, ResumeStep

LEMMA LoseKeeps ==
  ASSUME IInv, NEW c \in Conns, Lose(c)
  PROVE  IInv'
  <1>1. /\ thread = Free /\ Leave(c) /\ pend' = [pend EXCEPT ![c] = 0]
        /\ Go(c, "down") /\ woken' = woken \ {c}
        /\ phase' = phase /\ queued' = queued /\ closed' = closed /\ dead' = dead /\ thread' = thread
    BY DEF Lose
  <1>2. /\ cpc' \in [Conns -> Places] /\ cpc'[c] = "down"
        /\ \A d \in Conns : d # c => cpc'[d] = cpc[d]
    BY <1>1, GoFacts DEF Places
  <1>3. ListsGood' /\ OthersListed(c) /\ ~HasLive(waiters'[NodeOf[c]], c)
    BY <1>1, LeaveStep DEF IInv
  <1>4. QueuesShrink
    BY <1>1, QueuesKept
  <1>5. PendMoves(c)
    BY <1>1, RoutedAssumption DEF IInv, ConnTypes, PendMoves
  <1>6. ConnTypes'
    <2>1. woken' \subseteq Conns /\ thread' \in Conns \cup {Free} /\ dead' \in [Conns -> BOOLEAN]
      BY <1>1 DEF IInv, ConnTypes
    <2>. QED
      BY <1>2, <1>5, <2>1 DEF ConnTypes, PendMoves, Places
  <1>7. OthersStay(c)
    BY <1>1, <1>2, <1>5 DEF OthersStay, PendMoves
  <1>8. OwnInStep(c)
    BY <1>1, <1>2, <1>3, FreeAssumption DEF OwnInStep
  <1>9. LeavesNone(c)
    BY <1>2, <1>4 DEF LeavesNone, QueuesShrink
  <1>. QED
    BY <1>3, <1>4, <1>6, <1>7, <1>8, <1>9, ConnStep DEF QueuesShrink

LEMMA CloseIdleKeeps ==
  ASSUME IInv, NEW c \in Conns, CloseIdle(c)
  PROVE  IInv'
  <1>1. UNCHANGED <<phase, queues, cpc, pend, woken, thread>>
    BY DEF CloseIdle
  <1>2. /\ phase' = phase /\ queued' = queued /\ waiters' = waiters /\ closed' = closed /\ cpc' = cpc
        /\ pend' = pend /\ woken' = woken /\ thread' = thread
    BY <1>1 DEF queues
  <1>3. dead' \in [Conns -> BOOLEAN]
    BY Zenon DEF CloseIdle, IInv, ConnTypes
  <1>4. QueuesShrink
    BY <1>2, QueuesKept
  <1>5. ListsGood' /\ OthersListed(c) /\ (HasLive(waiters'[NodeOf[c]], c) <=> HasLive(waiters[NodeOf[c]], c))
    BY <1>2, ListsKept DEF IInv
  <1>6. ConnTypes'
    BY <1>2, <1>3 DEF IInv, ConnTypes, Places
  <1>7. LiveWaits' /\ ConnsInStep' /\ NoStrandedRequest'
    BY <1>2, Zenon DEF IInv, LiveWaits, Waits, HasLive, ConnsInStep, OneRuns, WokenWaits, InFlight,
                       GoneStopped, NoStrandedRequest, Attends, ConnsOf
  <1>. QED
    BY <1>4, <1>5, <1>6, <1>7 DEF IInv, QueuesShrink

-----------------------------------------------------------------------------
(* The dispatcher and the runner                                           *)

(* A step that at most stops the run.                                      *)
LEMMA OnlyStops ==
  ASSUME IInv, UNCHANGED <<queued, waiters, closed, cpc, pend, dead, woken, thread>>,
         phase' \in {phase, "Stop"}
  PROVE  IInv'
  <1>1. /\ queued' = queued /\ waiters' = waiters /\ closed' = closed /\ cpc' = cpc /\ pend' = pend
        /\ dead' = dead /\ woken' = woken /\ thread' = thread
    OBVIOUS
  <1>2. QueueTypes' /\ ConnTypes'
    BY <1>1 DEF IInv, QueueTypes, ConnTypes, Places, Cap, ConnsOf
  <1>3. ListsGood'
    BY <1>1 DEF IInv, ListsGood, Good, OneLive, Lists, EntriesOf, WaitersCap, ConnsOf, Entries
  <1>4. LiveWaits' /\ OneRuns' /\ WokenWaits' /\ InFlight'
    BY <1>1, Zenon DEF IInv, LiveWaits, Waits, HasLive, ConnsInStep, OneRuns, WokenWaits, InFlight
  <1>5. GoneStopped'
    BY <1>1 DEF IInv, ConnsInStep, GoneStopped
  <1>6. NoStrandedRequest'
    <2>. SUFFICES ASSUME NEW n \in Nodes, queued'[n] > 0, phase' = "Warmup"
                  PROVE  \E d \in ConnsOf(n) : Attends(d)'
      BY DEF NoStrandedRequest, ConnsOf
    <2>1. phase = "Warmup" /\ queued[n] > 0
      BY <1>1
    <2>. QED
      BY <1>1, <2>1, Zenon DEF IInv, NoStrandedRequest, Attends
  <1>. QED
    BY <1>2, <1>3, <1>4, <1>5, <1>6 DEF IInv, ConnsInStep

(* The places of the tasks stay, and W are woken and taken off the lists.  *)
Wakes(W) ==
  /\ woken' = woken \cup W /\ W \subseteq Conns
  /\ \A d \in W : HasLive(waiters[NodeOf[d]], d)
  /\ \A d \in Conns : HasLive(waiters'[NodeOf[d]], d) <=> (HasLive(waiters[NodeOf[d]], d) /\ d \notin W)

LEMMA WakesStep ==
  ASSUME IInv, NEW W, Wakes(W), UNCHANGED <<phase, cpc, pend, dead, thread>>
  PROVE  ConnTypes' /\ LiveWaits' /\ ConnsInStep' /\ \A d \in Conns : Attends(d) => Attends(d)'
  <1>1. /\ phase' = phase /\ cpc' = cpc /\ pend' = pend /\ dead' = dead /\ thread' = thread
        /\ woken' = woken \cup W /\ W \subseteq Conns
    BY DEF Wakes
  <1>2. \A d \in Conns : HasLive(waiters[NodeOf[d]], d) <=> (cpc[d] \in {"park", "select"} /\ d \notin woken)
    BY DEF IInv, LiveWaits, Waits
  <1>3. ConnTypes'
    BY <1>1 DEF IInv, ConnTypes, Places
  <1>4. LiveWaits'
    <2>1. ASSUME NEW d \in Conns
          PROVE  HasLive(waiters'[NodeOf[d]], d) <=> (cpc'[d] \in {"park", "select"} /\ d \notin woken')
      BY <1>1, <1>2, Zenon DEF Wakes
    <2>. QED
      BY <2>1 DEF LiveWaits, Waits, HasLive
  <1>5. WokenWaits'
    <2>1. ASSUME NEW d \in Conns, d \in woken' PROVE cpc'[d] \in {"park", "select"}
      <3>1. CASE d \in woken
        BY <1>1, <3>1 DEF IInv, ConnsInStep, WokenWaits
      <3>2. CASE d \in W
        <4>1. HasLive(waiters[NodeOf[d]], d)
          BY <3>2 DEF Wakes
        <4>. QED
          BY <1>1, <1>2, <4>1
      <3>. QED
        BY <1>1, <2>1, <3>1, <3>2
    <2>. QED
      BY <1>3, <2>1 DEF WokenWaits, ConnTypes
  <1>6. OneRuns' /\ InFlight' /\ GoneStopped'
    BY <1>1, Zenon DEF IInv, ConnsInStep, OneRuns, InFlight, GoneStopped
  <1>7. \A d \in Conns : Attends(d) => Attends(d)'
    BY <1>1, Zenon DEF Attends
  <1>. QED
    BY <1>3, <1>4, <1>5, <1>6, <1>7 DEF ConnsInStep

(* push: the request that is queued has a connection on its way to it,     *)
(* the one that is woken, or one that none had to wake.                    *)
LEMMA WakeOneStep ==
  ASSUME IInv, NEW n \in Nodes, WakeOne(n), phase = "Warmup", ConnsOf(n) # {}
  PROVE  /\ ListsGood'
         /\ \E W : Wakes(W) /\ \E d \in ConnsOf(n) : d \in W \/ Attends(d)
  <1>. DEFINE ws == waiters[n]
              w == ws[FirstLive(ws)].conn
  <1>1. ListsGood /\ Good(ws, n) /\ waiters \in [Nodes -> Seq(Entries)]
    BY DEF IInv, ListsGood
  <1>2. \A d \in Conns : NodeOf[d] \in Nodes /\ (d \in ConnsOf(n) <=> NodeOf[d] = n)
    BY RoutedAssumption DEF ConnsOf
  <1>3. CASE SomeLive(ws)
    <2>1. woken' = woken \cup {w} /\ waiters' = [waiters EXCEPT ![n] = AfterFirst(ws)]
      BY <1>1, <1>3 DEF WakeOne, SomeLive, AfterFirst
    <2>2. /\ Good(AfterFirst(ws), n) /\ w \in ConnsOf(n) /\ HasLive(ws, w)
          /\ \A d : HasLive(AfterFirst(ws), d) <=> (HasLive(ws, d) /\ d # w)
      BY <1>1, <1>3, AfterFirstGood
    <2>. HIDE DEF w
    <2>3. /\ ListsGood' /\ waiters'[n] = AfterFirst(ws)
          /\ \A m \in Nodes : m # n => waiters'[m] = waiters[m]
      BY <1>1, <2>1, <2>2, ListStep DEF ListBecomes
    <2>4. Wakes({w})
      <3>1. w \in Conns /\ NodeOf[w] = n
        BY <2>2 DEF ConnsOf
      <3>2. ASSUME NEW d \in Conns
            PROVE  HasLive(waiters'[NodeOf[d]], d) <=> (HasLive(waiters[NodeOf[d]], d) /\ d \notin {w})
        <4>1. CASE NodeOf[d] = n
          BY <2>2, <2>3, <4>1, Zenon
        <4>2. CASE NodeOf[d] # n
          BY <1>2, <2>3, <3>1, <4>2, Zenon
        <4>. QED
          BY <4>1, <4>2
      <3>3. \A d \in {w} : HasLive(waiters[NodeOf[d]], d)
        BY <2>2, <3>1
      <3>. QED
        BY <2>1, <3>1, <3>2, <3>3 DEF Wakes
    <2>. QED
      BY <2>2, <2>3, <2>4
  <1>4. CASE ~SomeLive(ws)
    <2>1. woken' = woken /\ waiters' = [waiters EXCEPT ![n] = <<>>]
      BY <1>4 DEF WakeOne, SomeLive
    <2>2. Good(<<>>, n) /\ \A d : ~HasLive(<<>>, d)
      BY EmptyGood
    <2>3. /\ ListsGood' /\ waiters'[n] = <<>>
          /\ \A m \in Nodes : m # n => waiters'[m] = waiters[m]
      BY <1>1, <2>1, <2>2, ListStep DEF ListBecomes
    <2>4. \A d : ~HasLive(ws, d)
      BY <1>4, Zenon DEF SomeLive, HasLive
    <2>5. Wakes({})
      <3>1. ASSUME NEW d \in Conns
            PROVE  HasLive(waiters'[NodeOf[d]], d) <=> HasLive(waiters[NodeOf[d]], d)
        <4>1. CASE NodeOf[d] = n
          BY <2>2, <2>3, <2>4, <4>1, Zenon
        <4>2. CASE NodeOf[d] # n
          BY <1>2, <2>3, <4>2, Zenon
        <4>. QED
          BY <4>1, <4>2
      <3>. QED
        BY <2>1, <3>1 DEF Wakes
    <2>6. PICK d \in ConnsOf(n) : TRUE
      OBVIOUS
    <2>7. Attends(d)
      <3>1. d \in Conns /\ NodeOf[d] = n
        BY DEF ConnsOf
      <3>2. ~Waits(d)
        BY <2>4, <3>1, Zenon DEF IInv, LiveWaits
      <3>3. cpc[d] # "gone"
        BY <3>1 DEF IInv, ConnsInStep, GoneStopped
      <3>. QED
        BY <3>2, <3>3 DEF Waits, Attends
    <2>. QED
      BY <2>3, <2>5, <2>7
  <1>. QED
    BY <1>3, <1>4

LEMMA MintKeeps ==
  ASSUME IInv, NEW n \in Nodes, Mint(n)
  PROVE  IInv'
  <1>1. /\ phase = "Warmup" /\ phase' = phase /\ closed' = closed /\ cpc' = cpc /\ pend' = pend
        /\ dead' = dead /\ thread' = thread
    BY DEF Mint
  <1>2. CASE queued[n] >= Cap(n) /\ UNCHANGED <<queued, waiters, woken>>
    BY <1>1, <1>2, OnlyStops
  <1>3. CASE /\ queued[n] < Cap(n) /\ queued' = [queued EXCEPT ![n] = @ + 1] /\ WakeOne(n)
    <2>1. queued \in [Nodes -> Nat] /\ \A i \in Nodes : queued[i] <= Cap(i)
      BY DEF IInv, QueueTypes
    <2>2. Cardinality(ConnsOf(n)) \in Nat /\ IsFiniteSet(ConnsOf(n))
      <3>1. ConnsOf(n) \subseteq Conns
        BY DEF ConnsOf
      <3>. QED
        BY <3>1, RoutedAssumption, FS_Subset, FS_CardinalityType
    <2>3. Cap(n) \in Nat
      BY <2>2, RoutedAssumption DEF Cap
    <2>4. ConnsOf(n) # {}
      <3>. SUFFICES ASSUME ConnsOf(n) = {} PROVE FALSE
        OBVIOUS
      <3>1. Cardinality(ConnsOf(n)) = 0
        BY FS_EmptySet
      <3>2. Cap(n) = 0
        BY <3>1, RoutedAssumption DEF Cap
      <3>. QED
        BY <1>3, <2>1, <3>2
    <2>5. ListsGood'
      BY <1>1, <1>3, <2>4, WakeOneStep
    <2>6. PICK W : Wakes(W) /\ \E d \in ConnsOf(n) : d \in W \/ Attends(d)
      BY <1>1, <1>3, <2>4, WakeOneStep
    <2>7. ConnTypes' /\ LiveWaits' /\ ConnsInStep' /\ \A d \in Conns : Attends(d) => Attends(d)'
      BY <1>1, <2>6, WakesStep
    <2>8. /\ queued' \in [Nodes -> Nat] /\ queued'[n] = queued[n] + 1
          /\ \A i \in Nodes : i # n => queued'[i] = queued[i]
      BY <1>3, <2>1
    <2>9. \A i \in Nodes : queued'[i] <= Cap(i)
      BY <1>3, <2>1, <2>3, <2>8
    <2>10. QueueTypes'
      BY <1>1, <2>8, <2>9 DEF IInv, QueueTypes, Cap, ConnsOf
    <2>11. NoStrandedRequest'
      <3>. SUFFICES ASSUME NEW i \in Nodes, queued'[i] > 0
                    PROVE  \E d \in ConnsOf(i) : Attends(d)'
        BY DEF NoStrandedRequest, ConnsOf
      <3>1. CASE i = n
        <4>1. PICK d \in ConnsOf(n) : d \in W \/ Attends(d)
          BY <2>6
        <4>2. d \in W => Attends(d)'
          BY <2>6 DEF Wakes, Attends
        <4>. QED
          BY <2>7, <3>1, <4>1, <4>2 DEF ConnsOf
      <3>2. CASE i # n
        <4>1. queued[i] > 0
          BY <2>8, <3>2
        <4>2. PICK d \in ConnsOf(i) : Attends(d)
          BY <1>1, <4>1, Zenon DEF IInv, NoStrandedRequest
        <4>. QED
          BY <2>7, <4>2 DEF ConnsOf
      <3>. QED
        BY <3>1, <3>2
    <2>. QED
      BY <2>5, <2>7, <2>10, <2>11 DEF IInv
  <1>. QED
    BY <1>2, <1>3 DEF Mint

(* close wakes every task that waits.                                      *)
LEMMA DispatcherStopsKeeps ==
  ASSUME IInv, DispatcherStops
  PROVE  IInv'
  <1>. DEFINE W == {c \in Conns : HasLive(waiters[NodeOf[c]], c)}
  <1>1. /\ phase = "Stop" /\ phase' = phase /\ closed' = TRUE /\ cpc' = cpc /\ pend' = pend
        /\ dead' = dead /\ thread' = thread /\ queued' = queued
        /\ woken' = woken \cup W /\ waiters' = [n \in Nodes |-> <<>>]
    BY DEF DispatcherStops, Close
  <1>2. \A n \in Nodes : Good(<<>>, n) /\ \A d : ~HasLive(<<>>, d)
    BY EmptyGood
  <1>3. \A n \in Nodes : waiters'[n] = <<>>
    BY <1>1
  <1>4. ListsGood'
    <2>1. waiters' \in [Nodes -> Seq(Entries)]
      BY <1>1
    <2>2. \A n \in Nodes : Good(waiters'[n], n)
      BY <1>2, <1>3
    <2>3. ListsGood' <=> (waiters' \in [Nodes -> Seq(Entries)] /\ \A m \in Nodes : Good(waiters'[m], m))
      BY DEF ListsGood, Good, OneLive, Lists, EntriesOf, WaitersCap, ConnsOf, Entries
    <2>. QED
      BY <2>1, <2>2, <2>3
  <1>5. Wakes(W)
    <2>1. \A d \in Conns : NodeOf[d] \in Nodes
      BY RoutedAssumption
    <2>2. \A d \in Conns : ~HasLive(waiters'[NodeOf[d]], d)
      BY <1>2, <1>3, <2>1, Zenon
    <2>. QED
      BY <1>1, <2>2 DEF Wakes
  <1>6. ConnTypes' /\ LiveWaits' /\ ConnsInStep'
    BY <1>1, <1>5, WakesStep
  <1>7. QueueTypes'
    BY <1>1 DEF IInv, QueueTypes, Cap, ConnsOf
  <1>8. NoStrandedRequest'
    BY <1>1 DEF NoStrandedRequest
  <1>. QED
    BY <1>4, <1>6, <1>7, <1>8 DEF IInv

-----------------------------------------------------------------------------
(* The theorems                                                            *)

LEMMA InitHolds == Init => IInv
  <1>. SUFFICES ASSUME Init PROVE IInv
    OBVIOUS
  <1>1. \A n \in Nodes : waiters[n] = <<>> /\ Good(<<>>, n) /\ \A d : ~HasLive(<<>>, d)
    BY EmptyGood DEF Init
  <1>2. ListsGood
    <2>1. waiters \in [Nodes -> Seq(Entries)]
      BY DEF Init
    <2>. QED
      BY <1>1, <2>1 DEF ListsGood
  <1>3. \A n \in Nodes : 0 <= Cap(n)
    <2>. TAKE n \in Nodes
    <2>1. ConnsOf(n) \subseteq Conns
      BY DEF ConnsOf
    <2>2. Cardinality(ConnsOf(n)) \in Nat
      BY <2>1, RoutedAssumption, FS_Subset, FS_CardinalityType
    <2>. QED
      BY <2>2, RoutedAssumption DEF Cap
  <1>4. QueueTypes /\ NoStrandedRequest
    <2>1. phase \in {"Warmup", "Stop"} /\ queued \in [Nodes -> Nat] /\ \A n \in Nodes : queued[n] = 0
      BY DEF Init
    <2>2. closed \in BOOLEAN
      BY Zenon DEF Init
    <2>3. \A n \in Nodes : queued[n] <= Cap(n) /\ ~(queued[n] > 0)
      BY <1>3, <2>1
    <2>. QED
      BY <2>1, <2>2, <2>3, Zenon DEF QueueTypes, NoStrandedRequest
  <1>5. ConnTypes
    <2>1. dead \in [Conns -> BOOLEAN]
      BY Zenon DEF Init
    <2>2. thread \in Conns \cup {Free} /\ woken \subseteq Conns
      BY DEF Init
    <2>3. cpc \in [Conns -> Places] /\ pend \in [Conns -> 0 .. Depth]
      BY RoutedAssumption DEF Init, Places
    <2>. QED
      BY <2>1, <2>2, <2>3 DEF ConnTypes
  <1>6. LiveWaits
    <2>1. \A d \in Conns : NodeOf[d] \in Nodes
      BY RoutedAssumption
    <2>2. \A d \in Conns : ~HasLive(waiters[NodeOf[d]], d)
      BY <1>1, <2>1, Zenon
    <2>. QED
      BY <2>2 DEF Init, LiveWaits, Waits
  <1>7. ConnsInStep
    BY FreeAssumption DEF Init, ConnsInStep, OneRuns, WokenWaits, InFlight, GoneStopped
  <1>. QED
    BY <1>2, <1>4, <1>5, <1>6, <1>7 DEF IInv

LEMMA NextKeeps == IInv /\ [Next]_vars => IInv'
  <1>. SUFFICES ASSUME IInv, [Next]_vars PROVE IInv'
    OBVIOUS
  <1>1. CASE UNCHANGED vars
    BY <1>1, OnlyStops DEF vars, queues, conn
  <1>2. CASE \E n \in Nodes : Mint(n)
    BY <1>2, MintKeeps
  <1>3. CASE DispatcherStops
    BY <1>3, DispatcherStopsKeeps
  <1>4. CASE Stop
    BY <1>4, OnlyStops DEF Stop, queues, conn
  <1>5. ASSUME NEW c \in Conns,
               \/ Connect(c) \/ Iterates(c) \/ NapEnds(c) \/ Polled(c)
               \/ Answers(c) \/ Lose(c) \/ CloseIdle(c)
        PROVE  IInv'
    <2>1. CASE Iterates(c)
      BY <2>1, ExitsKeeps, FindsClosedKeeps, FillKeeps, FlushFailsKeeps, FireFailsKeeps DEF Iterates
    <2>2. CASE Polled(c) \/ Answers(c)
      BY <2>2, WaitReturnsKeeps, WaitsAgainKeeps, ReplyKeeps, ReplyFoundKeeps DEF Polled, Answers
    <2>. QED
      BY <1>5, <2>1, <2>2, ConnectKeeps, NapEndsKeeps, LoseKeeps, CloseIdleKeeps
  <1>. QED
    BY <1>1, <1>2, <1>3, <1>4, <1>5 DEF Next

(* For every set of connections and nodes, pipeline depth, batch and cap,  *)
(* the lists of RoutedQueues, the wakes and the places of the tasks agree. *)
THEOREM RoutedInvariant == Spec => []IInv
  <1>1. Init => IInv
    BY InitHolds
  <1>2. IInv /\ [Next]_vars => IInv'
    BY NextKeeps
  <1>. QED
    BY <1>1, <1>2, PTL DEF Spec

(* The live entries of a node's list are the tasks that wait for it and    *)
(* have not been woken, one each, and no list outgrows waiters_cap         *)
(* (NodeWait::poll, NodeWait::drop, push, close).                          *)
THEOREM ListsExact == Spec => []WaitersExact
  <1>1. IInv => WaitersExact
    BY InvariantMeans
  <1>. QED
    BY <1>1, RoutedInvariant, PTL

(* While a request is queued, a connection to its node is on its way to    *)
(* the queue, whoever else takes it and whatever fails (push).             *)
THEOREM NothingStranded == Spec => []NoStrandedRequest
  <1>1. IInv => NoStrandedRequest
    BY DEF IInv
  <1>. QED
    BY <1>1, RoutedInvariant, PTL
=============================================================================
