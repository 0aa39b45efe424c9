--------------------------- MODULE KvDispatchProofs ---------------------------
(***************************************************************************)
(* Proofs, for every trace, read-ahead and set of workers and connections, *)
(* that KvDispatch neither loses nor repeats a request and forgets no      *)
(* connection that waits for one.                                          *)
(***************************************************************************)
EXTENDS KvDispatch, SequenceTheorems, FiniteSetTheorems, WellFoundedInduction, TLAPS

(* Where a request can be.                                                 *)
InReader(r) == rd = "send" /\ next = r
InChan(r)   == \E i \in 1..Len(chan) : chan[i] = r
Held(r)     == \E w \in Workers : pending[w] = r
Back(r)     == \E w \in Workers : \E i \in 1..Len(returned[w]) : returned[w][i].req = r
Running(r)  == \E c \in Conns : slot[c].job = r
Settled(r)  == r \in settled

(* The reader has taken it up.                                             *)
Known(r) == r < next \/ InReader(r)

(* A known request is somewhere or settled, and no two of those.           *)
OnePlace ==
  \A r \in Reqs :
    /\ Known(r) <=> InReader(r) \/ InChan(r) \/ Held(r) \/ Back(r) \/ Running(r) \/ Settled(r)
    /\ ~(InReader(r) /\ (InChan(r) \/ Held(r) \/ Back(r) \/ Running(r) \/ Settled(r)))
    /\ ~(InChan(r) /\ (Held(r) \/ Back(r) \/ Running(r) \/ Settled(r)))
    /\ ~(Held(r) /\ (Back(r) \/ Running(r) \/ Settled(r)))
    /\ ~(Back(r) /\ (Running(r) \/ Settled(r)))
    /\ ~(Running(r) /\ Settled(r))

(* No place holds a request twice.                                         *)
ChanOnce == \A i, j \in 1..Len(chan) : chan[i] = chan[j] => i = j
HeldOnce == \A v, w \in Workers : pending[v] = pending[w] /\ pending[v] # None => v = w
BackOnce ==
  \A v, w \in Workers : \A i \in 1..Len(returned[v]), j \in 1..Len(returned[w]) :
    returned[v][i].req = returned[w][j].req => v = w /\ i = j
RunningOnce == \A c, d \in Conns : slot[c].job = slot[d].job /\ slot[c].job # None => c = d

(* What a connection's slot holds, by where the connection is.             *)
SlotsMatch ==
  \A c \in Conns :
    /\ cpc[c] \in {"down", "top", "nap", "exited"} => slot[c].job = None
    /\ cpc[c] \in {"lookup", "ops"} => slot[c].job # None
    /\ slot[c].job # None => slot[c].done

(* The queue of a worker: the connections that wait, each once.            *)
QueueExact ==
  \A w \in Workers :
    /\ \A i \in 1..Len(waiting[w]) :
         /\ WorkerOf[waiting[w][i]] = w
         /\ cpc[waiting[w][i]] = "wait" /\ ~slot[waiting[w][i]].done
         /\ \A j \in 1..Len(waiting[w]) : waiting[w][i] = waiting[w][j] => i = j
    /\ \A c \in ConnsOf(w) : cpc[c] = "wait" /\ ~slot[c].done =>
         \E i \in 1..Len(waiting[w]) : waiting[w][i] = c
    /\ dpc[w] = "exited" => closed[w]
    /\ closed[w] => waiting[w] = <<>>

(* A run that got past its lookup has not been handed back since.          *)
StoresMatch ==
  \A r \in Reqs :
    /\ stores[r] <= 1
    /\ stores[r] # 0 => Settled(r) \/ \E c \in Conns : slot[c].job = r /\ cpc[c] = "ops"

(* The counters that the runner compares.                                  *)
CountersMatch ==
  /\ counted = (IF rd = "send" THEN next ELSE next - 1)
  /\ rd = "send" => next <= NReqs
  /\ finished = Cardinality(settled)
  /\ watch # "idle" => stopped
  /\ watch = "done" => seen <= finished
  /\ over => stopped /\ \A r \in Reqs : Known(r) => Settled(r)

(* TypeOK by the parts of the state.                                       *)
Entry == [req : Reqs, failed : BOOLEAN]
Slots == [done : BOOLEAN, job : Reqs \cup {None}]

ReaderTypes ==
  /\ next \in 1..(NReqs + 1) /\ rd \in {"read", "send", "stop", "gone"} /\ err \in BOOLEAN
  /\ counted \in 0..NReqs /\ chan \in Seq(Reqs) /\ Len(chan) <= ReadAhead
  /\ clock \in 0..NReqs
RunnerTypes ==
  /\ phase \in {"Wait", "Run", "Stop"} /\ watch \in {"idle", "stopped", "done"}
  /\ seen \in Nat /\ over \in BOOLEAN
JobTypes ==
  /\ finished \in Nat /\ settled \in SUBSET Reqs
  /\ retried \in [Reqs -> BOOLEAN] /\ dead \in [Reqs -> 0..Cardinality(Conns)]
  /\ stores \in [Reqs -> Nat]
HandedTypes ==
  /\ pending \in [Workers -> Reqs \cup {None}] /\ waiting \in [Workers -> Seq(Conns)]
  /\ returned \in [Workers -> Seq(Entry)] /\ slot \in [Conns -> Slots]
ThreadTypes ==
  /\ thread \in [Workers -> {"none"} \cup Workers \cup Conns]
  /\ dpc \in [Workers -> {"poll", "wait", "exited"}]
  /\ timer \in [Workers -> {"off", "armed", "fired"}]
FlagTypes ==
  /\ exhausted \in [Workers -> BOOLEAN] /\ closed \in [Workers -> BOOLEAN]
  /\ wants \in [Workers -> BOOLEAN] /\ idle \in [Workers -> BOOLEAN]
  /\ woken \in [Workers -> BOOLEAN]
ConnTypes ==
  /\ cpc \in [Conns -> {"down", "top", "wait", "nap", "lookup", "ops", "exited"}]
  /\ alive \in [Conns -> BOOLEAN] /\ ran \in [Conns -> BOOLEAN]

Types ==
  /\ ReaderTypes /\ RunnerTypes /\ JobTypes /\ HandedTypes /\ ThreadTypes /\ FlagTypes
  /\ ConnTypes

IInv ==
  /\ Types /\ OnePlace /\ ChanOnce /\ HeldOnce /\ BackOnce /\ RunningOnce
  /\ SlotsMatch /\ QueueExact /\ StoresMatch /\ CountersMatch

-----------------------------------------------------------------------------
(* Types                                                                   *)

LEMMA TypesAreTypeOK == Types <=> TypeOK
BY Zenon DEF Types, ReaderTypes, RunnerTypes, JobTypes, HandedTypes, ThreadTypes, FlagTypes,
   ConnTypes, TypeOK, Entry, Slots

LEMMA TypesInit == Init => Types
<1> SUFFICES ASSUME Init PROVE Types
  OBVIOUS
<1>1. 0 \in 0..NReqs /\ NReqs \in 0..NReqs /\ 0 \in 0..Cardinality(Conns) /\ 1 \in 1..(NReqs + 1)
  BY KvAssumption, FS_CardinalityType
<1>2. NoSlot \in Slots
  BY DEF NoSlot, Slots
<1>3. ReaderTypes /\ RunnerTypes
  <2>1. <<>> \in Seq(Reqs) /\ Len(<<>>) <= ReadAhead
    BY KvAssumption
  <2>2. clock \in 0..NReqs
    BY <1>1 DEF Init
  <2>3. ReaderTypes
    BY <1>1, <2>1, <2>2, Zenon DEF Init, ReaderTypes
  <2> QED BY <2>3 DEF Init, RunnerTypes
<1>4. JobTypes
  BY <1>1 DEF Init, JobTypes
<1>5. HandedTypes
  <2>1. <<>> \in Seq(Conns) /\ <<>> \in Seq(Entry) /\ None \in Reqs \cup {None}
    OBVIOUS
  <2> QED BY <1>2, <2>1, Zenon DEF Init, HandedTypes
<1>6. ThreadTypes
  BY DEF Init, ThreadTypes
<1>7. FlagTypes /\ ConnTypes
  BY DEF Init, FlagTypes, ConnTypes
<1> QED
  BY <1>3, <1>4, <1>5, <1>6, <1>7 DEF Types

(* What does not change keeps its type.                                    *)
LEMMA TypesKept ==
  ASSUME Types
  PROVE  /\ UNCHANGED <<readerVars, chan, clock>> => ReaderTypes'
         /\ UNCHANGED runnerVars => RunnerTypes'
         /\ UNCHANGED <<doneVars, jobVars, stores>> => JobTypes'
         /\ UNCHANGED <<pending, waiting, returned, slot>> => HandedTypes'
         /\ UNCHANGED <<thread, dpc, timer>> => ThreadTypes'
         /\ UNCHANGED <<exhausted, closed, wakeVars>> => FlagTypes'
         /\ UNCHANGED connVars => ConnTypes'
<1>1. UNCHANGED <<readerVars, chan, clock>> => ReaderTypes'
  BY DEF Types, ReaderTypes, readerVars
<1>2. UNCHANGED runnerVars => RunnerTypes'
  BY DEF Types, RunnerTypes, runnerVars
<1>3. UNCHANGED <<doneVars, jobVars, stores>> => JobTypes'
  BY DEF Types, JobTypes, doneVars, jobVars
<1>4. UNCHANGED <<pending, waiting, returned, slot>> => HandedTypes'
  BY DEF Types, HandedTypes
<1>5. UNCHANGED <<thread, dpc, timer>> => ThreadTypes'
  BY DEF Types, ThreadTypes
<1>6. UNCHANGED <<exhausted, closed, wakeVars>> => FlagTypes'
  BY DEF Types, FlagTypes, wakeVars
<1>7. UNCHANGED connVars => ConnTypes'
  BY DEF Types, ConnTypes, connVars
<1> QED
  BY <1>1, <1>2, <1>3, <1>4, <1>5, <1>6, <1>7

-----------------------------------------------------------------------------
(* Sequences of distinct elements                                          *)

(* A non-empty sequence without its head.                                  *)
LEMMA TailFacts ==
  ASSUME NEW S, NEW s \in Seq(S), s # <<>>
  PROVE  /\ Len(s) \in Nat \ {0} /\ Tail(s) \in Seq(S) /\ Head(s) \in S /\ Head(s) = s[1]
         /\ 1 \in 1..Len(s)
         /\ Len(Tail(s)) = Len(s) - 1
         /\ \A i \in 1..Len(Tail(s)) : i + 1 \in 1..Len(s) /\ Tail(s)[i] = s[i + 1]
         /\ \A i \in 1..Len(s) : i # 1 => i - 1 \in 1..Len(Tail(s)) /\ Tail(s)[i - 1] = s[i]
<1>1. Len(s) \in Nat \ {0} /\ Head(s) = s[1]
  BY EmptySeq
<1>2. /\ Head(s) \in S /\ Tail(s) \in Seq(S) /\ Len(Tail(s)) = Len(s) - 1
      /\ \A i \in 1..Len(Tail(s)) : Tail(s)[i] = s[i + 1]
  BY HeadTailProperties
<1>3. \A i \in 1..Len(s) : i # 1 => i - 1 \in 1..Len(Tail(s)) /\ Tail(s)[i - 1] = s[i]
  <2> SUFFICES ASSUME NEW i \in 1..Len(s), i # 1
               PROVE  i - 1 \in 1..Len(Tail(s)) /\ Tail(s)[i - 1] = s[i]
    OBVIOUS
  <2>1. i - 1 \in 1..Len(Tail(s)) /\ (i - 1) + 1 = i
    BY <1>1, <1>2
  <2> QED BY <2>1, <1>2
<1> QED
  BY <1>1, <1>2, <1>3

(* A sequence with an element more.                                        *)
LEMMA AppendFacts ==
  ASSUME NEW S, NEW s \in Seq(S), NEW x \in S
  PROVE  /\ Len(s) \in Nat /\ Append(s, x) \in Seq(S) /\ Len(Append(s, x)) = Len(s) + 1
         /\ Len(s) + 1 \in 1..Len(Append(s, x)) /\ Append(s, x)[Len(s) + 1] = x
         /\ \A i \in 1..Len(s) : i \in 1..Len(Append(s, x)) /\ Append(s, x)[i] = s[i]
         /\ \A i \in 1..Len(Append(s, x)) : i # Len(s) + 1 => i \in 1..Len(s)
<1>1. Len(s) \in Nat
  BY LenProperties
<1> QED
  BY <1>1, AppendProperties

(* A set of naturals that holds all below an element is an initial segment *)
(* of them: what is failed at the front of a queue is a prefix of it.      *)
LEMMA Prefix ==
  ASSUME NEW n \in Nat, NEW F \in SUBSET (1..n),
         \A i \in F : \A j \in 1..i : j \in F
  PROVE  /\ IsFiniteSet(F) /\ Cardinality(F) \in 0..n
         /\ F = 1..Cardinality(F)
<1> DEFINE T == {k \in Nat : k + 1 \notin F}
<1>1. n \in T
  OBVIOUS
<1>2. PICK k \in T : \A y \in T : ~(<<y, k>> \in OpToRel(<, Nat))
  <2>1. IsWellFoundedOn(OpToRel(<, Nat), Nat)
    BY NatLessThanWellFounded
  <2>2. T \subseteq Nat /\ T # {}
    BY <1>1
  <2> HIDE DEF T
  <2> QED BY <2>1, <2>2, WFMin
<1>3. k \in Nat /\ k + 1 \notin F
  OBVIOUS
<1>4. \A y \in Nat : y < k => y + 1 \in F
  BY <1>2 DEF OpToRel
<1>5. F = 1..k
  <2>1. ASSUME NEW i \in 1..k PROVE i \in F
    <3>1. i - 1 \in Nat /\ i - 1 < k /\ (i - 1) + 1 = i
      BY <1>3
    <3> QED BY <3>1, <1>4
  <2>2. ASSUME NEW i \in F PROVE i \in 1..k
    <3>1. ASSUME ~(i <= k) PROVE FALSE
      <4>1. k + 1 \in 1..i
        BY <1>3, <3>1
      <4> QED BY <4>1, <1>3
    <3> QED BY <3>1, <1>3
  <2> QED BY <2>1, <2>2
<1>6. IsFiniteSet(F) /\ Cardinality(F) = k
  BY <1>3, <1>5, FS_Interval
<1>7. k <= n
  <2>1. ASSUME ~(k <= n) PROVE FALSE
    <3>1. k \in 1..k
      BY <2>1, <1>3
    <3> QED BY <2>1, <3>1, <1>5
  <2> QED BY <2>1, <1>3
<1> QED
  BY <1>3, <1>5, <1>6, <1>7

-----------------------------------------------------------------------------
(* Places that do not change                                               *)

(* The handed-back requests of every worker are the same, in order.        *)
SameBack ==
  \A w \in Workers : /\ Len(returned'[w]) = Len(returned[w])
                     /\ \A i \in 1..Len(returned[w]) : returned'[w][i].req = returned[w][i].req

LEMMA PlacesKept ==
  ASSUME IInv
  PROVE  /\ UNCHANGED <<rd, next>> =>
              \A r \in Reqs : (InReader(r)' <=> InReader(r)) /\ (Known(r)' <=> Known(r))
         /\ UNCHANGED chan => ChanOnce' /\ \A r \in Reqs : InChan(r)' <=> InChan(r)
         /\ UNCHANGED pending => HeldOnce' /\ \A r \in Reqs : Held(r)' <=> Held(r)
         /\ SameBack => BackOnce' /\ \A r \in Reqs : Back(r)' <=> Back(r)
         /\ UNCHANGED slot => RunningOnce' /\ \A r \in Reqs : Running(r)' <=> Running(r)
         /\ UNCHANGED settled => \A r \in Reqs : Settled(r)' <=> Settled(r)
<1> USE DEF IInv
<1>1. UNCHANGED <<rd, next>> =>
        \A r \in Reqs : (InReader(r)' <=> InReader(r)) /\ (Known(r)' <=> Known(r))
  BY DEF InReader, Known
<1>2. UNCHANGED chan => ChanOnce' /\ \A r \in Reqs : InChan(r)' <=> InChan(r)
  BY DEF ChanOnce, InChan
<1>3. UNCHANGED pending => HeldOnce' /\ \A r \in Reqs : Held(r)' <=> Held(r)
  BY DEF HeldOnce, Held
<1>4. SameBack => BackOnce' /\ \A r \in Reqs : Back(r)' <=> Back(r)
  BY DEF BackOnce, Back, SameBack
<1>5. UNCHANGED slot => RunningOnce' /\ \A r \in Reqs : Running(r)' <=> Running(r)
  BY DEF RunningOnce, Running
<1>6. UNCHANGED settled => \A r \in Reqs : Settled(r)' <=> Settled(r)
  BY DEF Settled
<1> QED
  BY <1>1, <1>2, <1>3, <1>4, <1>5, <1>6

LEMMA SameBackKept ==
  UNCHANGED returned => SameBack
BY DEF SameBack

(* The queues of connections, when only connections that do not wait move. *)
LEMMA QueueKept ==
  ASSUME IInv, UNCHANGED <<waiting, slot, closed>>,
         \A w \in Workers : dpc'[w] = "exited" => dpc[w] = "exited",
         \A c \in Conns : cpc'[c] = "wait" <=> cpc[c] = "wait"
  PROVE  QueueExact'
<1>1. \A w \in Workers : \A i \in 1..Len(waiting[w]) : waiting[w][i] \in Conns
  BY ElementOfSeq DEF IInv, Types, HandedTypes
<1> QED
  BY <1>1 DEF IInv, QueueExact, ConnsOf

LEMMA StoresKept ==
  ASSUME IInv, UNCHANGED <<stores, slot, settled>>,
         \A c \in Conns : cpc[c] = "ops" => cpc'[c] = "ops"
  PROVE  StoresMatch'
BY DEF IInv, StoresMatch, Settled

(* Nothing moves: the steps that only pass time, wake or wait.             *)
LEMMA QuietStep ==
  ASSUME IInv, Types', UNCHANGED <<rd, next, chan, pending, slot, settled, waiting, closed>>,
         UNCHANGED <<stores, counted, finished>>, SameBack,
         \A w \in Workers : dpc'[w] = "exited" => dpc[w] = "exited",
         \A c \in Conns : cpc'[c] = cpc[c] \/ (cpc[c] = "down" /\ cpc'[c] = "top"),
         watch' # "idle" => stopped,
         watch' = "done" => seen' <= finished,
         over' => over
  PROVE  IInv'
<1>1. OnePlace' /\ ChanOnce' /\ HeldOnce' /\ BackOnce' /\ RunningOnce'
  BY PlacesKept DEF IInv, OnePlace
<1>2. SlotsMatch'
  BY DEF IInv, SlotsMatch
<1>3. QueueExact'
  BY QueueKept
<1>4. StoresMatch'
  BY StoresKept
<1>5. CountersMatch'
  BY DEF IInv, CountersMatch, stopped, Known, InReader, Settled
<1> QED
  BY <1>1, <1>2, <1>3, <1>4, <1>5 DEF IInv

-----------------------------------------------------------------------------
(* The reader, the clock and the runner                                    *)

(* A request is counted before it is sent.                                 *)
LEMMA CountStep ==
  ASSUME IInv, CountRequest
  PROVE  IInv'
<1> USE DEF readerOnly, doneVars, dispVars, wakeVars, connVars, jobVars, runnerVars
<1>1. /\ rd = "read" /\ rd' = "send" /\ next \in Reqs /\ counted' = counted + 1
      /\ counted = next - 1 /\ next <= NReqs
      /\ UNCHANGED <<next, err, chan, clock, readerOnly>>
  BY KvAssumption DEF CountRequest, IInv, Types, ReaderTypes, CountersMatch, Reqs
<1>2. Types'
  <2>1. ReaderTypes'
    BY <1>1, KvAssumption DEF IInv, Types, ReaderTypes, Reqs
  <2> QED BY <1>1, <2>1, TypesKept DEF IInv, Types
<1>3. \A r \in Reqs : ~InReader(r) /\ (InReader(r)' <=> r = next) /\ (Known(r)' <=> Known(r) \/ r = next)
  BY <1>1 DEF InReader, Known
<1>4. ~Known(next)
  BY <1>1 DEF Known, InReader, Reqs
<1>5. OnePlace' /\ ChanOnce' /\ HeldOnce' /\ BackOnce' /\ RunningOnce'
  <2>1. /\ ChanOnce' /\ HeldOnce' /\ BackOnce' /\ RunningOnce'
        /\ \A r \in Reqs : /\ InChan(r)' <=> InChan(r)
                           /\ Held(r)' <=> Held(r)
                           /\ Back(r)' <=> Back(r)
                           /\ Running(r)' <=> Running(r)
                           /\ Settled(r)' <=> Settled(r)
    BY <1>1, PlacesKept, SameBackKept
  <2> QED BY <1>3, <1>4, <1>1, <2>1 DEF IInv, OnePlace
<1>6. SlotsMatch'
  BY <1>1 DEF IInv, SlotsMatch
<1>7. QueueExact'
  BY <1>1, QueueKept
<1>8. StoresMatch'
  BY <1>1, StoresKept
<1>9. CountersMatch'
  BY <1>1, KvAssumption DEF IInv, CountersMatch, stopped, Types, ReaderTypes
<1> QED
  BY <1>2, <1>5, <1>6, <1>7, <1>8, <1>9 DEF IInv

(* It goes from the reader's hands to the channel.                         *)
LEMMA SendStep ==
  ASSUME IInv, SendRequest
  PROVE  IInv'
<1> USE DEF readerOnly, doneVars, dispVars, wakeVars, connVars, jobVars, runnerVars
<1>1. /\ rd = "send" /\ rd' = "read" /\ next \in Reqs /\ next' = next + 1
      /\ counted = next /\ next <= NReqs /\ chan' = Append(chan, next) /\ chan \in Seq(Reqs)
      /\ Len(chan) < ReadAhead
      /\ UNCHANGED <<err, counted, clock, readerOnly>>
  BY KvAssumption DEF SendRequest, IInv, Types, ReaderTypes, CountersMatch, Reqs
<1>2. /\ Len(chan) \in Nat /\ chan' \in Seq(Reqs) /\ Len(chan') = Len(chan) + 1
      /\ Len(chan) + 1 \in 1..Len(chan') /\ chan'[Len(chan) + 1] = next
      /\ \A i \in 1..Len(chan) : i \in 1..Len(chan') /\ chan'[i] = chan[i]
      /\ \A i \in 1..Len(chan') : i # Len(chan) + 1 => i \in 1..Len(chan)
  BY <1>1, AppendFacts
<1>3. Types'
  <2>1. Len(chan') <= ReadAhead /\ next' \in 1..(NReqs + 1)
    BY <1>1, <1>2, KvAssumption DEF Reqs
  <2>2. ReaderTypes'
    BY <1>1, <1>2, <2>1 DEF IInv, Types, ReaderTypes
  <2> QED BY <1>1, <2>2, TypesKept DEF IInv, Types
<1>4. \A r \in Reqs : ~InReader(r)' /\ (InReader(r) <=> r = next) /\ (Known(r)' <=> Known(r))
  BY <1>1 DEF InReader, Known, Reqs
<1>5. \A r \in Reqs : InChan(r)' <=> InChan(r) \/ r = next
  BY <1>1, <1>2 DEF InChan
<1>6. ~InChan(next)
  BY <1>1, <1>4 DEF IInv, OnePlace
<1>7. ChanOnce'
  <2> SUFFICES ASSUME NEW i \in 1..Len(chan'), NEW j \in 1..Len(chan'), chan'[i] = chan'[j]
               PROVE  i = j
    BY DEF ChanOnce
  <2> QED BY <1>2, <1>6 DEF IInv, ChanOnce, InChan
<1>8. OnePlace' /\ HeldOnce' /\ BackOnce' /\ RunningOnce'
  <2>1. /\ HeldOnce' /\ BackOnce' /\ RunningOnce'
        /\ \A r \in Reqs : /\ Held(r)' <=> Held(r)
                           /\ Back(r)' <=> Back(r)
                           /\ Running(r)' <=> Running(r)
                           /\ Settled(r)' <=> Settled(r)
    BY <1>1, PlacesKept, SameBackKept
  <2> QED BY <1>4, <1>5, <1>1, <2>1 DEF IInv, OnePlace
<1>9. SlotsMatch'
  BY <1>1 DEF IInv, SlotsMatch
<1>10. QueueExact'
  BY <1>1, QueueKept
<1>11. StoresMatch'
  BY <1>1, StoresKept
<1>12. CountersMatch'
  BY <1>1, KvAssumption DEF IInv, CountersMatch, stopped, Types, ReaderTypes, Reqs
<1> QED
  BY <1>3, <1>7, <1>8, <1>9, <1>10, <1>11, <1>12 DEF IInv

(* The reader stops, or time passes: no request moves.                     *)
LEMMA ReaderStopsStep ==
  ASSUME IInv, ReaderStops \/ Tick
  PROVE  IInv'
<1> USE DEF readerOnly, doneVars, dispVars, wakeVars, connVars, jobVars, runnerVars, readerVars
<1>1. /\ UNCHANGED <<next, counted, chan, readerOnly>>
      /\ rd' = rd \/ (rd # "send" /\ rd' \in {"stop", "gone"} /\ (stopped => rd' = "gone"))
  BY DEF ReaderStops, Tick, stopped
<1>2. Types'
  <2>1. ReaderTypes'
    <3>1. CASE ReaderStops
      BY <3>1 DEF ReaderStops, IInv, Types, ReaderTypes
    <3>2. CASE Tick
      BY <3>2, KvAssumption DEF Tick, IInv, Types, ReaderTypes
    <3> QED BY <3>1, <3>2
  <2> QED BY <1>1, <2>1, TypesKept DEF IInv, Types
<1>3. \A r \in Reqs : (InReader(r)' <=> InReader(r)) /\ (Known(r)' <=> Known(r))
  BY <1>1 DEF InReader, Known
<1>4. OnePlace' /\ ChanOnce' /\ HeldOnce' /\ BackOnce' /\ RunningOnce'
  <2>1. /\ ChanOnce' /\ HeldOnce' /\ BackOnce' /\ RunningOnce'
        /\ \A r \in Reqs : /\ InChan(r)' <=> InChan(r)
                           /\ Held(r)' <=> Held(r)
                           /\ Back(r)' <=> Back(r)
                           /\ Running(r)' <=> Running(r)
                           /\ Settled(r)' <=> Settled(r)
    BY <1>1, PlacesKept, SameBackKept
  <2> QED BY <1>3, <2>1 DEF IInv, OnePlace
<1>5. SlotsMatch'
  BY <1>1 DEF IInv, SlotsMatch
<1>6. QueueExact'
  BY <1>1, QueueKept
<1>7. StoresMatch'
  BY <1>1, StoresKept
<1>8. CountersMatch'
  <2>1. \A r \in Reqs : Settled(r)' <=> Settled(r)
    BY <1>1 DEF Settled
  <2> QED BY <1>1, <1>3, <2>1 DEF IInv, CountersMatch, stopped
<1> QED
  BY <1>2, <1>4, <1>5, <1>6, <1>7, <1>8 DEF IInv

(* As many requests are settled as were counted: all of them.              *)
LEMMA AllSettled ==
  ASSUME IInv, stopped, finished >= counted
  PROVE  \A r \in Reqs : Known(r) => Settled(r)
<1>1. /\ next \in 1..(NReqs + 1) /\ counted = next - 1 /\ finished = Cardinality(settled)
      /\ settled \in SUBSET Reqs /\ NReqs \in Nat
  BY KvAssumption DEF IInv, Types, ReaderTypes, JobTypes, CountersMatch, stopped
<1>2. \A r \in Reqs : Known(r) <=> r \in 1..(next - 1)
  BY <1>1 DEF Known, InReader, stopped, Reqs
<1>3. settled \in SUBSET (1..(next - 1))
  BY <1>1, <1>2 DEF IInv, OnePlace, Settled
<1>4. IsFiniteSet(1..(next - 1)) /\ Cardinality(1..(next - 1)) = next - 1
  BY <1>1, FS_Interval
<1>5. Cardinality(settled) <= next - 1 /\ (Cardinality(settled) = next - 1 => settled = 1..(next - 1))
  BY <1>3, <1>4, FS_Subset
<1>6. finished \in Nat
  BY DEF IInv, Types, JobTypes
<1>7. settled = 1..(next - 1)
  BY <1>1, <1>5, <1>6
<1> QED
  BY <1>2, <1>7 DEF Settled

(* is_finished reads `stopped`, then `finished`, then `sent`: the second   *)
(* can only grow and the third no longer changes.                          *)
LEMMA RunnerStep ==
  ASSUME IInv, Runner
  PROVE  IInv'
<1> USE DEF runnerOnly, doneVars, dispVars, wakeVars, connVars, jobVars, readerVars
<1>1. UNCHANGED runnerOnly
  BY DEF Runner, StartReplay, LoadStopped, LoadFinished, LoadSent, StopEarly
<1>2. /\ watch \in {"idle", "stopped", "done"} /\ seen \in Nat /\ over \in BOOLEAN
      /\ phase \in {"Wait", "Run", "Stop"} /\ finished \in Nat /\ counted \in Nat
  BY DEF IInv, Types, RunnerTypes, JobTypes, ReaderTypes
<1>3. Types'
  <2>1. RunnerTypes'
    <3>1. CASE LoadSent
      <4>1. over' \in BOOLEAN
        BY <1>2, <3>1 DEF LoadSent
      <4> QED BY <1>2, <3>1, <4>1 DEF LoadSent, RunnerTypes
    <3>2. CASE LoadFinished
      BY <1>2, <3>2 DEF LoadFinished, RunnerTypes
    <3>3. CASE StartReplay \/ LoadStopped \/ StopEarly
      BY <1>2, <3>3 DEF StartReplay, LoadStopped, StopEarly, RunnerTypes
    <3> QED BY <3>1, <3>2, <3>3 DEF Runner
  <2> QED BY <1>1, <2>1, TypesKept DEF IInv, Types
<1>4. (watch' # "idle" => stopped) /\ (watch' = "done" => seen' <= finished)
  BY <1>2 DEF IInv, CountersMatch, Runner, StartReplay, LoadStopped, LoadFinished, LoadSent,
              StopEarly
<1>5. ASSUME over' PROVE over \/ (stopped /\ \A r \in Reqs : Known(r) => Settled(r))
  <2>1. CASE LoadSent
    <3>1. stopped /\ seen <= finished /\ seen >= counted
      BY <1>5, <2>1 DEF LoadSent, IInv, CountersMatch
    <3> QED BY <1>2, <3>1, AllSettled
  <2>2. CASE ~LoadSent
    BY <1>5, <2>2 DEF Runner, StartReplay, LoadStopped, LoadFinished, StopEarly
  <2> QED BY <2>1, <2>2
<1>6. OnePlace' /\ ChanOnce' /\ HeldOnce' /\ BackOnce' /\ RunningOnce'
  BY <1>1, PlacesKept, SameBackKept DEF IInv, OnePlace
<1>7. SlotsMatch'
  BY <1>1 DEF IInv, SlotsMatch
<1>8. QueueExact'
  BY <1>1, QueueKept
<1>9. StoresMatch'
  BY <1>1, StoresKept
<1>10. CountersMatch'
  BY <1>1, <1>4, <1>5 DEF IInv, CountersMatch, stopped, Known, InReader, Settled
<1> QED
  BY <1>3, <1>6, <1>7, <1>8, <1>9, <1>10 DEF IInv

-----------------------------------------------------------------------------
(* The dispatcher                                                          *)

(* The dispatcher waits, wakes or goes back to sleep.                      *)
LEMMA DispatcherQuiet ==
  ASSUME IInv, NEW w \in Workers,
         AwaitStart(w) \/ TimerFires(w) \/ DispatcherResumes(w) \/ DispatcherRewaits(w)
  PROVE  IInv'
<1> USE DEF dispOnly, doneVars, dispVars, wakeVars, connVars, jobVars, readerVars, runnerVars
<1>1. /\ UNCHANGED <<dispOnly, chan, doneVars, pending, exhausted, closed, waiting, slot, returned>>
      /\ dpc' = dpc \/ dpc' = [dpc EXCEPT ![w] = "poll"]
      /\ thread' = thread \/ thread' = [thread EXCEPT ![w] = "none"]
         \/ thread' = [thread EXCEPT ![w] = w]
      /\ timer' = timer \/ timer' = [timer EXCEPT ![w] = "armed"]
         \/ timer' = [timer EXCEPT ![w] = "fired"] \/ timer' = [timer EXCEPT ![w] = "off"]
  BY DEF AwaitStart, TimerFires, DispatcherResumes, DispatcherRewaits
<1>2. /\ wants' = wants \/ wants' = [wants EXCEPT ![w] = FALSE]
      /\ idle' = idle \/ idle' = [idle EXCEPT ![w] = FALSE] \/ idle' = [idle EXCEPT ![w] = TRUE]
      /\ woken' = woken \/ woken' = [woken EXCEPT ![w] = FALSE]
         \/ woken' = [woken EXCEPT ![w] = TRUE]
  BY DEF AwaitStart, TimerFires, DispatcherResumes, DispatcherRewaits
<1>3. ThreadTypes'
  BY <1>1 DEF IInv, Types, ThreadTypes
<1>4. FlagTypes'
  BY <1>1, <1>2 DEF IInv, Types, FlagTypes
<1>5. Types'
  BY <1>1, <1>3, <1>4, TypesKept DEF IInv, Types
<1>6. \A v \in Workers : dpc'[v] = "exited" => dpc[v] = "exited"
  BY <1>1 DEF IInv, Types, ThreadTypes
<1>7. (watch # "idle" => stopped) /\ (watch = "done" => seen <= finished)
  BY DEF IInv, CountersMatch
<1> QED
  BY <1>1, <1>5, <1>6, <1>7, QuietStep, SameBackKept

(* The longest-waiting connection of a worker is one of its own, waits and *)
(* has nothing in its slot; taking it off the queue keeps the rest.        *)
LEMMA HeadWaits ==
  ASSUME IInv, NEW w \in Workers, waiting[w] # <<>>
  PROVE  /\ Head(waiting[w]) \in Conns /\ WorkerOf[Head(waiting[w])] = w
         /\ cpc[Head(waiting[w])] = "wait" /\ ~slot[Head(waiting[w])].done
         /\ slot[Head(waiting[w])].job = None /\ ~closed[w]
<1>1. waiting[w] \in Seq(Conns)
  BY DEF IInv, Types, HandedTypes
<1>2. Head(waiting[w]) \in Conns /\ Head(waiting[w]) = waiting[w][1] /\ 1 \in 1..Len(waiting[w])
  BY <1>1, TailFacts
<1> QED
  BY <1>2 DEF IInv, QueueExact, SlotsMatch

LEMMA HandToQueue ==
  ASSUME IInv, NEW w \in Workers, waiting[w] # <<>>, NEW job \in Reqs, HandTo(w, job),
         UNCHANGED <<cpc, dpc, closed>>
  PROVE  /\ QueueExact' /\ SlotsMatch'
         /\ waiting' \in [Workers -> Seq(Conns)] /\ slot' \in [Conns -> Slots]
<1> DEFINE h == Head(waiting[w])
<1>1. h \in Conns /\ WorkerOf[h] = w /\ cpc[h] = "wait" /\ ~slot[h].done /\ ~closed[w]
  BY HeadWaits
<1>2. /\ waiting \in [Workers -> Seq(Conns)] /\ slot \in [Conns -> Slots]
      /\ slot' = [slot EXCEPT ![h] = [done |-> TRUE, job |-> job]]
      /\ waiting' = [waiting EXCEPT ![w] = Tail(waiting[w])]
  BY DEF HandTo, IInv, Types, HandedTypes
<1>3. /\ Tail(waiting[w]) \in Seq(Conns) /\ Len(Tail(waiting[w])) = Len(waiting[w]) - 1
      /\ h = waiting[w][1] /\ 1 \in 1..Len(waiting[w]) /\ Len(waiting[w]) \in Nat
      /\ \A i \in 1..Len(Tail(waiting[w])) :
           i + 1 \in 1..Len(waiting[w]) /\ Tail(waiting[w])[i] = waiting[w][i + 1]
      /\ \A i \in 1..Len(waiting[w]) :
           i # 1 => i - 1 \in 1..Len(Tail(waiting[w])) /\ Tail(waiting[w])[i - 1] = waiting[w][i]
  BY <1>2, TailFacts
<1>4. [done |-> TRUE, job |-> job] \in Slots
  <2>1. TRUE \in BOOLEAN /\ job \in Reqs \cup {None}
    OBVIOUS
  <2> QED BY <2>1, Zenon DEF Slots
<1>5. waiting' \in [Workers -> Seq(Conns)] /\ slot' \in [Conns -> Slots]
  BY <1>2, <1>3, <1>4
<1>6. job # None
  BY DEF Reqs, None
<1>7. SlotsMatch'
  BY <1>1, <1>2, <1>6 DEF IInv, SlotsMatch
<1>8. \A v \in Workers : \A i \in 1..Len(waiting[v]) : waiting[v][i] \in Conns
  BY <1>2, ElementOfSeq
<1>9. ASSUME NEW v \in Workers, v # w
      PROVE  /\ waiting'[v] = waiting[v]
             /\ \A i \in 1..Len(waiting[v]) : slot'[waiting[v][i]] = slot[waiting[v][i]]
             /\ \A c \in ConnsOf(v) : slot'[c] = slot[c]
  BY <1>1, <1>2, <1>8, <1>9 DEF IInv, QueueExact, ConnsOf
<1>10. ASSUME NEW v \in Workers, v # w
       PROVE  /\ \A i \in 1..Len(waiting'[v]) :
                   /\ WorkerOf[waiting'[v][i]] = v
                   /\ cpc'[waiting'[v][i]] = "wait" /\ ~slot'[waiting'[v][i]].done
                   /\ \A j \in 1..Len(waiting'[v]) : waiting'[v][i] = waiting'[v][j] => i = j
              /\ \A c \in ConnsOf(v) : cpc'[c] = "wait" /\ ~slot'[c].done =>
                   \E i \in 1..Len(waiting'[v]) : waiting'[v][i] = c
              /\ dpc'[v] = "exited" => closed'[v]
              /\ closed'[v] => waiting'[v] = <<>>
  BY <1>9, <1>10 DEF IInv, QueueExact
<1>11. waiting'[w] = Tail(waiting[w])
  BY <1>2
<1>12. ASSUME NEW i \in 1..Len(waiting'[w])
       PROVE  /\ WorkerOf[waiting'[w][i]] = w
              /\ cpc'[waiting'[w][i]] = "wait" /\ ~slot'[waiting'[w][i]].done
              /\ \A j \in 1..Len(waiting'[w]) : waiting'[w][i] = waiting'[w][j] => i = j
  <2>1. i + 1 \in 1..Len(waiting[w]) /\ waiting'[w][i] = waiting[w][i + 1] /\ i + 1 # 1
    BY <1>3, <1>11
  <2>2. waiting[w][i + 1] # h
    BY <1>3, <2>1 DEF IInv, QueueExact
  <2>3. slot'[waiting[w][i + 1]] = slot[waiting[w][i + 1]]
    BY <1>2, <1>8, <2>1, <2>2
  <2>4. \A j \in 1..Len(waiting'[w]) : waiting'[w][i] = waiting'[w][j] => i = j
    <3> SUFFICES ASSUME NEW j \in 1..Len(waiting'[w]), waiting'[w][i] = waiting'[w][j]
                 PROVE  i = j
      OBVIOUS
    <3>1. j + 1 \in 1..Len(waiting[w]) /\ waiting'[w][j] = waiting[w][j + 1]
      BY <1>3, <1>11
    <3>2. i + 1 = j + 1
      <4>1. \A m, n \in 1..Len(waiting[w]) : waiting[w][m] = waiting[w][n] => m = n
        BY DEF IInv, QueueExact
      <4>2. waiting[w][i + 1] = waiting[w][j + 1]
        BY <2>1, <3>1
      <4> QED BY <2>1, <3>1, <4>1, <4>2, Zenon
    <3> QED BY <1>3, <1>11, <3>2
  <2> QED BY <2>1, <2>3, <2>4 DEF IInv, QueueExact
<1>13. ASSUME NEW c \in ConnsOf(w), cpc'[c] = "wait", ~slot'[c].done
       PROVE  \E i \in 1..Len(waiting'[w]) : waiting'[w][i] = c
  <2>1. c # h /\ c \in Conns /\ slot'[c] = slot[c]
    BY <1>1, <1>2, <1>13 DEF ConnsOf
  <2>2. PICK i \in 1..Len(waiting[w]) : waiting[w][i] = c
    BY <1>13, <2>1 DEF IInv, QueueExact
  <2>3. i # 1
    BY <1>3, <2>1, <2>2
  <2> QED BY <1>3, <1>11, <2>2, <2>3
<1>14. QueueExact'
  BY <1>1, <1>10, <1>12, <1>13 DEF IInv, QueueExact, ConnsOf
<1> QED
  BY <1>5, <1>7, <1>14

(* The connection that is served now runs the request, and no other does.  *)
LEMMA HandToRuns ==
  ASSUME IInv, NEW w \in Workers, waiting[w] # <<>>, NEW job \in Reqs, HandTo(w, job),
         ~Running(job), UNCHANGED <<cpc, stores, settled>>
  PROVE  /\ RunningOnce' /\ StoresMatch'
         /\ \A r \in Reqs : Running(r)' <=> Running(r) \/ r = job
<1> DEFINE h == Head(waiting[w])
<1>1. h \in Conns /\ slot[h].job = None /\ cpc[h] = "wait"
  BY HeadWaits
<1>2. /\ slot' = [slot EXCEPT ![h] = [done |-> TRUE, job |-> job]] /\ slot \in [Conns -> Slots]
  BY DEF HandTo, IInv, Types, HandedTypes
<1>3. slot'[h].job = job /\ \A c \in Conns : c # h => slot'[c] = slot[c]
  BY <1>1, <1>2
<1>4. None \notin Reqs
  BY DEF None, Reqs
<1>5. RunningOnce'
  BY <1>1, <1>3, <1>4 DEF IInv, RunningOnce, Running
<1>6. \A r \in Reqs : Running(r)' <=> Running(r) \/ r = job
  BY <1>1, <1>3, <1>4 DEF Running
<1>7. StoresMatch'
  <2>1. \A c \in Conns : cpc[c] = "ops" => slot'[c] = slot[c]
    BY <1>1, <1>3
  <2> QED BY <2>1 DEF IInv, StoresMatch, Settled
<1> QED
  BY <1>5, <1>6, <1>7

(* The requests handed back to other workers.                              *)
BackElsewhere(w, r) ==
  \E v \in Workers : v # w /\ \E i \in 1..Len(returned[v]) : returned[v][i].req = r

(* The requests of q are distinct, and no other worker's.                  *)
OwnQueue(w, q) ==
  /\ \A i, j \in 1..Len(q) : q[i].req = q[j].req => i = j
  /\ \A i \in 1..Len(q) : ~BackElsewhere(w, q[i].req)

(* The handed-back requests of a worker become those of q but its first k. *)
BecomesRest(w, q, k) ==
  /\ \A v \in Workers : v # w => returned'[v] = returned[v]
  /\ Len(returned'[w]) = Len(q) - k
  /\ \A i \in 1..(Len(q) - k) : returned'[w][i] = q[i + k]

LEMMA BackMoved ==
  ASSUME BackOnce, NEW w \in Workers, NEW q \in Seq(Entry), NEW k \in Nat, k <= Len(q),
         OwnQueue(w, q), BecomesRest(w, q, k)
  PROVE  /\ BackOnce'
         /\ \A r \in Reqs : Back(r)' <=> \/ BackElsewhere(w, r)
                                        \/ \E i \in 1..Len(q) : k < i /\ q[i].req = r
<1> USE DEF OwnQueue, BecomesRest
<1>1. Len(q) \in Nat
  BY LenProperties
<1>2. \A i \in 1..Len(returned'[w]) : /\ i \in Nat /\ i + k \in 1..Len(q) /\ k < i + k
                                      /\ returned'[w][i] = q[i + k]
  BY <1>1
<1>3. \A i \in 1..Len(q) : k < i => /\ i - k \in 1..Len(returned'[w])
                                    /\ returned'[w][i - k] = q[i]
  <2> SUFFICES ASSUME NEW i \in 1..Len(q), k < i
               PROVE  i - k \in 1..Len(returned'[w]) /\ returned'[w][i - k] = q[i]
    OBVIOUS
  <2>1. i - k \in 1..(Len(q) - k) /\ (i - k) + k = i
    BY <1>1
  <2> QED BY <2>1
<1>4. \A u, v \in Workers : \A i \in 1..Len(returned[u]), j \in 1..Len(returned[v]) :
         returned[u][i].req = returned[v][j].req => u = v /\ i = j
  BY DEF BackOnce
<1>5. \A v \in Workers : v # w => \A i \in 1..Len(returned[v]), j \in 1..Len(q) :
         returned[v][i].req # q[j].req
  BY DEF BackElsewhere
<1>6. BackOnce'
  <2> SUFFICES ASSUME NEW u \in Workers, NEW v \in Workers,
                      NEW i \in 1..Len(returned'[u]), NEW j \in 1..Len(returned'[v]),
                      returned'[u][i].req = returned'[v][j].req
               PROVE  u = v /\ i = j
    BY DEF BackOnce
  <2>1. CASE u # w /\ v # w
    <3>1. returned'[u] = returned[u] /\ returned'[v] = returned[v]
      BY <2>1
    <3>2. /\ i \in 1..Len(returned[u]) /\ j \in 1..Len(returned[v])
          /\ returned[u][i].req = returned[v][j].req
      BY <3>1
    <3> HIDE DEF OwnQueue, BecomesRest
    <3>3. \A x \in 1..Len(returned[u]), y \in 1..Len(returned[v]) :
             returned[u][x].req = returned[v][y].req => u = v /\ x = y
      BY <1>4
    <3> QED BY <3>2, <3>3
  <2>2. CASE u = w /\ v # w
    <3>1. i + k \in 1..Len(q) /\ returned'[u][i] = q[i + k]
      BY <1>2, <2>2
    <3>2. j \in 1..Len(returned[v]) /\ returned'[v][j] = returned[v][j]
      BY <2>2
    <3> QED BY <1>5, <2>2, <3>1, <3>2
  <2>3. CASE u # w /\ v = w
    <3>1. j + k \in 1..Len(q) /\ returned'[v][j] = q[j + k]
      BY <1>2, <2>3
    <3>2. i \in 1..Len(returned[u]) /\ returned'[u][i] = returned[u][i]
      BY <2>3
    <3> QED BY <1>5, <2>3, <3>1, <3>2
  <2>4. CASE u = w /\ v = w
    <3>1. /\ i + k \in 1..Len(q) /\ returned'[u][i] = q[i + k] /\ i \in Nat
          /\ j + k \in 1..Len(q) /\ returned'[v][j] = q[j + k] /\ j \in Nat
      BY <1>2, <2>4
    <3>2. q[i + k].req = q[j + k].req
      BY <3>1
    <3>3. i + k = j + k
      BY <3>1, <3>2, Zenon
    <3> QED BY <2>4, <3>1, <3>3
  <2> QED BY <2>1, <2>2, <2>3, <2>4
<1>7. ASSUME NEW r \in Reqs
      PROVE  Back(r)' <=> \/ BackElsewhere(w, r)
                          \/ \E i \in 1..Len(q) : k < i /\ q[i].req = r
  <2>1. Back(r)' <=> \/ \E v \in Workers : v # w /\ \E i \in 1..Len(returned'[v]) : returned'[v][i].req = r
                     \/ \E i \in 1..Len(returned'[w]) : returned'[w][i].req = r
    BY Zenon DEF Back
  <2>2. (\E v \in Workers : v # w /\ \E i \in 1..Len(returned'[v]) : returned'[v][i].req = r)
           <=> BackElsewhere(w, r)
    <3>1. \A v \in Workers : v # w => returned'[v] = returned[v]
      OBVIOUS
    <3> HIDE DEF OwnQueue, BecomesRest
    <3> QED BY <3>1 DEF BackElsewhere
  <2>3. ASSUME NEW i \in 1..Len(returned'[w]), returned'[w][i].req = r
        PROVE  \E m \in 1..Len(q) : k < m /\ q[m].req = r
    <3>1. i + k \in 1..Len(q) /\ k < i + k /\ q[i + k].req = r
      BY <1>2, <2>3
    <3> QED BY <3>1
  <2>4. ASSUME NEW i \in 1..Len(q), k < i, q[i].req = r
        PROVE  \E m \in 1..Len(returned'[w]) : returned'[w][m].req = r
    BY <1>3, <2>4
  <2> QED BY <2>1, <2>2, <2>3, <2>4
<1> QED
  BY <1>6, <1>7

(* Where the handed-back requests are, seen from one worker.               *)
LEMMA BackSplit ==
  ASSUME BackOnce, NEW w \in Workers
  PROVE  /\ \A r \in Reqs : Back(r) <=> \/ BackElsewhere(w, r)
                                        \/ \E i \in 1..Len(returned[w]) : returned[w][i].req = r
         /\ OwnQueue(w, returned[w])
BY DEF BackOnce, Back, BackElsewhere, OwnQueue

(* A handed-back request is given to the connection.                       *)
LEMMA ServeStep ==
  ASSUME IInv, NEW w \in Workers, ServeReturned(w)
  PROVE  IInv'
<1> USE DEF dispOnly, doneVars, dispVars, wakeVars, connVars, jobVars, readerVars, runnerVars
<1> DEFINE q == returned[w]
           r0 == Head(q).req
<1>1. /\ waiting[w] # <<>> /\ q # <<>> /\ HandTo(w, r0)
      /\ returned' = [returned EXCEPT ![w] = Tail(q)]
      /\ UNCHANGED <<dispOnly, chan, doneVars, thread, dispVars, wakeVars>>
  BY DEF ServeReturned
<1>2. returned \in [Workers -> Seq(Entry)] /\ q \in Seq(Entry)
  BY DEF IInv, Types, HandedTypes
<1>3. /\ Len(q) \in Nat /\ Tail(q) \in Seq(Entry) /\ Head(q) \in Entry /\ Head(q) = q[1]
      /\ 1 \in 1..Len(q) /\ Len(Tail(q)) = Len(q) - 1
      /\ \A i \in 1..Len(Tail(q)) : i + 1 \in 1..Len(q) /\ Tail(q)[i] = q[i + 1]
  BY <1>1, <1>2, TailFacts
<1>4. r0 \in Reqs /\ Back(r0)
  BY <1>3 DEF Entry, Back
<1>5. returned'[w] = Tail(q) /\ \A v \in Workers : v # w => returned'[v] = returned[v]
  BY <1>1, <1>2
<1>6. /\ \A r \in Reqs : Back(r) <=> \/ BackElsewhere(w, r)
                                     \/ \E i \in 1..Len(q) : q[i].req = r
      /\ OwnQueue(w, q)
  BY BackSplit DEF IInv
<1> HIDE DEF q
<1>7. /\ BackOnce'
      /\ \A r \in Reqs : Back(r)' <=> \/ BackElsewhere(w, r)
                                      \/ \E i \in 1..Len(q) : 1 < i /\ q[i].req = r
  <2>1. 1 <= Len(q) /\ 1 \in Nat
    BY <1>3
  <2>2. BecomesRest(w, q, 1)
    BY <1>3, <1>5 DEF BecomesRest
  <2>3. BackOnce
    BY DEF IInv
  <2> QED BY <1>2, <1>6, <2>1, <2>2, <2>3, BackMoved
<1>8. \A r \in Reqs : Back(r)' <=> Back(r) /\ r # r0
  <2>1. q[1].req = r0 /\ 1 \in 1..Len(q) /\ ~BackElsewhere(w, r0)
    BY <1>3, <1>6 DEF OwnQueue
  <2>2. \A i \in 1..Len(q) : 1 < i <=> q[i].req # r0
    BY <1>3, <1>6, <2>1 DEF OwnQueue
  <2> HIDE DEF r0
  <2> QED BY <1>6, <1>7, <2>1, <2>2
<1>9. ~Running(r0)
  BY <1>4 DEF IInv, OnePlace
<1>10. /\ QueueExact' /\ SlotsMatch' /\ waiting' \in [Workers -> Seq(Conns)]
       /\ slot' \in [Conns -> Slots]
  BY <1>1, <1>4, HandToQueue
<1>11. RunningOnce' /\ StoresMatch' /\ \A r \in Reqs : Running(r)' <=> Running(r) \/ r = r0
  BY <1>1, <1>4, <1>9, HandToRuns
<1>12. Types'
  <2>1. HandedTypes'
    BY <1>1, <1>2, <1>3, <1>10 DEF HandedTypes, IInv, Types
  <2> QED BY <1>1, <2>1, TypesKept DEF IInv, Types
<1>13. /\ ChanOnce' /\ HeldOnce'
       /\ \A r \in Reqs : /\ InReader(r)' <=> InReader(r)
                          /\ Known(r)' <=> Known(r)
                          /\ InChan(r)' <=> InChan(r)
                          /\ Held(r)' <=> Held(r)
                          /\ Settled(r)' <=> Settled(r)
  BY <1>1, PlacesKept
<1>14. OnePlace'
  BY <1>4, <1>8, <1>11, <1>13 DEF IInv, OnePlace
<1>15. CountersMatch'
  BY <1>1, <1>13 DEF IInv, CountersMatch, stopped
<1> QED
  BY <1>7, <1>10, <1>11, <1>12, <1>13, <1>14, <1>15 DEF IInv

(* The request that is due goes from the dispatcher to the connection.     *)
LEMMA HandOutStep ==
  ASSUME IInv, NEW w \in Workers, HandOut(w)
  PROVE  IInv'
<1> USE DEF dispOnly, doneVars, dispVars, wakeVars, connVars, jobVars, readerVars, runnerVars
<1> DEFINE r0 == pending[w]
<1>1. /\ waiting[w] # <<>> /\ r0 # None /\ HandTo(w, r0)
      /\ pending' = [pending EXCEPT ![w] = None]
      /\ UNCHANGED <<dispOnly, chan, doneVars, thread, dpc, exhausted, closed, timer, returned,
                     wakeVars>>
  BY DEF HandOut
<1>2. pending \in [Workers -> Reqs \cup {None}] /\ r0 \in Reqs /\ Held(r0) /\ None \notin Reqs
  BY <1>1 DEF IInv, Types, HandedTypes, Held, None, Reqs
<1>3. HeldOnce' /\ \A r \in Reqs : Held(r)' <=> Held(r) /\ r # r0
  BY <1>1, <1>2 DEF IInv, HeldOnce, Held
<1>4. ~Running(r0)
  BY <1>2 DEF IInv, OnePlace
<1>5. /\ QueueExact' /\ SlotsMatch' /\ waiting' \in [Workers -> Seq(Conns)]
      /\ slot' \in [Conns -> Slots]
  BY <1>1, <1>2, HandToQueue
<1>6. RunningOnce' /\ StoresMatch' /\ \A r \in Reqs : Running(r)' <=> Running(r) \/ r = r0
  BY <1>1, <1>2, <1>4, HandToRuns
<1>7. Types'
  <2>1. HandedTypes'
    BY <1>1, <1>2, <1>5 DEF HandedTypes, IInv, Types
  <2> QED BY <1>1, <2>1, TypesKept DEF IInv, Types
<1>8. /\ ChanOnce' /\ BackOnce'
      /\ \A r \in Reqs : /\ InReader(r)' <=> InReader(r)
                         /\ Known(r)' <=> Known(r)
                         /\ InChan(r)' <=> InChan(r)
                         /\ Back(r)' <=> Back(r)
                         /\ Settled(r)' <=> Settled(r)
  BY <1>1, PlacesKept, SameBackKept
<1>9. OnePlace'
  BY <1>2, <1>3, <1>6, <1>8 DEF IInv, OnePlace
<1>10. CountersMatch'
  BY <1>1, <1>8 DEF IInv, CountersMatch, stopped
<1> QED
  BY <1>3, <1>5, <1>6, <1>7, <1>8, <1>9, <1>10 DEF IInv

(* A request is taken from the channel.                                    *)
LEMMA ClaimStep ==
  ASSUME IInv, NEW w \in Workers, Claim(w)
  PROVE  IInv'
<1> USE DEF dispOnly, doneVars, dispVars, wakeVars, connVars, jobVars, readerVars, runnerVars
<1>1. /\ pending[w] = None /\ chan \in Seq(Reqs) /\ pending \in [Workers -> Reqs \cup {None}]
      /\ UNCHANGED <<dispOnly, doneVars, thread, dpc, closed, timer, waiting, slot, returned,
                     wakeVars>>
  BY DEF Claim, IInv, Types, ReaderTypes, HandedTypes
<1>2. /\ BackOnce' /\ RunningOnce'
      /\ \A r \in Reqs : /\ InReader(r)' <=> InReader(r)
                         /\ Known(r)' <=> Known(r)
                         /\ Back(r)' <=> Back(r)
                         /\ Running(r)' <=> Running(r)
                         /\ Settled(r)' <=> Settled(r)
  BY <1>1, PlacesKept, SameBackKept
<1>3. SlotsMatch' /\ QueueExact' /\ StoresMatch'
  <2>1. SlotsMatch'
    BY <1>1 DEF IInv, SlotsMatch
  <2> QED BY <1>1, <2>1, QueueKept, StoresKept
<1>4. CountersMatch'
  BY <1>1, <1>2 DEF IInv, CountersMatch, stopped
<1>5. CASE chan = <<>>
  <2>1. UNCHANGED <<pending, chan>> /\ exhausted' = [exhausted EXCEPT ![w] = TRUE]
    BY <1>5 DEF Claim
  <2>2. FlagTypes'
    BY <1>1, <2>1 DEF IInv, Types, FlagTypes
  <2>3. Types'
    BY <1>1, <2>1, <2>2, TypesKept DEF IInv, Types
  <2>4. OnePlace' /\ ChanOnce' /\ HeldOnce'
    BY <1>2, <2>1, PlacesKept DEF IInv, OnePlace
  <2> QED BY <1>2, <1>3, <1>4, <2>3, <2>4 DEF IInv
<1>6. CASE chan # <<>>
  <2> DEFINE r0 == Head(chan)
  <2>1. pending' = [pending EXCEPT ![w] = r0] /\ chan' = Tail(chan) /\ UNCHANGED exhausted
    BY <1>6 DEF Claim
  <2>2. /\ Len(chan) \in Nat /\ Tail(chan) \in Seq(Reqs) /\ r0 \in Reqs /\ r0 = chan[1]
        /\ 1 \in 1..Len(chan) /\ Len(Tail(chan)) = Len(chan) - 1
        /\ \A i \in 1..Len(Tail(chan)) : i + 1 \in 1..Len(chan) /\ Tail(chan)[i] = chan[i + 1]
        /\ \A i \in 1..Len(chan) : i # 1 => i - 1 \in 1..Len(Tail(chan)) /\ Tail(chan)[i - 1] = chan[i]
    BY <1>1, <1>6, TailFacts
  <2>3. InChan(r0) /\ ~Held(r0) /\ None \notin Reqs
    <3>1. InChan(r0)
      BY <2>2 DEF InChan
    <3> QED BY <2>2, <3>1 DEF IInv, OnePlace, None, Reqs
  <2> HIDE DEF r0
  <2>4. HeldOnce' /\ \A r \in Reqs : Held(r)' <=> Held(r) \/ r = r0
    BY <1>1, <2>1, <2>2, <2>3 DEF IInv, HeldOnce, Held
  <2>5. \A m, n \in 1..Len(chan) : chan[m] = chan[n] => m = n
    BY DEF IInv, ChanOnce
  <2>6. \A r \in Reqs : InChan(r)' <=> InChan(r) /\ r # r0
    <3>1. ASSUME NEW r \in Reqs, InChan(r)' PROVE InChan(r) /\ r # r0
      <4>1. PICK i \in 1..Len(Tail(chan)) : Tail(chan)[i] = r
        BY <2>1, <3>1 DEF InChan
      <4>2. i + 1 \in 1..Len(chan) /\ chan[i + 1] = r /\ i + 1 # 1
        BY <2>2, <4>1
      <4> QED BY <2>2, <2>5, <4>2 DEF InChan
    <3>2. ASSUME NEW r \in Reqs, InChan(r), r # r0 PROVE InChan(r)'
      <4>1. PICK i \in 1..Len(chan) : chan[i] = r
        BY <3>2 DEF InChan
      <4>2. i # 1
        BY <2>2, <3>2, <4>1
      <4> QED BY <2>1, <2>2, <4>1, <4>2 DEF InChan
    <3> QED BY <3>1, <3>2
  <2>7. ChanOnce'
    <3> SUFFICES ASSUME NEW i \in 1..Len(chan'), NEW j \in 1..Len(chan'), chan'[i] = chan'[j]
                 PROVE  i = j
      BY DEF ChanOnce
    <3>1. /\ i + 1 \in 1..Len(chan) /\ chan'[i] = chan[i + 1]
          /\ j + 1 \in 1..Len(chan) /\ chan'[j] = chan[j + 1] /\ i \in Nat /\ j \in Nat
      BY <2>1, <2>2
    <3>2. i + 1 = j + 1
      BY <2>5, <3>1, Zenon
    <3> QED BY <3>1, <3>2
  <2>8. OnePlace'
    BY <1>2, <2>2, <2>3, <2>4, <2>6 DEF IInv, OnePlace
  <2>9. Types'
    <3>1. HandedTypes'
      BY <1>1, <2>1, <2>2 DEF IInv, Types, HandedTypes
    <3>2. Len(chan') <= ReadAhead
      BY <2>1, <2>2, KvAssumption DEF IInv, Types, ReaderTypes
    <3>3. ReaderTypes'
      BY <1>1, <2>1, <2>2, <3>2 DEF IInv, Types, ReaderTypes
    <3> QED BY <1>1, <2>1, <3>1, <3>3, TypesKept DEF IInv, Types
  <2> QED BY <1>2, <1>3, <1>4, <2>4, <2>7, <2>8, <2>9 DEF IInv
<1> QED
  BY <1>5, <1>6

-----------------------------------------------------------------------------
(* Requests that leave a connection, and those that are settled            *)

SameJobs == \A c \in Conns : slot'[c].job = slot[c].job
SameWaiters ==
  \A c \in Conns : cpc'[c] = "wait" /\ ~slot'[c].done <=> cpc[c] = "wait" /\ ~slot[c].done

LEMMA JobsKept ==
  ASSUME IInv, SameJobs
  PROVE  /\ RunningOnce' /\ \A r \in Reqs : Running(r)' <=> Running(r)
         /\ UNCHANGED <<stores, settled>> /\ (\A c \in Conns : cpc[c] = "ops" => cpc'[c] = "ops")
              => StoresMatch'
<1>1. RunningOnce' /\ \A r \in Reqs : Running(r)' <=> Running(r)
  BY DEF IInv, RunningOnce, Running, SameJobs
<1>2. UNCHANGED <<stores, settled>> /\ (\A c \in Conns : cpc[c] = "ops" => cpc'[c] = "ops")
        => StoresMatch'
  BY DEF IInv, StoresMatch, Settled, SameJobs
<1> QED
  BY <1>1, <1>2

LEMMA WaitersKept ==
  ASSUME IInv, UNCHANGED <<waiting, closed, dpc>>, SameWaiters
  PROVE  QueueExact'
<1>1. \A w \in Workers : \A i \in 1..Len(waiting[w]) : waiting[w][i] \in Conns
  BY ElementOfSeq DEF IInv, Types, HandedTypes
<1> QED
  BY <1>1 DEF IInv, QueueExact, ConnsOf, SameWaiters

(* A connection gives up its request.                                      *)
LEMMA JobLeaves ==
  ASSUME IInv, NEW c \in Conns, slot[c].job # None, slot' = [slot EXCEPT ![c] = NoSlot]
  PROVE  /\ RunningOnce' /\ slot[c].job \in Reqs /\ Running(slot[c].job)
         /\ \A r \in Reqs : Running(r)' <=> Running(r) /\ r # slot[c].job
<1>1. slot \in [Conns -> Slots] /\ slot[c].job \in Reqs /\ None \notin Reqs
  BY DEF IInv, Types, HandedTypes, Slots, None, Reqs
<1>2. slot'[c].job = None /\ \A d \in Conns : d # c => slot'[d].job = slot[d].job
  BY <1>1 DEF NoSlot
<1>3. \A d, e \in Conns : slot[d].job = slot[e].job /\ slot[d].job # None => d = e
  BY DEF IInv, RunningOnce
<1>4. RunningOnce'
  BY <1>2, <1>3 DEF RunningOnce
<1>5. \A r \in Reqs : Running(r)' <=> Running(r) /\ r # slot[c].job
  BY <1>1, <1>2, <1>3 DEF Running
<1> QED
  BY <1>1, <1>4, <1>5 DEF Running

(* mark_finished, of requests that were not finished.                      *)
LEMMA Settles ==
  ASSUME IInv, NEW R \in SUBSET Reqs, \A r \in R : ~Settled(r), MarkFinished(R)
  PROVE  /\ settled' \in SUBSET Reqs /\ finished' \in Nat /\ finished <= finished'
         /\ finished' = Cardinality(settled')
         /\ \A r \in Reqs : Settled(r)' <=> Settled(r) \/ r \in R
<1>1. IsFiniteSet(Reqs)
  BY KvAssumption, FS_Interval DEF Reqs
<1>2. settled \in SUBSET Reqs /\ finished \in Nat /\ finished = Cardinality(settled)
  BY DEF IInv, Types, JobTypes, CountersMatch
<1>3. IsFiniteSet(R) /\ IsFiniteSet(settled)
  BY <1>1, <1>2, FS_Subset
<1>4. settled \cap R = {}
  BY DEF Settled
<1>5. Cardinality(settled \cup R) = Cardinality(settled) + Cardinality(R) /\ Cardinality(R) \in Nat
  <2>1. Cardinality({}) = 0
    BY FS_EmptySet
  <2>2. Cardinality(settled \cup R) =
          Cardinality(settled) + Cardinality(R) - Cardinality(settled \cap R)
    BY <1>3, FS_Union
  <2>3. Cardinality(R) \in Nat /\ Cardinality(settled) \in Nat
    BY <1>3, FS_CardinalityType
  <2>4. Cardinality(settled \cap R) = 0
    BY <1>4, <2>1, Zenon
  <2> QED BY <2>2, <2>3, <2>4
<1> QED
  BY <1>2, <1>5 DEF MarkFinished, Settled

(* The counters, when the reader and the runner stand still.               *)
LEMMA CountersKept ==
  ASSUME IInv, UNCHANGED <<rd, next, counted, watch, seen, over>>,
         finished' \in Nat, finished <= finished', finished' = Cardinality(settled'),
         \A r \in Reqs : Settled(r) => Settled(r)'
  PROVE  CountersMatch'
<1>1. finished \in Nat /\ seen \in Nat
  BY DEF IInv, Types, JobTypes, RunnerTypes
<1>2. watch' = "done" => seen' <= finished'
  BY <1>1 DEF IInv, CountersMatch
<1>3. over' => \A r \in Reqs : Known(r)' => Settled(r)'
  BY DEF IInv, CountersMatch, Known, InReader
<1> QED
  BY <1>2, <1>3 DEF IInv, CountersMatch, stopped

-----------------------------------------------------------------------------
(* The dispatcher stops: it releases who waits, and serves nobody after.   *)
LEMMA StopStep ==
  ASSUME IInv, NEW w \in Workers, DispatcherStops(w)
  PROVE  IInv'
<1> USE DEF dispOnly, doneVars, dispVars, wakeVars, connVars, jobVars, readerVars, runnerVars
<1>1. /\ closed' = [closed EXCEPT ![w] = TRUE] /\ waiting' = [waiting EXCEPT ![w] = <<>>]
      /\ slot' = [c \in Conns |-> IF \E i \in 1..Len(waiting[w]) : waiting[w][i] = c
                                  THEN [done |-> TRUE, job |-> None] ELSE slot[c]]
      /\ dpc' = [dpc EXCEPT ![w] = "exited"] /\ thread' = [thread EXCEPT ![w] = "none"]
      /\ UNCHANGED <<dispOnly, chan, doneVars, pending, exhausted, timer, returned, wakeVars>>
  BY DEF DispatcherStops, Close
<1>2. /\ waiting \in [Workers -> Seq(Conns)] /\ slot \in [Conns -> Slots]
      /\ closed \in [Workers -> BOOLEAN]
      /\ dpc \in [Workers -> {"poll", "wait", "exited"}]
  BY DEF IInv, Types, HandedTypes, FlagTypes, ThreadTypes
<1>3. \A v \in Workers : \A i \in 1..Len(waiting[v]) : waiting[v][i] \in Conns
  BY <1>2, ElementOfSeq
<1>4. /\ SameJobs
      /\ \A c \in Conns : slot[c].done => slot'[c].done
  BY <1>1 DEF IInv, QueueExact, SlotsMatch, SameJobs
<1>5. [done |-> TRUE, job |-> None] \in Slots
  <2>1. TRUE \in BOOLEAN /\ None \in Reqs \cup {None}
    OBVIOUS
  <2> QED BY <2>1, Zenon DEF Slots
<1>6. Types'
  <2>1. slot' \in [Conns -> Slots]
    BY <1>1, <1>2, <1>5
  <2>2. waiting' \in [Workers -> Seq(Conns)]
    BY <1>1, <1>2
  <2>3. HandedTypes'
    BY <1>1, <2>1, <2>2 DEF HandedTypes, IInv, Types
  <2>4. FlagTypes' /\ ThreadTypes'
    BY <1>1 DEF FlagTypes, ThreadTypes, IInv, Types
  <2> QED BY <1>1, <2>3, <2>4, TypesKept DEF IInv, Types
<1>7. OnePlace' /\ ChanOnce' /\ HeldOnce' /\ BackOnce' /\ RunningOnce' /\ StoresMatch'
  <2>1. RunningOnce' /\ (\A r \in Reqs : Running(r)' <=> Running(r)) /\ StoresMatch'
    BY <1>1, <1>4, JobsKept
  <2> QED BY <1>1, <2>1, PlacesKept, SameBackKept DEF IInv, OnePlace
<1>8. SlotsMatch'
  BY <1>1, <1>4 DEF IInv, SlotsMatch, SameJobs
<1>9. QueueExact'
  <2>1. ASSUME NEW v \in Workers, v # w
        PROVE  /\ waiting'[v] = waiting[v] /\ closed'[v] = closed[v] /\ dpc'[v] = dpc[v]
               /\ \A i \in 1..Len(waiting[v]) : slot'[waiting[v][i]] = slot[waiting[v][i]]
               /\ \A c \in ConnsOf(v) : slot'[c] = slot[c]
    BY <1>1, <1>2, <1>3, <2>1 DEF IInv, QueueExact, ConnsOf
  <2>2. /\ waiting'[w] = <<>> /\ closed'[w] /\ Len(waiting'[w]) = 0
        /\ \A c \in ConnsOf(w) : cpc[c] = "wait" => slot'[c].done
    BY <1>1, <1>2 DEF IInv, QueueExact, ConnsOf
  <2>3. UNCHANGED cpc
    BY <1>1
  <2>4. \A i \in 1..Len(waiting'[w]) : FALSE
    BY <2>2
  <2> QED BY <2>1, <2>2, <2>3, <2>4 DEF IInv, QueueExact, ConnsOf
<1>10. CountersMatch'
  BY <1>1 DEF IInv, CountersMatch, stopped, Known, InReader, Settled
<1> QED
  BY <1>6, <1>7, <1>8, <1>9, <1>10 DEF IInv

-----------------------------------------------------------------------------
(* The dispatcher waits: what it holds may join the handed-back requests,  *)
(* and those at their front may be failed.                                 *)

(* A request that was not handed back is put behind the handed-back ones.  *)
BackWith(w, r0) == Append(returned[w], [req |-> r0, failed |-> FALSE])

LEMMA BackAppended ==
  ASSUME IInv, NEW w \in Workers, NEW r0 \in Reqs, ~Back(r0)
  PROVE  /\ BackWith(w, r0) \in Seq(Entry) /\ OwnQueue(w, BackWith(w, r0))
         /\ \A r \in Reqs : Back(r) \/ r = r0
              <=> \/ BackElsewhere(w, r)
                  \/ \E i \in 1..Len(BackWith(w, r0)) : BackWith(w, r0)[i].req = r
<1> DEFINE q == BackWith(w, r0)
           p == returned[w]
           e == [req |-> r0, failed |-> FALSE]
<1>1. p \in Seq(Entry) /\ BackOnce
  BY DEF IInv, Types, HandedTypes
<1>2. e \in Entry /\ e.req = r0
  BY DEF Entry
<1>3. /\ \A r \in Reqs : Back(r) <=> \/ BackElsewhere(w, r)
                                     \/ \E i \in 1..Len(p) : p[i].req = r
      /\ OwnQueue(w, p)
  BY <1>1, BackSplit
<1> HIDE DEF p, e, q
<1>4. q = Append(p, e)
  BY DEF p, e, q, BackWith
<1>5. /\ Len(p) \in Nat /\ q \in Seq(Entry) /\ Len(q) = Len(p) + 1
      /\ Len(p) + 1 \in 1..Len(q) /\ q[Len(p) + 1] = e
      /\ \A i \in 1..Len(p) : i \in 1..Len(q) /\ q[i] = p[i]
      /\ \A i \in 1..Len(q) : i # Len(p) + 1 => i \in 1..Len(p)
  <2>1. p \in Seq(Entry) /\ e \in Entry
    BY <1>1, <1>2
  <2> HIDE DEF IInv
  <2> QED BY ONLY <2>1, <1>4, AppendFacts
<1>6. ~BackElsewhere(w, r0) /\ \A i \in 1..Len(p) : p[i].req # r0
  BY <1>3
<1>7. \A i \in 1..Len(q) : \/ i = Len(p) + 1 /\ q[i].req = r0
                           \/ i \in 1..Len(p) /\ q[i] = p[i]
  BY <1>2, <1>5
<1>8. OwnQueue(w, q)
  <2>1. ASSUME NEW i \in 1..Len(q), NEW j \in 1..Len(q), q[i].req = q[j].req PROVE i = j
    BY <1>3, <1>6, <1>7, <2>1 DEF OwnQueue
  <2>2. ASSUME NEW i \in 1..Len(q) PROVE ~BackElsewhere(w, q[i].req)
    BY <1>3, <1>6, <1>7 DEF OwnQueue
  <2> QED BY <2>1, <2>2 DEF OwnQueue
<1>9. ASSUME NEW r \in Reqs
      PROVE  (\E i \in 1..Len(q) : q[i].req = r) <=> r = r0 \/ \E i \in 1..Len(p) : p[i].req = r
  BY <1>2, <1>5, <1>7
<1> QED
  BY <1>3, <1>5, <1>8, <1>9 DEF q

LEMMA QueueFacts ==
  ASSUME IInv, NEW w \in Workers
  PROVE  /\ Queue(w) \in Seq(Entry) /\ OwnQueue(w, Queue(w))
         /\ Joins(w) => pending[w] \in Reqs /\ Held(pending[w])
         /\ \A r \in Reqs : Back(r) \/ (Joins(w) /\ r = pending[w])
              <=> \/ BackElsewhere(w, r)
                  \/ \E i \in 1..Len(Queue(w)) : Queue(w)[i].req = r
<1>1. Joins(w) => pending[w] \in Reqs /\ Held(pending[w]) /\ ~Back(pending[w])
  <2>1. Joins(w) => pending[w] \in Reqs /\ Held(pending[w])
    BY DEF Joins, IInv, Types, HandedTypes, Held
  <2> QED BY <2>1 DEF IInv, OnePlace
<1>2. CASE Joins(w)
  <2>1. Queue(w) = BackWith(w, pending[w])
    BY <1>2 DEF Queue, BackWith
  <2>2. /\ Queue(w) \in Seq(Entry) /\ OwnQueue(w, Queue(w))
        /\ \A r \in Reqs : Back(r) \/ r = pending[w]
             <=> \/ BackElsewhere(w, r)
                 \/ \E i \in 1..Len(Queue(w)) : Queue(w)[i].req = r
    <3>1. pending[w] \in Reqs /\ ~Back(pending[w])
      BY <1>1, <1>2
    <3> HIDE DEF Back
    <3>2. /\ BackWith(w, pending[w]) \in Seq(Entry) /\ OwnQueue(w, BackWith(w, pending[w]))
          /\ \A r \in Reqs : Back(r) \/ r = pending[w]
               <=> \/ BackElsewhere(w, r)
                   \/ \E i \in 1..Len(BackWith(w, pending[w])) : BackWith(w, pending[w])[i].req = r
      BY <3>1, BackAppended
    <3> QED BY <2>1, <3>2
  <2> QED BY <1>1, <1>2, <2>2, Zenon
<1>3. CASE ~Joins(w)
  <2>1. Queue(w) = returned[w] /\ returned[w] \in Seq(Entry)
    BY <1>3 DEF Queue, IInv, Types, HandedTypes
  <2>2. /\ \A r \in Reqs : Back(r) <=> \/ BackElsewhere(w, r)
                                       \/ \E i \in 1..Len(returned[w]) : returned[w][i].req = r
        /\ OwnQueue(w, returned[w])
    BY BackSplit DEF IInv
  <2> QED BY <1>3, <2>1, <2>2, Zenon
<1> QED
  BY <1>2, <1>3

(* What is failed is a prefix of the queue.                                *)
LEMMA FrontFacts ==
  ASSUME IInv, NEW w \in Workers
  PROVE  /\ Cardinality(FailedFront(w)) \in Nat
         /\ Cardinality(FailedFront(w)) <= Len(Queue(w))
         /\ FailedFront(w) = 1..Cardinality(FailedFront(w))
<1>1. Len(Queue(w)) \in Nat
  BY QueueFacts, LenProperties
<1>2. FailedFront(w) \in SUBSET (1..Len(Queue(w)))
  BY DEF FailedFront
<1>3. \A i \in FailedFront(w) : \A j \in 1..i : j \in FailedFront(w)
  <2> SUFFICES ASSUME NEW i \in FailedFront(w), NEW j \in 1..i PROVE j \in FailedFront(w)
    OBVIOUS
  <2>1. i \in 1..Len(Queue(w)) /\ Stranded(w) /\ \A m \in 1..i : Queue(w)[m].failed
    BY DEF FailedFront
  <2>2. j \in 1..Len(Queue(w)) /\ \A m \in 1..j : m \in 1..i
    BY <1>1, <2>1
  <2> QED BY <2>1, <2>2 DEF FailedFront
<1>4. Cardinality(FailedFront(w)) \in 0..Len(Queue(w)) /\ FailedFront(w) = 1..Cardinality(FailedFront(w))
  BY <1>1, <1>2, <1>3, Prefix
<1> QED
  BY <1>1, <1>4

(* The handed-back requests after the failed ones were taken off.          *)
LEMMA RestFacts ==
  ASSUME IInv, NEW w \in Workers, StrandedRules(w)
  PROVE  /\ returned' \in [Workers -> Seq(Entry)]
         /\ BecomesRest(w, Queue(w), Cardinality(FailedFront(w)))
<1> DEFINE q == Queue(w)
           k == Cardinality(FailedFront(w))
<1>1. q \in Seq(Entry) /\ k \in Nat /\ k <= Len(q) /\ Len(q) \in Nat
  BY QueueFacts, FrontFacts, LenProperties
<1>2. /\ returned \in [Workers -> Seq(Entry)]
      /\ returned' = [returned EXCEPT ![w] = SubSeq(q, k + 1, Len(q))]
  BY DEF StrandedRules, IInv, Types, HandedTypes
<1> HIDE DEF q, k
<1>3. k + 1 \in Int /\ Len(q) \in Int /\ \A i \in (k + 1)..Len(q) : q[i] \in Entry
  <2>1. \A i \in (k + 1)..Len(q) : i \in 1..Len(q)
    BY <1>1
  <2> QED BY <1>1, <2>1, ElementOfSeq
<1>4. /\ SubSeq(q, k + 1, Len(q)) \in Seq(Entry)
      /\ Len(SubSeq(q, k + 1, Len(q))) = IF k + 1 <= Len(q) THEN Len(q) - (k + 1) + 1 ELSE 0
      /\ \A i \in 1..(Len(q) - (k + 1) + 1) : SubSeq(q, k + 1, Len(q))[i] = q[(k + 1) + i - 1]
  BY <1>3, SubSeqProperties
<1>5. returned'[w] = SubSeq(q, k + 1, Len(q)) /\ \A v \in Workers : v # w => returned'[v] = returned[v]
  BY <1>2
<1>6. /\ Len(SubSeq(q, k + 1, Len(q))) = Len(q) - k
      /\ Len(q) - (k + 1) + 1 = Len(q) - k
  BY <1>1, <1>4
<1>7. \A i \in 1..(Len(q) - k) : returned'[w][i] = q[i + k]
  <2> SUFFICES ASSUME NEW i \in 1..(Len(q) - k) PROVE returned'[w][i] = q[i + k]
    OBVIOUS
  <2>1. i \in 1..(Len(q) - (k + 1) + 1) /\ (k + 1) + i - 1 = i + k
    <3>1. i \in 1..(Len(q) - (k + 1) + 1)
      BY <1>6
    <3>2. i \in Int
      OBVIOUS
    <3> QED BY <1>1, <3>1, <3>2
  <2>2. SubSeq(q, k + 1, Len(q))[i] = q[(k + 1) + i - 1]
    BY <1>4, <2>1, Zenon
  <2> QED BY <1>5, <2>1, <2>2, Zenon
<1>8. BecomesRest(w, q, k)
  BY <1>5, <1>6, <1>7 DEF BecomesRest
<1>9. returned' \in [Workers -> Seq(Entry)]
  BY <1>2, <1>4
<1> QED
  BY <1>8, <1>9 DEF q, k

(* Every request is where it was, or moved from the dispatcher's hands to  *)
(* the queue, or from either to the settled ones.                          *)
LEMMA StrandedMoves ==
  ASSUME IInv, NEW w \in Workers, StrandedRules(w)
  PROVE  /\ BackOnce' /\ HeldOnce' /\ pending' \in [Workers -> Reqs \cup {None}]
         /\ settled' \in SUBSET Reqs /\ finished' \in Nat /\ finished <= finished'
         /\ finished' = Cardinality(settled')
         /\ \A r \in Reqs :
              /\ Held(r)' => Held(r)
              /\ Back(r)' => Back(r) \/ (Held(r) /\ ~Held(r)')
              /\ Settled(r)' => \/ Settled(r)
                                \/ (Back(r) \/ (Held(r) /\ ~Held(r)')) /\ ~Back(r)'
              /\ Settled(r) => Settled(r)'
              /\ Held(r) \/ Back(r) => Held(r)' \/ Back(r)' \/ Settled(r)'
<1> DEFINE q == Queue(w)
           k == Cardinality(FailedFront(w))
           R == {q[i].req : i \in FailedFront(w)}
<1>1. /\ q \in Seq(Entry) /\ OwnQueue(w, q)
      /\ Joins(w) => pending[w] \in Reqs /\ Held(pending[w])
      /\ \A r \in Reqs : Back(r) \/ (Joins(w) /\ r = pending[w])
           <=> \/ BackElsewhere(w, r)
               \/ \E i \in 1..Len(q) : q[i].req = r
  BY QueueFacts
<1>2. k \in Nat /\ k <= Len(q) /\ FailedFront(w) = 1..k /\ Len(q) \in Nat
  BY <1>1, FrontFacts, LenProperties
<1>3. BecomesRest(w, q, k)
  BY RestFacts
<1>4. /\ MarkFinished(R)
      /\ pending' = [pending EXCEPT ![w] = IF Joins(w) THEN None ELSE @]
  BY DEF StrandedRules
<1>5. /\ pending \in [Workers -> Reqs \cup {None}] /\ None \notin Reqs /\ BackOnce
      /\ \A u, v \in Workers : pending[u] = pending[v] /\ pending[u] # None => u = v
  BY DEF IInv, Types, HandedTypes, None, Reqs, HeldOnce
<1> HIDE DEF q, k
<1>6. /\ BackOnce'
      /\ \A r \in Reqs : Back(r)' <=> \/ BackElsewhere(w, r)
                                      \/ \E i \in 1..Len(q) : k < i /\ q[i].req = r
  BY <1>1, <1>2, <1>3, <1>5, BackMoved
<1>7. /\ R \in SUBSET Reqs
      /\ \A r \in Reqs : r \in R <=> \E i \in 1..Len(q) : i <= k /\ q[i].req = r
  <2>1. \A i \in 1..k : i \in 1..Len(q) /\ i <= k /\ q[i] \in Entry
    <3>1. \A i \in 1..k : i \in 1..Len(q) /\ i <= k
      BY <1>2
    <3> QED BY <1>1, <3>1, ElementOfSeq
  <2>2. R = {q[i].req : i \in 1..k}
    BY <1>2
  <2>3. \A i \in 1..k : q[i].req \in Reqs
    BY <2>1 DEF Entry
  <2>4. \A i \in 1..Len(q) : i <= k => i \in 1..k
    BY <1>2
  <2> HIDE DEF R
  <2> QED BY <2>1, <2>2, <2>3, <2>4
<1> HIDE DEF R
<1>8. /\ pending' \in [Workers -> Reqs \cup {None}] /\ HeldOnce'
      /\ \A r \in Reqs : Held(r)' <=> Held(r) /\ ~(Joins(w) /\ r = pending[w])
  <2>1. pending'[w] = (IF Joins(w) THEN None ELSE pending[w])
        /\ \A v \in Workers : v # w => pending'[v] = pending[v]
    BY <1>4, <1>5
  <2>2. pending' \in [Workers -> Reqs \cup {None}]
    BY <1>4, <1>5
  <2>3. HeldOnce'
    BY <1>5, <2>1 DEF HeldOnce
  <2>4. \A r \in Reqs : Held(r)' <=> Held(r) /\ ~(Joins(w) /\ r = pending[w])
    BY <1>5, <2>1 DEF Held
  <2> QED BY <2>2, <2>3, <2>4
<1>9. \A r \in Reqs : (\E i \in 1..Len(q) : q[i].req = r)
         <=> r \in R \/ \E i \in 1..Len(q) : k < i /\ q[i].req = r
  BY <1>2, <1>7
<1>10. \A r \in R : ~BackElsewhere(w, r) /\ ~\E i \in 1..Len(q) : k < i /\ q[i].req = r
  <2> SUFFICES ASSUME NEW r \in R
               PROVE  ~BackElsewhere(w, r) /\ ~\E i \in 1..Len(q) : k < i /\ q[i].req = r
    OBVIOUS
  <2>1. PICK j \in 1..Len(q) : j <= k /\ q[j].req = r
    BY <1>7
  <2>2. ASSUME NEW i \in 1..Len(q), k < i PROVE q[i].req # r
    <3>1. i # j
      BY <1>2, <2>1, <2>2
    <3> QED BY <1>1, <2>1, <3>1 DEF OwnQueue
  <2> QED BY <1>1, <2>1, <2>2 DEF OwnQueue
<1>11. \A r \in R : r \in Reqs /\ ~Back(r)' /\ (Back(r) \/ (Joins(w) /\ r = pending[w]))
  BY <1>1, <1>6, <1>7, <1>9, <1>10
<1>12. \A r \in R : ~Settled(r)
  BY <1>1, <1>11 DEF IInv, OnePlace
<1>13. /\ settled' \in SUBSET Reqs /\ finished' \in Nat /\ finished <= finished'
       /\ finished' = Cardinality(settled')
       /\ \A r \in Reqs : Settled(r)' <=> Settled(r) \/ r \in R
  BY <1>4, <1>7, <1>12, Settles
<1>14. ASSUME NEW r \in Reqs
       PROVE  /\ Held(r)' => Held(r)
              /\ Back(r)' => Back(r) \/ (Held(r) /\ ~Held(r)')
              /\ Settled(r)' => \/ Settled(r)
                                \/ (Back(r) \/ (Held(r) /\ ~Held(r)')) /\ ~Back(r)'
              /\ Settled(r) => Settled(r)'
              /\ Held(r) \/ Back(r) => Held(r)' \/ Back(r)' \/ Settled(r)'
  <2>1. Joins(w) /\ r = pending[w] => Held(r)
    BY <1>1
  <2>2. Back(r)' => Back(r) \/ (Joins(w) /\ r = pending[w])
    BY <1>1, <1>6
  <2>3. Back(r) \/ (Joins(w) /\ r = pending[w]) => Back(r)' \/ r \in R
    BY <1>1, <1>6, <1>9
  <2>4. r \in R => ~Back(r)' /\ (Back(r) \/ (Joins(w) /\ r = pending[w]))
    BY <1>11
  <2> QED BY <1>8, <1>13, <2>1, <2>2, <2>3, <2>4
<1> QED
  BY <1>6, <1>8, <1>13, <1>14

LEMMA WaitStep ==
  ASSUME IInv, NEW w \in Workers, DispatcherWaits(w)
  PROVE  IInv'
<1> USE DEF dispOnly, doneVars, dispVars, wakeVars, connVars, jobVars, readerVars, runnerVars
<1>1. /\ StrandedRules(w)
      /\ idle' = [idle EXCEPT ![w] = TRUE] /\ woken' = [woken EXCEPT ![w] = FALSE]
      /\ dpc' = [dpc EXCEPT ![w] = "wait"] /\ timer' = [timer EXCEPT ![w] = "armed"]
      /\ thread' = [thread EXCEPT ![w] = "none"]
      /\ UNCHANGED <<dispOnly, chan, exhausted, closed, waiting, slot>>
  BY DEF DispatcherWaits
<1>2. wants' \in [Workers -> BOOLEAN]
  <2>1. \E b \in BOOLEAN : wants' = [wants EXCEPT ![w] = b]
    BY Zenon DEF DispatcherWaits
  <2> QED BY <2>1 DEF IInv, Types, FlagTypes
<1>3. /\ BackOnce' /\ HeldOnce' /\ pending' \in [Workers -> Reqs \cup {None}]
      /\ settled' \in SUBSET Reqs /\ finished' \in Nat /\ finished <= finished'
      /\ finished' = Cardinality(settled')
      /\ \A r \in Reqs :
           /\ Held(r)' => Held(r)
           /\ Back(r)' => Back(r) \/ (Held(r) /\ ~Held(r)')
           /\ Settled(r)' => \/ Settled(r)
                             \/ (Back(r) \/ (Held(r) /\ ~Held(r)')) /\ ~Back(r)'
           /\ Settled(r) => Settled(r)'
           /\ Held(r) \/ Back(r) => Held(r)' \/ Back(r)' \/ Settled(r)'
  BY <1>1, StrandedMoves
<1>4. returned' \in [Workers -> Seq(Entry)]
  BY <1>1, RestFacts
<1>5. Types'
  <2>1. JobTypes'
    BY <1>1, <1>3 DEF IInv, Types, JobTypes
  <2>2. HandedTypes'
    BY <1>1, <1>3, <1>4 DEF IInv, Types, HandedTypes
  <2>3. ThreadTypes' /\ FlagTypes'
    BY <1>1, <1>2 DEF IInv, Types, ThreadTypes, FlagTypes
  <2> QED BY <1>1, <2>1, <2>2, <2>3, TypesKept DEF IInv, Types
<1>6. /\ ChanOnce' /\ RunningOnce'
      /\ \A r \in Reqs : /\ InReader(r)' <=> InReader(r)
                         /\ Known(r)' <=> Known(r)
                         /\ InChan(r)' <=> InChan(r)
                         /\ Running(r)' <=> Running(r)
  BY <1>1, PlacesKept
<1>7. OnePlace'
  BY <1>3, <1>6 DEF IInv, OnePlace
<1>8. SlotsMatch'
  BY <1>1 DEF IInv, SlotsMatch
<1>9. QueueExact'
  BY <1>1, QueueKept DEF IInv, Types, ThreadTypes
<1>10. StoresMatch'
  BY <1>1, <1>3 DEF IInv, StoresMatch
<1>11. CountersMatch'
  BY <1>1, <1>3, CountersKept
<1> QED
  BY <1>3, <1>5, <1>6, <1>7, <1>8, <1>9, <1>10, <1>11 DEF IInv

-----------------------------------------------------------------------------
(* A connection comes and goes                                             *)

(* A failed connect is noted with each handed-back request.                *)
LEMMA ConnectFailedFacts ==
  ASSUME IInv, NEW w \in Workers, ConnectFailed(w)
  PROVE  SameBack /\ returned' \in [Workers -> Seq(Entry)]
<1> DEFINE q == returned[w]
           p == [i \in 1..Len(q) |-> [req |-> q[i].req, failed |-> TRUE]]
<1>1. returned \in [Workers -> Seq(Entry)] /\ q \in Seq(Entry)
  BY DEF IInv, Types, HandedTypes
<1>2. Len(q) \in Nat /\ DOMAIN q = 1..Len(q) /\ \A i \in 1..Len(q) : q[i] \in Entry
  BY <1>1, LenProperties, ElementOfSeq
<1>3. returned' = [returned EXCEPT ![w] = p]
  BY <1>2 DEF ConnectFailed
<1>4. p \in [1..Len(q) -> Entry]
  <2>1. \A i \in 1..Len(q) : [req |-> q[i].req, failed |-> TRUE] \in Entry
    BY <1>2 DEF Entry
  <2> QED BY <2>1
<1>5. p \in Seq(Entry)
  <2> HIDE DEF p
  <2> QED BY <1>2, <1>4, SeqDef
<1>6. Len(p) = Len(q)
  <2>1. DOMAIN p = 1..Len(p) /\ DOMAIN p = 1..Len(q) /\ Len(p) \in Nat
    BY <1>4, <1>5, LenProperties
  <2> HIDE DEF p
  <2> QED BY <1>2, <2>1
<1>7. \A i \in 1..Len(q) : p[i].req = q[i].req
  OBVIOUS
<1>8. returned'[w] = p /\ \A v \in Workers : v # w => returned'[v] = returned[v]
  BY <1>1, <1>3
<1>9. returned' \in [Workers -> Seq(Entry)]
  BY <1>1, <1>3, <1>5
<1> HIDE DEF p
<1>10. SameBack
  BY <1>6, <1>7, <1>8 DEF SameBack
<1> QED
  BY <1>9, <1>10

(* A connection connects, fails to, or is closed.                          *)
LEMMA ConnectStep ==
  ASSUME IInv, NEW c \in Conns, Connect(c) \/ ConnectFails(c) \/ Dies(c)
  PROVE  IInv'
<1> USE DEF connOnly, doneVars, dispVars, wakeVars, connVars, jobVars, readerVars, runnerVars
<1> DEFINE w == WorkerOf[c]
<1>1. w \in Workers
  BY KvAssumption
<1>2. UNCHANGED <<connOnly, doneVars, waiting, wakeVars, slot, jobVars, stores>>
  BY DEF Connect, ConnectFails, Dies
<1>3. SameBack /\ returned' \in [Workers -> Seq(Entry)]
  <2>1. CASE ConnectFails(c)
    BY <1>1, <2>1, ConnectFailedFacts DEF ConnectFails
  <2>2. CASE Connect(c) \/ Dies(c)
    <3>1. UNCHANGED returned
      BY <2>2 DEF Connect, Dies
    <3> QED BY <3>1, SameBackKept DEF IInv, Types, HandedTypes
  <2> QED BY <2>1, <2>2
<1>4. /\ thread' = thread \/ thread' = [thread EXCEPT ![w] = c]
      /\ cpc' = cpc \/ (cpc[c] = "down" /\ cpc' = [cpc EXCEPT ![c] = "top"])
      /\ \/ alive' = alive \/ alive' = [alive EXCEPT ![c] = TRUE]
         \/ alive' = [alive EXCEPT ![c] = FALSE]
      /\ ran' = ran \/ ran' = [ran EXCEPT ![c] = FALSE]
  BY DEF Connect, ConnectFails, Dies
<1> HIDE DEF w
<1>5. Types'
  <2>1. HandedTypes'
    BY <1>2, <1>3 DEF IInv, Types, HandedTypes
  <2>2. ThreadTypes'
    BY <1>1, <1>2, <1>4 DEF IInv, Types, ThreadTypes
  <2>3. ConnTypes'
    BY <1>4 DEF IInv, Types, ConnTypes
  <2> QED BY <1>2, <2>1, <2>2, <2>3, TypesKept DEF IInv, Types
<1>6. \A d \in Conns : cpc'[d] = cpc[d] \/ (cpc[d] = "down" /\ cpc'[d] = "top")
  BY <1>4 DEF IInv, Types, ConnTypes
<1>7. (watch # "idle" => stopped) /\ (watch = "done" => seen <= finished)
  BY DEF IInv, CountersMatch
<1> QED
  BY <1>2, <1>3, <1>5, <1>6, <1>7, QuietStep

(* A connection moves, and no request does.                                *)
LEMMA MoveStep ==
  ASSUME IInv, Types', UNCHANGED <<readerVars, chan, pending, closed, dpc, waiting>>,
         UNCHANGED <<doneVars, runnerVars>>,
         SameBack, SameJobs, SameWaiters, SlotsMatch', StoresMatch'
  PROVE  IInv'
<1> USE DEF readerVars, doneVars, runnerVars
<1>1. RunningOnce' /\ \A r \in Reqs : Running(r)' <=> Running(r)
  BY JobsKept
<1>2. OnePlace' /\ ChanOnce' /\ HeldOnce' /\ BackOnce'
  BY <1>1, PlacesKept DEF IInv, OnePlace
<1>3. QueueExact'
  BY WaitersKept
<1>4. CountersMatch'
  BY DEF IInv, CountersMatch, stopped, Known, InReader, Settled
<1> QED
  BY <1>1, <1>2, <1>3, <1>4 DEF IInv

(* It leaves the loop, is released without a request, or gets one.         *)
LEMMA LeaveStep ==
  ASSUME IInv, NEW c \in Conns, TopLeaves(c) \/ Exit(c) \/ Released(c) \/ GetsJob(c)
  PROVE  IInv'
<1> USE DEF connOnly, doneVars, dispVars, wakeVars, connVars, jobVars, readerVars, runnerVars
<1> DEFINE w == WorkerOf[c]
<1>1. w \in Workers
  BY KvAssumption
<1>2. UNCHANGED <<connOnly, doneVars, waiting, wakeVars, jobVars, stores>>
  BY DEF TopLeaves, Exit, Released, GetsJob
<1>3. SameBack /\ returned' \in [Workers -> Seq(Entry)]
  <2>1. CASE ConnectFailed(w)
    BY <1>1, <2>1, ConnectFailedFacts
  <2>2. CASE UNCHANGED returned
    BY <2>2, SameBackKept DEF IInv, Types, HandedTypes
  <2> QED BY <2>1, <2>2 DEF TopLeaves, Exit, Released, GetsJob
<1>4. \E x \in {"down", "top", "lookup", "exited"} :
        /\ cpc' = [cpc EXCEPT ![c] = x]
        /\ \/ x = "lookup" /\ slot[c].job # None
           \/ x # "lookup" /\ slot[c].job = None
  BY DEF TopLeaves, Exit, Released, GetsJob, Leaves, IInv, SlotsMatch
<1>5. /\ slot' = slot \/ (slot[c].job = None /\ slot' = [slot EXCEPT ![c] = NoSlot])
      /\ cpc[c] # "ops" /\ (cpc[c] = "wait" => slot[c].done)
  BY DEF TopLeaves, Exit, Released, GetsJob, Leaves, IInv, SlotsMatch
<1>6. /\ thread' = thread \/ thread' = [thread EXCEPT ![w] = c]
         \/ thread' = [thread EXCEPT ![w] = "none"]
      /\ alive' = alive \/ alive' = [alive EXCEPT ![c] = FALSE]
      /\ ran' = ran \/ ran' = [ran EXCEPT ![c] = FALSE] \/ ran' = [ran EXCEPT ![c] = TRUE]
  BY DEF TopLeaves, Exit, Released, GetsJob, Leaves
<1> HIDE DEF w
<1>7. slot \in [Conns -> Slots] /\ NoSlot \in Slots /\ NoSlot.job = None
  BY DEF IInv, Types, HandedTypes, NoSlot, Slots
<1>8. Types'
  <2>1. slot' \in [Conns -> Slots]
    BY <1>5, <1>7
  <2>2. HandedTypes'
    BY <1>2, <1>3, <2>1 DEF IInv, Types, HandedTypes
  <2>3. ThreadTypes'
    BY <1>1, <1>2, <1>6 DEF IInv, Types, ThreadTypes
  <2>4. ConnTypes'
    BY <1>4, <1>6 DEF IInv, Types, ConnTypes
  <2> QED BY <1>2, <2>2, <2>3, <2>4, TypesKept DEF IInv, Types
<1>9. SameJobs
  BY <1>5, <1>7 DEF SameJobs
<1>10. /\ cpc'[c] \in {"down", "top", "lookup", "exited"}
       /\ cpc'[c] = "lookup" <=> slot[c].job # None
       /\ \A d \in Conns : d # c => cpc'[d] = cpc[d] /\ slot'[d] = slot[d]
  BY <1>4, <1>5, <1>7 DEF IInv, Types, ConnTypes
<1>11. SameWaiters
  BY <1>5, <1>10 DEF SameWaiters
<1>12. SlotsMatch'
  <2>1. slot[c].job # None => slot'[c] = slot[c] /\ slot[c].done
    BY <1>5 DEF IInv, SlotsMatch
  <2> QED BY <1>9, <1>10, <2>1 DEF IInv, SlotsMatch, SameJobs
<1>13. StoresMatch'
  BY <1>2, <1>5, <1>9, <1>10, JobsKept
<1> QED
  BY <1>2, <1>3, <1>8, <1>9, <1>11, <1>12, <1>13, MoveStep

(* The lookup is answered: this run, and no other, may store.              *)
LEMMA LookupStep ==
  ASSUME IInv, NEW c \in Conns, LookupAnswered(c)
  PROVE  IInv'
<1> USE DEF connOnly, doneVars, dispVars, wakeVars, connVars, jobVars, readerVars, runnerVars
<1> DEFINE r0 == slot[c].job
<1>1. /\ cpc[c] = "lookup" /\ cpc' = [cpc EXCEPT ![c] = "ops"]
      /\ stores' = [stores EXCEPT ![r0] = @ + 1]
      /\ UNCHANGED <<connOnly, doneVars, thread, waiting, returned, wakeVars, alive, ran, slot,
                     jobVars>>
  BY DEF LookupAnswered
<1>2. r0 # None /\ r0 \in Reqs /\ Running(r0)
  BY <1>1 DEF IInv, SlotsMatch, Types, HandedTypes, Slots, Running
<1>3. stores \in [Reqs -> Nat] /\ \A r \in Reqs : stores[r] <= 1
  BY DEF IInv, Types, JobTypes, StoresMatch
<1>4. stores[r0] = 0
  <2>1. ~Settled(r0)
    BY <1>2 DEF IInv, OnePlace
  <2>2. \A d \in Conns : slot[d].job = r0 => d = c
    BY <1>2 DEF IInv, RunningOnce
  <2> QED BY <1>1, <1>2, <2>1, <2>2 DEF IInv, StoresMatch
<1>5. stores'[r0] = 1 /\ \A r \in Reqs : r # r0 => stores'[r] = stores[r]
  BY <1>1, <1>2, <1>3, <1>4
<1>6. cpc'[c] = "ops" /\ \A d \in Conns : d # c => cpc'[d] = cpc[d]
  BY <1>1 DEF IInv, Types, ConnTypes
<1>7. Types'
  <2>1. stores' \in [Reqs -> Nat]
    BY <1>1, <1>2, <1>3, <1>4
  <2>2. JobTypes'
    BY <1>1, <2>1 DEF IInv, Types, JobTypes
  <2>3. ConnTypes'
    BY <1>1 DEF IInv, Types, ConnTypes
  <2> QED BY <1>1, <2>2, <2>3, TypesKept DEF IInv, Types
<1> HIDE DEF r0
<1>8. StoresMatch'
  <2>1. UNCHANGED <<slot, settled>> /\ slot[c].job = r0
    BY <1>1 DEF r0
  <2>2. \A r \in Reqs : stores'[r] <= 1
    BY <1>3, <1>5
  <2>3. ASSUME NEW r \in Reqs, stores'[r] # 0
        PROVE  Settled(r) \/ \E d \in Conns : slot[d].job = r /\ cpc'[d] = "ops"
    BY <1>5, <1>6, <2>1, <2>3 DEF IInv, StoresMatch
  <2> QED BY <2>1, <2>2, <2>3 DEF StoresMatch, Settled
<1>9. SlotsMatch'
  BY <1>1, <1>6 DEF IInv, SlotsMatch
<1>10. SameJobs /\ SameWaiters /\ SameBack
  BY <1>1, <1>6, SameBackKept DEF SameJobs, SameWaiters
<1> QED
  BY <1>1, <1>7, <1>8, <1>9, <1>10, MoveStep

-----------------------------------------------------------------------------
(* A connection's request ends, or is handed back                          *)

(* What both have in common: the connection goes on without its request.   *)
LEMMA JobOverFacts ==
  ASSUME IInv, NEW c \in Conns, slot[c].job # None, slot' = [slot EXCEPT ![c] = NoSlot],
         NEW x \in {"down", "top"}, cpc' = [cpc EXCEPT ![c] = x],
         UNCHANGED <<waiting, closed, dpc>>
  PROVE  /\ SlotsMatch' /\ QueueExact' /\ slot' \in [Conns -> Slots]
         /\ cpc' \in [Conns -> {"down", "top", "wait", "nap", "lookup", "ops", "exited"}]
         /\ \A d \in Conns : d # c => cpc'[d] = cpc[d] /\ slot'[d] = slot[d]
<1>1. /\ slot \in [Conns -> Slots] /\ NoSlot \in Slots /\ NoSlot.job = None
      /\ cpc \in [Conns -> {"down", "top", "wait", "nap", "lookup", "ops", "exited"}]
  BY DEF IInv, Types, HandedTypes, ConnTypes, NoSlot, Slots
<1>2. slot' \in [Conns -> Slots] /\ slot'[c] = NoSlot /\ cpc'[c] = x
  BY <1>1
<1>3. cpc' \in [Conns -> {"down", "top", "wait", "nap", "lookup", "ops", "exited"}]
  BY <1>1
<1>4. \A d \in Conns : d # c => cpc'[d] = cpc[d] /\ slot'[d] = slot[d]
  BY <1>1
<1>5. slot[c].done
  BY DEF IInv, SlotsMatch
<1>6. SameWaiters
  BY <1>2, <1>4, <1>5 DEF SameWaiters
<1>7. SlotsMatch'
  BY <1>1, <1>2, <1>4 DEF IInv, SlotsMatch
<1> QED
  BY <1>2, <1>3, <1>4, <1>6, <1>7, WaitersKept

(* It is settled.                                                          *)
LEMMA SettleFacts ==
  ASSUME IInv, NEW c \in Conns, slot[c].job # None, slot' = [slot EXCEPT ![c] = NoSlot],
         NEW x \in {"down", "top"}, cpc' = [cpc EXCEPT ![c] = x],
         UNCHANGED <<readerVars, chan, clock, dispVars, waiting, returned, runnerVars>>,
         UNCHANGED <<jobVars, stores>>, MarkFinished({slot[c].job}),
         ThreadTypes', FlagTypes', alive' \in [Conns -> BOOLEAN], ran' \in [Conns -> BOOLEAN]
  PROVE  IInv'
<1> USE DEF dispVars, jobVars, readerVars, runnerVars
<1> DEFINE r0 == slot[c].job
<1>1. /\ RunningOnce' /\ r0 \in Reqs /\ Running(r0)
      /\ \A r \in Reqs : Running(r)' <=> Running(r) /\ r # r0
  BY JobLeaves
<1>2. /\ SlotsMatch' /\ QueueExact' /\ slot' \in [Conns -> Slots]
      /\ cpc' \in [Conns -> {"down", "top", "wait", "nap", "lookup", "ops", "exited"}]
      /\ \A d \in Conns : d # c => cpc'[d] = cpc[d] /\ slot'[d] = slot[d]
  BY JobOverFacts
<1>3. ~Settled(r0)
  BY <1>1 DEF IInv, OnePlace
<1>4. /\ settled' \in SUBSET Reqs /\ finished' \in Nat /\ finished <= finished'
      /\ finished' = Cardinality(settled')
      /\ \A r \in Reqs : Settled(r)' <=> Settled(r) \/ r = r0
  <2>1. {r0} \in SUBSET Reqs /\ \A r \in {r0} : ~Settled(r)
    BY <1>1, <1>3
  <2>2. /\ settled' \in SUBSET Reqs /\ finished' \in Nat /\ finished <= finished'
        /\ finished' = Cardinality(settled')
        /\ \A r \in Reqs : Settled(r)' <=> Settled(r) \/ r \in {r0}
    BY <2>1, Settles
  <2> QED BY <2>2
<1>5. Types'
  <2>1. JobTypes'
    BY <1>4 DEF IInv, Types, JobTypes
  <2>2. HandedTypes'
    BY <1>2 DEF IInv, Types, HandedTypes
  <2>3. ConnTypes'
    BY <1>2 DEF ConnTypes
  <2> QED BY <2>1, <2>2, <2>3, TypesKept DEF IInv, Types
<1>6. /\ ChanOnce' /\ HeldOnce' /\ BackOnce'
      /\ \A r \in Reqs : /\ InReader(r)' <=> InReader(r)
                         /\ Known(r)' <=> Known(r)
                         /\ InChan(r)' <=> InChan(r)
                         /\ Held(r)' <=> Held(r)
                         /\ Back(r)' <=> Back(r)
  BY PlacesKept, SameBackKept
<1>7. OnePlace'
  BY <1>1, <1>4, <1>6 DEF IInv, OnePlace
<1>8. StoresMatch'
  BY <1>2, <1>4 DEF IInv, StoresMatch
<1>9. CountersMatch'
  BY <1>4, CountersKept
<1> QED
  BY <1>1, <1>2, <1>5, <1>6, <1>7, <1>8, <1>9 DEF IInv

(* A worker has no more connections than there are.                        *)
LEMMA OwnConns ==
  ASSUME NEW w
  PROVE  /\ Cardinality(ConnsOf(w)) \in Nat /\ Cardinality(Conns) \in Nat
         /\ Cardinality(ConnsOf(w)) <= Cardinality(Conns)
<1>1. ConnsOf(w) \in SUBSET Conns
  BY DEF ConnsOf
<1> QED
  BY <1>1, KvAssumption, FS_Subset, FS_CardinalityType

(* It is handed back, before its run went past the lookup.                 *)
LEMMA GiveBackFacts ==
  ASSUME IInv, NEW c \in Conns, slot[c].job # None, slot' = [slot EXCEPT ![c] = NoSlot],
         cpc[c] # "ops", cpc' = [cpc EXCEPT ![c] = "down"],
         UNCHANGED <<readerVars, chan, clock, dispVars, waiting, runnerVars, doneVars>>,
         UNCHANGED <<wants, stores>>, NEW why \in {"Unsent", "LookupSent"},
         MayGiveBack(c, slot[c].job, why), GiveBack(WorkerOf[c], slot[c].job, why),
         ThreadTypes', alive' \in [Conns -> BOOLEAN], ran' \in [Conns -> BOOLEAN]
  PROVE  IInv'
<1> USE DEF dispVars, readerVars, runnerVars, doneVars
<1> DEFINE r0 == slot[c].job
           w == WorkerOf[c]
           q == BackWith(w, r0)
<1>1. /\ RunningOnce' /\ r0 \in Reqs /\ Running(r0)
      /\ \A r \in Reqs : Running(r)' <=> Running(r) /\ r # r0
  BY JobLeaves
<1>2. /\ SlotsMatch' /\ QueueExact' /\ slot' \in [Conns -> Slots]
      /\ cpc' \in [Conns -> {"down", "top", "wait", "nap", "lookup", "ops", "exited"}]
      /\ \A d \in Conns : d # c => cpc'[d] = cpc[d] /\ slot'[d] = slot[d]
  <2>1. "down" \in {"down", "top"}
    OBVIOUS
  <2> QED BY <2>1, JobOverFacts
<1>3. ~Back(r0) /\ w \in Workers
  BY <1>1, KvAssumption DEF IInv, OnePlace
<1>4. /\ q \in Seq(Entry) /\ OwnQueue(w, q)
      /\ \A r \in Reqs : Back(r) \/ r = r0 <=> \/ BackElsewhere(w, r)
                                               \/ \E i \in 1..Len(q) : q[i].req = r
  BY <1>1, <1>3, BackAppended
<1>5. /\ returned' = [returned EXCEPT ![w] = q] /\ returned \in [Workers -> Seq(Entry)]
      /\ idle' = [idle EXCEPT ![w] = FALSE] /\ woken' = [woken EXCEPT ![w] = @ \/ idle[w]]
  BY DEF GiveBack, WakeDispatcher, BackWith, IInv, Types, HandedTypes
<1>6. /\ dead' = IF why = "Unsent" THEN [dead EXCEPT ![r0] = @ + 1] ELSE dead
      /\ retried' = IF why = "LookupSent" THEN [retried EXCEPT ![r0] = TRUE] ELSE retried
      /\ why = "Unsent" => dead[r0] < Cardinality(ConnsOf(w))
  BY DEF GiveBack, MayGiveBack
<1> HIDE DEF q, r0, w
<1>7. returned' \in [Workers -> Seq(Entry)] /\ BecomesRest(w, q, 0) /\ Len(q) \in Nat
  <2>1. returned'[w] = q /\ \A v \in Workers : v # w => returned'[v] = returned[v]
    BY <1>3, <1>5
  <2>2. Len(q) \in Nat
    BY <1>4, LenProperties
  <2>3. BecomesRest(w, q, 0)
    BY <2>1, <2>2 DEF BecomesRest
  <2> QED BY <1>3, <1>4, <1>5, <2>2, <2>3
<1>8. BackOnce' /\ \A r \in Reqs : Back(r)' <=> Back(r) \/ r = r0
  <2>1. 0 \in Nat /\ 0 <= Len(q) /\ BackOnce
    BY <1>7 DEF IInv
  <2>2. /\ BackOnce'
        /\ \A r \in Reqs : Back(r)' <=> \/ BackElsewhere(w, r)
                                        \/ \E i \in 1..Len(q) : 0 < i /\ q[i].req = r
    BY <1>3, <1>4, <1>7, <2>1, BackMoved
  <2>3. \A i \in 1..Len(q) : 0 < i
    BY <1>7
  <2> QED BY <1>4, <2>2, <2>3
<1>9. Types'
  <2>1. dead' \in [Reqs -> 0..Cardinality(Conns)]
    <3>1. dead \in [Reqs -> 0..Cardinality(Conns)]
      BY DEF IInv, Types, JobTypes
    <3>2. why = "Unsent" => dead[r0] + 1 \in 0..Cardinality(Conns)
      BY <1>1, <1>6, <3>1, OwnConns
    <3> QED BY <1>1, <1>6, <3>1, <3>2
  <2>2. retried' \in [Reqs -> BOOLEAN]
    BY <1>6 DEF IInv, Types, JobTypes
  <2>3. JobTypes'
    BY <2>1, <2>2 DEF IInv, Types, JobTypes
  <2>4. HandedTypes'
    BY <1>2, <1>7 DEF IInv, Types, HandedTypes
  <2>5. ConnTypes'
    BY <1>2 DEF ConnTypes
  <2>6. FlagTypes'
    <3>1. idle' \in [Workers -> BOOLEAN] /\ idle \in [Workers -> BOOLEAN]
          /\ woken \in [Workers -> BOOLEAN]
      BY <1>5 DEF IInv, Types, FlagTypes
    <3>2. \E b \in BOOLEAN : woken' = [woken EXCEPT ![w] = b]
      BY <1>3, <1>5, Zenon
    <3> QED BY <3>1, <3>2 DEF IInv, Types, FlagTypes
  <2> QED BY <2>3, <2>4, <2>5, <2>6, TypesKept DEF IInv, Types
<1>10. /\ ChanOnce' /\ HeldOnce'
       /\ \A r \in Reqs : /\ InReader(r)' <=> InReader(r)
                          /\ Known(r)' <=> Known(r)
                          /\ InChan(r)' <=> InChan(r)
                          /\ Held(r)' <=> Held(r)
                          /\ Settled(r)' <=> Settled(r)
  BY PlacesKept
<1>11. OnePlace'
  BY <1>1, <1>8, <1>10 DEF IInv, OnePlace
<1>12. StoresMatch'
  BY <1>2, <1>10 DEF IInv, StoresMatch
<1>13. CountersMatch'
  BY <1>10 DEF IInv, CountersMatch, stopped
<1> QED
  BY <1>1, <1>2, <1>8, <1>9, <1>10, <1>11, <1>12, <1>13 DEF IInv

LEMMA LeavesTypes ==
  ASSUME IInv, NEW c \in Conns, NEW x, Leaves(c, x), UNCHANGED <<dpc, timer>>
  PROVE  ThreadTypes' /\ alive' \in [Conns -> BOOLEAN] /\ ran' \in [Conns -> BOOLEAN]
BY DEF Leaves, IInv, Types, ThreadTypes, ConnTypes

(* The run of a request ends with its answers or with the connection.      *)
LEMMA RunStep ==
  ASSUME IInv, NEW c \in Conns, RunDisconnects(c) \/ RunEnds(c)
  PROVE  IInv'
<1> USE DEF connOnly, dispVars, wakeVars
<1>1. /\ slot' = [slot EXCEPT ![c] = NoSlot] /\ MarkFinished({slot[c].job})
      /\ UNCHANGED <<readerVars, chan, clock, dispVars, waiting, returned, runnerVars>>
      /\ UNCHANGED <<jobVars, stores, wakeVars>>
      /\ cpc[c] \in {"lookup", "ops"}
  BY DEF RunDisconnects, RunEnds, Leaves
<1>2. slot[c].job # None
  BY <1>1 DEF IInv, SlotsMatch
<1>3. \E x \in {"down", "top"} : cpc' = [cpc EXCEPT ![c] = x]
  BY DEF RunDisconnects, RunEnds, Leaves
<1>4. FlagTypes'
  BY <1>1, TypesKept DEF IInv
<1>5. ThreadTypes' /\ alive' \in [Conns -> BOOLEAN] /\ ran' \in [Conns -> BOOLEAN]
  <2>1. CASE RunDisconnects(c)
    BY <1>1, <2>1, LeavesTypes DEF RunDisconnects
  <2>2. CASE RunEnds(c)
    BY <1>1, <2>2 DEF RunEnds, IInv, Types, ThreadTypes, ConnTypes
  <2> QED BY <2>1, <2>2
<1> QED
  BY <1>1, <1>2, <1>3, <1>4, <1>5, SettleFacts

(* A connection that finds itself closed hands its request back, as often  *)
(* as give_back allows, and fails it after that.                           *)
LEMMA HandBackStep ==
  ASSUME IInv, NEW c \in Conns, GetsJobDead(c) \/ LookupClosed(c)
  PROVE  IInv'
<1> USE DEF connOnly
<1>1. \E why \in {"Unsent", "LookupSent"} : GiveBackOrFail(c, why)
  BY DEF GetsJobDead, LookupClosed
<1>2. PICK why \in {"Unsent", "LookupSent"} : GiveBackOrFail(c, why)
  BY <1>1
<1>3. /\ Leaves(c, "down") /\ UNCHANGED <<readerVars, chan, clock, dispVars, waiting, runnerVars>>
      /\ UNCHANGED <<wants, stores>> /\ cpc[c] # "ops"
  BY DEF GetsJobDead, LookupClosed
<1>4. slot[c].job # None
  BY DEF GetsJobDead, LookupClosed, IInv, SlotsMatch
<1>5. slot' = [slot EXCEPT ![c] = NoSlot] /\ cpc' = [cpc EXCEPT ![c] = "down"]
  BY <1>3 DEF Leaves
<1>6. ThreadTypes' /\ alive' \in [Conns -> BOOLEAN] /\ ran' \in [Conns -> BOOLEAN]
  BY <1>3, LeavesTypes DEF dispVars
<1>7. CASE MayGiveBack(c, slot[c].job, why)
  <2>1. GiveBack(WorkerOf[c], slot[c].job, why) /\ UNCHANGED doneVars
    BY <1>2, <1>7 DEF GiveBackOrFail
  <2> QED BY <1>3, <1>4, <1>5, <1>6, <1>7, <2>1, GiveBackFacts
<1>8. CASE ~MayGiveBack(c, slot[c].job, why)
  <2>1. MarkFinished({slot[c].job}) /\ UNCHANGED <<returned, idle, woken, jobVars>>
    BY <1>2, <1>8 DEF GiveBackOrFail
  <2>2. FlagTypes'
    BY <1>3, <2>1, TypesKept DEF IInv, wakeVars, dispVars
  <2>3. "down" \in {"down", "top"}
    OBVIOUS
  <2> QED BY <1>3, <1>4, <1>5, <1>6, <2>1, <2>2, <2>3, SettleFacts
<1> QED
  BY <1>7, <1>8

(* A connection asks for a request: it joins the queue, unless the queue   *)
(* was closed for good.                                                    *)
LEMMA NextJobStep ==
  ASSUME IInv, NEW c \in Conns, NextJob(c)
  PROVE  IInv'
<1> USE DEF connOnly, doneVars, dispVars, wakeVars, connVars, jobVars, readerVars, runnerVars
<1> DEFINE w == WorkerOf[c]
<1>1. w \in Workers /\ c \in ConnsOf(w)
  BY KvAssumption DEF ConnsOf
<1>2. /\ cpc[c] = "top" /\ thread' = [thread EXCEPT ![w] = "none"]
      /\ UNCHANGED <<connOnly, doneVars, returned, wants, alive, ran, jobVars, stores>>
  BY DEF NextJob
<1>3. /\ slot \in [Conns -> Slots] /\ NoSlot \in Slots /\ slot[c].job = None
      /\ NoSlot.job = None /\ ~NoSlot.done /\ waiting \in [Workers -> Seq(Conns)]
      /\ cpc \in [Conns -> {"down", "top", "wait", "nap", "lookup", "ops", "exited"}]
  BY <1>2 DEF IInv, Types, HandedTypes, ConnTypes, NoSlot, Slots, SlotsMatch
<1>4. ThreadTypes'
  BY <1>1, <1>2 DEF IInv, Types, ThreadTypes
<1>5. CASE closed[w]
  <2>1. cpc' = [cpc EXCEPT ![c] = "nap"] /\ UNCHANGED <<waiting, slot, idle, woken>>
    BY <1>5 DEF NextJob
  <2>2. ConnTypes'
    BY <1>2, <2>1 DEF IInv, Types, ConnTypes
  <2>3. Types'
    BY <1>2, <1>4, <2>1, <2>2, TypesKept DEF IInv, Types
  <2>4. cpc'[c] = "nap" /\ \A d \in Conns : d # c => cpc'[d] = cpc[d]
    BY <1>3, <2>1
  <2>5. SameBack /\ SameJobs /\ SameWaiters
    BY <1>2, <2>1, <2>4, SameBackKept DEF SameJobs, SameWaiters
  <2>6. SlotsMatch'
    BY <1>3, <2>1, <2>4 DEF IInv, SlotsMatch
  <2>7. StoresMatch'
    BY <1>2, <2>4, <2>5, JobsKept
  <2> QED BY <1>2, <2>1, <2>3, <2>5, <2>6, <2>7, MoveStep
<1>6. CASE ~closed[w]
  <2>1. /\ cpc' = [cpc EXCEPT ![c] = "wait"] /\ slot' = [slot EXCEPT ![c] = NoSlot]
        /\ waiting' = [waiting EXCEPT ![w] = Append(waiting[w], c)]
        /\ \/ UNCHANGED <<idle, woken>>
           \/ /\ idle' = [idle EXCEPT ![w] = FALSE]
              /\ woken' = [woken EXCEPT ![w] = @ \/ idle[w]]
    BY <1>6 DEF NextJob, WakeDispatcher
  <2> HIDE DEF w
  <2>2. /\ cpc'[c] = "wait" /\ slot'[c] = NoSlot
        /\ \A d \in Conns : d # c => cpc'[d] = cpc[d] /\ slot'[d] = slot[d]
    BY <1>3, <2>1
  <2>3. Types'
    <3>1. ConnTypes'
      BY <1>2, <2>1 DEF IInv, Types, ConnTypes
    <3>2. waiting' \in [Workers -> Seq(Conns)] /\ slot' \in [Conns -> Slots]
      <4>1. Append(waiting[w], c) \in Seq(Conns)
        BY <1>1, <1>3, AppendFacts
      <4> QED BY <1>3, <2>1, <4>1
    <3>3. HandedTypes'
      BY <1>2, <3>2 DEF IInv, Types, HandedTypes
    <3>4. FlagTypes'
      <4>1. (\E b \in BOOLEAN : woken' = [woken EXCEPT ![w] = b]) \/ woken' = woken
        <5>1. idle[w] \in BOOLEAN /\ woken[w] \in BOOLEAN
          BY <1>1 DEF IInv, Types, FlagTypes
        <5> QED BY <2>1, <5>1, Zenon
      <4>2. woken' \in [Workers -> BOOLEAN]
        BY <4>1 DEF IInv, Types, FlagTypes
      <4>3. idle' \in [Workers -> BOOLEAN]
        BY <2>1 DEF IInv, Types, FlagTypes
      <4> QED BY <1>2, <4>2, <4>3 DEF IInv, Types, FlagTypes
    <3> QED BY <1>2, <1>4, <3>1, <3>3, <3>4, TypesKept DEF IInv, Types
  <2>4. SameBack /\ SameJobs
    BY <1>2, <1>3, <2>2, SameBackKept DEF SameJobs
  <2>5. RunningOnce' /\ (\A r \in Reqs : Running(r)' <=> Running(r)) /\ StoresMatch'
    BY <1>2, <2>2, <2>4, JobsKept
  <2>6. OnePlace' /\ ChanOnce' /\ HeldOnce' /\ BackOnce'
    BY <1>2, <2>4, <2>5, PlacesKept DEF IInv, OnePlace
  <2>7. SlotsMatch'
    BY <1>3, <2>2 DEF IInv, SlotsMatch
  <2>8. CountersMatch'
    BY <1>2 DEF IInv, CountersMatch, stopped, Known, InReader, Settled
  <2>9. /\ Len(waiting[w]) \in Nat /\ Len(waiting'[w]) = Len(waiting[w]) + 1
        /\ Len(waiting[w]) + 1 \in 1..Len(waiting'[w]) /\ waiting'[w][Len(waiting[w]) + 1] = c
        /\ \A i \in 1..Len(waiting[w]) : i \in 1..Len(waiting'[w]) /\ waiting'[w][i] = waiting[w][i]
        /\ \A i \in 1..Len(waiting'[w]) : i # Len(waiting[w]) + 1 => i \in 1..Len(waiting[w])
    <3>1. waiting'[w] = Append(waiting[w], c) /\ waiting[w] \in Seq(Conns)
      BY <1>1, <1>3, <2>1
    <3> QED BY <3>1, AppendFacts
  <2>10. \A v \in Workers : \A i \in 1..Len(waiting[v]) :
           waiting[v][i] \in Conns /\ waiting[v][i] # c
    <3>1. \A v \in Workers : \A i \in 1..Len(waiting[v]) : waiting[v][i] \in Conns
      BY <1>3, ElementOfSeq
    <3> QED BY <1>2, <3>1 DEF IInv, QueueExact
  <2>11. ASSUME NEW v \in Workers, v # w
         PROVE  /\ \A i \in 1..Len(waiting'[v]) :
                     /\ WorkerOf[waiting'[v][i]] = v
                     /\ cpc'[waiting'[v][i]] = "wait" /\ ~slot'[waiting'[v][i]].done
                     /\ \A j \in 1..Len(waiting'[v]) : waiting'[v][i] = waiting'[v][j] => i = j
                /\ \A d \in ConnsOf(v) : cpc'[d] = "wait" /\ ~slot'[d].done =>
                     \E i \in 1..Len(waiting'[v]) : waiting'[v][i] = d
    <3>1. waiting'[v] = waiting[v] /\ \A d \in ConnsOf(v) : d \in Conns /\ d # c
      BY <1>1, <1>3, <2>1, <2>11 DEF ConnsOf
    <3> QED BY <2>2, <2>10, <3>1 DEF IInv, QueueExact
  <2>12. ASSUME NEW i \in 1..Len(waiting'[w])
         PROVE  /\ WorkerOf[waiting'[w][i]] = w
                /\ cpc'[waiting'[w][i]] = "wait" /\ ~slot'[waiting'[w][i]].done
                /\ \A j \in 1..Len(waiting'[w]) : waiting'[w][i] = waiting'[w][j] => i = j
    <3>1. CASE i = Len(waiting[w]) + 1
      <4>1. \A j \in 1..Len(waiting'[w]) : waiting'[w][i] = waiting'[w][j] => i = j
        BY <1>1, <2>9, <2>10, <3>1
      <4> QED BY <1>1, <1>3, <2>2, <2>9, <3>1, <4>1 DEF ConnsOf
    <3>2. CASE i # Len(waiting[w]) + 1
      <4>1. i \in 1..Len(waiting[w]) /\ waiting'[w][i] = waiting[w][i]
        BY <2>9, <3>2
      <4>2. \A m, n \in 1..Len(waiting[w]) : waiting[w][m] = waiting[w][n] => m = n
        BY <1>1 DEF IInv, QueueExact
      <4>3. \A j \in 1..Len(waiting'[w]) : waiting'[w][i] = waiting'[w][j] => i = j
        BY <1>1, <2>9, <2>10, <4>1, <4>2
      <4> QED BY <1>1, <2>2, <2>10, <4>1, <4>3 DEF IInv, QueueExact
    <3> QED BY <3>1, <3>2
  <2>13. ASSUME NEW d \in ConnsOf(w), cpc'[d] = "wait", ~slot'[d].done
         PROVE  \E i \in 1..Len(waiting'[w]) : waiting'[w][i] = d
    <3>1. CASE d = c
      BY <2>9, <3>1
    <3>2. CASE d # c
      <4>1. d \in Conns /\ cpc[d] = "wait" /\ ~slot[d].done
        BY <2>2, <2>13, <3>2 DEF ConnsOf
      <4>2. PICK i \in 1..Len(waiting[w]) : waiting[w][i] = d
        BY <1>1, <4>1 DEF IInv, QueueExact
      <4> QED BY <2>9, <4>2
    <3> QED BY <3>1, <3>2
  <2>14. \A v \in Workers : /\ dpc'[v] = "exited" => closed'[v]
                            /\ closed'[v] => waiting'[v] = <<>>
    BY <1>2, <1>3, <1>6, <2>1 DEF IInv, QueueExact
  <2>15. QueueExact'
    BY <2>11, <2>12, <2>13, <2>14 DEF QueueExact, ConnsOf
  <2> QED BY <2>3, <2>5, <2>6, <2>7, <2>8, <2>15 DEF IInv
<1> QED
  BY <1>5, <1>6

-----------------------------------------------------------------------------
(* The invariant                                                           *)

LEMMA InvInit == Init => IInv
<1> SUFFICES ASSUME Init PROVE IInv
  OBVIOUS
<1>1. Types
  BY TypesInit
<1>2. /\ next = 1 /\ rd = "read" /\ counted = 0 /\ chan = <<>> /\ finished = 0 /\ settled = {}
      /\ pending = [w \in Workers |-> None]
      /\ waiting = [w \in Workers |-> <<>>] /\ returned = [w \in Workers |-> <<>>]
      /\ cpc = [c \in Conns |-> "down"] /\ slot = [c \in Conns |-> NoSlot]
      /\ watch = "idle" /\ over = FALSE /\ stores = [r \in Reqs |-> 0]
      /\ dpc = [w \in Workers |-> IF closed[w] THEN "exited" ELSE "poll"]
  BY DEF Init
<1>3. /\ \A w \in Workers : Len(returned[w]) = 0 /\ Len(waiting[w]) = 0 /\ waiting[w] = <<>>
      /\ Len(chan) = 0 /\ NoSlot.job = None /\ ~NoSlot.done
      /\ \A i \in 1..0 : FALSE
  BY <1>2 DEF NoSlot
<1>4. \A r \in Reqs : r # None /\ ~(r < 1)
  BY DEF Reqs, None
<1>5. OnePlace
  BY <1>2, <1>3, <1>4 DEF OnePlace, Known, InReader, InChan, Held, Back, Running, Settled
<1>6. ChanOnce /\ HeldOnce /\ BackOnce /\ RunningOnce
  BY <1>2, <1>3 DEF ChanOnce, HeldOnce, BackOnce, RunningOnce
<1>7. SlotsMatch
  BY <1>2, <1>3 DEF SlotsMatch
<1>8. QueueExact
  <2>1. \A w \in Workers : dpc[w] = "exited" => closed[w]
    BY <1>2
  <2>2. \A c \in Conns : cpc[c] = "down"
    BY <1>2
  <2> QED BY <1>3, <2>1, <2>2 DEF QueueExact, ConnsOf
<1>9. StoresMatch
  BY <1>2 DEF StoresMatch
<1>10. CountersMatch
  BY <1>2, FS_EmptySet DEF CountersMatch
<1> QED
  BY <1>1, <1>5, <1>6, <1>7, <1>8, <1>9, <1>10 DEF IInv

LEMMA InvStep == IInv /\ [Next]_vars => IInv'
<1> SUFFICES ASSUME IInv, [Next]_vars PROVE IInv'
  OBVIOUS
<1>1. CASE Reader \/ Tick
  BY <1>1, CountStep, SendStep, ReaderStopsStep DEF Reader
<1>2. CASE Runner
  BY <1>2, RunnerStep
<1>3. ASSUME NEW w \in Workers, Dispatcher(w) \/ TimerFires(w) PROVE IInv'
  BY <1>3, StopStep, ServeStep, ClaimStep, HandOutStep, WaitStep, DispatcherQuiet DEF Dispatcher
<1>4. ASSUME NEW c \in Conns, Connection(c) \/ Dies(c) PROVE IInv'
  BY <1>4, ConnectStep, LeaveStep, LookupStep, RunStep, HandBackStep, NextJobStep DEF Connection
<1>5. CASE UNCHANGED vars
  <2>1. /\ UNCHANGED <<readerVars, chan, clock, runnerVars, doneVars, jobVars, stores>>
        /\ UNCHANGED <<pending, waiting, returned, slot, thread, dpc, timer>>
        /\ UNCHANGED <<exhausted, closed, wakeVars, connVars>>
    BY <1>5 DEF vars, dispVars
  <2>2. Types'
    BY <2>1, TypesKept DEF IInv, Types
  <2>3. (watch # "idle" => stopped) /\ (watch = "done" => seen <= finished)
    BY DEF IInv, CountersMatch
  <2> QED BY <2>1, <2>2, <2>3, QuietStep, SameBackKept
             DEF readerVars, runnerVars, doneVars, connVars
<1> QED
  BY <1>1, <1>2, <1>3, <1>4, <1>5 DEF Next, Ended

(* The invariant that carries both results: every request the reader took  *)
(* up is in one place of the chain reader, channel, dispatcher, queue of   *)
(* handed-back requests, connection, or settled.                           *)
THEOREM KvInvariant == Spec => []IInv
BY InvInit, InvStep, PTL DEF Spec

-----------------------------------------------------------------------------
(* What the invariant says                                                 *)

LEMMA OpenParts ==
  ASSUME NEW r
  PROVE  Open(r) = AtReader(r) \cup AtChannel(r) \cup AtPending(r) \cup AtReturned(r) \cup AtConn(r)
BY DEF Open

LEMMA PartsEmpty ==
  ASSUME NEW r
  PROVE  /\ ~InReader(r) => AtReader(r) = {}
         /\ ~InChan(r) => AtChannel(r) = {}
         /\ ~Held(r) => AtPending(r) = {}
         /\ ~Back(r) => AtReturned(r) = {}
         /\ ~Running(r) => AtConn(r) = {}
<1>1. ~InReader(r) => AtReader(r) = {}
  BY DEF InReader, AtReader
<1>2. ~InChan(r) => AtChannel(r) = {}
  BY DEF InChan, AtChannel
<1>3. ~Held(r) => AtPending(r) = {}
  BY DEF Held, AtPending
<1>4. ~Back(r) => AtReturned(r) = {}
  BY DEF Back, AtReturned
<1>5. ~Running(r) => AtConn(r) = {}
  BY DEF Running, AtConn
<1> QED
  BY <1>1, <1>2, <1>3, <1>4, <1>5

(* A place holds a request once.                                           *)
LEMMA PartsOne ==
  ASSUME IInv, NEW r \in Reqs
  PROVE  /\ InReader(r) => \E x : AtReader(r) = {x}
         /\ InChan(r) => \E x : AtChannel(r) = {x}
         /\ Held(r) => \E x : AtPending(r) = {x}
         /\ Back(r) => \E x : AtReturned(r) = {x}
         /\ Running(r) => \E x : AtConn(r) = {x}
<1>1. InReader(r) => \E x : AtReader(r) = {x}
  BY DEF InReader, AtReader
<1>2. ASSUME InChan(r) PROVE \E x : AtChannel(r) = {x}
  <2>1. PICK i \in 1..Len(chan) : chan[i] = r
    BY <1>2 DEF InChan
  <2>2. {j \in 1..Len(chan) : chan[j] = r} = {i}
    BY <2>1 DEF IInv, ChanOnce
  <2>3. AtChannel(r) = {<<"channel", i>>}
    BY <2>2 DEF AtChannel
  <2> QED BY <2>3
<1>3. ASSUME Held(r) PROVE \E x : AtPending(r) = {x}
  <2>1. PICK w \in Workers : pending[w] = r
    BY <1>3 DEF Held
  <2>2. r # None
    BY DEF Reqs, None
  <2>3. {v \in Workers : pending[v] = r} = {w}
    BY <2>1, <2>2 DEF IInv, HeldOnce
  <2>4. AtPending(r) = {<<"pending", w>>}
    BY <2>3 DEF AtPending
  <2> QED BY <2>4
<1>4. ASSUME Back(r) PROVE \E x : AtReturned(r) = {x}
  <2>1. PICK w \in Workers : \E i \in 1..Len(returned[w]) : returned[w][i].req = r
    BY <1>4 DEF Back
  <2>2. PICK i \in 1..Len(returned[w]) : returned[w][i].req = r
    BY <2>1
  <2>3. \A v \in Workers : \A j \in 1..Len(returned[v]) :
          returned[v][j].req = r => v = w /\ j = i
    BY <2>2 DEF IInv, BackOnce
  <2>4. {j \in 1..Len(returned[w]) : returned[w][j].req = r} = {i}
    BY <2>2, <2>3
  <2>5. \A v \in Workers : v # w => {j \in 1..Len(returned[v]) : returned[v][j].req = r} = {}
    BY <2>3
  <2>6. AtReturned(r) = {<<"returned", w, i>>}
    BY <2>4, <2>5 DEF AtReturned
  <2> QED BY <2>6
<1>5. ASSUME Running(r) PROVE \E x : AtConn(r) = {x}
  <2>1. PICK c \in Conns : slot[c].job = r
    BY <1>5 DEF Running
  <2>2. r # None
    BY DEF Reqs, None
  <2>3. {d \in Conns : slot[d].job = r} = {c}
    BY <2>1, <2>2 DEF IInv, RunningOnce
  <2>4. AtConn(r) = {<<"conn", c>>}
    BY <2>3 DEF AtConn
  <2> QED BY <2>4
<1> QED
  BY <1>1, <1>2, <1>3, <1>4, <1>5

LEMMA OpenIs ==
  ASSUME IInv, NEW r \in Reqs
  PROVE  /\ Known(r) /\ ~Settled(r) => Cardinality(Open(r)) = 1
         /\ ~Known(r) \/ Settled(r) => Open(r) = {} /\ Cardinality(Open(r)) = 0
<1>1. Open(r) = AtReader(r) \cup AtChannel(r) \cup AtPending(r) \cup AtReturned(r) \cup AtConn(r)
  BY OpenParts
<1>2. /\ Known(r) <=> InReader(r) \/ InChan(r) \/ Held(r) \/ Back(r) \/ Running(r) \/ Settled(r)
      /\ ~(InReader(r) /\ (InChan(r) \/ Held(r) \/ Back(r) \/ Running(r) \/ Settled(r)))
      /\ ~(InChan(r) /\ (Held(r) \/ Back(r) \/ Running(r) \/ Settled(r)))
      /\ ~(Held(r) /\ (Back(r) \/ Running(r) \/ Settled(r)))
      /\ ~(Back(r) /\ (Running(r) \/ Settled(r)))
      /\ ~(Running(r) /\ Settled(r))
  BY DEF IInv, OnePlace
<1>3. ASSUME Known(r), ~Settled(r) PROVE \E x : Open(r) = {x}
  <2> HIDE DEF IInv, Open, AtReader, AtChannel, AtPending, AtReturned, AtConn
  <2>1. CASE InReader(r)
    <3>1. Open(r) = AtReader(r)
      BY <1>1, <1>2, <2>1, PartsEmpty
    <3> QED BY <2>1, <3>1, PartsOne
  <2>2. CASE InChan(r)
    <3>1. Open(r) = AtChannel(r)
      BY <1>1, <1>2, <2>2, PartsEmpty
    <3> QED BY <2>2, <3>1, PartsOne
  <2>3. CASE Held(r)
    <3>1. Open(r) = AtPending(r)
      BY <1>1, <1>2, <2>3, PartsEmpty
    <3> QED BY <2>3, <3>1, PartsOne
  <2>4. CASE Back(r)
    <3>1. Open(r) = AtReturned(r)
      BY <1>1, <1>2, <2>4, PartsEmpty
    <3> QED BY <2>4, <3>1, PartsOne
  <2>5. CASE Running(r)
    <3>1. Open(r) = AtConn(r)
      BY <1>1, <1>2, <2>5, PartsEmpty
    <3> QED BY <2>5, <3>1, PartsOne
  <2> QED BY <1>2, <1>3, <2>1, <2>2, <2>3, <2>4, <2>5
<1>4. ASSUME ~Known(r) \/ Settled(r) PROVE Open(r) = {}
  <2>1. ~InReader(r) /\ ~InChan(r) /\ ~Held(r) /\ ~Back(r) /\ ~Running(r)
    BY <1>2, <1>4
  <2> QED BY <1>1, <2>1, PartsEmpty
<1>5. \A x : Cardinality({x}) = 1
  BY FS_Singleton
<1> QED
  BY <1>3, <1>4, <1>5, FS_EmptySet

(* KvReplay as a whole (next_job, give_back, mark_finished, is_finished):  *)
(* whatever the order of reader, dispatchers, connections and runner, a    *)
(* request is in one place or finished once, at most one run of it gets    *)
(* past its lookup, the bounds hold, and the run ends only when no request *)
(* is left.                                                                *)
THEOREM RequestsNeverLost == Spec => []RequestsSound
<1>1. IInv => RequestsSound
  <2> SUFFICES ASSUME IInv PROVE RequestsSound
    OBVIOUS
  <2>1. TypeOK
    BY TypesAreTypeOK DEF IInv
  <2>2. RequestsConserved
    <3>1. finished = Cardinality(settled)
      BY DEF IInv, CountersMatch
    <3>2. ASSUME NEW r \in Reqs
          PROVE  IF r < next \/ (r = next /\ rd = "send")
                 THEN Cardinality(Open(r)) = (IF r \in settled THEN 0 ELSE 1)
                 ELSE Open(r) = {} /\ r \notin settled
      <4>1. Known(r) <=> r < next \/ (r = next /\ rd = "send")
        BY DEF Known, InReader
      <4>2. ~Known(r) => r \notin settled
        BY DEF IInv, OnePlace, Settled
      <4> QED BY <4>1, <4>2, OpenIs DEF Settled
    <3> QED BY <3>1, <3>2 DEF RequestsConserved
  <2>3. StoredOnce
    BY DEF IInv, StoresMatch, StoredOnce
  <2>4. FinishedMeansAll
    BY OpenIs DEF IInv, CountersMatch, FinishedMeansAll
  <2> QED BY <2>1, <2>2, <2>3, <2>4 DEF RequestsSound
<1> QED
  BY <1>1, KvInvariant, PTL

(* next_job and close: a connection that waits is in the queue of its      *)
(* worker, once, and the dispatcher that serves the queue has not          *)
(* returned; no wait is lost to a close that races it.                     *)
THEOREM WaitersServed == Spec => []NobodyForgotten
<1>1. IInv => NobodyForgotten
  <2> SUFFICES ASSUME IInv, NEW c \in Conns, cpc[c] = "wait", ~slot[c].done
               PROVE  /\ dpc[WorkerOf[c]] # "exited"
                      /\ Cardinality({i \in 1..Len(waiting[WorkerOf[c]]) :
                                        waiting[WorkerOf[c]][i] = c}) = 1
    BY DEF NobodyForgotten
  <2> DEFINE w == WorkerOf[c]
  <2>1. w \in Workers /\ c \in ConnsOf(w)
    BY KvAssumption DEF ConnsOf
  <2> HIDE DEF w
  <2>2. PICK i \in 1..Len(waiting[w]) : waiting[w][i] = c
    BY <2>1 DEF IInv, QueueExact
  <2>3. {j \in 1..Len(waiting[w]) : waiting[w][j] = c} = {i}
    BY <2>1, <2>2 DEF IInv, QueueExact
  <2>4. dpc[w] # "exited"
    <3>1. waiting[w] # <<>>
      BY <2>2
    <3> QED BY <2>1, <3>1 DEF IInv, QueueExact
  <2>5. Cardinality({j \in 1..Len(waiting[w]) : waiting[w][j] = c}) = 1
    BY <2>3, FS_Singleton
  <2> QED BY <2>4, <2>5 DEF w
<1> QED
  BY <1>1, KvInvariant, PTL
=============================================================================
