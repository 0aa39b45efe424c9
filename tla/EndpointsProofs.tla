-------------------------- MODULE EndpointsProofs ---------------------------
(***************************************************************************)
(* The proofs about the parts that MCParts puts side by side: those of     *)
(* MCEndpoints and the request timeout.  A step of EndsNext is a step of   *)
(* one part and leaves the others alone, so each part's inductive          *)
(* invariant is proved of its own Next.  The request timeout has its own   *)
(* specification, that of RequestTimer.                                    *)
(***************************************************************************)
EXTENDS RequestTimer, MCEndpoints, SequenceTheorems, FiniteSetTheorems, TLAPS

-----------------------------------------------------------------------------
(* The admin server: what was staged is in one of the recorder's files     *)

(* The staging file exists while the recorder is at work on it, and what   *)
(* it converted is what was staged.                                        *)
AdminInv ==
  /\ at \in [Adm!Tasks -> {"off", "spawned", "select", "handle", "snap", "skip", "final",
                           "convert", "ended"}]
  /\ staged \in Nat
  /\ at["recorder"] \in {"off", "spawned"} => ~staging /\ staged = 0
  /\ at["recorder"] \in {"select", "snap", "skip", "final", "convert"} => staging
  /\ at["recorder"] # "handle"
  /\ at["recorder"] # "ended" => rows = -1 /\ torn = "none"
  /\ at["recorder"] = "ended" =>
       /\ torn = "none" => rows = staged \/ (staged = 0 /\ rows = -1)
       /\ torn # "none" => rows = -1
       /\ torn \notin {"none", "convert"} => staging

LEMMA AdminSteps ==
  [EndsNext]_allvars => Adm!Next \/ UNCHANGED av
  BY DEF EndsNext, allvars, Fabric, Admin

LEMMA AdminInit == EndsInit => AdminInv
  BY DEF EndsInit, Adm!Init, Adm!Tasks, AdminInv

(* The steps that are not the recorder's writes change no more of the     *)
(* recording than where the recorder is.                                   *)
LEMMA AdminOthers ==
  ASSUME AdminInv, Adm!Next,
         ~(Adm!OpensStaging \/ Adm!Snaps \/ Adm!FinalSnapshot \/ Adm!Converts)
  PROVE  /\ at' \in [Adm!Tasks -> {"off", "spawned", "select", "handle", "snap", "skip", "final",
                                   "convert", "ended"}]
         /\ staged' = staged /\ staging' = staging /\ rows' = rows /\ torn' = torn
         /\ \/ at'["recorder"] = at["recorder"]
            \/ /\ at["recorder"] = "select" /\ at'["recorder"] \in {"snap", "skip", "final"}
  BY DEF AdminInv, Adm!Next, Adm!Admin, Adm!Starts, Adm!ThreadEnds, Adm!Binds, Adm!Accepted,
         Adm!ServerStops, Adm!RecorderStops, Adm!Shutdown, Adm!Joins, Adm!PhaseMoves, Adm!Accepts,
         Adm!IntervalElapses, Adm!Serves, Adm!StreamEnds, Adm!Go, Adm!OtherBranch, Adm!StopBranch,
         Adm!recorder, Adm!Tasks

LEMMA AdminNext == AdminInv /\ [EndsNext]_allvars => AdminInv'
  <1>. SUFFICES ASSUME AdminInv, [EndsNext]_allvars PROVE AdminInv'
    OBVIOUS
  <1>1. CASE UNCHANGED av
    BY <1>1 DEF AdminInv, av
  <1>2. CASE Adm!OpensStaging
    BY <1>2 DEF AdminInv, Adm!OpensStaging, Adm!Go, Adm!Tasks
  <1>3. CASE Adm!Snaps
    BY <1>3 DEF AdminInv, Adm!Snaps, Adm!Appended, Adm!Go, Adm!Tasks
  <1>4. CASE Adm!FinalSnapshot
    <2>0. at["recorder"] = "final" /\ rows' = rows /\ staging' = staging /\ Adm!Appended
      BY <1>4, Zenon DEF Adm!FinalSnapshot, Adm!LeftOnError
    <2>1. staging /\ rows = -1 /\ torn = "none" /\ staged' \in Nat
      BY <2>0 DEF AdminInv, Adm!Appended
    <2>2. \/ at' = [at EXCEPT !["recorder"] = "convert"] /\ torn' = torn
          \/ at' = [at EXCEPT !["recorder"] = "ended"] /\ torn' = "flush"
      BY <1>4 DEF Adm!FinalSnapshot, Adm!Go
    <2>. QED
      BY <2>0, <2>1, <2>2 DEF AdminInv, Adm!Tasks
  <1>5. CASE Adm!Converts
    BY <1>5 DEF AdminInv, Adm!Converts, Adm!Go, Adm!Tasks
  <1>6. CASE Adm!Next /\ ~(Adm!OpensStaging \/ Adm!Snaps \/ Adm!FinalSnapshot \/ Adm!Converts)
    BY <1>6, AdminOthers DEF AdminInv
  <1>. QED
    BY <1>1, <1>2, <1>3, <1>4, <1>5, <1>6, AdminSteps

(* Every series a scrape shows is one a snapshot records.                  *)
LEMMA SeriesRecorded == \A m \in Adm!Metrics : Adm!PromSeries(m) \subseteq Adm!SnapSeries(m)
  BY DEF Adm!Metrics, Adm!Kinds, Adm!PromSeries, Adm!SnapSeries

(* At every moment, the snapshots staged are in the staging file or all in *)
(* the parquet file, unless a conversion failed, after which both may be   *)
(* gone; a recorder that ended without a failure has a row for each of     *)
(* them.  However many snapshots there are, whenever the phase changes and *)
(* the stop comes (admin/mod.rs, run_parquet_recorder).                    *)
THEOREM RecordingIsKept == EndsSpec => []RecordingKept
  <1>1. EndsInit => AdminInv
    BY AdminInit
  <1>2. AdminInv /\ [EndsNext]_allvars => AdminInv'
    BY AdminNext
  <1>3. AdminInv => RecordingKept
    <2>. SUFFICES ASSUME AdminInv PROVE Adm!RecordingKept
      BY DEF RecordingKept
    <2>1. at["recorder"] \in {"off", "spawned", "select", "snap", "skip", "final", "convert",
                              "ended"}
      BY DEF AdminInv, Adm!Tasks
    <2>2. CASE at["recorder"] = "ended"
      BY <2>2, SeriesRecorded DEF AdminInv, Adm!RecordingKept
    <2>3. CASE at["recorder"] # "ended"
      BY <2>1, <2>3, SeriesRecorded DEF AdminInv, Adm!RecordingKept
    <2>. QED
      BY <2>2, <2>3
  <1>. QED
    BY <1>1, <1>2, <1>3, PTL DEF EndsSpec

-----------------------------------------------------------------------------
(* The fabric: no object is used after it is closed                        *)

AllObjects == {"info", "fabric", "domain", "av", "cq", "ep"}

(* What is open is what open acquired first, whichever call failed: Drop   *)
(* releases in the opposite order.                                         *)
OpenedSoFar == {{}, {"info"}, {"info", "fabric"}, {"info", "fabric", "domain"},
                {"info", "fabric", "domain", "av"}, {"info", "fabric", "domain", "av", "cq"},
                AllObjects}

(* The poller runs, a region is registered and the worker holds a clone    *)
(* only while the endpoint is open; it is not dropped before the poller is *)
(* joined.                                                                 *)
FabricInv ==
  /\ life \in {"opening", "open", "dropping", "closed"}
  /\ opened \in OpenedSoFar /\ binds \in Nat
  /\ binds > 0 /\ life \in {"opening", "open"} => opened = AllObjects
  /\ life = "open" => binds > 0
  /\ life = "closed" => opened = {}
  /\ life = "opening" => ppc = "none" /\ wpc = "free"
  /\ slot \/ regions # {} => life = "open" /\ wpc \notin {"dropNotify", "join"}
  /\ ppc \notin {"none", "joined"} => life = "open" /\ manual

(* An instance has its own copy of the operators it extends.              *)
LEMMA FabCardinality == \A S : Fab!Cardinality(S) = Cardinality(S)
  BY DEF Fab!Cardinality, Cardinality

LEMMA FabricSteps == [EndsNext]_allvars => Fab!Next \/ UNCHANGED fv
  BY DEF EndsNext, allvars, Fabric, Admin

LEMMA FabricInit == EndsInit => FabricInv
  BY DEF EndsInit, Fab!Init, FabricInv, OpenedSoFar

(* Among the objects that are open, Drop closes the newest.                *)
LEMMA NewestClosed ==
  ASSUME opened \in OpenedSoFar, opened # {}
  PROVE  opened \ {Fab!FirstToClose} \in OpenedSoFar
  <1>. DEFINE order == Fab!CloseOrder
              First(i) == i \in 1 .. 6 /\ order[i] \in opened /\ \A j \in 1 .. i - 1 : order[j] \notin opened
  <1>1. /\ order[1] = "ep" /\ order[2] = "cq" /\ order[3] = "av" /\ order[4] = "domain"
        /\ order[5] = "fabric" /\ order[6] = "info"
    BY DEF Fab!CloseOrder
  <1>2. Fab!FirstToClose = order[CHOOSE i \in 1 .. 6 : First(i)]
    BY DEF Fab!FirstToClose, Fab!FirstOpened
  <1>. HIDE DEF order
  <1>3. ASSUME NEW k \in 1 .. 6, First(k) PROVE Fab!FirstToClose = order[k]
    <2>1. First(CHOOSE i \in 1 .. 6 : First(i)) /\ (CHOOSE i \in 1 .. 6 : First(i)) \in 1 .. 6
      BY <1>3
    <2>2. \A i, j \in 1 .. 6 : First(i) /\ First(j) => i = j
      <3>1. \A i, j \in 1 .. 6 : First(i) /\ First(j) => ~(i < j)
        OBVIOUS
      <3>. QED
        BY <3>1
    <2>. QED
      BY <1>2, <1>3, <2>1, <2>2
  <1>4. CASE opened = AllObjects
    <2>1. First(1)
      BY <1>1, <1>4 DEF AllObjects
    <2>2. Fab!FirstToClose = "ep"
      BY <1>1, <1>3, <2>1
    <2>. QED
      BY <1>4, <2>2 DEF OpenedSoFar, AllObjects
  <1>5. CASE opened = {"info", "fabric", "domain", "av", "cq"}
    <2>1. First(2)
      BY <1>1, <1>5
    <2>2. Fab!FirstToClose = "cq"
      BY <1>1, <1>3, <2>1
    <2>. QED
      BY <1>5, <2>2 DEF OpenedSoFar
  <1>6. CASE opened = {"info", "fabric", "domain", "av"}
    <2>1. First(3)
      BY <1>1, <1>6
    <2>2. Fab!FirstToClose = "av"
      BY <1>1, <1>3, <2>1
    <2>. QED
      BY <1>6, <2>2 DEF OpenedSoFar
  <1>7. CASE opened = {"info", "fabric", "domain"}
    <2>1. First(4)
      BY <1>1, <1>7
    <2>2. Fab!FirstToClose = "domain"
      BY <1>1, <1>3, <2>1
    <2>. QED
      BY <1>7, <2>2 DEF OpenedSoFar
  <1>8. CASE opened = {"info", "fabric"}
    <2>1. First(5)
      BY <1>1, <1>8
    <2>2. Fab!FirstToClose = "fabric"
      BY <1>1, <1>3, <2>1
    <2>. QED
      BY <1>8, <2>2 DEF OpenedSoFar
  <1>9. CASE opened = {"info"}
    <2>1. First(6)
      BY <1>1, <1>9
    <2>2. Fab!FirstToClose = "info"
      BY <1>1, <1>3, <2>1
    <2>. QED
      BY <1>9, <2>2 DEF OpenedSoFar
  <1>. QED
    BY <1>4, <1>5, <1>6, <1>7, <1>8, <1>9 DEF OpenedSoFar

(* open acquires the next object of its order, until all are open.         *)
LEMMA NextOpened ==
  ASSUME opened \in OpenedSoFar
  PROVE  /\ Cardinality(AllObjects) = 6 /\ Len(Fab!OpenOrder) = 6
         /\ opened # AllObjects =>
              /\ Cardinality(opened) < 6
              /\ opened \cup {Fab!OpenOrder[Cardinality(opened) + 1]} \in OpenedSoFar
  <1>0. PICK order : order = Fab!OpenOrder
    OBVIOUS
  <1>1. /\ order[1] = "info" /\ order[2] = "fabric" /\ order[3] = "domain" /\ order[4] = "av"
        /\ order[5] = "cq" /\ order[6] = "ep" /\ Len(order) = 6
    BY <1>0 DEF Fab!OpenOrder
  <1>2. ASSUME NEW S, IsFiniteSet(S), NEW x, x \notin S
        PROVE  IsFiniteSet(S \cup {x}) /\ Cardinality(S \cup {x}) = Cardinality(S) + 1
    BY <1>2, FS_AddElement
  <1>3. IsFiniteSet({}) /\ Cardinality({}) = 0
    BY FS_EmptySet
  <1>. DEFINE S1 == {"info"}
              S2 == {"info", "fabric"}
              S3 == {"info", "fabric", "domain"}
              S4 == {"info", "fabric", "domain", "av"}
              S5 == {"info", "fabric", "domain", "av", "cq"}
  <1>4. IsFiniteSet(S1) /\ Cardinality(S1) = 1
    BY FS_Singleton
  <1>5. S1 \cup {"fabric"} = S2 /\ "fabric" \notin S1
    OBVIOUS
  <1>6. S2 \cup {"domain"} = S3 /\ "domain" \notin S2
    OBVIOUS
  <1>7. S3 \cup {"av"} = S4 /\ "av" \notin S3
    OBVIOUS
  <1>8. S4 \cup {"cq"} = S5 /\ "cq" \notin S4
    OBVIOUS
  <1>9. S5 \cup {"ep"} = AllObjects /\ "ep" \notin S5
    BY DEF AllObjects
  <1>10. {} \cup {"info"} = S1
    OBVIOUS
  <1>11. opened \in {{}, S1, S2, S3, S4, S5, AllObjects}
    BY DEF OpenedSoFar
  <1>12. S1 \in OpenedSoFar /\ S2 \in OpenedSoFar /\ S3 \in OpenedSoFar /\ S4 \in OpenedSoFar
         /\ S5 \in OpenedSoFar /\ AllObjects \in OpenedSoFar
    BY DEF OpenedSoFar
  <1>. HIDE DEF S1, S2, S3, S4, S5
  <1>13. IsFiniteSet(S2) /\ Cardinality(S2) = 2
    BY <1>2, <1>4, <1>5
  <1>14. IsFiniteSet(S3) /\ Cardinality(S3) = 3
    BY <1>2, <1>6, <1>13
  <1>15. IsFiniteSet(S4) /\ Cardinality(S4) = 4
    BY <1>2, <1>7, <1>14
  <1>16. IsFiniteSet(S5) /\ Cardinality(S5) = 5
    BY <1>2, <1>8, <1>15
  <1>17. Cardinality(AllObjects) = 6
    BY <1>2, <1>9, <1>16
  <1>. SUFFICES opened # AllObjects =>
                  /\ Cardinality(opened) < 6
                  /\ opened \cup {order[Cardinality(opened) + 1]} \in OpenedSoFar
    BY <1>0, <1>1, <1>17
  <1>19. CASE opened = {}
    BY <1>1, <1>3, <1>10, <1>12, <1>19
  <1>20. CASE opened = S1
    BY <1>1, <1>4, <1>5, <1>12, <1>20
  <1>21. CASE opened = S2
    BY <1>1, <1>6, <1>12, <1>13, <1>21
  <1>22. CASE opened = S3
    BY <1>1, <1>7, <1>12, <1>14, <1>22
  <1>23. CASE opened = S4
    BY <1>1, <1>8, <1>12, <1>15, <1>23
  <1>24. CASE opened = S5
    BY <1>1, <1>9, <1>12, <1>16, <1>24
  <1>. QED
    BY <1>1, <1>11, <1>17, <1>19, <1>20, <1>21, <1>22, <1>23, <1>24

LEMMA FabricNext == FabricInv /\ [EndsNext]_allvars => FabricInv'
  <1>. SUFFICES ASSUME FabricInv, [EndsNext]_allvars PROVE FabricInv'
    OBVIOUS
  <1>1. CASE UNCHANGED fv
    BY <1>1 DEF FabricInv, fv
  <1>2. CASE Fab!OpenStep
    <2>1. /\ life = "opening" /\ life' = life /\ regions' = regions /\ slot' = slot
          /\ wpc' = wpc /\ ppc' = ppc /\ manual' = manual
      BY <1>2 DEF Fab!OpenStep
    <2>2. CASE /\ Cardinality(opened) < Len(Fab!OpenOrder) /\ binds' = binds
               /\ opened' = opened \cup {Fab!OpenOrder[Cardinality(opened) + 1]}
      <3>1. opened # AllObjects /\ opened' \in OpenedSoFar
        <4>1. opened \in OpenedSoFar
          BY DEF FabricInv
        <4>2. Cardinality(AllObjects) = 6 /\ Len(Fab!OpenOrder) = 6
          BY <4>1, NextOpened, Zenon
        <4>3. opened # AllObjects
          BY <2>2, <4>2
        <4>. QED
          BY <2>2, <4>1, <4>3, NextOpened, Zenon
      <3>2. binds = 0
        BY <2>1, <3>1 DEF FabricInv
      <3>3. binds' = 0 /\ binds' \in Nat /\ ppc = "none" /\ wpc = "free"
        BY <2>1, <2>2, <3>2 DEF FabricInv
      <3>4. ~(slot \/ regions # {})
        BY <2>1 DEF FabricInv
      <3>. QED
        BY <2>1, <3>1, <3>3, <3>4 DEF FabricInv
    <2>3. CASE ~(Cardinality(opened) < Len(Fab!OpenOrder)) /\ binds' = binds + 1 /\ opened' = opened
      <3>1. opened = AllObjects
        BY <2>3, NextOpened DEF FabricInv
      <3>. QED
        BY <2>1, <2>3, <3>1 DEF FabricInv
    <2>4. CASE Cardinality(opened) < Len(Fab!OpenOrder)
      BY <1>2, <2>2, <2>4, FabCardinality, Zenon DEF Fab!OpenStep
    <2>5. CASE ~(Cardinality(opened) < Len(Fab!OpenOrder))
      BY <1>2, <2>3, <2>5, FabCardinality, Zenon DEF Fab!OpenStep
    <2>. QED
      BY <2>4, <2>5
  <1>3. CASE Fab!OpenFails
    BY <1>3 DEF FabricInv, Fab!OpenFails, Fab!driver
  <1>4. CASE Fab!Opened
    BY <1>4 DEF FabricInv, Fab!Opened, Fab!driver, Fab!Binds
  <1>5. CASE Fab!DropEndpoint
    <2>1. CASE opened = {}
      BY <1>5, <2>1 DEF FabricInv, Fab!DropEndpoint, Fab!driver
    <2>2. CASE opened # {}
      <3>1. opened' \in OpenedSoFar
        BY <1>5, <2>2, NewestClosed DEF FabricInv, Fab!DropEndpoint
      <3>. QED
        BY <1>5, <2>2, <3>1 DEF FabricInv, Fab!DropEndpoint, Fab!driver
    <2>. QED
      BY <2>1, <2>2
  <1>6. CASE Fab!Register \/ Fab!Deregister \/ Fab!DropSlot
    BY <1>6 DEF FabricInv, Fab!Register, Fab!Deregister, Fab!DropSlot, Fab!fabric, Fab!driver
  <1>7. CASE Fab!DropInner
    <2>1. /\ life = "open" /\ ~slot /\ regions = {} /\ manual' = manual /\ opened' = opened
          /\ binds' = binds /\ regions' = regions /\ slot' = slot /\ ppc' = ppc
      BY <1>7, Zenon DEF Fab!DropInner, Fab!JoinFirst, Fab!LastClone
    <2>2. CASE manual /\ life' = life /\ wpc' = "dropNotify"
      BY <2>1, <2>2 DEF FabricInv
    <2>3. CASE ~manual /\ life' = "dropping" /\ wpc' = wpc
      BY <2>1, <2>3 DEF FabricInv
    <2>. QED
      BY <1>7, <2>2, <2>3, Zenon DEF Fab!DropInner, Fab!JoinFirst
  <1>8. CASE Fab!Join
    BY <1>8 DEF FabricInv, Fab!Join, Fab!driver
  <1>9. CASE Fab!Notify
    BY <1>9 DEF FabricInv, Fab!Notify, Fab!fabric, Fab!driver
  <1>10. CASE \E t \in Transfers : Fab!Drive(t) \/ Fab!DropGuard(t)
    BY <1>10 DEF FabricInv, Fab!Drive, Fab!DropGuard, Fab!fabric
  <1>11. CASE Fab!Poller
    BY <1>11 DEF FabricInv, Fab!Poller, Fab!PollerLocks, Fab!PollerChecks, Fab!PollerWaits,
                 Fab!PollerTests, Fab!PollerReads, Fab!fabric, Fab!driver
  <1>. QED
    BY <1>1, <1>2, <1>3, <1>4, <1>5, <1>6, <1>7, <1>8, <1>9, <1>10, <1>11, FabricSteps
    DEF Fab!Next, Fab!Worker

LEMMA FabricMeans == FabricInv => Fab!NoUseAfterClose
  <1>. SUFFICES ASSUME FabricInv PROVE Fab!NoUseAfterClose
    OBVIOUS
  <1>1. /\ opened \cap {"av", "cq", "ep"} # {} => "domain" \in opened
        /\ "ep" \in opened => {"av", "cq"} \subseteq opened
        /\ "domain" \in opened => "fabric" \in opened
    BY DEF FabricInv, OpenedSoFar, AllObjects
  <1>2. life = "open" => opened = AllObjects
    BY DEF FabricInv
  <1>3. "cq" \in AllObjects /\ "domain" \in AllObjects
    BY DEF AllObjects
  <1>. QED
    BY <1>1, <1>2, <1>3 DEF FabricInv, Fab!NoUseAfterClose

-----------------------------------------------------------------------------
(* The transfers of the DMA protocol: no transfer lands in the buffer of a *)
(* later request, and every prefill key and request is accounted for       *)

DmaTypes ==
  /\ remote_keys \in {"application", "provider", "repeated"}
  /\ nextKey \in Nat \ {0}
  /\ task \in [DmaConns -> {"top", "hello", "loop", "await", "ended"}]
  /\ buf \in [DmaConns -> [rkey : Nat, holds : Nat]]
  /\ cur = [c \in DmaConns |-> cur[c]]
  /\ tally \in [Dma!Tallies -> Int] /\ tally.sent \in Nat

(* No remote key of a transfer the server still has was given out again.   *)
Distinct == remote_keys # "repeated"

(* A connection holds a buffer while it can be sent to, under a remote key *)
(* no other buffer carries, and has a request exactly while it awaits one. *)
ConnSound(c) ==
  /\ buf[c].rkey < nextKey
  /\ buf[c].rkey # 0 <=> task[c] \in {"loop", "await"}
  /\ \A d \in DmaConns : buf[c].rkey = buf[d].rkey /\ buf[c].rkey # 0 => c = d
  /\ task[c] = "await" => cur[c].id \in 1 .. tally.sent
  /\ task[c] # "await" => cur[c] = Dma!Idle
  /\ cur[c].from = "prefill" => cur[c].op = "set"

(* While remote keys are distinct, the server's job is the request its     *)
(* connection awaits, or no buffer carries its remote key any more, and    *)
(* the bytes of a read it moved are in the buffer of the request.  A value *)
(* it took whole is stored, whatever the keys.                             *)
JobSound(j) ==
  /\ j = [id |-> j.id, conn |-> j.conn, rkey |-> j.rkey, op |-> j.op, key |-> j.key,
          done |-> j.done, took |-> j.took]
  /\ j.conn \in DmaConns /\ j.id \in 1 .. tally.sent /\ j.rkey \in 1 .. nextKey - 1
  /\ \A k \in jobs : k.id = j.id => k = j
  /\ Distinct => \A c \in DmaConns : buf[c].rkey = j.rkey => c = j.conn /\ cur[c].id = j.id
  /\ cur[j.conn].id = j.id =>
       /\ buf[j.conn].rkey = j.rkey /\ cur[j.conn].op = j.op /\ cur[j.conn].key = j.key
       /\ Distinct /\ j.op = "get" /\ j.done => buf[j.conn].holds = j.id
  /\ j.op = "set" /\ j.done =>
       /\ j.took = Dma!Len4 => j.key \in kept
       /\ largeobj => j.took = Dma!Len4

TransfersInv ==
  /\ DmaTypes
  /\ \A c \in DmaConns : ConnSound(c)
  /\ \A j \in jobs : JobSound(j)

(* A key is in the queue once, in flight on one connection or confirmed.   *)
Flying == {c \in DmaConns : cur[c].from = "prefill"}

KeysApart ==
  /\ todo \in Seq(DmaKeys) /\ stored \subseteq DmaKeys
  /\ \A i, j \in 1 .. Len(todo) : todo[i] = todo[j] => i = j
  /\ \A i \in 1 .. Len(todo) : todo[i] \notin stored
  /\ \A c \in Flying : /\ cur[c].key \in DmaKeys \ stored
                       /\ \A i \in 1 .. Len(todo) : todo[i] # cur[c].key
  /\ \A c, d \in Flying : cur[c].key = cur[d].key => c = d
  /\ \A k \in DmaKeys \ stored : \/ \E i \in 1 .. Len(todo) : todo[i] = k
                                 \/ \E c \in Flying : cur[c].key = k
  /\ Len(todo) + Cardinality(Flying) + Cardinality(stored) = Cardinality(DmaKeys)

Awaiting == {c \in DmaConns : task[c] = "await"}
Joined   == {c \in DmaConns : task[c] \in {"hello", "loop", "await"}}

TalliesExact ==
  /\ tally.sent = tally.received + tally.abandoned + Cardinality(Awaiting)
  /\ tally.active = Cardinality(Joined)

DmaInv == TransfersInv /\ KeysApart /\ stored \subseteq kept /\ TalliesExact

(* The instance's copies of the library's operators.                       *)
LEMMA DmaLibrary ==
  /\ \A S : Dma!Cardinality(S) = Cardinality(S)
  /\ \A s : Dma!ToSet(s) = {s[i] : i \in DOMAIN s}
  BY DEF Dma!Cardinality, Cardinality, Dma!ToSet

LEMMA DmaSteps == [EndsNext]_allvars => Dma!Next \/ UNCHANGED xv
  BY DEF EndsNext, allvars, Fabric, Admin

(* One connection more or less in a set of connections.                    *)
LEMMA OneMore ==
  ASSUME NEW S \in SUBSET DmaConns, NEW c \in DmaConns
  PROVE  /\ IsFiniteSet(S) /\ Cardinality(S) \in Nat
         /\ c \notin S => Cardinality(S \cup {c}) = Cardinality(S) + 1
         /\ c \in S => Cardinality(S \ {c}) = Cardinality(S) - 1
  <1>1. IsFiniteSet(S)
    BY DmaAssumption, FS_Subset
  <1>. QED
    BY <1>1, FS_CardinalityType, FS_AddElement, FS_RemoveElement

-----------------------------------------------------------------------------
(* What the actions do to the prefill keys                                 *)

SameFlight(d) == (cur'[d].from = "prefill" <=> cur[d].from = "prefill")
                   /\ (cur[d].from = "prefill" => cur'[d].key = cur[d].key)

(* A key is taken off the queue by c, put back by c, confirmed by c, or    *)
(* the keys stay where they are.                                           *)
KeyTaken(c) ==
  /\ c \in DmaConns /\ cur[c].from # "prefill" /\ todo # <<>>
  /\ todo' = Tail(todo) /\ stored' = stored
  /\ cur'[c].from = "prefill" /\ cur'[c].key = Head(todo)
  /\ \A d \in DmaConns \ {c} : SameFlight(d)

KeyBack(c) ==
  /\ c \in DmaConns /\ cur[c].from = "prefill"
  /\ todo' = <<cur[c].key>> \o todo /\ stored' = stored
  /\ cur'[c].from # "prefill"
  /\ \A d \in DmaConns \ {c} : SameFlight(d)

KeyConfirmed(c) ==
  /\ c \in DmaConns /\ cur[c].from = "prefill"
  /\ todo' = todo /\ stored' = stored \cup {cur[c].key}
  /\ cur'[c].from # "prefill"
  /\ \A d \in DmaConns \ {c} : SameFlight(d)

KeysStay == todo' = todo /\ stored' = stored /\ \A d \in DmaConns : SameFlight(d)

LEMMA StayKeys == KeysApart /\ KeysStay => KeysApart'
  <1>. SUFFICES ASSUME KeysApart, KeysStay PROVE KeysApart'
    OBVIOUS
  <1>1. Flying' = Flying
    BY DEF Flying, KeysStay, SameFlight
  <1>2. \A c \in Flying : cur'[c].key = cur[c].key
    BY DEF Flying, KeysStay, SameFlight
  <1>3. todo' = todo /\ stored' = stored
    BY DEF KeysStay
  <1>. QED
    BY <1>1, <1>2, <1>3 DEF KeysApart

LEMMA TakenKeys == ASSUME KeysApart, NEW c, KeyTaken(c) PROVE KeysApart'
  <1>1. c \in DmaConns /\ c \notin Flying /\ Flying' = Flying \cup {c}
    BY DEF Flying, KeyTaken, SameFlight
  <1>2. \A d \in Flying : cur'[d].key = cur[d].key
    BY DEF Flying, KeyTaken, SameFlight
  <1>3. /\ todo \in Seq(DmaKeys) /\ todo # <<>> /\ todo' = Tail(todo) /\ stored' = stored
        /\ cur'[c].key = Head(todo)
    BY DEF KeysApart, KeyTaken
  <1>4. /\ Len(todo) \in Nat \ {0} /\ Len(todo') = Len(todo) - 1 /\ todo' \in Seq(DmaKeys)
        /\ \A i \in 1 .. Len(todo') : todo'[i] = todo[i + 1] /\ i + 1 \in 1 .. Len(todo)
        /\ cur'[c].key = todo[1] /\ 1 \in 1 .. Len(todo) /\ todo[1] \in DmaKeys
    BY <1>3
  <1>5. \A i, j \in 1 .. Len(todo') : todo'[i] = todo'[j] => i = j
    BY <1>4 DEF KeysApart
  <1>6. \A i \in 1 .. Len(todo') : todo'[i] \notin stored'
    BY <1>3, <1>4 DEF KeysApart
  <1>7. \A d \in Flying' : /\ cur'[d].key \in DmaKeys \ stored'
                           /\ \A i \in 1 .. Len(todo') : todo'[i] # cur'[d].key
    BY <1>1, <1>2, <1>3, <1>4 DEF KeysApart
  <1>8. \A d, e \in Flying' : cur'[d].key = cur'[e].key => d = e
    BY <1>1, <1>2, <1>4 DEF KeysApart
  <1>9. \A k \in DmaKeys \ stored' : \/ \E i \in 1 .. Len(todo') : todo'[i] = k
                                     \/ \E d \in Flying' : cur'[d].key = k
    <2>. TAKE k \in DmaKeys \ stored'
    <2>1. CASE \E d \in Flying : cur[d].key = k
      BY <1>1, <1>2, <2>1
    <2>2. CASE \E i \in 1 .. Len(todo) : todo[i] = k
      <3>. PICK i \in 1 .. Len(todo) : todo[i] = k
        BY <2>2
      <3>1. CASE i = 1
        BY <1>1, <1>4, <3>1
      <3>2. CASE i # 1
        <4>1. i - 1 \in 1 .. Len(todo') /\ (i - 1) + 1 = i
          BY <1>4, <3>2
        <4>. QED
          BY <1>4, <4>1
      <3>. QED
        BY <3>1, <3>2
    <2>. QED
      BY <1>3, <2>1, <2>2 DEF KeysApart
  <1>10. Flying \in SUBSET DmaConns
    BY DEF Flying
  <1>11. Cardinality(Flying') = Cardinality(Flying) + 1 /\ Cardinality(Flying) \in Nat
    BY <1>1, <1>10, OneMore
  <1>12. Len(todo') + Cardinality(Flying') + Cardinality(stored') = Cardinality(DmaKeys)
    <2>1. Cardinality(stored) \in Nat
      BY DmaAssumption, FS_Subset, FS_CardinalityType DEF KeysApart
    <2>. QED
      BY <1>3, <1>4, <1>11, <2>1 DEF KeysApart
  <1>. QED
    BY <1>3, <1>4, <1>5, <1>6, <1>7, <1>8, <1>9, <1>12 DEF KeysApart

LEMMA BackKeys == ASSUME KeysApart, NEW c, KeyBack(c) PROVE KeysApart'
  <1>1. c \in DmaConns /\ c \in Flying /\ Flying' = Flying \ {c}
    BY DEF Flying, KeyBack, SameFlight
  <1>2. \A d \in Flying' : cur'[d].key = cur[d].key
    BY <1>1 DEF Flying, KeyBack, SameFlight
  <1>. DEFINE key == cur[c].key
  <1>3. /\ todo \in Seq(DmaKeys) /\ todo' = <<key>> \o todo /\ stored' = stored
        /\ key \in DmaKeys \ stored /\ \A i \in 1 .. Len(todo) : todo[i] # key
    BY <1>1 DEF KeysApart, KeyBack
  <1>. HIDE DEF key
  <1>4. /\ Len(todo) \in Nat /\ Len(todo') = Len(todo) + 1 /\ todo' \in Seq(DmaKeys)
        /\ todo'[1] = key
        /\ \A i \in 1 .. Len(todo') : i # 1 => todo'[i] = todo[i - 1] /\ i - 1 \in 1 .. Len(todo)
        /\ \A i \in 1 .. Len(todo) : todo'[i + 1] = todo[i]
    BY <1>3
  <1>5. \A i, j \in 1 .. Len(todo') : todo'[i] = todo'[j] => i = j
    <2>. TAKE i, j \in 1 .. Len(todo')
    <2>1. CASE i = 1
      BY <1>3, <1>4, <2>1
    <2>2. CASE j = 1
      BY <1>3, <1>4, <2>2
    <2>3. CASE i # 1 /\ j # 1
      <3>1. /\ todo'[i] = todo[i - 1] /\ i - 1 \in 1 .. Len(todo)
            /\ todo'[j] = todo[j - 1] /\ j - 1 \in 1 .. Len(todo)
        BY <1>4, <2>3
      <3>2. todo[i - 1] = todo[j - 1] => i - 1 = j - 1
        BY <3>1 DEF KeysApart
      <3>. QED
        BY <3>1, <3>2
    <2>. QED
      BY <2>1, <2>2, <2>3
  <1>6. \A i \in 1 .. Len(todo') : todo'[i] \notin stored'
    BY <1>3, <1>4 DEF KeysApart
  <1>7. \A d \in Flying' : /\ cur'[d].key \in DmaKeys \ stored'
                           /\ \A i \in 1 .. Len(todo') : todo'[i] # cur'[d].key
    <2>. TAKE d \in Flying'
    <2>1. d \in Flying /\ d # c /\ cur'[d].key = cur[d].key
      BY <1>1, <1>2
    <2>2. cur[d].key # key
      BY <1>1, <2>1 DEF KeysApart, key
    <2>. QED
      BY <1>3, <1>4, <2>1, <2>2 DEF KeysApart
  <1>8. \A d, e \in Flying' : cur'[d].key = cur'[e].key => d = e
    BY <1>1, <1>2 DEF KeysApart
  <1>9. \A k \in DmaKeys \ stored' : \/ \E i \in 1 .. Len(todo') : todo'[i] = k
                                     \/ \E d \in Flying' : cur'[d].key = k
    <2>. TAKE k \in DmaKeys \ stored'
    <2>1. CASE \E d \in Flying : cur[d].key = k
      <3>. PICK d \in Flying : cur[d].key = k
        BY <2>1
      <3>1. CASE d = c
        <4>1. 1 \in 1 .. Len(todo') /\ todo'[1] = k
          BY <1>4, <3>1 DEF key
        <4>. QED
          BY <4>1
      <3>2. CASE d # c
        BY <1>1, <1>2, <3>2
      <3>. QED
        BY <3>1, <3>2
    <2>2. CASE \E i \in 1 .. Len(todo) : todo[i] = k
      <3>. PICK i \in 1 .. Len(todo) : todo[i] = k
        BY <2>2
      <3>1. i + 1 \in 1 .. Len(todo') /\ todo'[i + 1] = k
        BY <1>4
      <3>. QED
        BY <3>1
    <2>. QED
      BY <1>3, <2>1, <2>2 DEF KeysApart
  <1>10. Flying \in SUBSET DmaConns
    BY DEF Flying
  <1>11. Cardinality(Flying') = Cardinality(Flying) - 1 /\ Cardinality(Flying) \in Nat
    BY <1>1, <1>10, OneMore
  <1>12. Len(todo') + Cardinality(Flying') + Cardinality(stored') = Cardinality(DmaKeys)
    <2>1. Cardinality(stored) \in Nat
      BY DmaAssumption, FS_Subset, FS_CardinalityType DEF KeysApart
    <2>. QED
      BY <1>3, <1>4, <1>11, <2>1 DEF KeysApart
  <1>. QED
    BY <1>3, <1>4, <1>5, <1>6, <1>7, <1>8, <1>9, <1>12 DEF KeysApart

LEMMA ConfirmedKeys == ASSUME KeysApart, NEW c, KeyConfirmed(c) PROVE KeysApart'
  <1>1. c \in DmaConns /\ c \in Flying /\ Flying' = Flying \ {c}
    BY DEF Flying, KeyConfirmed, SameFlight
  <1>2. \A d \in Flying' : cur'[d].key = cur[d].key
    BY <1>1 DEF Flying, KeyConfirmed, SameFlight
  <1>3. /\ todo \in Seq(DmaKeys) /\ todo' = todo /\ stored' = stored \cup {cur[c].key}
        /\ stored \subseteq DmaKeys
        /\ cur[c].key \in DmaKeys \ stored /\ \A i \in 1 .. Len(todo) : todo[i] # cur[c].key
    BY <1>1 DEF KeysApart, KeyConfirmed
  <1>4. \A d \in Flying' : cur[d].key # cur[c].key
    BY <1>1 DEF KeysApart
  <1>5. \A i \in 1 .. Len(todo) : todo[i] \notin stored'
    BY <1>3 DEF KeysApart
  <1>6. \A d \in Flying' : /\ cur'[d].key \in DmaKeys \ stored'
                           /\ \A i \in 1 .. Len(todo) : todo[i] # cur'[d].key
    BY <1>1, <1>2, <1>3, <1>4 DEF KeysApart
  <1>7. \A d, e \in Flying' : cur'[d].key = cur'[e].key => d = e
    BY <1>1, <1>2 DEF KeysApart
  <1>8. \A k \in DmaKeys \ stored' : \/ \E i \in 1 .. Len(todo) : todo[i] = k
                                     \/ \E d \in Flying' : cur'[d].key = k
    BY <1>1, <1>2, <1>3 DEF KeysApart
  <1>9. Flying \in SUBSET DmaConns
    BY DEF Flying
  <1>10. Cardinality(Flying') = Cardinality(Flying) - 1 /\ Cardinality(Flying) \in Nat
    BY <1>1, <1>9, OneMore
  <1>11. IsFiniteSet(stored) /\ Cardinality(stored) \in Nat
    BY <1>3, DmaAssumption, FS_Subset, FS_CardinalityType
  <1>12. Cardinality(stored') = Cardinality(stored) + 1
    BY <1>3, <1>11, FS_AddElement
  <1>13. Len(todo) + Cardinality(Flying') + Cardinality(stored') = Cardinality(DmaKeys)
    <2>1. Len(todo) \in Nat
      BY <1>3
    <2>. QED
      BY <1>10, <1>11, <1>12, <2>1 DEF KeysApart
  <1>14. /\ \A i, j \in 1 .. Len(todo) : todo[i] = todo[j] => i = j
         /\ stored' \subseteq DmaKeys
    BY <1>3 DEF KeysApart
  <1>15. todo' = todo /\ todo' \in Seq(DmaKeys)
    BY <1>3
  <1>. QED
    BY <1>5, <1>6, <1>7, <1>8, <1>13, <1>14, <1>15 DEF KeysApart

-----------------------------------------------------------------------------
(* What the actions do to the counters                                     *)

One(b) == IF b THEN 1 ELSE 0

LEMMA OneMoreOrSame ==
  ASSUME NEW S \in SUBSET DmaConns, NEW c \in DmaConns
  PROVE  /\ Cardinality(S \cup {c}) = Cardinality(S) + 1 - One(c \in S)
         /\ Cardinality(S \ {c}) = Cardinality(S) - One(c \in S)
  <1>1. CASE c \in S
    <2>1. S \cup {c} = S /\ One(c \in S) = 1
      BY <1>1 DEF One
    <2>. QED
      BY <1>1, <2>1, OneMore
  <1>2. CASE c \notin S
    <2>1. S \ {c} = S /\ One(c \in S) = 0
      BY <1>2 DEF One
    <2>. QED
      BY <1>2, <2>1, OneMore
  <1>. QED
    BY <1>1, <1>2

(* The requests sent and not yet counted as ended.                         *)
Unanswered(t) == t.sent - (t.received + t.abandoned)

JoinedAt == {"hello", "loop", "await"}

(* The task of c moves, and the counters follow it.                        *)
TaskMoves(c, to) ==
  /\ c \in DmaConns /\ task' = [task EXCEPT ![c] = to]
  /\ tally' \in [Dma!Tallies -> Int]
  /\ Unanswered(tally') = Unanswered(tally) + One(to = "await") - One(task[c] = "await")
  /\ tally'.active = tally.active + One(to \in JoinedAt) - One(task[c] \in JoinedAt)

LEMMA MovedTallies ==
  ASSUME DmaTypes, TalliesExact, NEW c, NEW to, TaskMoves(c, to)
  PROVE  TalliesExact'
  <1>1. /\ c \in DmaConns /\ task' = [task EXCEPT ![c] = to] /\ DOMAIN task = DmaConns
    BY DEF TaskMoves, DmaTypes
  <1>2. Awaiting' = IF to = "await" THEN Awaiting \cup {c} ELSE Awaiting \ {c}
    BY <1>1 DEF Awaiting
  <1>3. Joined' = IF to \in JoinedAt THEN Joined \cup {c} ELSE Joined \ {c}
    BY <1>1 DEF Joined, JoinedAt
  <1>4. IsFiniteSet(Awaiting) /\ IsFiniteSet(Joined)
    BY DmaAssumption, FS_Subset DEF Awaiting, Joined
  <1>5. Cardinality(Awaiting) \in Nat /\ Cardinality(Joined) \in Nat
    BY <1>4, FS_CardinalityType
  <1>6. (c \in Awaiting <=> task[c] = "await") /\ (c \in Joined <=> task[c] \in JoinedAt)
    BY <1>1 DEF Awaiting, Joined, JoinedAt
  <1>7. Cardinality(Awaiting') = Cardinality(Awaiting) + One(to = "await") - One(task[c] = "await")
    <2>1. /\ Cardinality(Awaiting \cup {c}) = Cardinality(Awaiting) + 1 - One(c \in Awaiting)
          /\ Cardinality(Awaiting \ {c}) = Cardinality(Awaiting) - One(c \in Awaiting)
      BY <1>1, <1>5, OneMoreOrSame DEF Awaiting
    <2>2. One(c \in Awaiting) = One(task[c] = "await")
      BY <1>6 DEF One
    <2>3. CASE to = "await"
      <3>1. Awaiting' = Awaiting \cup {c} /\ One(to = "await") = 1
        BY <1>2, <2>3 DEF One
      <3>. QED
        BY <2>1, <2>2, <3>1
    <2>4. CASE to # "await"
      <3>1. Awaiting' = Awaiting \ {c} /\ One(to = "await") = 0 /\ One(task[c] = "await") \in Int
        BY <1>2, <2>4 DEF One
      <3>. QED
        BY <1>5, <2>1, <2>2, <3>1
    <2>. QED
      BY <2>3, <2>4
  <1>8. Cardinality(Joined') = Cardinality(Joined) + One(to \in JoinedAt) - One(task[c] \in JoinedAt)
    <2>1. /\ Cardinality(Joined \cup {c}) = Cardinality(Joined) + 1 - One(c \in Joined)
          /\ Cardinality(Joined \ {c}) = Cardinality(Joined) - One(c \in Joined)
      BY <1>1, <1>5, OneMoreOrSame DEF Joined
    <2>2. One(c \in Joined) = One(task[c] \in JoinedAt)
      BY <1>6 DEF One
    <2>3. CASE to \in JoinedAt
      <3>1. Joined' = Joined \cup {c} /\ One(to \in JoinedAt) = 1
        BY <1>3, <2>3 DEF One
      <3>. QED
        BY <2>1, <2>2, <3>1
    <2>4. CASE to \notin JoinedAt
      <3>1. Joined' = Joined \ {c} /\ One(to \in JoinedAt) = 0 /\ One(task[c] \in JoinedAt) \in Int
        BY <1>3, <2>4 DEF One
      <3>. QED
        BY <1>5, <2>1, <2>2, <3>1
    <2>. QED
      BY <2>3, <2>4
  <1>9. /\ \A n \in Dma!Tallies : tally[n] \in Int /\ tally'[n] \in Int
        /\ Dma!Tallies = {"sent", "received", "abandoned", "active"}
    BY DEF DmaTypes, TaskMoves, Dma!Tallies
  <1>10. Unanswered(tally) = Cardinality(Awaiting)
    BY <1>5, <1>9 DEF TalliesExact, Unanswered
  <1>11. Unanswered(tally') = Cardinality(Awaiting')
    BY <1>7, <1>10 DEF TaskMoves
  <1>12. Cardinality(Awaiting') \in Int
    BY <1>5, <1>7 DEF One
  <1>13. tally'.sent = tally'.received + tally'.abandoned + Cardinality(Awaiting')
    BY <1>9, <1>11, <1>12 DEF Unanswered
  <1>14. tally'.active = Cardinality(Joined')
    BY <1>8 DEF TaskMoves, TalliesExact
  <1>. QED
    BY <1>13, <1>14 DEF TalliesExact

(* Bump counts one more of the names it is given.                          *)
LEMMA Bumped ==
  ASSUME DmaTypes, NEW names
  PROVE  /\ Dma!Bump(tally, names) \in [Dma!Tallies -> Int]
         /\ \A n \in Dma!Tallies : Dma!Bump(tally, names)[n] = tally[n] + One(n \in names)
  BY DEF DmaTypes, Dma!Bump, One

-----------------------------------------------------------------------------
(* The actions of a connection                                             *)

(* A connection that awaits nothing stays without a request, keeps or      *)
(* drops its buffer, and the server is not concerned.                      *)
LEMMA QuietMoves ==
  ASSUME TransfersInv, NEW c \in DmaConns, NEW to \in {"top", "hello", "ended"},
         task[c] # "await", task' = [task EXCEPT ![c] = to],
         buf' = [buf EXCEPT ![c] = Dma!NoBuf],
         tally' \in [Dma!Tallies -> Int], tally'.sent = tally.sent,
         largeobj' = largeobj, remote_keys' = remote_keys, nextKey' = nextKey,
         cur' = cur, jobs' = jobs, kept' = kept
  PROVE  TransfersInv'
  <1>1. DmaTypes /\ (\A d \in DmaConns : ConnSound(d)) /\ \A j \in jobs : JobSound(j)
    BY DEF TransfersInv
  <1>2. /\ buf'[c].rkey = 0 /\ buf'[c].holds = 0 /\ task'[c] = to
        /\ \A d \in DmaConns \ {c} : buf'[d] = buf[d] /\ task'[d] = task[d]
        /\ buf'[c] \in [rkey : Nat, holds : Nat]
    BY <1>1 DEF DmaTypes, Dma!NoBuf, Dma!None
  <1>3. DmaTypes'
    BY <1>1, <1>2 DEF DmaTypes
  <1>4. ASSUME NEW d \in DmaConns PROVE ConnSound(d)'
    <2>1. ConnSound(d) /\ buf[d].rkey \in Nat /\ nextKey \in Nat \ {0}
      BY <1>1 DEF DmaTypes
    <2>2. \A e \in DmaConns : buf'[d].rkey = buf'[e].rkey /\ buf'[d].rkey # 0 => d = e
      BY <1>1, <1>2 DEF ConnSound
    <2>3. CASE d = c
      BY <1>2, <2>1, <2>2, <2>3 DEF ConnSound
    <2>4. CASE d # c
      BY <1>2, <2>1, <2>2, <2>4 DEF ConnSound
    <2>. QED
      BY <2>3, <2>4
  <1>5. ASSUME NEW j \in jobs PROVE JobSound(j)'
    <2>1. JobSound(j)
      BY <1>1
    <2>2. cur[c].id = 0 /\ j.id # 0 /\ j.rkey # 0
      <3>1. cur[c].id = 0
        BY <1>1 DEF ConnSound, Dma!Idle, Dma!None
      <3>2. nextKey \in Nat /\ tally.sent \in Nat
        BY <1>1 DEF DmaTypes
      <3>. QED
        BY <2>1, <3>1, <3>2 DEF JobSound
    <2>3. Distinct => \A d \in DmaConns : buf'[d].rkey = j.rkey => d = j.conn /\ cur[d].id = j.id
      BY <1>2, <2>1, <2>2 DEF JobSound
    <2>4. cur[j.conn].id = j.id => buf'[j.conn] = buf[j.conn]
      BY <1>2, <2>1, <2>2 DEF JobSound
    <2>. QED
      BY <2>1, <2>3, <2>4 DEF JobSound, Distinct
  <1>. QED
    BY <1>3, <1>4, <1>5 DEF TransfersInv

LEMMA SameKeys == ASSUME UNCHANGED <<cur, todo, stored>> PROVE KeysStay
  BY DEF KeysStay, SameFlight

LEMMA TaskEndsInv ==
  ASSUME DmaInv, NEW c \in DmaConns, Dma!TaskEnds(c) PROVE DmaInv'
  <1>1. /\ task[c] \in {"top", "loop"} /\ task' = [task EXCEPT ![c] = "ended"]
        /\ buf' = [buf EXCEPT ![c] = Dma!NoBuf]
        /\ tally' = [tally EXCEPT !.active = @ - (IF task[c] = "loop" THEN 1 ELSE 0)]
        /\ UNCHANGED <<largeobj, remote_keys, nextKey, cur, jobs, todo, stored, kept>>
    BY DEF Dma!TaskEnds
  <1>2. DmaTypes
    BY DEF DmaInv, TransfersInv
  <1>3. /\ tally' \in [Dma!Tallies -> Int]
        /\ tally'.sent = tally.sent /\ tally'.received = tally.received
        /\ tally'.abandoned = tally.abandoned
        /\ tally'.active = tally.active - One(task[c] = "loop")
    BY <1>1, <1>2 DEF DmaTypes, Dma!Tallies, One
  <1>4. TaskMoves(c, "ended")
    <2>1. /\ One("ended" = "await") = 0 /\ One(task[c] = "await") = 0
          /\ One("ended" \in JoinedAt) = 0
      BY <1>1 DEF One, JoinedAt
    <2>2. One(task[c] \in JoinedAt) = One(task[c] = "loop")
      BY <1>1 DEF One, JoinedAt
    <2>3. Unanswered(tally') = Unanswered(tally) /\ Unanswered(tally) \in Int /\ tally.active \in Int
          /\ One(task[c] = "loop") \in Int
      BY <1>2, <1>3 DEF Unanswered, DmaTypes, Dma!Tallies, One
    <2>. QED
      BY <1>1, <1>3, <2>1, <2>2, <2>3 DEF TaskMoves
  <1>5. TransfersInv'
    BY <1>1, <1>3, QuietMoves DEF DmaInv
  <1>6. KeysApart'
    BY <1>1, SameKeys, StayKeys DEF DmaInv
  <1>7. TalliesExact'
    BY <1>2, <1>4, MovedTallies DEF DmaInv
  <1>. QED
    BY <1>1, <1>5, <1>6, <1>7 DEF DmaInv

(* The same for one that holds no buffer.                                  *)
LEMMA BufferlessMoves ==
  ASSUME TransfersInv, NEW c \in DmaConns, NEW to \in {"top", "hello", "ended"},
         task[c] # "await", task' = [task EXCEPT ![c] = to], buf[c].rkey = 0, buf' = buf,
         tally' \in [Dma!Tallies -> Int], tally'.sent = tally.sent,
         largeobj' = largeobj, remote_keys' = remote_keys, nextKey' = nextKey,
         cur' = cur, jobs' = jobs, kept' = kept
  PROVE  TransfersInv'
  <1>1. DmaTypes /\ (\A d \in DmaConns : ConnSound(d)) /\ \A j \in jobs : JobSound(j)
    BY DEF TransfersInv
  <1>2. task'[c] = to /\ \A d \in DmaConns \ {c} : task'[d] = task[d]
    BY <1>1 DEF DmaTypes
  <1>3. DmaTypes'
    BY <1>1 DEF DmaTypes
  <1>4. ASSUME NEW d \in DmaConns PROVE ConnSound(d)'
    <2>1. ConnSound(d)
      BY <1>1
    <2>2. CASE d = c
      BY <1>2, <2>1, <2>2 DEF ConnSound
    <2>3. CASE d # c
      BY <1>2, <2>1, <2>3 DEF ConnSound
    <2>. QED
      BY <2>2, <2>3
  <1>5. \A j \in jobs : JobSound(j)'
    BY <1>1 DEF JobSound, Distinct
  <1>. QED
    BY <1>3, <1>4, <1>5 DEF TransfersInv

LEMMA ConnectsInv ==
  ASSUME DmaInv, NEW c \in DmaConns, Dma!Connects(c) PROVE DmaInv'
  <1>1. /\ task[c] = "top" /\ task' = [task EXCEPT ![c] = "hello"]
        /\ tally' = Dma!Bump(tally, {"active"}) /\ buf' = buf
        /\ UNCHANGED <<largeobj, remote_keys, nextKey, cur, jobs, todo, stored, kept>>
    BY DEF Dma!Connects
  <1>2. DmaTypes /\ ConnSound(c)
    BY DEF DmaInv, TransfersInv
  <1>3. /\ tally' \in [Dma!Tallies -> Int]
        /\ tally'.sent = tally.sent /\ tally'.received = tally.received
        /\ tally'.abandoned = tally.abandoned
        /\ tally'.active = tally.active + 1
    BY <1>1, <1>2 DEF DmaTypes, Dma!Tallies, Dma!Bump
  <1>4. TaskMoves(c, "hello")
    <2>1. /\ One("hello" = "await") = 0 /\ One(task[c] = "await") = 0
          /\ One("hello" \in JoinedAt) = 1 /\ One(task[c] \in JoinedAt) = 0
      BY <1>1 DEF One, JoinedAt
    <2>2. Unanswered(tally') = Unanswered(tally) /\ Unanswered(tally) \in Int /\ tally.active \in Int
      BY <1>2, <1>3 DEF Unanswered, DmaTypes, Dma!Tallies
    <2>. QED
      BY <1>1, <1>3, <2>1, <2>2 DEF TaskMoves
  <1>5. TransfersInv'
    <2>1. buf[c].rkey = 0
      BY <1>1, <1>2 DEF ConnSound
    <2>. QED
      BY <1>1, <1>3, <2>1, BufferlessMoves DEF DmaInv
  <1>6. KeysApart'
    BY <1>1, SameKeys, StayKeys DEF DmaInv
  <1>7. TalliesExact'
    BY <1>2, <1>4, MovedTallies DEF DmaInv
  <1>. QED
    BY <1>1, <1>5, <1>6, <1>7 DEF DmaInv

LEMMA HelloFailsInv ==
  ASSUME DmaInv, NEW c \in DmaConns, Dma!HelloFails(c) PROVE DmaInv'
  <1>1. /\ task[c] = "hello" /\ task' = [task EXCEPT ![c] = "top"]
        /\ tally' = [tally EXCEPT !.active = @ - 1] /\ buf' = buf
        /\ UNCHANGED <<largeobj, remote_keys, nextKey, cur, jobs, todo, stored, kept>>
    BY DEF Dma!HelloFails
  <1>2. DmaTypes /\ ConnSound(c)
    BY DEF DmaInv, TransfersInv
  <1>3. /\ tally' \in [Dma!Tallies -> Int]
        /\ tally'.sent = tally.sent /\ tally'.received = tally.received
        /\ tally'.abandoned = tally.abandoned
        /\ tally'.active = tally.active - 1
    BY <1>1, <1>2 DEF DmaTypes, Dma!Tallies
  <1>4. TaskMoves(c, "top")
    <2>1. /\ One("top" = "await") = 0 /\ One(task[c] = "await") = 0
          /\ One("top" \in JoinedAt) = 0 /\ One(task[c] \in JoinedAt) = 1
      BY <1>1 DEF One, JoinedAt
    <2>2. Unanswered(tally') = Unanswered(tally) /\ Unanswered(tally) \in Int /\ tally.active \in Int
      BY <1>2, <1>3 DEF Unanswered, DmaTypes, Dma!Tallies
    <2>. QED
      BY <1>1, <1>3, <2>1, <2>2 DEF TaskMoves
  <1>5. TransfersInv'
    <2>1. buf[c].rkey = 0
      BY <1>1, <1>2 DEF ConnSound
    <2>. QED
      BY <1>1, <1>3, <2>1, BufferlessMoves DEF DmaInv
  <1>6. KeysApart'
    BY <1>1, SameKeys, StayKeys DEF DmaInv
  <1>7. TalliesExact'
    BY <1>2, <1>4, MovedTallies DEF DmaInv
  <1>. QED
    BY <1>1, <1>5, <1>6, <1>7 DEF DmaInv

(* The remote key a registration takes is on no other buffer, and was      *)
(* never given before unless the provider repeats one.                     *)
LEMMA HelloAnsweredInv ==
  ASSUME DmaInv, NEW c \in DmaConns, Dma!HelloAnswered(c) PROVE DmaInv'
  <1>1. /\ task[c] = "hello" /\ task' = [task EXCEPT ![c] = "loop"]
        /\ UNCHANGED <<largeobj, cur, jobs, todo, stored, kept, tally>>
    BY DEF Dma!HelloAnswered
  <1>2. DmaTypes /\ (\A d \in DmaConns : ConnSound(d)) /\ \A j \in jobs : JobSound(j)
    BY DEF DmaInv, TransfersInv
  <1>. PICK k \in Dma!TakeKey :
         /\ buf' = [buf EXCEPT ![c] = [rkey |-> k, holds |-> 0]]
         /\ nextKey' = IF k = nextKey THEN nextKey + 1 ELSE nextKey
         /\ remote_keys' = IF remote_keys = "provider" /\ k # nextKey THEN "repeated"
                           ELSE remote_keys
    BY DEF Dma!HelloAnswered, Dma!None
  <1>a. /\ nextKey \in Nat \ {0} /\ \A d \in DmaConns : buf[d].rkey \in Nat /\ buf[d].rkey < nextKey
        /\ \A j \in jobs : j.rkey \in 1 .. nextKey - 1
    BY <1>2 DEF DmaTypes, ConnSound, JobSound
  <1>b. k \in 1 .. nextKey /\ \A d \in DmaConns : buf[d].rkey # k
    <2>1. CASE k = nextKey
      BY <1>a, <2>1
    <2>2. CASE k # nextKey
      BY <1>a, <2>2 DEF Dma!TakeKey, Dma!Free
    <2>. QED
      BY <2>1, <2>2
  <1>c. Distinct' => Distinct /\ k = nextKey
    BY <1>2 DEF Dma!TakeKey, Distinct, DmaTypes
  <1>3. /\ buf'[c].rkey = k /\ buf'[c].holds = 0 /\ task'[c] = "loop"
        /\ \A d \in DmaConns \ {c} : buf'[d] = buf[d] /\ task'[d] = task[d]
        /\ buf'[c] \in [rkey : Nat, holds : Nat]
        /\ nextKey' \in Nat \ {0} /\ k < nextKey' /\ nextKey <= nextKey' /\ k \in Nat \ {0}
    BY <1>1, <1>2, <1>a, <1>b DEF DmaTypes
  <1>4. DmaTypes'
    BY <1>1, <1>2, <1>3 DEF DmaTypes
  <1>5. ASSUME NEW d \in DmaConns PROVE ConnSound(d)'
    <2>1. ConnSound(d)
      BY <1>2
    <2>2. \A e \in DmaConns : buf'[d].rkey = buf'[e].rkey /\ buf'[d].rkey # 0 => d = e
      BY <1>2, <1>3, <1>b DEF ConnSound
    <2>3. CASE d = c
      BY <1>1, <1>3, <2>1, <2>2, <2>3 DEF ConnSound
    <2>4. CASE d # c
      <3>1. buf'[d].rkey < nextKey'
        BY <1>3, <1>a, <2>4
      <3>. QED
        BY <1>1, <1>3, <2>1, <2>2, <2>4, <3>1 DEF ConnSound
    <2>. QED
      BY <2>3, <2>4
  <1>6. ASSUME NEW j \in jobs PROVE JobSound(j)'
    <2>1. JobSound(j)
      BY <1>2
    <2>2. cur[c].id = 0 /\ j.id # 0 /\ j.rkey < nextKey /\ j.rkey \in Nat
      <3>1. cur[c].id = 0
        BY <1>1, <1>2 DEF ConnSound, Dma!Idle, Dma!None
      <3>2. nextKey \in Nat /\ tally.sent \in Nat
        BY <1>2 DEF DmaTypes
      <3>. QED
        BY <2>1, <3>1, <3>2 DEF JobSound
    <2>3. Distinct' => \A d \in DmaConns : buf'[d].rkey = j.rkey => d = j.conn /\ cur[d].id = j.id
      BY <1>3, <1>c, <2>1, <2>2 DEF JobSound
    <2>4. cur[j.conn].id = j.id => buf'[j.conn] = buf[j.conn]
      BY <1>3, <2>1, <2>2 DEF JobSound
    <2>5. j.rkey \in 1 .. nextKey' - 1
      BY <1>3, <1>a
    <2>. QED
      BY <1>1, <1>c, <2>1, <2>3, <2>4, <2>5 DEF JobSound
  <1>7. TransfersInv'
    BY <1>1, <1>4, <1>5, <1>6 DEF TransfersInv
  <1>8. TaskMoves(c, "loop")
    <2>1. /\ One("loop" = "await") = 0 /\ One(task[c] = "await") = 0
          /\ One("loop" \in JoinedAt) = 1 /\ One(task[c] \in JoinedAt) = 1
      BY <1>1 DEF One, JoinedAt
    <2>2. Unanswered(tally) \in Int /\ tally.active \in Int
      BY <1>2 DEF Unanswered, DmaTypes, Dma!Tallies
    <2>. QED
      BY <1>1, <1>2, <2>1, <2>2 DEF TaskMoves, DmaTypes
  <1>9. KeysApart'
    BY <1>1, SameKeys, StayKeys DEF DmaInv
  <1>10. TalliesExact'
    BY <1>2, <1>8, MovedTallies DEF DmaInv
  <1>. QED
    BY <1>1, <1>7, <1>9, <1>10 DEF DmaInv

(* A request goes out: the server has one job more, for the buffer of this *)
(* connection, and no other job carries its remote key.                    *)
LEMMA IssueInv ==
  ASSUME DmaInv, NEW c \in DmaConns, task[c] = "loop", NEW op, NEW key, NEW from,
         Dma!Issue(c, op, key, from), from = "prefill" => op = "set"
  PROVE  /\ TransfersInv' /\ TalliesExact' /\ kept' = kept /\ stored' = stored
         /\ cur' = [cur EXCEPT ![c] = [id |-> tally.sent + 1, op |-> op, key |-> key, from |-> from]]
         /\ cur[c] = Dma!Idle /\ DOMAIN cur = DmaConns
  <1>. DEFINE id  == tally.sent + 1
              new == [id |-> id, conn |-> c, rkey |-> buf[c].rkey, op |-> op, key |-> key,
                      done |-> FALSE, took |-> 0]
  <1>1. /\ cur' = [cur EXCEPT ![c] = [id |-> id, op |-> op, key |-> key, from |-> from]]
        /\ jobs' = jobs \cup {new} /\ tally' = Dma!Bump(tally, {"sent"})
        /\ task' = [task EXCEPT ![c] = "await"]
        /\ UNCHANGED <<largeobj, remote_keys, nextKey, buf, stored, kept>>
    BY DEF Dma!Issue
  <1>2. DmaTypes /\ (\A d \in DmaConns : ConnSound(d)) /\ \A j \in jobs : JobSound(j)
    BY DEF DmaInv, TransfersInv
  <1>3. /\ tally' \in [Dma!Tallies -> Int]
        /\ tally'.sent = id /\ tally'.received = tally.received
        /\ tally'.abandoned = tally.abandoned
        /\ tally'.active = tally.active /\ id \in Nat \ {0} /\ tally.sent \in Nat
    BY <1>1, <1>2 DEF DmaTypes, Dma!Tallies, Dma!Bump
  <1>4. /\ cur'[c].id = id /\ cur'[c].op = op /\ cur'[c].key = key /\ cur'[c].from = from
        /\ task'[c] = "await" /\ DOMAIN cur = DmaConns
        /\ \A d \in DmaConns \ {c} : cur'[d] = cur[d] /\ task'[d] = task[d]
        /\ cur' = [d \in DmaConns |-> cur'[d]]
    BY <1>1, <1>2 DEF DmaTypes
  <1>5. /\ cur[c] = Dma!Idle /\ cur[c].id = 0 /\ buf[c].rkey \in Nat \ {0} /\ buf[c].rkey < nextKey
        /\ nextKey \in Nat
    BY <1>2 DEF DmaTypes, ConnSound, Dma!Idle, Dma!None
  <1>6. /\ new.id = id /\ new.conn = c /\ new.rkey = buf[c].rkey /\ new.op = op /\ new.key = key
        /\ new.done = FALSE /\ new.took = 0
        /\ new = [id |-> new.id, conn |-> new.conn, rkey |-> new.rkey, op |-> new.op,
                  key |-> new.key, done |-> new.done, took |-> new.took]
    OBVIOUS
  <1>. HIDE DEF id, new
  <1>7. id = tally.sent + 1
    BY DEF id
  <1>8. DmaTypes'
    BY <1>1, <1>2, <1>3, <1>4 DEF DmaTypes
  <1>9. ASSUME NEW d \in DmaConns PROVE ConnSound(d)'
    <2>1. ConnSound(d)
      BY <1>2
    <2>2. CASE d = c
      BY <1>1, <1>3, <1>4, <2>1, <2>2 DEF ConnSound
    <2>3. CASE d # c
      <3>1. cur[d].id \in 1 .. tally.sent => cur[d].id \in 1 .. tally'.sent
        BY <1>3, <1>7
      <3>. QED
        BY <1>1, <1>3, <1>4, <2>1, <2>3, <3>1 DEF ConnSound
    <2>. QED
      BY <2>2, <2>3
  <1>10. ASSUME NEW j \in jobs PROVE j.id # id /\ (Distinct => j.rkey # buf[c].rkey)
    <2>1. JobSound(j)
      BY <1>2
    <2>2. j.id \in 1 .. tally.sent /\ (Distinct /\ buf[c].rkey = j.rkey => cur[c].id = j.id)
      BY <2>1 DEF JobSound
    <2>. QED
      BY <1>3, <1>5, <1>7, <2>2
  <1>11. ASSUME NEW j \in jobs' PROVE JobSound(j)'
    <2>1. CASE j = new
      <3>1. \A k \in jobs' : k.id = j.id => k = j
        BY <1>1, <1>6, <1>10, <2>1
      <3>2. \A d \in DmaConns : buf[d].rkey = buf[c].rkey => d = c
        BY <1>2, <1>5 DEF ConnSound
      <3>3. j.id \in 1 .. tally'.sent /\ j.rkey \in 1 .. nextKey' - 1
        BY <1>1, <1>3, <1>5, <1>6, <2>1
      <3>4. j = [id |-> j.id, conn |-> j.conn, rkey |-> j.rkey, op |-> j.op, key |-> j.key,
                 done |-> j.done, took |-> j.took]
        BY <1>6, <2>1
      <3>5. \A d \in DmaConns : buf'[d].rkey = j.rkey => d = j.conn /\ cur'[d].id = j.id
        BY <1>1, <1>4, <1>6, <2>1, <3>2
      <3>6. ~j.done /\ j.conn \in DmaConns
        BY <1>6, <2>1
      <3>7. /\ buf'[j.conn].rkey = j.rkey /\ cur'[j.conn].op = j.op /\ cur'[j.conn].key = j.key
        BY <1>1, <1>4, <1>6, <2>1
      <3>. QED
        BY <3>1, <3>3, <3>4, <3>5, <3>6, <3>7 DEF JobSound
    <2>2. CASE j \in jobs
      <3>1. JobSound(j)
        BY <1>2, <2>2
      <3>2. \A k \in jobs' : k.id = j.id => k = j
        BY <1>1, <1>6, <1>10, <2>2, <3>1 DEF JobSound
      <3>3. j.id \in 1 .. tally'.sent
        BY <1>3, <1>7, <3>1 DEF JobSound
      <3>4. Distinct => \A d \in DmaConns : buf'[d].rkey = j.rkey => d = j.conn /\ cur'[d].id = j.id
        BY <1>1, <1>4, <1>10, <2>2, <3>1 DEF JobSound
      <3>5. cur'[j.conn].id = j.id => cur'[j.conn] = cur[j.conn]
        BY <1>4, <1>10, <2>2, <3>1 DEF JobSound
      <3>. QED
        BY <1>1, <3>1, <3>2, <3>3, <3>4, <3>5 DEF JobSound, Distinct
    <2>. QED
      BY <1>1, <2>1, <2>2
  <1>12. TransfersInv'
    BY <1>8, <1>9, <1>11 DEF TransfersInv
  <1>13. TaskMoves(c, "await")
    <2>1. /\ One("await" = "await") = 1 /\ One(task[c] = "await") = 0
          /\ One("await" \in JoinedAt) = 1 /\ One(task[c] \in JoinedAt) = 1
      BY DEF One, JoinedAt
    <2>2. Unanswered(tally') = Unanswered(tally) + 1 /\ Unanswered(tally) \in Int /\ tally.active \in Int
      <3>1. tally.received \in Int /\ tally.abandoned \in Int /\ tally.active \in Int
        BY <1>2 DEF DmaTypes, Dma!Tallies
      <3>. QED
        BY <1>3, <1>7, <3>1 DEF Unanswered
    <2>. QED
      BY <1>1, <1>3, <2>1, <2>2 DEF TaskMoves
  <1>14. TalliesExact'
    BY <1>2, <1>13, MovedTallies DEF DmaInv
  <1>. QED
    BY <1>1, <1>4, <1>5, <1>12, <1>14 DEF id

LEMMA IssuesInv ==
  ASSUME DmaInv, NEW c \in DmaConns, Dma!PrefillSet(c) \/ Dma!BackfillSet(c) \/ Dma!WorkloadOp(c)
  PROVE  DmaInv'
  <1>1. CASE Dma!PrefillSet(c)
    <2>1. /\ task[c] = "loop" /\ todo # <<>> /\ todo' = Tail(todo)
          /\ Dma!Issue(c, "set", Head(todo), "prefill")
      BY <1>1 DEF Dma!PrefillSet
    <2>2. /\ TransfersInv' /\ TalliesExact' /\ kept' = kept /\ stored' = stored
          /\ cur' = [cur EXCEPT ![c] = [id |-> tally.sent + 1, op |-> "set", key |-> Head(todo),
                                        from |-> "prefill"]]
          /\ cur[c] = Dma!Idle /\ DOMAIN cur = DmaConns
      BY <2>1, IssueInv
    <2>3. KeyTaken(c)
      BY <2>1, <2>2 DEF KeyTaken, SameFlight, Dma!Idle
    <2>. QED
      BY <2>2, <2>3, TakenKeys DEF DmaInv
  <1>2. ASSUME task[c] = "loop", NEW op, NEW key, NEW from, Dma!Issue(c, op, key, from),
               from # "prefill", todo' = todo
        PROVE  DmaInv'
    <2>1. /\ TransfersInv' /\ TalliesExact' /\ kept' = kept /\ stored' = stored
          /\ cur' = [cur EXCEPT ![c] = [id |-> tally.sent + 1, op |-> op, key |-> key, from |-> from]]
          /\ cur[c] = Dma!Idle /\ DOMAIN cur = DmaConns
      BY <1>2, IssueInv
    <2>2. KeysStay
      BY <1>2, <2>1 DEF KeysStay, SameFlight, Dma!Idle
    <2>. QED
      BY <2>1, <2>2, StayKeys DEF DmaInv
  <1>3. CASE Dma!BackfillSet(c)
    <2>1. /\ task[c] = "loop" /\ todo' = todo
          /\ Dma!Issue(c, "set", Dma!Last(repair[c]), "backfill")
      BY <1>3 DEF Dma!BackfillSet, Dma!Traffic
    <2>. QED
      BY <1>2, <2>1
  <1>4. CASE Dma!WorkloadOp(c)
    <2>1. task[c] = "loop" /\ todo' = todo
      BY <1>4 DEF Dma!WorkloadOp, Dma!Traffic
    <2>2. \E key \in DmaKeys, op \in {"get", "set", "del"} : Dma!Issue(c, op, key, "workload")
      BY <1>4 DEF Dma!WorkloadOp
    <2>. QED
      BY <1>2, <2>1, <2>2
  <1>. QED
    BY <1>1, <1>3, <1>4

(* A prefill key whose request ended unconfirmed is back on the queue.     *)
LEMMA LeftKeys ==
  ASSUME DmaTypes, KeysApart, NEW c \in DmaConns, cur' = [cur EXCEPT ![c] = Dma!Idle],
         todo' = Dma!BackOnQueue(c), stored' = stored
  PROVE  KeysApart'
  <1>1. cur'[c].from = "none" /\ \A d \in DmaConns \ {c} : SameFlight(d)
    BY DEF DmaTypes, Dma!Idle, SameFlight
  <1>2. CASE cur[c].from = "prefill"
    <2>1. KeyBack(c)
      BY <1>1, <1>2 DEF KeyBack, Dma!BackOnQueue
    <2>. QED
      BY <2>1, BackKeys
  <1>3. CASE cur[c].from # "prefill"
    <2>1. todo' = todo
      BY <1>3 DEF Dma!BackOnQueue
    <2>2. SameFlight(c)
      BY <1>1, <1>3 DEF SameFlight
    <2>3. KeysStay
      BY <1>1, <2>1, <2>2 DEF KeysStay
    <2>. QED
      BY <2>3, StayKeys
  <1>. QED
    BY <1>2, <1>3

(* The client is dropped with its buffer: what the server still does for   *)
(* it finds no buffer.                                                     *)
LEMMA LeaveInv ==
  ASSUME TransfersInv, NEW c \in DmaConns, Dma!Leave(c), jobs' \in SUBSET jobs,
         tally' \in [Dma!Tallies -> Int], tally'.sent = tally.sent,
         largeobj' = largeobj, remote_keys' = remote_keys, nextKey' = nextKey,
         kept' = kept
  PROVE  TransfersInv'
  <1>1. DmaTypes /\ (\A d \in DmaConns : ConnSound(d)) /\ \A j \in jobs : JobSound(j)
    BY DEF TransfersInv
  <1>2. /\ buf'[c].rkey = 0 /\ task'[c] = "top" /\ cur'[c] = Dma!Idle /\ cur'[c].id = 0
        /\ cur'[c].from = "none"
        /\ \A d \in DmaConns \ {c} : buf'[d] = buf[d] /\ task'[d] = task[d] /\ cur'[d] = cur[d]
        /\ buf' \in [DmaConns -> [rkey : Nat, holds : Nat]]
        /\ cur' = [d \in DmaConns |-> cur'[d]]
    BY <1>1 DEF DmaTypes, Dma!Leave, Dma!NoBuf, Dma!None, Dma!Idle
  <1>3. DmaTypes'
    BY <1>1, <1>2 DEF DmaTypes, Dma!Leave
  <1>4. ASSUME NEW d \in DmaConns PROVE ConnSound(d)'
    <2>1. ConnSound(d) /\ buf[d].rkey \in Nat /\ nextKey \in Nat \ {0}
      BY <1>1 DEF DmaTypes
    <2>2. \A e \in DmaConns : buf'[d].rkey = buf'[e].rkey /\ buf'[d].rkey # 0 => d = e
      BY <1>1, <1>2 DEF ConnSound
    <2>3. CASE d = c
      BY <1>2, <2>1, <2>2, <2>3 DEF ConnSound
    <2>4. CASE d # c
      BY <1>2, <2>1, <2>2, <2>4 DEF ConnSound
    <2>. QED
      BY <2>3, <2>4
  <1>5. ASSUME NEW j \in jobs' PROVE JobSound(j)'
    <2>1. JobSound(j) /\ nextKey \in Nat /\ tally.sent \in Nat
      BY <1>1 DEF DmaTypes
    <2>2. j.id # 0 /\ j.rkey # 0
      BY <2>1 DEF JobSound
    <2>3. Distinct => \A d \in DmaConns : buf'[d].rkey = j.rkey => d = j.conn /\ cur'[d].id = j.id
      BY <1>2, <2>1, <2>2 DEF JobSound
    <2>4. cur'[j.conn].id = j.id => buf'[j.conn] = buf[j.conn] /\ cur'[j.conn] = cur[j.conn]
      BY <1>2, <2>1, <2>2 DEF JobSound
    <2>5. \A k \in jobs' : k.id = j.id => k = j
      BY <2>1 DEF JobSound
    <2>. QED
      BY <2>1, <2>3, <2>4, <2>5 DEF JobSound, Distinct
  <1>. QED
    BY <1>3, <1>4, <1>5 DEF TransfersInv

(* The answered request leaves its connection in the loop, with the buffer *)
(* and no job for it.                                                      *)
LEMMA LoopInv ==
  ASSUME TransfersInv, NEW j \in jobs, NEW c \in DmaConns, c = j.conn, cur[c].id = j.id,
         task' = [task EXCEPT ![c] = "loop"], cur' = [cur EXCEPT ![c] = Dma!Idle], buf' = buf,
         jobs' = jobs \ {j},
         tally' \in [Dma!Tallies -> Int], tally'.sent = tally.sent,
         largeobj' = largeobj, remote_keys' = remote_keys, nextKey' = nextKey,
         kept' = kept
  PROVE  TransfersInv'
  <1>1. DmaTypes /\ (\A d \in DmaConns : ConnSound(d)) /\ \A k \in jobs : JobSound(k)
    BY DEF TransfersInv
  <1>2. /\ task'[c] = "loop" /\ cur'[c] = Dma!Idle /\ cur'[c].id = 0 /\ cur'[c].from = "none"
        /\ \A d \in DmaConns \ {c} : task'[d] = task[d] /\ cur'[d] = cur[d]
        /\ cur' = [d \in DmaConns |-> cur'[d]]
    BY <1>1 DEF DmaTypes, Dma!None, Dma!Idle
  <1>3. DmaTypes'
    BY <1>1, <1>2 DEF DmaTypes
  <1>4. task[c] = "await" /\ buf[c].rkey = j.rkey
    <2>1. JobSound(j) /\ ConnSound(c) /\ tally.sent \in Nat
      BY <1>1 DEF DmaTypes
    <2>2. Dma!Idle.id = 0 /\ j.id # 0
      BY <2>1 DEF JobSound, Dma!Idle, Dma!None
    <2>. QED
      BY <2>1, <2>2 DEF JobSound, ConnSound
  <1>5. ASSUME NEW d \in DmaConns PROVE ConnSound(d)'
    <2>1. ConnSound(d)
      BY <1>1
    <2>2. CASE d = c
      BY <1>2, <1>4, <2>1, <2>2 DEF ConnSound
    <2>3. CASE d # c
      BY <1>2, <2>1, <2>3 DEF ConnSound
    <2>. QED
      BY <2>2, <2>3
  <1>6. ASSUME NEW k \in jobs' PROVE JobSound(k)'
    <2>1. k \in jobs /\ k # j /\ JobSound(k) /\ JobSound(j) /\ tally.sent \in Nat
      BY <1>1 DEF DmaTypes
    <2>2. k.id # 0 /\ k.id # j.id
      BY <2>1 DEF JobSound
    <2>3. Distinct => \A d \in DmaConns : buf[d].rkey = k.rkey => d # c
      BY <2>1, <2>2 DEF JobSound
    <2>4. Distinct => \A d \in DmaConns : buf'[d].rkey = k.rkey => d = k.conn /\ cur'[d].id = k.id
      BY <1>2, <2>1, <2>3 DEF JobSound
    <2>5. cur'[k.conn].id = k.id => cur'[k.conn] = cur[k.conn]
      BY <1>2, <2>1, <2>2 DEF JobSound
    <2>6. \A l \in jobs' : l.id = k.id => l = k
      BY <2>1 DEF JobSound
    <2>. QED
      BY <2>1, <2>4, <2>5, <2>6 DEF JobSound, Distinct
  <1>. QED
    BY <1>3, <1>5, <1>6 DEF TransfersInv

(* One request more is counted as ended, and the connection is counted out *)
(* when it leaves.                                                         *)
LEMMA EndedTallies ==
  ASSUME DmaTypes, NEW c \in DmaConns, task[c] = "await",
         NEW how \in {"received", "abandoned"}, NEW to \in {"top", "loop"},
         task' = [task EXCEPT ![c] = to],
         tally' = [Dma!Bump(tally, {how}) EXCEPT !.active = @ - (IF to = "top" THEN 1 ELSE 0)]
  PROVE  tally' \in [Dma!Tallies -> Int] /\ tally'.sent = tally.sent /\ TaskMoves(c, to)
  <1>1. /\ tally' \in [Dma!Tallies -> Int] /\ tally'.sent = tally.sent
        /\ tally'.active = tally.active - One(to = "top")
        /\ tally'.received = tally.received + One(how = "received")
        /\ tally'.abandoned = tally.abandoned + One(how = "abandoned")
    <2>1. PICK less : less = (IF to = "top" THEN 1 ELSE 0) /\ less = One(to = "top")
      BY DEF One
    <2>2. PICK b : b = Dma!Bump(tally, {how})
      OBVIOUS
    <2>3. b \in [Dma!Tallies -> Int] /\ \A n \in Dma!Tallies : b[n] = tally[n] + One(n \in {how})
      BY <2>2, Bumped
    <2>4. tally' = [b EXCEPT !.active = @ - less] /\ less \in Int
      BY <2>1, <2>2 DEF One
    <2>5. "active" \in Dma!Tallies
      BY DEF Dma!Tallies
    <2>6. b["active"] \in Int
      BY <2>3, <2>5
    <2>7. b["active"] - less \in Int
      BY <2>4, <2>6
    <2>8. tally' = [b EXCEPT !["active"] = b["active"] - less]
      BY <2>4, Zenon
    <2>9. tally' \in [Dma!Tallies -> Int]
      BY <2>3, <2>5, <2>7, <2>8
    <2>10. /\ tally'.active = b.active - less
          /\ tally'.sent = b.sent /\ tally'.received = b.received
          /\ tally'.abandoned = b.abandoned
      BY <2>3, <2>8 DEF Dma!Tallies
    <2>11. /\ One("active" \in {how}) = 0 /\ One("sent" \in {how}) = 0
          /\ One("received" \in {how}) = One(how = "received")
          /\ One("abandoned" \in {how}) = One(how = "abandoned")
      BY DEF One
    <2>12. tally.sent \in Int /\ tally.active \in Int
      BY DEF DmaTypes, Dma!Tallies
    <2>13. /\ b.active = tally.active /\ b.sent = tally.sent
          /\ b.received = tally.received + One(how = "received")
          /\ b.abandoned = tally.abandoned + One(how = "abandoned")
      BY <2>3, <2>11, <2>12 DEF Dma!Tallies
    <2>. QED
      BY <2>1, <2>9, <2>10, <2>13
  <1>2. One(how = "received") + One(how = "abandoned") = 1
    BY DEF One
  <1>3. /\ tally.sent \in Int /\ tally.received \in Int /\ tally.abandoned \in Int
        /\ tally.active \in Int /\ One(to = "top") \in Int
        /\ One(how = "received") \in Int /\ One(how = "abandoned") \in Int
    BY DEF DmaTypes, Dma!Tallies, One
  <1>4. Unanswered(tally') = Unanswered(tally) - 1 /\ Unanswered(tally) \in Int
    BY <1>1, <1>2, <1>3 DEF Unanswered
  <1>5. One(to = "await") = 0 /\ One(task[c] = "await") = 1 /\ One(task[c] \in JoinedAt) = 1
        /\ One(to \in JoinedAt) = 1 - One(to = "top")
    BY DEF One, JoinedAt
  <1>6. Unanswered(tally') = Unanswered(tally) + One(to = "await") - One(task[c] = "await")
    BY <1>4, <1>5
  <1>7. tally'.active = tally.active + One(to \in JoinedAt) - One(task[c] \in JoinedAt)
    BY <1>1, <1>3, <1>5
  <1>. QED
    BY <1>1, <1>6, <1>7 DEF TaskMoves

LEMMA GivesUpInv ==
  ASSUME DmaInv, NEW c \in DmaConns, Dma!GivesUp(c) \/ Dma!SocketFails(c) PROVE DmaInv'
  <1>1. /\ task[c] = "await" /\ Dma!Leave(c) /\ todo' = Dma!BackOnQueue(c)
        /\ UNCHANGED <<largeobj, remote_keys, nextKey, jobs, stored, kept>>
        /\ \E how \in {"received", "abandoned"} :
             tally' = [Dma!Bump(tally, {how}) EXCEPT !.active = @ - 1]
    BY DEF Dma!GivesUp, Dma!SocketFails
  <1>2. DmaTypes /\ TransfersInv
    BY DEF DmaInv, TransfersInv
  <1>3. task' = [task EXCEPT ![c] = "top"] /\ cur' = [cur EXCEPT ![c] = Dma!Idle]
    BY <1>1 DEF Dma!Leave
  <1>4. PICK how \in {"received", "abandoned"} :
          tally' = [Dma!Bump(tally, {how}) EXCEPT !.active = @ - (IF "top" = "top" THEN 1 ELSE 0)]
    BY <1>1
  <1>5. tally' \in [Dma!Tallies -> Int] /\ tally'.sent = tally.sent /\ TaskMoves(c, "top")
    BY <1>1, <1>2, <1>3, <1>4, EndedTallies
  <1>6. TransfersInv'
    BY <1>1, <1>2, <1>5, LeaveInv
  <1>7. TalliesExact'
    BY <1>2, <1>5, MovedTallies DEF DmaInv
  <1>8. KeysApart'
    BY <1>1, <1>2, <1>3, LeftKeys DEF DmaInv
  <1>. QED
    BY <1>1, <1>6, <1>7, <1>8 DEF DmaInv

-----------------------------------------------------------------------------
(* The server                                                              *)

(* The bytes land in the buffer of the request they were asked for: no     *)
(* other carries the job's remote key.                                     *)
LEMMA ServerMovesInv ==
  ASSUME DmaInv, NEW j \in jobs, Dma!ServerMoves(j) PROVE DmaInv'
  <1>1. PICK n \in (IF j.op = "set" /\ ~largeobj THEN {Dma!Len4 - 1, Dma!Len4} ELSE {Dma!Len4}) :
          /\ jobs' = (jobs \ {j}) \cup {[j EXCEPT !.done = TRUE, !.took = n]}
          /\ kept' = IF j.op = "set" /\ n = Dma!Len4 THEN kept \cup {j.key} ELSE kept
          /\ buf' = [c \in DmaConns |-> IF j.op = "get" /\ buf[c].rkey = j.rkey
                                        THEN [buf[c] EXCEPT !.holds = j.id] ELSE buf[c]]
    BY DEF Dma!ServerMoves
  <1>2. ~j.done /\ UNCHANGED <<largeobj, remote_keys, nextKey, task, cur, todo, stored, tally>>
    BY DEF Dma!ServerMoves
  <1>3. DmaTypes /\ (\A d \in DmaConns : ConnSound(d)) /\ \A k \in jobs : JobSound(k)
    BY DEF DmaInv, TransfersInv
  <1>4. PICK m : m = [j EXCEPT !.done = TRUE, !.took = n]
    OBVIOUS
  <1>5. /\ m.id = j.id /\ m.conn = j.conn /\ m.rkey = j.rkey /\ m.op = j.op /\ m.key = j.key
        /\ m.done = TRUE /\ m.took = n
        /\ m = [id |-> m.id, conn |-> m.conn, rkey |-> m.rkey, op |-> m.op, key |-> m.key,
                done |-> m.done, took |-> m.took]
    <2>1. j = [id |-> j.id, conn |-> j.conn, rkey |-> j.rkey, op |-> j.op, key |-> j.key,
               done |-> j.done, took |-> j.took]
      BY <1>3 DEF JobSound
    <2>. QED
      BY <1>4, <2>1
  <1>6. jobs' = (jobs \ {j}) \cup {m}
    BY <1>1, <1>4
  <1>7. /\ buf' \in [DmaConns -> [rkey : Nat, holds : Nat]]
        /\ \A c \in DmaConns : buf'[c].rkey = buf[c].rkey
        /\ Distinct => \A c \in DmaConns : c # j.conn => buf'[c] = buf[c]
        /\ j.op # "get" => buf' = buf
        /\ j.op = "get" /\ buf[j.conn].rkey = j.rkey => buf'[j.conn].holds = j.id
    <2>1. /\ j.conn \in DmaConns /\ j.id \in Nat
          /\ Distinct => \A c \in DmaConns : buf[c].rkey = j.rkey => c = j.conn
      <3>1. JobSound(j) /\ tally.sent \in Nat
        BY <1>3 DEF DmaTypes
      <3>. QED
        BY <3>1 DEF JobSound
    <2>2. \A c \in DmaConns : buf[c] \in [rkey : Nat, holds : Nat]
      BY <1>3 DEF DmaTypes
    <2>3. buf = [c \in DmaConns |-> buf[c]]
      BY <1>3 DEF DmaTypes
    <2>4. DOMAIN buf' = DmaConns /\ buf' = [c \in DmaConns |-> buf'[c]]
      BY <1>1
    <2>5. \A c \in DmaConns : j.op = "get" /\ buf[c].rkey = j.rkey
                              => buf'[c] = [buf[c] EXCEPT !.holds = j.id]
      BY <1>1
    <2>6. \A c \in DmaConns : ~(j.op = "get" /\ buf[c].rkey = j.rkey) => buf'[c] = buf[c]
      BY <1>1
    <2>7. ASSUME NEW c \in DmaConns
          PROVE  /\ buf'[c] \in [rkey : Nat, holds : Nat] /\ buf'[c].rkey = buf[c].rkey
                 /\ j.op = "get" /\ buf[c].rkey = j.rkey => buf'[c].holds = j.id
      <3>1. CASE j.op = "get" /\ buf[c].rkey = j.rkey
        BY <2>1, <2>2, <2>5, <3>1
      <3>2. CASE ~(j.op = "get" /\ buf[c].rkey = j.rkey)
        BY <2>2, <2>6, <3>2
      <3>. QED
        BY <3>1, <3>2
    <2>8. buf' \in [DmaConns -> [rkey : Nat, holds : Nat]]
      BY <2>4, <2>7
    <2>9. j.op # "get" => buf' = buf
      BY <2>3, <2>4, <2>6
    <2>. QED
      BY <2>1, <2>6, <2>7, <2>8, <2>9
  <1>8. kept \subseteq kept'
    BY <1>1
  <1>9. DmaTypes'
    BY <1>2, <1>3, <1>7 DEF DmaTypes
  <1>10. \A d \in DmaConns : ConnSound(d)'
    BY <1>2, <1>3, <1>7 DEF ConnSound
  <1>11. ASSUME NEW k \in jobs \ {j} PROVE JobSound(k)'
    <2>1. JobSound(k) /\ JobSound(j) /\ k # j
      BY <1>3
    <2>2. k.id # j.id
      BY <2>1 DEF JobSound
    <2>3. \A l \in jobs' : l.id = k.id => l = k
      BY <1>5, <1>6, <2>1, <2>2 DEF JobSound
    <2>4. Distinct /\ cur[k.conn].id = k.id => buf'[k.conn] = buf[k.conn]
      <3>1. CASE Distinct /\ k.conn # j.conn
        BY <1>7, <2>1, <3>1 DEF JobSound
      <3>2. CASE Distinct /\ k.conn = j.conn /\ cur[k.conn].id = k.id
        <4>1. buf[j.conn].rkey # j.rkey
          BY <2>1, <2>2, <3>2 DEF JobSound
        <4>2. buf'[j.conn] = buf[j.conn]
          BY <1>1, <2>1, <4>1 DEF JobSound
        <4>. QED
          BY <3>2, <4>2
      <3>. QED
        BY <3>1, <3>2
    <2>5. Distinct => \A d \in DmaConns : buf'[d].rkey = k.rkey => d = k.conn /\ cur[d].id = k.id
      BY <1>7, <2>1 DEF JobSound
    <2>. QED
      BY <1>2, <1>7, <1>8, <2>1, <2>3, <2>4, <2>5 DEF JobSound, Distinct
  <1>12. JobSound(m)'
    <2>1. JobSound(j)
      BY <1>3
    <2>2. \A l \in jobs' : l.id = m.id => l = m
      BY <1>3, <1>5, <1>6 DEF JobSound
    <2>3. Distinct => \A d \in DmaConns : buf'[d].rkey = m.rkey => d = m.conn /\ cur[d].id = m.id
      BY <1>5, <1>7, <2>1 DEF JobSound
    <2>4. cur[m.conn].id = m.id =>
            /\ buf'[m.conn].rkey = m.rkey /\ cur[m.conn].op = m.op /\ cur[m.conn].key = m.key
            /\ m.op = "get" /\ m.done => buf'[m.conn].holds = m.id
      BY <1>5, <1>7, <2>1 DEF JobSound
    <2>5. m.op = "set" => /\ m.took = Dma!Len4 => m.key \in kept'
                          /\ largeobj => m.took = Dma!Len4
      BY <1>1, <1>5
    <2>6. m.conn \in DmaConns /\ m.id \in 1 .. tally.sent /\ m.rkey \in 1 .. nextKey - 1
      BY <1>5, <2>1 DEF JobSound
    <2>. QED
      BY <1>2, <1>5, <2>2, <2>3, <2>4, <2>5, <2>6 DEF JobSound, Distinct
  <1>13. TransfersInv'
    BY <1>6, <1>9, <1>10, <1>11, <1>12 DEF TransfersInv
  <1>14. KeysApart'
    BY <1>2, SameKeys, StayKeys DEF DmaInv
  <1>15. TalliesExact'
    BY <1>2 DEF DmaInv, TalliesExact, Awaiting, Joined
  <1>. QED
    BY <1>2, <1>8, <1>13, <1>14, <1>15 DEF DmaInv

(* A write is confirmed only if the server took the whole value.           *)
LEMMA ConfirmedWhole ==
  ASSUME NEW j, JobSound(j), j.op = "set", NEW r \in Dma!Answers(j), Dma!SetOutcome(r) = "ok"
  PROVE  j.key \in kept
  <1>1. CASE r = Dma!Reply("error", 0)
    BY <1>1 DEF Dma!SetOutcome, Dma!Reply
  <1>2. CASE r = Dma!Reply("junk", 0)
    <2>1. r.kind = "junk"
      BY <1>2 DEF Dma!Reply
    <2>2. Dma!Receipt(r) = [ok |-> FALSE, found |-> FALSE, bytes |-> 0]
      BY <2>1 DEF Dma!Receipt
    <2>. QED
      BY <2>1, <2>2 DEF Dma!SetOutcome
  <1>3. CASE j.done /\ largeobj
    BY <1>3 DEF JobSound
  <1>4. CASE j.done /\ r = Dma!Reply("bytes", j.took)
    <2>1. r.kind = "bytes" /\ r.bytes = j.took
      BY <1>4 DEF Dma!Reply
    <2>2. Dma!Receipt(r).bytes = Dma!Len4
      BY <2>1 DEF Dma!SetOutcome
    <2>3. CASE j.took >= 0
      <3>1. Dma!Receipt(r) = [ok |-> TRUE, found |-> TRUE, bytes |-> j.took]
        BY <2>1, <2>3 DEF Dma!Receipt
      <3>. QED
        BY <1>4, <2>2, <3>1 DEF JobSound
    <2>4. CASE ~(j.took >= 0)
      <3>1. Dma!Receipt(r) = [ok |-> FALSE, found |-> FALSE, bytes |-> 0]
        BY <2>1, <2>4 DEF Dma!Receipt
      <3>. QED
        BY <2>2, <3>1 DEF Dma!Len4
    <2>. QED
      BY <2>3, <2>4
  <1>. QED
    BY <1>1, <1>2, <1>3, <1>4 DEF Dma!Answers

LEMMA ServerAnswersInv ==
  ASSUME DmaInv, NEW j \in jobs, Dma!ServerAnswers(j) PROVE DmaInv'
  <1>1. jobs' = jobs \ {j} /\ UNCHANGED <<largeobj, remote_keys, nextKey, kept>>
    BY DEF Dma!ServerAnswers
  <1>2. TransfersInv /\ DmaTypes /\ (\A d \in DmaConns : ConnSound(d)) /\ \A k \in jobs : JobSound(k)
    BY DEF DmaInv, TransfersInv
  <1>3. CASE cur[j.conn].id # j.id
    <2>1. UNCHANGED <<task, buf, cur, todo, stored, tally>>
      BY <1>3, Zenon DEF Dma!ServerAnswers, Dma!client
    <2>2. DmaTypes' /\ \A d \in DmaConns : ConnSound(d)'
      BY <1>1, <1>2, <2>1 DEF DmaTypes, ConnSound
    <2>3. \A k \in jobs' : JobSound(k)'
      BY <1>1, <1>2, <2>1 DEF JobSound, Distinct
    <2>4. KeysApart'
      BY <2>1, SameKeys, StayKeys DEF DmaInv
    <2>5. TalliesExact'
      BY <2>1 DEF DmaInv, TalliesExact, Awaiting, Joined
    <2>. QED
      BY <1>1, <2>1, <2>2, <2>3, <2>4, <2>5 DEF DmaInv, TransfersInv
  <1>4. CASE cur[j.conn].id = j.id
    <2>1. PICK c : c = j.conn
      OBVIOUS
    <2>2. PICK r \in Dma!Answers(j) : Dma!Completes(j.conn, Dma!Outcome(j.conn, r))
      BY <1>4, Zenon DEF Dma!ServerAnswers
    <2>3. PICK out : out = Dma!Outcome(c, r)
      OBVIOUS
    <2>4. /\ c \in DmaConns /\ JobSound(j) /\ cur[c].id = j.id /\ cur[c].op = j.op
          /\ cur[c].key = j.key
      BY <1>2, <1>4, <2>1 DEF JobSound
    <2>5. task[c] = "await"
      <3>1. ConnSound(c) /\ tally.sent \in Nat
        BY <1>2, <2>4 DEF DmaTypes
      <3>2. Dma!Idle.id = 0 /\ j.id # 0
        BY <2>4, <3>1 DEF JobSound, Dma!Idle, Dma!None
      <3>. QED
        BY <2>4, <3>1, <3>2 DEF ConnSound
    <2>6. Dma!Completes(c, out)
      BY <2>1, <2>2, <2>3
    <2>7. /\ tally' = [Dma!Bump(tally, {"received"})
                        EXCEPT !.active = @ - (IF out \in {"failed", "junk"} THEN 1 ELSE 0)]
          /\ cur' = [cur EXCEPT ![c] = Dma!Idle]
      BY <2>6 DEF Dma!Completes, Dma!Leave
    <2>8. TransfersInv' /\ TalliesExact'
      <3>1. CASE out \in {"failed", "junk"}
        <4>1. Dma!Leave(c) /\ task' = [task EXCEPT ![c] = "top"]
          BY <2>6, <3>1 DEF Dma!Completes, Dma!Leave
        <4>2. tally' = [Dma!Bump(tally, {"received"})
                          EXCEPT !.active = @ - (IF "top" = "top" THEN 1 ELSE 0)]
          BY <2>7, <3>1
        <4>3. tally' \in [Dma!Tallies -> Int] /\ tally'.sent = tally.sent /\ TaskMoves(c, "top")
          BY <1>2, <2>4, <2>5, <4>1, <4>2, EndedTallies
        <4>4. jobs' \in SUBSET jobs
          BY <1>1
        <4>5. TransfersInv'
          BY <1>1, <1>2, <2>4, <4>1, <4>3, <4>4, LeaveInv
        <4>6. TalliesExact'
          BY <1>2, <4>3, MovedTallies DEF DmaInv
        <4>. QED
          BY <4>5, <4>6
      <3>2. CASE out \notin {"failed", "junk"}
        <4>1. task' = [task EXCEPT ![c] = "loop"] /\ buf' = buf
          BY <2>6, <3>2 DEF Dma!Completes
        <4>2. tally' = [Dma!Bump(tally, {"received"})
                          EXCEPT !.active = @ - (IF "loop" = "top" THEN 1 ELSE 0)]
          BY <2>7, <3>2
        <4>3. tally' \in [Dma!Tallies -> Int] /\ tally'.sent = tally.sent /\ TaskMoves(c, "loop")
          BY <1>2, <2>4, <2>5, <4>1, <4>2, EndedTallies
        <4>4. TransfersInv'
          BY <1>1, <1>2, <2>1, <2>4, <2>7, <4>1, <4>3, LoopInv
        <4>5. TalliesExact'
          BY <1>2, <4>3, MovedTallies DEF DmaInv
        <4>. QED
          BY <4>4, <4>5
      <3>. QED
        BY <3>1, <3>2
    <2>9. KeysApart' /\ stored' \subseteq kept'
      <3>1. CASE cur[c].from = "prefill" /\ out = "ok"
        <4>1. stored' = stored \cup {cur[c].key} /\ todo' = todo
          BY <2>6, <3>1 DEF Dma!Completes
        <4>2. cur'[c].from = "none" /\ \A d \in DmaConns \ {c} : SameFlight(d)
          BY <1>2, <2>4, <2>7 DEF DmaTypes, Dma!Idle, SameFlight
        <4>3. KeyConfirmed(c)
          BY <2>4, <3>1, <4>1, <4>2 DEF KeyConfirmed
        <4>4. j.op = "set" /\ cur[c].op = "set"
          BY <1>2, <2>4, <3>1 DEF ConnSound
        <4>5. Dma!SetOutcome(r) = "ok"
          BY <2>3, <3>1, <4>4 DEF Dma!Outcome
        <4>6. j.key \in kept
          BY <2>4, <4>4, <4>5, ConfirmedWhole
        <4>7. KeysApart'
          BY <4>3, ConfirmedKeys DEF DmaInv
        <4>. QED
          BY <1>1, <2>4, <4>1, <4>6, <4>7 DEF DmaInv
      <3>2. CASE ~(cur[c].from = "prefill" /\ out = "ok")
        <4>1. todo' = Dma!BackOnQueue(c) /\ stored' = stored
          BY <2>6, <3>2 DEF Dma!Completes
        <4>2. KeysApart'
          BY <1>2, <2>4, <2>7, <4>1, LeftKeys DEF DmaInv
        <4>. QED
          BY <1>1, <4>1, <4>2 DEF DmaInv
      <3>. QED
        BY <3>1, <3>2
    <2>. QED
      BY <2>8, <2>9 DEF DmaInv
  <1>. QED
    BY <1>3, <1>4

-----------------------------------------------------------------------------
LEMMA DmaNext == DmaInv /\ [EndsNext]_allvars => DmaInv'
  <1>. SUFFICES ASSUME DmaInv, [EndsNext]_allvars PROVE DmaInv'
    OBVIOUS
  <1>1. ASSUME UNCHANGED <<largeobj, remote_keys, nextKey, task, buf, cur, jobs, todo, stored, kept, tally>>
        PROVE  DmaInv'
    <2>0. DmaTypes /\ (\A d \in DmaConns : ConnSound(d)) /\ \A k \in jobs : JobSound(k)
      BY DEF DmaInv, TransfersInv
    <2>1. DmaTypes' /\ (\A d \in DmaConns : ConnSound(d)') /\ \A k \in jobs' : JobSound(k)'
      <3>1. DmaTypes'
        BY <1>1, <2>0 DEF DmaTypes
      <3>2. \A d \in DmaConns : ConnSound(d)'
        BY <1>1, <2>0 DEF ConnSound
      <3>3. \A k \in jobs' : JobSound(k)'
        BY <1>1, <2>0 DEF JobSound, Distinct
      <3>. QED
        BY <3>1, <3>2, <3>3
    <2>2. KeysApart'
      BY <1>1, SameKeys, StayKeys DEF DmaInv
    <2>3. TalliesExact'
      BY <1>1 DEF DmaInv, TalliesExact, Awaiting, Joined
    <2>. QED
      BY <1>1, <2>1, <2>2, <2>3 DEF DmaInv, TransfersInv
  <1>2. CASE UNCHANGED xv
    BY <1>1, <1>2 DEF xv
  <1>3. CASE Dma!StageMoves
    BY <1>1, <1>3 DEF Dma!StageMoves, Dma!client
  <1>4. ASSUME NEW c \in DmaConns,
               \/ Dma!TaskEnds(c) \/ Dma!Connects(c) \/ Dma!HelloAnswered(c) \/ Dma!HelloFails(c)
               \/ Dma!PrefillSet(c) \/ Dma!BackfillSet(c) \/ Dma!WorkloadOp(c)
               \/ Dma!GivesUp(c) \/ Dma!SocketFails(c)
        PROVE  DmaInv'
    BY <1>4, TaskEndsInv, ConnectsInv, HelloAnsweredInv, HelloFailsInv, IssuesInv, GivesUpInv
  <1>5. ASSUME NEW j \in jobs, Dma!ServerMoves(j) \/ Dma!ServerAnswers(j) PROVE DmaInv'
    BY <1>5, ServerMovesInv, ServerAnswersInv
  <1>. QED
    BY <1>2, <1>3, <1>4, <1>5, DmaSteps DEF Dma!Next

(* The prefill queue begins with each key once.                            *)
LEMMA QueueOfKeys ==
  ASSUME NEW s, s = Dma!SetToSeq(DmaKeys)
  PROVE  /\ s \in Seq(DmaKeys) /\ Len(s) = Cardinality(DmaKeys)
         /\ \A i, j \in 1 .. Len(s) : s[i] = s[j] => i = j
         /\ \A k \in DmaKeys : \E i \in 1 .. Len(s) : s[i] = k
  <1>. DEFINE n == Cardinality(DmaKeys)
              Inj(f) == \A a, b \in DOMAIN f : f[a] = f[b] => a = b
  <1>1. n \in Nat /\ IsFiniteSet(DmaKeys) /\ \E f \in Bijection(1 .. n, DmaKeys) : TRUE
    BY DmaAssumption, FS_CardinalityType DEF ExistsBijection
  <1>2. \E f \in [1 .. n -> DmaKeys] : Inj(f)
    BY <1>1 DEF Bijection, Injection, IsInjective
  <1>3. s = CHOOSE f \in [1 .. n -> DmaKeys] : Inj(f)
    BY DmaLibrary DEF Dma!SetToSeq, Dma!IsInjective
  <1>4. s \in [1 .. n -> DmaKeys] /\ Inj(s)
    BY <1>2, <1>3
  <1>. HIDE DEF n
  <1>5. s \in Seq(DmaKeys) /\ Len(s) = n
    BY <1>1, <1>4
  <1>6. \A k \in DmaKeys : \E i \in 1 .. n : s[i] = k
    <2>1. IsFiniteSet(1 .. n) /\ Cardinality(1 .. n) = n
      BY <1>1, FS_Interval
    <2>2. s \in Injection(1 .. n, DmaKeys)
      BY <1>4 DEF Injection, IsInjective
    <2>3. s \in Surjection(1 .. n, DmaKeys)
      BY <1>1, <2>1, <2>2, FS_Injection DEF n
    <2>. QED
      BY <2>3 DEF Surjection
  <1>. QED
    BY <1>4, <1>5, <1>6 DEF n

LEMMA DmaInit == EndsInit => DmaInv
  <1>. SUFFICES ASSUME EndsInit PROVE DmaInv
    OBVIOUS
  <1>1. /\ task = [c \in DmaConns |-> "top"] /\ nextKey = 1
        /\ remote_keys \in {"application", "provider"}
        /\ buf = [c \in DmaConns |-> Dma!NoBuf] /\ cur = [c \in DmaConns |-> Dma!Idle]
        /\ jobs = {} /\ stored = {} /\ tally = [n \in Dma!Tallies |-> 0]
        /\ todo = Dma!SetToSeq(DmaKeys)
    BY DEF EndsInit, Dma!Init
  <1>2. DmaTypes
    BY <1>1 DEF DmaTypes, Dma!NoBuf, Dma!None, Dma!Tallies
  <1>3. \A c \in DmaConns : ConnSound(c)
    BY <1>1 DEF ConnSound, Dma!NoBuf, Dma!None, Dma!Idle
  <1>4. Flying = {} /\ Awaiting = {} /\ Joined = {}
    BY <1>1 DEF Flying, Awaiting, Joined, Dma!Idle
  <1>5. Cardinality({}) = 0
    BY FS_EmptySet
  <1>6. KeysApart
    <2>1. /\ todo \in Seq(DmaKeys) /\ Len(todo) = Cardinality(DmaKeys) /\ Len(todo) \in Nat
          /\ \A i, j \in 1 .. Len(todo) : todo[i] = todo[j] => i = j
          /\ \A k \in DmaKeys : \E i \in 1 .. Len(todo) : todo[i] = k
      BY <1>1, QueueOfKeys
    <2>2. Len(todo) + Cardinality(Flying) + Cardinality(stored) = Cardinality(DmaKeys)
      BY <1>1, <1>4, <1>5, <2>1
    <2>. QED
      BY <1>1, <1>4, <2>1, <2>2 DEF KeysApart
  <1>7. TalliesExact
    BY <1>1, <1>4, <1>5 DEF TalliesExact, Dma!Tallies
  <1>. QED
    BY <1>1, <1>2, <1>3, <1>6, <1>7 DEF DmaInv, TransfersInv

LEMMA DmaMeans == DmaInv => Dma!LateWritesMiss /\ Dma!TransfersConserved
  <1>. SUFFICES ASSUME DmaInv PROVE Dma!LateWritesMiss /\ Dma!TransfersConserved
    OBVIOUS
  <1>1. Dma!LateWritesMiss
    BY DEF DmaInv, TransfersInv, JobSound, Dma!LateWritesMiss, Distinct
  <1>2. Awaiting = {c \in DmaConns : cur[c] # Dma!Idle}
    <2>1. DmaTypes /\ \A c \in DmaConns : ConnSound(c)
      BY DEF DmaInv, TransfersInv
    <2>2. Dma!Idle.id = 0 /\ tally.sent \in Nat
      BY <2>1 DEF Dma!Idle, Dma!None, DmaTypes
    <2>. QED
      BY <2>1, <2>2 DEF Awaiting, ConnSound
  <1>3. Dma!ToSet(todo) \cup {cur[c].key : c \in Flying} \cup stored = DmaKeys
    <2>1. KeysApart /\ todo \in Seq(DmaKeys) /\ DOMAIN todo = 1 .. Len(todo)
      BY DEF DmaInv, KeysApart
    <2>2. Dma!ToSet(todo) = {todo[i] : i \in 1 .. Len(todo)}
      BY <2>1, DmaLibrary
    <2>3. \A i \in 1 .. Len(todo) : todo[i] \in DmaKeys
      BY <2>1
    <2>4. \A c \in Flying : cur[c].key \in DmaKeys
      BY <2>1 DEF KeysApart
    <2>5. stored \subseteq DmaKeys
      BY <2>1 DEF KeysApart
    <2>6. \A k \in DmaKeys : \/ k \in stored
                             \/ \E i \in 1 .. Len(todo) : todo[i] = k
                             \/ \E c \in Flying : cur[c].key = k
      BY <2>1 DEF KeysApart
    <2>. QED
      BY <2>2, <2>3, <2>4, <2>5, <2>6
  <1>4. /\ Len(todo) + Cardinality(Flying) + Cardinality(stored) = Cardinality(DmaKeys)
        /\ stored \subseteq kept /\ TalliesExact
    BY DEF DmaInv, KeysApart
  <1>. QED
    BY <1>1, <1>2, <1>3, <1>4, DmaLibrary, Zenon
    DEF Dma!TransfersConserved, TalliesExact, Flying, Joined

(* On the fabric, no libfabric object is used after it is closed; on the   *)
(* connections, each prefill key is queued, in flight or confirmed exactly *)
(* once, a confirmed key is stored whole and the counters are exact,       *)
(* whoever chooses the remote keys; and the bytes of a read that is        *)
(* awaited are in its buffer, whatever transfers the client gave up on,    *)
(* with the client's own remote keys, and with a provider's as long as it  *)
(* gives none out again that a transfer still names                        *)
(* (dma/fabric/endpoint.rs, dma/connection.rs).                            *)
THEOREM DmaIsSound == EndsSpec => []DmaSound
  <1>1. EndsInit => FabricInv /\ DmaInv
    BY FabricInit, DmaInit
  <1>2. (FabricInv /\ DmaInv) /\ [EndsNext]_allvars => (FabricInv /\ DmaInv)'
    BY FabricNext, DmaNext
  <1>3. FabricInv /\ DmaInv => DmaSound
    BY FabricMeans, DmaMeans DEF DmaSound
  <1>. QED
    BY <1>1, <1>2, <1>3, PTL DEF EndsSpec

-----------------------------------------------------------------------------
(* The receive buffer implements the queue of bytes                        *)

Content == Byte \cup {0}

(* The bytes from r to w of the array d were all written.                  *)
Holds(d, r, w) ==
  /\ d \in Seq(Content) /\ r \in Nat /\ w \in Nat /\ r <= w /\ w <= Len(d)
  /\ \A i \in r + 1 .. w : d[i] \in Byte

(* read_from looks whether less than a quarter is writable: from four      *)
(* bytes on, a buffer with no writable byte is compacted first.            *)
BufferInv == Holds(data, read_pos, write_pos) /\ Len(data) >= 4

IsSlice(q, d, r, w) ==
  q \in Seq(Byte) /\ Len(q) = w - r /\ \A i \in 1 .. w - r : q[i] = d[r + i]

LEMMA SliceFacts ==
  ASSUME NEW d, NEW r, NEW w, Holds(d, r, w)
  PROVE  IsSlice(SubSeq(d, r + 1, w), d, r, w)
  <1>0. PICK q : q = SubSeq(d, r + 1, w)
    OBVIOUS
  <1>1. r \in Nat /\ w \in Nat /\ r <= w /\ \A i \in r + 1 .. w : d[i] \in Byte
    BY DEF Holds
  <1>2. PICK m \in Int : m = r + 1
    BY <1>1
  <1>3. \A i \in m .. w : d[i] \in Byte
    BY <1>1, <1>2
  <1>4. /\ q \in Seq(Byte) /\ Len(q) = IF m <= w THEN w - m + 1 ELSE 0
        /\ \A i \in 1 .. w - m + 1 : q[i] = d[m + i - 1]
    BY <1>0, <1>1, <1>2, <1>3, SubSeqProperties
  <1>5. Len(q) = w - r /\ w - m + 1 = w - r
    BY <1>1, <1>2, <1>4
  <1>6. \A i \in 1 .. w - r : m + i - 1 = r + i
    BY <1>1, <1>2
  <1>7. IsSlice(q, d, r, w)
    BY <1>4, <1>5, <1>6 DEF IsSlice
  <1>. QED
    BY <1>0, <1>7, Zenon

LEMMA SameSequence ==
  ASSUME NEW s \in Seq(Byte), NEW t \in Seq(Byte), Len(s) = Len(t),
         \A i \in 1 .. Len(s) : s[i] = t[i]
  PROVE  s = t
  OBVIOUS

LEMMA WrittenFacts ==
  ASSUME NEW d \in Seq(Content), NEW at_ \in Nat, NEW s \in Seq(Byte), at_ + Len(s) <= Len(d)
  PROVE  LET e == Buf!Written(d, at_, s)
         IN  /\ e \in Seq(Content) /\ Len(e) = Len(d)
             /\ \A i \in at_ + 1 .. at_ + Len(s) : e[i] = s[i - at_] /\ e[i] \in Byte
             /\ \A i \in 1 .. at_ : e[i] = d[i]
  <1>0. PICK e : e = Buf!Written(d, at_, s)
    OBVIOUS
  <1>1. Len(d) \in Nat /\ Len(s) \in Nat
    OBVIOUS
  <1>2. e = [i \in 1 .. Len(d) |-> IF at_ < i /\ i <= at_ + Len(s) THEN s[i - at_] ELSE d[i]]
    BY <1>0 DEF Buf!Written
  <1>3. ASSUME NEW i \in 1 .. Len(d) PROVE e[i] \in Content
    <2>1. CASE at_ < i /\ i <= at_ + Len(s)
      <3>1. i - at_ \in 1 .. Len(s)
        BY <1>1, <2>1
      <3>2. s[i - at_] \in Byte
        BY <3>1
      <3>. QED
        BY <1>2, <2>1, <3>2 DEF Content
    <2>2. CASE ~(at_ < i /\ i <= at_ + Len(s))
      BY <1>2, <2>2
    <2>. QED
      BY <2>1, <2>2
  <1>4. e \in Seq(Content) /\ Len(e) = Len(d)
    BY <1>1, <1>2, <1>3
  <1>5. ASSUME NEW i \in at_ + 1 .. at_ + Len(s) PROVE e[i] = s[i - at_] /\ e[i] \in Byte
    <2>1. i \in 1 .. Len(d) /\ at_ < i /\ i <= at_ + Len(s) /\ i - at_ \in 1 .. Len(s)
      BY <1>1
    <2>. QED
      BY <1>2, <2>1
  <1>6. ASSUME NEW i \in 1 .. at_ PROVE e[i] = d[i]
    <2>1. i \in 1 .. Len(d) /\ ~(at_ < i)
      BY <1>1
    <2>. QED
      BY <1>2, <2>1
  <1>. QED
    BY <1>0, <1>4, <1>5, <1>6, Zenon

LEMMA FrontFacts ==
  ASSUME NEW d, NEW w, Holds(d, 0, w), NEW q, q = SubSeq(d, 1, w)
  PROVE  q \in Seq(Byte) /\ Len(q) = w /\ \A i \in 1 .. w : q[i] = d[i]
  <1>1. w \in Nat /\ \A i \in 1 .. w : d[i] \in Byte
    BY DEF Holds
  <1>2. PICK m \in Int : m = 1
    OBVIOUS
  <1>3. /\ q \in Seq(Byte) /\ Len(q) = IF m <= w THEN w - m + 1 ELSE 0
        /\ \A i \in 1 .. w - m + 1 : q[i] = d[m + i - 1]
    BY <1>1, <1>2, SubSeqProperties
  <1>. QED
    BY <1>1, <1>2, <1>3

LEMMA FrontCopy ==
  ASSUME NEW q \in Seq(Byte), NEW into \in Seq(Content), Len(q) <= Len(into),
         NEW e, e = Buf!Written(into, 0, q)
  PROVE  Holds(e, 0, Len(q)) /\ Len(e) = Len(into) /\ \A i \in 1 .. Len(q) : e[i] = q[i]
  <1>1. /\ Len(q) \in Nat /\ Len(into) \in Nat
        /\ e = [i \in 1 .. Len(into) |-> IF 0 < i /\ i <= 0 + Len(q) THEN q[i - 0] ELSE into[i]]
    BY DEF Buf!Written
  <1>2. \A i \in 1 .. Len(q) : i \in 1 .. Len(into) /\ q[i] \in Byte
    BY <1>1
  <1>3. \A i \in 1 .. Len(q) : e[i] = q[i]
    BY <1>1, <1>2
  <1>4. \A i \in 1 .. Len(into) : e[i] \in Content
    <2>1. \A i \in 1 .. Len(into) : i > Len(q) => e[i] = into[i] /\ into[i] \in Content
      BY <1>1
    <2>2. \A i \in 1 .. Len(into) : ~(i > Len(q)) => i \in 1 .. Len(q)
      BY <1>1
    <2>. QED
      BY <1>2, <1>3, <2>1, <2>2 DEF Content
  <1>5. e \in Seq(Content) /\ Len(e) = Len(into)
    BY <1>1, <1>4
  <1>. QED
    BY <1>1, <1>2, <1>3, <1>5 DEF Holds

LEMMA FrontIs ==
  ASSUME NEW q \in Seq(Byte), NEW e, Holds(e, 0, Len(q)), \A i \in 1 .. Len(q) : e[i] = q[i]
  PROVE  SubSeq(e, 1, Len(q)) = q
  <1>1. PICK f : f = SubSeq(e, 1, Len(q))
    OBVIOUS
  <1>2. f \in Seq(Byte) /\ Len(f) = Len(q) /\ \A i \in 1 .. Len(q) : f[i] = e[i]
    BY <1>1, FrontFacts
  <1>3. \A i \in 1 .. Len(f) : f[i] = q[i]
    BY <1>2
  <1>. QED
    BY <1>1, <1>2, <1>3, SameSequence

(* Bytes moved to the front of an array are the same queue.                *)
LEMMA MovedToFront ==
  ASSUME NEW d, NEW r, NEW w, Holds(d, r, w), NEW into \in Seq(Content), w - r <= Len(into)
  PROVE  LET e == Buf!Written(into, 0, SubSeq(d, r + 1, w))
         IN  /\ Holds(e, 0, w - r) /\ Len(e) = Len(into)
             /\ SubSeq(e, 1, w - r) = SubSeq(d, r + 1, w)
  <1>1. PICK q : q = SubSeq(d, r + 1, w)
    OBVIOUS
  <1>2. q \in Seq(Byte) /\ Len(q) = w - r
    <2>1. IsSlice(q, d, r, w)
      BY <1>1, SliceFacts, Zenon
    <2>. QED
      BY <2>1 DEF IsSlice
  <1>3. PICK e : e = Buf!Written(into, 0, q)
    OBVIOUS
  <1>4. Len(q) <= Len(into)
    BY <1>2
  <1>5. Holds(e, 0, Len(q)) /\ Len(e) = Len(into) /\ \A i \in 1 .. Len(q) : e[i] = q[i]
    BY <1>2, <1>3, <1>4, FrontCopy, Zenon
  <1>6. SubSeq(e, 1, Len(q)) = q
    BY <1>2, <1>5, FrontIs, Zenon
  <1>. QED
    BY <1>1, <1>2, <1>3, <1>5, <1>6, Zenon

LEMMA CompactedFacts ==
  ASSUME BufferInv, NEW b, b = Buf!Compacted
  PROVE  /\ Holds(b.d, b.r, b.w) /\ b.r = 0 /\ b.w = write_pos - read_pos /\ Len(b.d) = Len(data)
         /\ SubSeq(b.d, b.r + 1, b.w) = SubSeq(data, read_pos + 1, write_pos)
  <1>1. /\ Holds(data, read_pos, write_pos) /\ data \in Seq(Content) /\ read_pos \in Nat
        /\ write_pos \in Nat /\ read_pos <= write_pos /\ write_pos <= Len(data)
    BY DEF BufferInv, Holds
  <1>2. CASE read_pos = 0
    <2>1. b.d = data /\ b.r = 0 /\ b.w = write_pos
      BY <1>2 DEF Buf!Compacted
    <2>. QED
      BY <1>1, <1>2, <2>1
  <1>3. CASE read_pos # 0
    <2>1. /\ b.d = Buf!Written(data, 0, SubSeq(data, read_pos + 1, write_pos))
          /\ b.r = 0 /\ b.w = write_pos - read_pos
      BY <1>3 DEF Buf!Compacted, Buf!as_slice, Buf!readable
    <2>2. write_pos - read_pos <= Len(data)
      BY <1>1
    <2>3. /\ Holds(b.d, 0, write_pos - read_pos) /\ Len(b.d) = Len(data)
          /\ SubSeq(b.d, 1, write_pos - read_pos) = SubSeq(data, read_pos + 1, write_pos)
      <3>1. LET e == Buf!Written(data, 0, SubSeq(data, read_pos + 1, write_pos))
            IN  /\ Holds(e, 0, write_pos - read_pos) /\ Len(e) = Len(data)
                /\ SubSeq(e, 1, write_pos - read_pos) = SubSeq(data, read_pos + 1, write_pos)
        BY <1>1, <2>2, MovedToFront, Zenon
      <3>. QED
        BY <2>1, <3>1, Zenon
    <2>4. b.r + 1 = 1
      BY <2>1
    <2>. QED
      BY <2>1, <2>3, <2>4, Zenon
  <1>. QED
    BY <1>2, <1>3

LEMMA PrefixOf ==
  ASSUME NEW q \in Seq(Byte), NEW p \in Seq(Byte), Len(q) <= Len(p),
         \A i \in 1 .. Len(q) : p[i] = q[i]
  PROVE  Buf!Queue!IsPrefix(q, p)
  <1>1. Len(q) \in Nat /\ Len(p) \in Nat
    OBVIOUS
  <1>2. PICK a, b : a = SubSeq(q, 1, Len(q)) /\ b = SubSeq(p, 1, Len(q))
    OBVIOUS
  <1>3. (\A i \in 1 .. Len(q) : q[i] \in Byte) /\ \A i \in 1 .. Len(q) : p[i] \in Byte
    BY <1>1
  <1>4. a \in Seq(Byte) /\ Len(a) = Len(q) /\ \A i \in 1 .. Len(q) : a[i] = q[i]
    BY <1>1, <1>2, <1>3
  <1>5. b \in Seq(Byte) /\ Len(b) = Len(q) /\ \A i \in 1 .. Len(q) : b[i] = p[i]
    BY <1>1, <1>2, <1>3
  <1>6. a = b
    BY <1>4, <1>5, SameSequence
  <1>. QED
    BY <1>2, <1>6 DEF Buf!Queue!IsPrefix

(* Bytes written behind the readable ones come behind them in the queue.   *)
LEMMA Extended ==
  ASSUME NEW d, NEW r, NEW w, Holds(d, r, w), NEW s \in Seq(Byte), Len(s) <= Len(d) - w
  PROVE  LET e == Buf!Written(d, w, s)
             q == SubSeq(d, r + 1, w)
             p == SubSeq(e, r + 1, w + Len(s))
         IN  /\ Holds(e, r, w + Len(s)) /\ Len(e) = Len(d) /\ Buf!Queue!IsPrefix(q, p)
             /\ Len(p) \in Len(q) .. Len(d) /\ \A i \in 1 .. Len(p) : p[i] \in Byte
  <1>01. PICK e : e = Buf!Written(d, w, s)
    OBVIOUS
  <1>02. PICK q : q = SubSeq(d, r + 1, w)
    OBVIOUS
  <1>03. PICK p : p = SubSeq(e, r + 1, w + Len(s))
    OBVIOUS
  <1>1. /\ d \in Seq(Content) /\ r \in Nat /\ w \in Nat /\ r <= w /\ w <= Len(d)
        /\ Len(d) \in Nat /\ Len(s) \in Nat /\ \A i \in r + 1 .. w : d[i] \in Byte
    BY DEF Holds
  <1>2. w + Len(s) <= Len(d)
    BY <1>1
  <1>3. /\ e \in Seq(Content) /\ Len(e) = Len(d)
        /\ \A i \in w + 1 .. w + Len(s) : e[i] = s[i - w] /\ e[i] \in Byte
        /\ \A i \in 1 .. w : e[i] = d[i]
    BY <1>01, <1>1, <1>2, WrittenFacts, Zenon
  <1>4. \A i \in r + 1 .. w + Len(s) : e[i] \in Byte
    <2>1. \A i \in r + 1 .. w + Len(s) : i > w => i \in w + 1 .. w + Len(s)
      BY <1>1
    <2>2. \A i \in r + 1 .. w + Len(s) : ~(i > w) => i \in 1 .. w /\ i \in r + 1 .. w
      BY <1>1
    <2>. QED
      BY <1>1, <1>3, <2>1, <2>2
  <1>5. Holds(e, r, w + Len(s))
    BY <1>1, <1>2, <1>3, <1>4 DEF Holds
  <1>6. PICK v : v = w + Len(s)
    OBVIOUS
  <1>7. p \in Seq(Byte) /\ Len(p) = v - r /\ \A i \in 1 .. v - r : p[i] = e[r + i]
    <2>1. Holds(e, r, v) /\ p = SubSeq(e, r + 1, v)
      BY <1>03, <1>5, <1>6, Zenon
    <2>2. IsSlice(p, e, r, v)
      BY <2>1, SliceFacts, Zenon
    <2>. QED
      BY <2>2 DEF IsSlice
  <1>8. q \in Seq(Byte) /\ Len(q) = w - r /\ \A i \in 1 .. w - r : q[i] = d[r + i]
    <2>1. IsSlice(q, d, r, w)
      BY <1>02, SliceFacts, Zenon
    <2>. QED
      BY <2>1 DEF IsSlice
  <1>9. \A i \in 1 .. Len(q) : p[i] = q[i]
    <2>1. \A i \in 1 .. w - r : i \in 1 .. v - r /\ r + i \in 1 .. w
      BY <1>1, <1>6
    <2>. QED
      BY <1>3, <1>7, <1>8, <2>1
  <1>10. Len(p) \in Len(q) .. Len(d)
    BY <1>1, <1>2, <1>6, <1>7, <1>8
  <1>11. Len(q) <= Len(p)
    BY <1>1, <1>6, <1>7, <1>8
  <1>12. Buf!Queue!IsPrefix(q, p)
    BY <1>7, <1>8, <1>9, <1>11, PrefixOf, Zenon
  <1>13. \A i \in 1 .. Len(p) : p[i] \in Byte
    BY <1>7
  <1>. QED
    BY <1>01, <1>02, <1>03, <1>3, <1>5, <1>10, <1>12, <1>13, Zenon

(* A step that leaves the queue as it is and the room no smaller.          *)
LEMMA Widened ==
  ASSUME SubSeq(data', read_pos' + 1, write_pos') = SubSeq(data, read_pos + 1, write_pos),
         Len(data') >= Len(data), said' = "ok"
  PROVE  Buf!Queue!Widen
  BY DEF Buf!Queue!Widen, Buf!as_slice, Buf!capacity

LEMMA CompactStep == ASSUME BufferInv, Buf!compact PROVE BufferInv' /\ Buf!Queue!Next
  <1>1. PICK b : b = Buf!Compacted
    OBVIOUS
  <1>2. data' = b.d /\ read_pos' = b.r /\ write_pos' = b.w /\ said' = "ok"
    BY <1>1 DEF Buf!compact
  <1>3. /\ Holds(b.d, b.r, b.w) /\ Len(b.d) = Len(data) /\ data \in Seq(Content)
        /\ SubSeq(b.d, b.r + 1, b.w) = SubSeq(data, read_pos + 1, write_pos)
    BY <1>1, CompactedFacts, Zenon DEF BufferInv, Holds
  <1>4. BufferInv'
    BY <1>2, <1>3 DEF BufferInv
  <1>5. Len(data') >= Len(data)
    BY <1>2, <1>3
  <1>6. Buf!Queue!Widen
    BY <1>2, <1>3, <1>5, Widened, Zenon
  <1>. QED
    BY <1>4, <1>6 DEF Buf!Queue!Next

LEMMA ClearStep == ASSUME BufferInv, Buf!clear PROVE BufferInv' /\ Buf!Queue!Next
  <1>1. data' = data /\ read_pos' = 0 /\ write_pos' = 0 /\ said' = "ok"
    BY DEF Buf!clear
  <1>2. BufferInv'
    BY <1>1 DEF BufferInv, Holds
  <1>3. SubSeq(data', read_pos' + 1, write_pos') = <<>>
    BY <1>1, SubSeqEmpty
  <1>4. Buf!Queue!Clear
    BY <1>1, <1>3 DEF Buf!Queue!Clear, Buf!as_slice, Buf!capacity
  <1>. QED
    BY <1>2, <1>4 DEF Buf!Queue!Next

LEMMA ConsumeStep ==
  ASSUME BufferInv, NEW n \in 0 .. Buf!readable, Buf!consume(n)
  PROVE  BufferInv' /\ Buf!Queue!Next
  <1>1. /\ Holds(data, read_pos, write_pos) /\ data \in Seq(Content) /\ read_pos \in Nat
        /\ write_pos \in Nat /\ read_pos <= write_pos /\ write_pos <= Len(data) /\ Len(data) >= 4
        /\ Len(data) \in Nat
        /\ n \in Nat /\ n <= write_pos - read_pos
        /\ \A i \in read_pos + 1 .. write_pos : data[i] \in Byte
    BY DEF BufferInv, Holds, Buf!readable
  <1>2. PICK q : q = SubSeq(data, read_pos + 1, write_pos)
    OBVIOUS
  <1>3. /\ q \in Seq(Byte) /\ Len(q) = write_pos - read_pos
        /\ \A i \in 1 .. write_pos - read_pos : q[i] = data[read_pos + i]
    <2>1. IsSlice(q, data, read_pos, write_pos)
      BY <1>1, <1>2, SliceFacts, Zenon
    <2>. QED
      BY <2>1 DEF IsSlice
  <1>4. data' = data /\ said' = "ok"
    BY DEF Buf!consume
  <1>5. PICK p : p = SubSeq(q, n + 1, Len(q))
    OBVIOUS
  <1>6. PICK a : a = SubSeq(data', read_pos' + 1, write_pos')
    OBVIOUS
  <1>7. BufferInv' /\ a = p
    <2>1. CASE n = write_pos - read_pos
      <3>1. read_pos' = 0 /\ write_pos' = 0
        BY <2>1 DEF Buf!consume, Buf!readable
      <3>2. BufferInv'
        BY <1>1, <1>4, <3>1 DEF BufferInv, Holds
      <3>3. a = <<>>
        BY <1>6, <3>1, SubSeqEmpty
      <3>4. p = <<>>
        <4>1. PICK m \in Int, l \in Int : m = n + 1 /\ l = Len(q) /\ l < m
          BY <1>1, <1>3, <2>1
        <4>. QED
          BY <1>5, <4>1, SubSeqEmpty
      <3>. QED
        BY <3>2, <3>3, <3>4
    <2>2. CASE n # write_pos - read_pos
      <3>1. read_pos' = read_pos + n /\ write_pos' = write_pos
        BY <2>2 DEF Buf!consume, Buf!readable
      <3>2. Holds(data', read_pos', write_pos')
        BY <1>1, <1>4, <3>1 DEF Holds
      <3>3. BufferInv'
        BY <1>1, <1>4, <3>2 DEF BufferInv
      <3>4. /\ a \in Seq(Byte) /\ Len(a) = write_pos - (read_pos + n)
            /\ \A i \in 1 .. write_pos - (read_pos + n) : a[i] = data[(read_pos + n) + i]
        <4>1. IsSlice(a, data', read_pos', write_pos')
          BY <1>6, <3>2, SliceFacts, Zenon
        <4>. QED
          BY <1>4, <3>1, <4>1 DEF IsSlice
      <3>5. /\ p \in Seq(Byte) /\ Len(p) = Len(q) - n
            /\ \A i \in 1 .. Len(q) - n : p[i] = q[n + i]
        <4>1. PICK m \in Int, l \in Int : m = n + 1 /\ l = Len(q) /\ m <= l
          BY <1>1, <1>3, <2>2
        <4>2. \A i \in m .. l : q[i] \in Byte
          BY <1>1, <1>3, <4>1
        <4>3. p = SubSeq(q, m, l)
          BY <1>5, <4>1
        <4>4. /\ p \in Seq(Byte) /\ Len(p) = IF m <= l THEN l - m + 1 ELSE 0
              /\ \A i \in 1 .. l - m + 1 : p[i] = q[m + i - 1]
          BY <4>2, <4>3, SubSeqProperties
        <4>5. l - m + 1 = Len(q) - n /\ \A i \in Int : m + i - 1 = n + i
          BY <1>1, <1>3, <4>1
        <4>. QED
          BY <4>1, <4>4, <4>5
      <3>6. Len(a) = Len(p)
        BY <1>1, <1>3, <3>4, <3>5
      <3>7. \A i \in 1 .. Len(a) : a[i] = p[i]
        <4>. TAKE i \in 1 .. Len(a)
        <4>1. /\ i \in 1 .. write_pos - (read_pos + n) /\ i \in 1 .. Len(q) - n
              /\ n + i \in 1 .. write_pos - read_pos /\ read_pos + (n + i) = (read_pos + n) + i
          BY <1>1, <1>3, <3>4
        <4>2. a[i] = data[(read_pos + n) + i] /\ p[i] = q[n + i]
          BY <3>4, <3>5, <4>1
        <4>3. q[n + i] = data[read_pos + (n + i)]
          BY <1>3, <4>1
        <4>. QED
          BY <4>1, <4>2, <4>3
      <3>8. a = p
        BY <3>4, <3>5, <3>6, <3>7, SameSequence
      <3>. QED
        BY <3>3, <3>8
    <2>. QED
      BY <2>1, <2>2
  <1>8. n \in 0 .. Len(q)
    BY <1>1, <1>3
  <1>9. Buf!Queue!Take
    <2>1. a = Buf!as_slice' /\ q = Buf!as_slice /\ a = SubSeq(q, n + 1, Len(q))
      BY <1>2, <1>5, <1>6, <1>7, Zenon DEF Buf!as_slice
    <2>2. Buf!capacity' = Buf!capacity
      BY <1>4 DEF Buf!capacity
    <2>. QED
      BY <1>4, <1>8, <2>1, <2>2, Zenon DEF Buf!Queue!Take
  <1>. QED
    BY <1>7, <1>9 DEF Buf!Queue!Next

LEMMA GrowStep ==
  ASSUME BufferInv, NEW needed \in 1 .. 2, Buf!grow(needed) PROVE BufferInv' /\ Buf!Queue!Next
  <1>1. /\ Holds(data, read_pos, write_pos) /\ read_pos \in Nat /\ write_pos \in Nat
        /\ read_pos <= write_pos /\ write_pos <= Len(data) /\ Len(data) >= 4 /\ Len(data) \in Nat
    BY DEF BufferInv, Holds
  <1>2. PICK room : room = IF 2 * Len(data) > (write_pos - read_pos) + needed THEN 2 * Len(data)
                           ELSE (write_pos - read_pos) + needed
    OBVIOUS
  <1>3. room \in Nat /\ room >= Len(data) /\ room >= 4 /\ write_pos - read_pos <= room
    BY <1>1, <1>2
  <1>4. PICK into : into = [i \in 1 .. room |-> 0]
    OBVIOUS
  <1>5. into \in Seq(Content) /\ Len(into) = room
    BY <1>3, <1>4 DEF Content
  <1>6. /\ data' = Buf!Written(into, 0, SubSeq(data, read_pos + 1, write_pos))
        /\ read_pos' = 0 /\ write_pos' = write_pos - read_pos /\ said' = "ok"
    BY <1>2, <1>4 DEF Buf!grow, Buf!capacity, Buf!readable, Buf!as_slice
  <1>7. LET e == Buf!Written(into, 0, SubSeq(data, read_pos + 1, write_pos))
        IN  /\ Holds(e, 0, write_pos - read_pos) /\ Len(e) = Len(into)
            /\ SubSeq(e, 1, write_pos - read_pos) = SubSeq(data, read_pos + 1, write_pos)
    <2>1. write_pos - read_pos <= Len(into)
      BY <1>3, <1>5
    <2>. QED
      BY <1>1, <1>5, <2>1, MovedToFront, Zenon
  <1>8. /\ Holds(data', read_pos', write_pos') /\ Len(data') = Len(into)
        /\ SubSeq(data', 1, write_pos') = SubSeq(data, read_pos + 1, write_pos)
    BY <1>6, <1>7, Zenon
  <1>9. BufferInv' /\ Len(data') >= Len(data)
    BY <1>3, <1>5, <1>8 DEF BufferInv
  <1>10. read_pos' + 1 = 1
    BY <1>6
  <1>11. SubSeq(data', read_pos' + 1, write_pos') = SubSeq(data, read_pos + 1, write_pos)
    BY <1>8, <1>10, Zenon
  <1>12. Buf!Queue!Widen
    BY <1>6, <1>9, <1>11, Widened, Zenon
  <1>. QED
    BY <1>9, <1>12 DEF Buf!Queue!Next

(* Bytes arrive in an array d that holds the queue.                        *)
LEMMA ArrivalStep ==
  ASSUME BufferInv, NEW d, NEW r, NEW w, Holds(d, r, w), Len(d) = Len(data),
         SubSeq(d, r + 1, w) = SubSeq(data, read_pos + 1, write_pos),
         NEW s \in Seq(Byte), Len(s) <= Len(data) - w,
         data' = Buf!Written(d, w, s), read_pos' = r, write_pos' = w + Len(s), said' = "ok"
  PROVE  BufferInv' /\ Buf!Queue!Next
  <1>1. PICK e : e = Buf!Written(d, w, s)
    OBVIOUS
  <1>2. PICK q : q = SubSeq(d, r + 1, w)
    OBVIOUS
  <1>3. PICK p : p = SubSeq(e, r + 1, w + Len(s))
    OBVIOUS
  <1>4. Len(s) <= Len(d) - w
    OBVIOUS
  <1>5. /\ Holds(e, r, w + Len(s)) /\ Len(e) = Len(d) /\ Buf!Queue!IsPrefix(q, p)
        /\ Len(p) \in Len(q) .. Len(d) /\ \A i \in 1 .. Len(p) : p[i] \in Byte
    <2>1. LET f == Buf!Written(d, w, s)
              u == SubSeq(d, r + 1, w)
              v == SubSeq(f, r + 1, w + Len(s))
          IN  /\ Holds(f, r, w + Len(s)) /\ Len(f) = Len(d) /\ Buf!Queue!IsPrefix(u, v)
              /\ Len(v) \in Len(u) .. Len(d) /\ \A i \in 1 .. Len(v) : v[i] \in Byte
      BY <1>4, Extended, Zenon
    <2>. QED
      BY <1>1, <1>2, <1>3, <2>1, Zenon
  <1>6. data' = e /\ q = Buf!as_slice /\ p = Buf!as_slice'
    BY <1>1, <1>2, <1>3, Zenon DEF Buf!as_slice
  <1>7. BufferInv'
    BY <1>5, <1>6 DEF BufferInv
  <1>8. Buf!capacity' = Buf!capacity /\ Buf!capacity = Len(d)
    BY <1>5, <1>6 DEF Buf!capacity
  <1>9. Buf!Queue!Put
    BY <1>5, <1>6, <1>8, Zenon DEF Buf!Queue!Put
  <1>. QED
    BY <1>7, <1>9 DEF Buf!Queue!Next

LEMMA SlicesAre == ASSUME NEW s \in Buf!Slices PROVE s \in Seq(Byte)
  <1>1. PICK m \in 0 .. 2 : s \in [1 .. m -> Byte]
    BY DEF Buf!Slices, Buf!BoundedSeq, Buf!SeqOf
  <1>. QED
    BY <1>1

LEMMA ExtendStep ==
  ASSUME BufferInv, NEW s \in Buf!Slices, Buf!extend_from_slice(s)
  PROVE  BufferInv' /\ Buf!Queue!Next
  <1>1. /\ Len(s) <= Len(data) - write_pos /\ data' = Buf!Written(data, write_pos, s)
        /\ write_pos' = write_pos + Len(s) /\ said' = "ok" /\ read_pos' = read_pos
    BY DEF Buf!extend_from_slice, Buf!capacity
  <1>2. s \in Seq(Byte) /\ Holds(data, read_pos, write_pos)
    BY SlicesAre DEF BufferInv
  <1>. QED
    BY <1>1, <1>2, ArrivalStep, Zenon

(* A read that is refused finds the array full of unread bytes: had any    *)
(* been consumed, no byte writable would be less than a quarter, and the   *)
(* compaction would have made room.                                        *)
LEMMA ReadStep ==
  ASSUME BufferInv, NEW s \in Buf!Slices, Buf!read_from(s)
  PROVE  BufferInv' /\ Buf!Queue!Next
  <1>1. /\ Holds(data, read_pos, write_pos) /\ read_pos \in Nat /\ write_pos \in Nat
        /\ read_pos <= write_pos /\ write_pos <= Len(data) /\ Len(data) >= 4 /\ Len(data) \in Nat
        /\ s \in Seq(Byte)
    BY SlicesAre DEF BufferInv, Holds
  <1>3. PICK b : b = IF Len(data) - write_pos < Len(data) \div 4 THEN Buf!Compacted
                     ELSE [d |-> data, r |-> read_pos, w |-> write_pos]
    OBVIOUS
  <1>4. IF b.w = Len(data)
        THEN /\ data' = b.d /\ read_pos' = b.r /\ write_pos' = b.w /\ said' = "full"
        ELSE /\ Len(s) <= Len(data) - b.w
             /\ data' = Buf!Written(b.d, b.w, s) /\ read_pos' = b.r /\ write_pos' = b.w + Len(s)
             /\ said' = "ok"
    BY <1>3, Zenon DEF Buf!read_from, Buf!capacity
  <1>5. /\ Holds(b.d, b.r, b.w) /\ Len(b.d) = Len(data)
        /\ SubSeq(b.d, b.r + 1, b.w) = SubSeq(data, read_pos + 1, write_pos)
        /\ b.r = 0 \/ (b.w = write_pos /\ ~(Len(data) - write_pos < Len(data) \div 4))
    <2>1. CASE Len(data) - write_pos < Len(data) \div 4
      <3>1. b = Buf!Compacted
        BY <1>3, <2>1, Zenon
      <3>. QED
        BY <3>1, CompactedFacts, Zenon
    <2>2. CASE ~(Len(data) - write_pos < Len(data) \div 4)
      <3>1. b.d = data /\ b.r = read_pos /\ b.w = write_pos
        BY <1>3, <2>2
      <3>. QED
        BY <1>1, <2>2, <3>1, Zenon
    <2>. QED
      BY <2>1, <2>2
  <1>6. CASE b.w = Len(data)
    <2>1. data' = b.d /\ read_pos' = b.r /\ write_pos' = b.w /\ said' = "full"
      BY <1>4, <1>6
    <2>2. BufferInv'
      BY <1>1, <1>5, <2>1 DEF BufferInv
    <2>3. b.r = 0
      BY <1>1, <1>5, <1>6
    <2>4. Len(SubSeq(b.d, b.r + 1, b.w)) = b.w - b.r
      <3>1. IsSlice(SubSeq(b.d, b.r + 1, b.w), b.d, b.r, b.w)
        BY <1>5, SliceFacts, Zenon
      <3>. QED
        BY <3>1, Zenon DEF IsSlice
    <2>5. b.w - b.r = Len(data)
      BY <1>1, <1>6, <2>3
    <2>6. Len(Buf!as_slice) = Buf!capacity
      BY <1>5, <2>4, <2>5, Zenon DEF Buf!as_slice, Buf!capacity
    <2>7. Buf!as_slice' = Buf!as_slice /\ Buf!capacity' = Buf!capacity
      BY <1>5, <2>1, Zenon DEF Buf!as_slice, Buf!capacity
    <2>8. Buf!Queue!Refuse
      BY <2>1, <2>6, <2>7, Zenon DEF Buf!Queue!Refuse
    <2>. QED
      BY <2>2, <2>8 DEF Buf!Queue!Next
  <1>7. CASE b.w # Len(data)
    <2>1. /\ Len(s) <= Len(data) - b.w /\ data' = Buf!Written(b.d, b.w, s)
          /\ read_pos' = b.r /\ write_pos' = b.w + Len(s) /\ said' = "ok"
      BY <1>4, <1>7, Zenon
    <2>. QED
      BY <1>1, <1>5, <2>1, ArrivalStep, Zenon
  <1>. QED
    BY <1>6, <1>7

LEMMA BufferSteps == [EndsNext]_allvars => Buf!Next \/ UNCHANGED bv
  BY DEF EndsNext, allvars, Fabric, Admin

(* However reads, writes, compactions and growth follow each other, a      *)
(* buffer of four bytes or more is a queue of bytes: they come out once    *)
(* and in order, and read_from says "buffer is full" only when all of the  *)
(* room holds unread bytes (buffer/mod.rs:98, 147).                        *)
THEOREM BufferImplementsQueue ==
  ASSUME InitialCapacity >= 4
  PROVE  EndsSpec => BufferIsQueue
  <1>1. EndsInit => BufferInv /\ Buf!Queue!Init
    <2>. SUFFICES ASSUME EndsInit PROVE BufferInv /\ Buf!Queue!Init
      OBVIOUS
    <2>1. /\ data = [i \in 1 .. InitialCapacity |-> 0] /\ read_pos = 0 /\ write_pos = 0
          /\ said = "ok"
      BY DEF EndsInit, Buf!Init
    <2>2. data \in Seq(Content) /\ Len(data) = InitialCapacity
      BY <2>1, BufferAssumption DEF Content
    <2>3. SubSeq(data, read_pos + 1, write_pos) = <<>>
      BY <2>1, SubSeqEmpty
    <2>. QED
      BY <2>1, <2>2, <2>3, BufferAssumption
      DEF BufferInv, Holds, Buf!Queue!Init, Buf!as_slice, Buf!capacity
  <1>2. BufferInv /\ [EndsNext]_allvars => BufferInv' /\ [Buf!Queue!Next]_(Buf!Queue!vars)
    <2>. SUFFICES ASSUME BufferInv, [EndsNext]_allvars
                  PROVE  BufferInv' /\ [Buf!Queue!Next]_(Buf!Queue!vars)
      OBVIOUS
    <2>1. CASE UNCHANGED bv
      BY <2>1 DEF bv, BufferInv, Holds, Buf!Queue!vars, Buf!as_slice, Buf!capacity
    <2>2. CASE Buf!Next
      BY <2>2, CompactStep, ClearStep, ConsumeStep, GrowStep, ReadStep, ExtendStep
      DEF Buf!Next, Buf!write_to
    <2>. QED
      BY <2>1, <2>2, BufferSteps
  <1>. QED
    BY <1>1, <1>2, PTL DEF EndsSpec, BufferIsQueue, Buf!BufferIsQueue, Buf!Queue!Spec

-----------------------------------------------------------------------------
(* The request timeout, for every timeout, pipeline depth and lag          *)
(*                                                                         *)
(* None of its safety properties is inductive.  That a timer is not late   *)
(* for the next oldest request needs the fire times to be in order; that   *)
(* it is not late for a request fired after the connection was idle needs  *)
(* a bound on a timer nothing in flight explains; and a recv is bounded    *)
(* only because a timer that has fired is looked at within Lag.            *)


TimesAscend(s) == \A i, j \in 1 .. Len(s) : i < j => s[i] <= s[j]

(* Replies are FIFO, so the front entry has to be the oldest.              *)
FiredInOrder == TimesAscend(fired)

(* A timer belongs to a request fired no later than the last loop top.     *)
TimerExplained ==
  timer # Off => timeout > 0 /\ (timer <= firedAt + timeout \/ timer <= began)

(* A bounded recv has a timer, and time passes it only as far as the task  *)
(* has been runnable.                                                      *)
RecvWatched ==
  (pc = "recv" /\ timeout > 0) =>
    timer # Off /\ (now <= timer + late \/ now <= began + late)

TimerInv ==
  /\ TypeOK /\ FiredInOrder /\ TimerNotLate
  /\ TimerExplained /\ RecvWatched /\ NoEarlyTimeout

-----------------------------------------------------------------------------
(* What the operations on a sequence of fire times leave of it             *)

LEMMA TailTimes ==
  ASSUME NEW s \in Seq(Nat), s # <<>>
  PROVE  /\ Tail(s) \in Seq(Nat)
         /\ Len(Tail(s)) = Len(s) - 1
         /\ \A i \in 1 .. Len(Tail(s)) : Tail(s)[i] = s[i + 1]
  OBVIOUS

LEMMA AppendTimes ==
  ASSUME NEW s \in Seq(Nat), NEW t \in Nat
  PROVE  /\ Append(s, t) \in Seq(Nat)
         /\ Len(Append(s, t)) = Len(s) + 1
         /\ \A i \in 1 .. Len(s) : Append(s, t)[i] = s[i]
         /\ Append(s, t)[Len(s) + 1] = t
  OBVIOUS

LEMMA PrefixTimes ==
  ASSUME NEW s \in Seq(Nat), NEW n \in 0 .. Len(s)
  PROVE  /\ SubSeq(s, 1, Len(s) - n) \in Seq(Nat)
         /\ Len(SubSeq(s, 1, Len(s) - n)) = Len(s) - n
         /\ \A i \in 1 .. Len(s) - n : SubSeq(s, 1, Len(s) - n)[i] = s[i]
  OBVIOUS

LEMMA TailAscends ==
  ASSUME NEW s \in Seq(Nat), s # <<>>, TimesAscend(s)
  PROVE  TimesAscend(Tail(s))
<1> SUFFICES ASSUME NEW i \in 1 .. Len(Tail(s)), NEW j \in 1 .. Len(Tail(s)), i < j
             PROVE  Tail(s)[i] <= Tail(s)[j]
  BY DEF TimesAscend
<1>1. Tail(s)[i] = s[i + 1] /\ Tail(s)[j] = s[j + 1]
  BY TailTimes
<1>2. i + 1 \in 1 .. Len(s) /\ j + 1 \in 1 .. Len(s) /\ i + 1 < j + 1
  BY TailTimes
<1> QED
  BY <1>1, <1>2 DEF TimesAscend

LEMMA AppendAscends ==
  ASSUME NEW s \in Seq(Nat), NEW t \in Nat, TimesAscend(s),
         \A i \in 1 .. Len(s) : s[i] <= t
  PROVE  TimesAscend(Append(s, t))
<1> SUFFICES ASSUME NEW i \in 1 .. Len(Append(s, t)), NEW j \in 1 .. Len(Append(s, t)), i < j
             PROVE  Append(s, t)[i] <= Append(s, t)[j]
  BY DEF TimesAscend
<1>1. i \in 1 .. Len(s) /\ Append(s, t)[i] = s[i]
  BY AppendTimes
<1>2. CASE j \in 1 .. Len(s)
  BY <1>1, <1>2, AppendTimes DEF TimesAscend
<1>3. CASE j = Len(s) + 1
  BY <1>1, <1>3, AppendTimes
<1> QED
  BY <1>2, <1>3, AppendTimes

LEMMA PrefixAscends ==
  ASSUME NEW s \in Seq(Nat), NEW n \in 0 .. Len(s), TimesAscend(s)
  PROVE  TimesAscend(SubSeq(s, 1, Len(s) - n))
<1> DEFINE p == SubSeq(s, 1, Len(s) - n)
<1>1. Len(p) = Len(s) - n /\ \A i \in 1 .. Len(s) - n : p[i] = s[i]
  BY PrefixTimes
<1>2. \A i \in 1 .. Len(p) : i \in 1 .. Len(s) /\ p[i] = s[i]
  BY <1>1
<1> HIDE DEF p
<1>3. TimesAscend(p)
  BY <1>2 DEF TimesAscend
<1> QED
  BY <1>3 DEF p

LEMMA EmptyTimes ==
  ASSUME NEW s \in Seq(Nat)
  PROVE  s = <<>> <=> Len(s) = 0
  OBVIOUS

-----------------------------------------------------------------------------
(* The invariant                                                           *)

LEMMA TimerConfig ==
  /\ Timeouts \subseteq Nat /\ Depth \in Nat \ {0}
  /\ Lag \in Nat /\ MaxTime \in Nat /\ Off \notin Nat
  BY TimerAssumption

LEMMA TimerInit == Init => TimerInv
<1> SUFFICES ASSUME Init PROVE TimerInv
  OBVIOUS
<1>1. fired \in Seq(Nat) /\ Len(fired) = 0
  BY DEF Init
<1> QED
  BY <1>1, TimerConfig DEF Init, TimerInv, TypeOK, FiredInOrder, TimesAscend,
     TimerNotLate, TimerExplained, RecvWatched, NoEarlyTimeout

(* Where the timer is armed it is set for the oldest request's deadline,   *)
(* or for now when that has passed.                                        *)
LEMMA ArmSets ==
  ASSUME TypeOK, fired # <<>>, Arm
  PROVE  /\ timer' \in Nat /\ timer' # Off /\ now <= timer'
         /\ timer' = fired[1] + timeout \/ timer' = now
         /\ Remaining > 0 => timer' = fired[1] + timeout /\ now < timer'
<1>1. fired[1] \in Nat
  BY EmptyTimes DEF TypeOK
<1>2. timeout \in Nat /\ now \in Nat /\ Off \notin Nat
  BY TimerConfig DEF TypeOK
<1> QED
  BY <1>1, <1>2 DEF Arm, Remaining

LEMMA TimerStep == TimerInv /\ [Next]_vars => TimerInv'
<1> SUFFICES ASSUME TimerInv, [Next]_vars PROVE TimerInv'
  OBVIOUS
<1> USE TimerConfig
<1>0. /\ timeout \in Nat /\ now \in Nat /\ firedAt \in Nat /\ began \in Nat
      /\ fired \in Seq(Nat) /\ Len(fired) \in Nat
      /\ \A i \in 1 .. Len(fired) : fired[i] \in Nat
      /\ fired = <<>> <=> Len(fired) = 0
  BY EmptyTimes DEF TimerInv, TypeOK
<1>1. CASE LoopTop
  BY <1>0, <1>1 DEF LoopTop, Moves, TimerInv, TypeOK, FiredInOrder,
     TimerNotLate, TimerExplained, RecvWatched, NoEarlyTimeout
<1>2. CASE Fire
  <2>1. /\ fired' \in Seq(Nat) /\ Len(fired') = Len(fired) + 1
        /\ \A i \in 1 .. Len(fired) : fired'[i] = fired[i]
        /\ fired'[Len(fired) + 1] = firedAt
    BY <1>0, <1>2, AppendTimes DEF Fire
  <2>2. TypeOK'
    BY <1>0, <1>2, <2>1 DEF Fire, Moves, TimerInv, TypeOK
  <2>3. FiredInOrder'
    BY <1>0, <1>2, AppendAscends DEF Fire, TimerInv, TypeOK, FiredInOrder
  <2>4. fired = <<>> => fired'[1] = firedAt
    BY <1>0, <2>1
  <2>5. fired # <<>> => fired'[1] = fired[1]
    BY <1>0, <2>1
  <2>6. TimerNotLate'
    BY <1>0, <1>2, <2>4, <2>5 DEF Fire, Moves, TimerInv, TypeOK, TimerNotLate, TimerExplained
  <2> QED
    BY <1>0, <1>2, <2>2, <2>3, <2>6
       DEF Fire, Moves, TimerInv, TimerExplained, RecvWatched, NoEarlyTimeout
<1>3. CASE Discard
  <2>1. PICK n \in 1 .. buffered : fired' = ForgetNewest(n) /\ buffered' = buffered - n
    BY <1>3 DEF Discard
  <2>2. n \in 0 .. Len(fired)
    BY <1>0, <2>1 DEF TimerInv, TypeOK
  <2>3. /\ fired' \in Seq(Nat) /\ Len(fired') = Len(fired) - n
        /\ \A i \in 1 .. Len(fired) - n : fired'[i] = fired[i]
    BY <1>0, <2>1, <2>2, PrefixTimes DEF ForgetNewest
  <2>4. TypeOK'
    <3>1. ASSUME NEW i \in 1 .. Len(fired')
          PROVE  fired'[i] <= firedAt
      <4>1. i \in 1 .. Len(fired) - n /\ i \in 1 .. Len(fired)
        BY <1>0, <2>2, <2>3
      <4> QED
        BY <4>1, <2>3 DEF TimerInv, TypeOK
    <3>2. buffered' \in Nat /\ ready + buffered' <= Len(fired')
      BY <1>0, <2>1, <2>2, <2>3 DEF TimerInv, TypeOK
    <3> QED
      BY <1>0, <1>3, <2>2, <2>3, <3>1, <3>2 DEF Discard, Moves, TimerInv, TypeOK
  <2>5. FiredInOrder'
    BY <1>0, <2>1, <2>2, PrefixAscends DEF TimerInv, FiredInOrder, ForgetNewest
  <2>6. fired' # <<>> => fired # <<>> /\ fired'[1] = fired[1]
    BY <1>0, <2>2, <2>3, EmptyTimes
  <2>7. TimerNotLate'
    BY <1>3, <2>6 DEF Discard, Moves, TimerInv, TimerNotLate
  <2> QED
    BY <1>3, <2>4, <2>5, <2>7
       DEF Discard, Moves, TimerInv, TimerExplained, RecvWatched, NoEarlyTimeout
<1>4. CASE Idle
  BY <1>0, <1>4 DEF Idle, Moves, loop, TimerInv, TypeOK, FiredInOrder,
     TimerNotLate, TimerExplained, RecvWatched, NoEarlyTimeout
<1>5. CASE Enter
  <2>1. CASE Bounded /\ timer = Off
    <3>1. Arm
      BY <1>5, <2>1 DEF Enter
    <3>2. /\ timer' \in Nat /\ timer' # Off /\ now <= timer'
          /\ timer' = fired[1] + timeout \/ timer' = now
      BY <1>5, <3>1, ArmSets DEF Enter, TimerInv
    <3> QED
      BY <1>0, <1>5, <2>1, <3>2 DEF Enter, Moves, Bounded, TimerInv, TypeOK, FiredInOrder,
     TimerNotLate, TimerExplained, RecvWatched, NoEarlyTimeout
  <2>2. CASE ~(Bounded /\ timer = Off)
    BY <1>0, <1>5, <2>2 DEF Enter, Moves, Bounded, TimerInv, TypeOK, FiredInOrder,
     TimerNotLate, TimerExplained, RecvWatched, NoEarlyTimeout
  <2> QED
    BY <2>1, <2>2
<1>6. CASE Receive
  <2>1. fired # <<>> /\ ready \in Nat /\ buffered = 0
    BY <1>6 DEF Receive, TimerInv, TypeOK
  <2>2. /\ fired' \in Seq(Nat) /\ Len(fired') = Len(fired) - 1
        /\ \A i \in 1 .. Len(fired') : fired'[i] = fired[i + 1]
    BY <1>0, <1>6, <2>1, TailTimes DEF Receive
  <2>3. TypeOK'
    BY <1>0, <1>6, <2>1, <2>2 DEF Receive, Moves, TimerInv, TypeOK
  <2>4. FiredInOrder'
    BY <1>0, <1>6, <2>1, TailAscends DEF Receive, TimerInv, FiredInOrder
  <2>5. ASSUME fired' # <<>>
        PROVE  /\ fired'[1] \in Nat /\ fired[1] \in Nat
               /\ fired[1] <= fired'[1]
    <3>1. Len(fired) >= 2 /\ fired'[1] = fired[2]
      BY <1>0, <2>2, <2>5, EmptyTimes
    <3> QED
      BY <1>0, <3>1 DEF TimerInv, FiredInOrder, TimesAscend
  <2>6. TimerNotLate'
    <3> SUFFICES ASSUME timer' # Off, fired' # <<>>
                 PROVE  timer' <= fired'[1] + timeout' \/ timer' <= began'
      BY DEF TimerNotLate
    <3>1. /\ timer \in Nat /\ timer' = timer /\ began' = began /\ timeout' = timeout
          /\ timer <= fired[1] + timeout \/ timer <= began
      BY <1>6, <2>1 DEF Receive, Moves, TimerInv, TypeOK, TimerNotLate
    <3> QED
      BY <1>0, <2>5, <3>1
  <2> QED
    BY <1>6, <2>3, <2>4, <2>6
       DEF Receive, Moves, TimerInv, TimerExplained, RecvWatched, NoEarlyTimeout
<1>7. CASE QueueHasOne
  BY <1>0, <1>7 DEF QueueHasOne, Moves, loop, TimerInv, TypeOK, FiredInOrder,
     TimerNotLate, TimerExplained, RecvWatched, NoEarlyTimeout
<1>8. CASE Rearm
  <2>1. /\ timer' \in Nat /\ timer' # Off
        /\ timer' = fired[1] + timeout /\ now < timer'
    BY <1>8, ArmSets DEF Rearm, TimerFires, TimerInv, TypeOK
  <2> QED
    BY <1>0, <1>8, <2>1 DEF Rearm, TimerFires, Moves, loop, TimerInv, TypeOK, FiredInOrder,
     TimerNotLate, TimerExplained, RecvWatched, NoEarlyTimeout
<1>9. ASSUME Abandon, expired' = expired \/ (expired' \in Nat /\ timeout > 0 /\ expired' >= timeout)
      PROVE  TimerInv'
  <2>1. fired' \in Seq(Nat) /\ Len(fired') = 0
    BY <1>9 DEF Abandon
  <2> QED
    BY <1>0, <1>9, <2>1 DEF Abandon, Moves, TimerInv, TypeOK, FiredInOrder, TimesAscend,
     TimerNotLate, TimerExplained, RecvWatched, NoEarlyTimeout
<1>10. CASE TimedOut
  <2>1. timeout > 0 /\ fired[1] \in Nat /\ fired[1] <= now
    BY <1>0, <1>10 DEF TimedOut, TimerFires, TimerInv, TypeOK, TimerExplained
  <2>2. now - fired[1] \in Nat /\ now - fired[1] >= timeout
    BY <1>0, <1>10, <2>1 DEF TimedOut, Remaining
  <2> QED
    BY <1>9, <1>10, <2>1, <2>2 DEF TimedOut
<1>11. CASE PoolExhausted
  BY <1>9, <1>11 DEF PoolExhausted
<1>12. CASE Lose
  BY <1>9, <1>12 DEF Lose
<1>13. CASE Reconnect
  BY <1>0, <1>13 DEF Reconnect, Moves, loop, TimerInv, TypeOK, FiredInOrder,
     TimerNotLate, TimerExplained, RecvWatched, NoEarlyTimeout
<1>14. CASE Answer
  BY <1>0, <1>14 DEF Answer, loop, TimerInv, TypeOK, FiredInOrder,
     TimerNotLate, TimerExplained, RecvWatched, NoEarlyTimeout
<1>15. CASE Tick
  <2>1. TypeOK'
    BY <1>0, <1>15 DEF Tick, loop, TimerInv, TypeOK
  <2>2. RecvWatched'
    BY <1>0, <1>15 DEF Tick, loop, Runnable, TimerInv, TypeOK, RecvWatched
  <2> QED
    BY <1>15, <2>1, <2>2
       DEF Tick, loop, TimerInv, FiredInOrder, TimerNotLate, TimerExplained, NoEarlyTimeout
<1>16. CASE UNCHANGED vars
  BY <1>16 DEF vars, loop, TimerInv, TypeOK, FiredInOrder,
     TimerNotLate, TimerExplained, RecvWatched, NoEarlyTimeout
<1> QED
  BY <1>1, <1>2, <1>3, <1>4, <1>5, <1>6, <1>7, <1>8, <1>10, <1>11, <1>12,
     <1>13, <1>14, <1>15, <1>16 DEF Next

(* The invariant holds in every reachable state: the timer, when armed,    *)
(* fires no later than the oldest request's deadline, and what is in       *)
(* flight is in the order it was fired (worker.rs:4331).                   *)
THEOREM TimerInductive == Spec => []TimerInv
  BY TimerInit, TimerStep, PTL DEF Spec

(* Every reply that waits has its request in InFlight, for any depth.      *)
THEOREM TimerTypes == Spec => []TypeOK
<1>1. TimerInv => TypeOK
  BY DEF TimerInv
<1> QED
  BY <1>1, TimerInductive, PTL

(* No timeout is counted before the oldest request's time is up, whatever  *)
(* request the timer was armed for.                                        *)
THEOREM TimeoutsAreDue == Spec => []NoEarlyTimeout
<1>1. TimerInv => NoEarlyTimeout
  BY DEF TimerInv
<1> QED
  BY <1>1, TimerInductive, PTL

(* A timer left running is never late for the request that is the oldest.  *)
THEOREM TimersInTime == Spec => []TimerNotLate
<1>1. TimerInv => TimerNotLate
  BY DEF TimerInv
<1> QED
  BY <1>1, TimerInductive, PTL

(* No recv outlasts its deadline by more than the lag of a poll.           *)
THEOREM RecvsEnd == Spec => []RecvBounded
<1>1. TimerInv => RecvBounded
  <2> SUFFICES ASSUME TimerInv, pc = "recv", timeout > 0
               PROVE  now <= fired[1] + timeout + Lag \/ now <= began + Lag
    BY DEF RecvBounded
  <2>1. fired # <<>> /\ fired[1] \in Nat
    BY EmptyTimes DEF TimerInv, TypeOK
  <2> QED
    BY <2>1, TimerConfig DEF TimerInv, TypeOK, TimerNotLate, RecvWatched
<1> QED
  BY <1>1, TimerInductive, PTL
=============================================================================
