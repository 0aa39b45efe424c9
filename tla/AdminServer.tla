---------------------------- MODULE AdminServer ----------------------------
(***************************************************************************)
(* The admin thread (src/src/admin): the metrics server and the parquet    *)
(* recorder, two tasks of a runtime of one thread, and their shutdown from *)
(* the runner's thread when it drops the AdminHandle.                      *)
(*                                                                         *)
(* tokio is external.  notify_waiters reaches the Notified futures that    *)
(* exist at that moment and stores nothing; each turn of a select! makes a *)
(* new one and drops it when another branch is taken, so a task "hears"    *)
(* only between the start of a turn and the choice of its branch.          *)
(***************************************************************************)
EXTENDS Integers, FiniteSets

CONSTANT MaxSnapshots   \* bound on the snapshots staged

VARIABLES
  recording,  \* whether the run's phase is Running
  rt,         \* the admin thread: "start", "blocked on its tasks", "done"
  handle,     \* the runner's thread: "held", "join", "returned"
  at,         \* where each task is
  heard,      \* the tasks whose Notified was notified
  missed,     \* the tasks that dropped or had no Notified at the notify
  visitor,    \* the connection handler: "none", "read", "stream"
  staging,    \* whether the staging file exists
  staged,     \* the snapshots in it
  rows,       \* the rows of the parquet file, -1 while there is none
  torn        \* which step after the stop failed: "none", "flush", "convert"

recorder == <<staging, staged, rows, torn>>
vars == <<recording, rt, handle, at, heard, missed, visitor, recorder>>

Tasks == {"server", "recorder"}

(* Both tasks, or one: listen and parquet are configured apart.            *)
Init ==
  /\ recording = FALSE /\ rt = "start" /\ handle = "held"
  /\ at \in {f \in [Tasks -> {"off", "spawned"}] : \E t \in Tasks : f[t] = "spawned"}
  /\ heard = {} /\ missed = {} /\ visitor = "none"
  /\ staging = FALSE /\ staged = 0 /\ rows = -1 /\ torn = "none"

Alive == {t \in Tasks : at[t] \notin {"off", "ended"}}

-----------------------------------------------------------------------------
(* AdminServer::run and AdminHandle::shutdown                              *)

(* The thread is up and its tasks are spawned.                             *)
Starts ==
  /\ rt = "start" /\ rt' = "blocked"
  /\ UNCHANGED <<recording, handle, at, heard, missed, visitor, recorder>>

(* Each task was awaited: block_on returns, and the runtime drops whatever *)
(* a connection handler was doing.                                         *)
ThreadEnds ==
  /\ rt = "blocked" /\ Alive = {}
  /\ rt' = "done" /\ visitor' = "none"
  /\ UNCHANGED <<recording, handle, at, heard, missed, recorder>>

(* notify_waiters: the tasks inside a select! hear it, the others do not.  *)
Shutdown ==
  /\ handle = "held" /\ handle' = "join"
  /\ heard' = {t \in Alive : at[t] = "select"}
  /\ missed' = Alive \ heard'
  /\ UNCHANGED <<recording, rt, at, visitor, recorder>>

Joins ==
  /\ handle = "join" /\ rt = "done" /\ handle' = "returned"
  /\ UNCHANGED <<recording, rt, at, heard, missed, visitor, recorder>>

(* The runner enters and leaves the Running phase.                         *)
PhaseMoves ==
  /\ handle = "held" /\ recording' = ~recording
  /\ UNCHANGED <<rt, handle, at, heard, missed, visitor, recorder>>

-----------------------------------------------------------------------------
(* The select! of both tasks                                               *)

Go(t, where) == at' = [at EXCEPT ![t] = where]

(* The other branch is taken, although the notification may be there too:  *)
(* the Notified is dropped.                                                *)
OtherBranch(t, where) ==
  /\ rt = "blocked" /\ at[t] = "select" /\ Go(t, where)
  /\ missed' = missed \cup (heard \cap {t})
  /\ heard' = heard \ {t}

(* Mutant of StopBranch: the loop goes round instead of breaking.          *)
StopContinues(t, where) == at' = at /\ heard' = heard \ {t}

StopBranch(t, where) == Go(t, where) /\ heard' = heard

-----------------------------------------------------------------------------
(* run_prometheus_server, serve_admin and the connection handlers          *)

(* The listener is bound; or it is not, and the task ends.                 *)
Binds ==
  /\ rt = "blocked" /\ at["server"] = "spawned"
  /\ \E where \in {"select", "ended"} : Go("server", where)
  /\ UNCHANGED <<recording, rt, handle, heard, missed, visitor, recorder>>

(* accept returned: a handler is spawned, unless it is an error.           *)
Accepts ==
  /\ OtherBranch("server", "handle")
  /\ UNCHANGED <<recording, rt, handle, visitor, recorder>>

Accepted ==
  /\ rt = "blocked" /\ at["server"] = "handle"
  /\ Go("server", "select")
  /\ visitor' \in {visitor, "read"}
  /\ UNCHANGED <<recording, rt, handle, heard, missed, recorder>>

ServerStops ==
  /\ rt = "blocked" /\ at["server"] = "select" /\ "server" \in heard
  /\ StopBranch("server", "ended")
  /\ UNCHANGED <<recording, rt, handle, missed, visitor, recorder>>

(* One request per connection, which may fail to be read.  A stream whose  *)
(* query parses writes until a write fails; every other path, known or     *)
(* not, is answered with one body.                                         *)
Serves ==
  /\ rt = "blocked" /\ visitor = "read"
  /\ visitor' \in {"none", "stream"}
  /\ UNCHANGED <<recording, rt, handle, at, heard, missed, recorder>>

(* The client goes away, which a write finds out.                          *)
StreamEnds ==
  /\ rt = "blocked" /\ visitor = "stream" /\ visitor' = "none"
  /\ UNCHANGED <<recording, rt, handle, at, heard, missed, recorder>>

-----------------------------------------------------------------------------
(* run_parquet_recorder                                                    *)

OpensStaging ==
  /\ rt = "blocked" /\ at["recorder"] = "spawned"
  /\ \/ Go("recorder", "select") /\ staging' = TRUE
     \/ Go("recorder", "ended") /\ UNCHANGED staging
  /\ UNCHANGED <<recording, rt, handle, heard, missed, visitor, staged, rows, torn>>

IntervalElapses ==
  /\ OtherBranch("recorder", IF recording THEN "snap" ELSE "skip")
  /\ UNCHANGED <<recording, rt, handle, visitor, recorder>>

(* create_snapshot and append_snapshot, which may fail and is then only    *)
(* logged; a new turn of the select! begins.                               *)
Appended ==
  \/ staged < MaxSnapshots /\ staged' = staged + 1
  \/ UNCHANGED staged

Snaps ==
  /\ rt = "blocked"
  /\ \/ at["recorder"] = "snap" /\ Appended
     \/ at["recorder"] = "skip" /\ UNCHANGED staged
  /\ Go("recorder", "select")
  /\ UNCHANGED <<recording, rt, handle, heard, missed, visitor, staging, rows, torn>>

RecorderStops ==
  /\ rt = "blocked" /\ at["recorder"] = "select" /\ "recorder" \in heard
  /\ StopBranch("recorder", "final")
  /\ UNCHANGED <<recording, rt, handle, missed, visitor, recorder>>

(* Mutant of LeftOnError: the staging file is removed on every way out.    *)
RemovedOnError == staging' = FALSE

(* An error of the flush or the sync returns at once, past remove_file.    *)
LeftOnError == staging' = staging

(* The last snapshot, whatever the phase; then the writer is flushed and   *)
(* synced, or the task returns the error.                                  *)
FinalSnapshot ==
  /\ rt = "blocked" /\ at["recorder"] = "final"
  /\ Appended
  /\ \/ Go("recorder", "convert") /\ UNCHANGED <<staging, torn>>
     \/ Go("recorder", "ended") /\ torn' = "flush" /\ LeftOnError
  /\ UNCHANGED <<recording, rt, handle, heard, missed, visitor, rows>>

(* The staging file is removed with no snapshot in it, after a conversion  *)
(* and after one that failed; whether that succeeds is ignored.            *)
Converts ==
  /\ rt = "blocked" /\ at["recorder"] = "convert"
  /\ \/ staged = 0 /\ UNCHANGED <<rows, torn>>
     \/ staged > 0 /\ rows' = staged /\ UNCHANGED torn
     \/ staged > 0 /\ torn' = "convert" /\ UNCHANGED rows
  /\ staging' \in {FALSE, staging}
  /\ Go("recorder", "ended")
  /\ UNCHANGED <<recording, rt, handle, heard, missed, visitor, staged>>

Admin == \/ Starts \/ ThreadEnds \/ Binds \/ Accepted \/ ServerStops \/ OpensStaging
         \/ Snaps \/ RecorderStops \/ FinalSnapshot \/ Converts

Next == \/ Admin \/ Shutdown \/ Joins \/ PhaseMoves \/ Accepts \/ IntervalElapses
        \/ Serves \/ StreamEnds

(* The thread runs, the runner shuts it down and joins it, and a task that *)
(* heard the stop and waits takes one branch or the other.  Nothing is     *)
(* owed by the clients.                                                    *)
Fairness == /\ WF_vars(Admin) /\ WF_vars(Shutdown) /\ WF_vars(Joins)

Spec == Init /\ [][Next]_vars /\ Fairness

-----------------------------------------------------------------------------
(* The series of one metric of the registry: generate_prometheus_output    *)
(* and create_snapshot                                                     *)

Kinds == {"counter", "gauge", "group", "histogram", "otherAtomic", "otherRwLock"}

(* A metric has a value or not, a histogram may fail to load, and a group  *)
(* has the slots that were labelled.                                       *)
Metrics == [kind : Kinds, value : BOOLEAN, slots : SUBSET {0, 1}]

PromSeries(m) ==
  IF ~m.value THEN {} ELSE
  CASE m.kind \in {"counter", "gauge", "histogram", "otherAtomic"} -> {m.kind}
    [] m.kind = "group" -> {<<m.kind, i>> : i \in m.slots}
    [] OTHER -> {}

SnapSeries(m) ==
  IF ~m.value THEN {} ELSE
  CASE m.kind = "group" -> {<<m.kind, i>> : i \in m.slots}
    [] OTHER -> {m.kind}

-----------------------------------------------------------------------------
(* Properties                                                              *)

(* The only way shutdown does not return is the notification that a task   *)
(* had no Notified to hear it with: a stream that is being served, a bind, *)
(* a flush or a conversion that fails do not hold the thread               *)
(* (admin/mod.rs:107).                                                     *)
ShutdownUnlessMissed == handle = "join" ~> (handle = "returned" \/ missed # {})

(* At every moment, what was staged is in the staging file or, every       *)
(* snapshot of it, in the parquet file, unless a conversion failed: only   *)
(* then may the staging file be gone with nothing in its place.  A         *)
(* recorder that ends with no such failure has a row for each snapshot,    *)
(* the final one included, and no parquet file only if nothing was staged. *)
(* Every series a scrape shows is one a snapshot records (admin/mod.rs:617 *)
(* to 651, 488).                                                           *)
RecordingKept ==
  /\ staged > 0 => staging \/ rows = staged \/ torn = "convert"
  /\ rows # -1 => rows = staged /\ torn = "none"
  /\ at["recorder"] = "ended" /\ torn = "none" => rows = staged \/ (staged = 0 /\ rows = -1)
  /\ \A m \in Metrics : PromSeries(m) \subseteq SnapSeries(m)
=============================================================================
