----------------------------- MODULE DmaFabric -----------------------------
(***************************************************************************)
(* One worker's libfabric endpoint (src/src/dma/fabric): how it is opened  *)
(* and closed, the memory regions registered on it, and the thread that    *)
(* polls its completion queue while transfers are in flight.               *)
(*                                                                         *)
(* Two threads meet: the worker's, which opens, registers, drives and      *)
(* drops, one call at a time, and the poller's.  A step is one atomic      *)
(* operation, one lock or one libfabric call.  libfabric is external: a    *)
(* call succeeds or returns an error.                                      *)
(***************************************************************************)
EXTENDS Integers, Sequences, FiniteSets

CONSTANTS
  Buffers,     \* the buffers connections register
  Transfers,   \* the transfers that may be in flight
  MaxDrives    \* bound on the transfers started

VARIABLES
  manual,    \* Provider::needs_manual_progress
  life,      \* the endpoint: "opening", "open", "dropping", "closed"
  opened,    \* the libfabric objects that are open
  binds,     \* the calls of open that follow, made so far
  regions,   \* the buffers registered on the domain
  slot,      \* whether the worker still holds its clone of the fabric
  active,    \* ProgressShared::active
  shutdown,
  park,      \* who holds the park lock
  wpc,       \* where the worker's thread is
  ppc,       \* where the poller is
  guards,    \* the transfers that hold a ProgressGuard
  drives

fabric == <<life, opened, binds>>
driver == <<active, shutdown, park, guards, drives>>
vars   == <<manual, fabric, regions, slot, driver, wpc, ppc>>

(* The order in which open acquires, and that in which Drop releases.      *)
OpenOrder  == <<"info", "fabric", "domain", "av", "cq", "ep">>
CloseOrder == <<"ep", "cq", "av", "domain", "fabric", "info">>
Binds      == 3   \* fi_ep_bind(av), fi_ep_bind(cq), fi_enable

Init ==
  /\ manual \in BOOLEAN
  /\ life = "opening" /\ opened = {} /\ binds = 0
  /\ regions = {} /\ slot = FALSE
  /\ active = 0 /\ shutdown = FALSE /\ park = "free" /\ guards = {} /\ drives = 0
  /\ wpc = "free" /\ ppc = "none"

-----------------------------------------------------------------------------
(* LibfabricEndpoint::open and DmaFabric::open                             *)

OpenStep ==
  /\ life = "opening"
  /\ IF Cardinality(opened) < Len(OpenOrder)
       THEN opened' = opened \cup {OpenOrder[Cardinality(opened) + 1]} /\ UNCHANGED binds
       ELSE binds < Binds /\ binds' = binds + 1 /\ UNCHANGED opened
  /\ UNCHANGED <<manual, life, regions, slot, driver, wpc, ppc>>

(* A call fails, or the address cannot be read: Drop closes what is open.  *)
OpenFails ==
  /\ life = "opening"
  /\ life' = "dropping"
  /\ UNCHANGED <<manual, opened, binds, regions, slot, driver, wpc, ppc>>

(* The address is read and, for a manual provider, the poller is spawned.  *)
Opened ==
  /\ life = "opening" /\ binds = Binds
  /\ life' = "open" /\ slot' = TRUE
  /\ ppc' = IF manual THEN "lock" ELSE "none"
  /\ UNCHANGED <<manual, opened, binds, regions, driver, wpc>>

(* The first in the given order that is open.                              *)
FirstOpened(order) ==
  order[CHOOSE i \in 1 .. 6 : order[i] \in opened /\ \A j \in 1 .. i - 1 : order[j] \notin opened]

(* Mutant of FirstToClose: the objects are closed as they were opened.     *)
OldestFirst == FirstOpened(OpenOrder)

FirstToClose == FirstOpened(CloseOrder)

(* Drop for LibfabricEndpoint: what is not null, in order.                 *)
DropEndpoint ==
  /\ life = "dropping" /\ ppc \in {"none", "joined"}
  /\ IF opened = {} THEN life' = "closed" /\ UNCHANGED opened
     ELSE opened' = opened \ {FirstToClose} /\ UNCHANGED life
  /\ UNCHANGED <<manual, binds, regions, slot, driver, wpc, ppc>>

-----------------------------------------------------------------------------
(* DmaFabric: registrations and the drop of the last clone                 *)

(* register, register_shared, register_dmabuf; a registration that fails   *)
(* leaves nothing behind.                                                  *)
Register ==
  /\ slot /\ wpc = "free"
  /\ \E b \in Buffers \ regions : regions' = regions \cup {b}
  /\ UNCHANGED <<manual, fabric, slot, driver, wpc, ppc>>

(* A DmaBuffer is dropped, perhaps after the worker's own clone.           *)
Deregister ==
  /\ wpc = "free"
  /\ \E b \in regions : regions' = regions \ {b}
  /\ UNCHANGED <<manual, fabric, slot, driver, wpc, ppc>>

(* The thread-local clone is dropped as the worker ends.  Transfers borrow *)
(* a clone, so none is in flight any more.                                 *)
DropSlot ==
  /\ slot /\ wpc = "free" /\ guards = {}
  /\ slot' = FALSE
  /\ UNCHANGED <<manual, fabric, regions, driver, wpc, ppc>>

(* Every DmaBuffer holds a clone: the inner is dropped with the last.      *)
LastClone == ~slot /\ regions = {}

(* FabricInner drops its driver first: shutdown is set, the poller woken   *)
(* and joined.                                                             *)
JoinFirst ==
  /\ IF manual THEN shutdown' = TRUE /\ wpc' = "dropNotify" /\ UNCHANGED life
     ELSE life' = "dropping" /\ UNCHANGED <<shutdown, wpc>>
  /\ UNCHANGED ppc

DropInner ==
  /\ life = "open" /\ LastClone /\ wpc = "free" /\ ~shutdown
  /\ JoinFirst
  /\ UNCHANGED <<manual, opened, binds, regions, slot, active, park, guards, drives>>

Join ==
  /\ wpc = "join" /\ ppc = "exited"
  /\ ppc' = "joined" /\ wpc' = "free" /\ life' = "dropping"
  /\ UNCHANGED <<manual, opened, binds, regions, slot, driver>>

-----------------------------------------------------------------------------
(* ProgressDriver                                                          *)

(* drive: fetch_add, and for the first transfer a notify.                  *)
Drive(t) ==
  /\ slot /\ wpc = "free" /\ manual /\ t \notin guards
  /\ drives < MaxDrives /\ drives' = drives + 1
  /\ active' = active + 1
  /\ guards' = guards \cup {t}
  /\ wpc' = IF active = 0 THEN "notify" ELSE "free"
  /\ UNCHANGED <<manual, fabric, regions, slot, shutdown, park, ppc>>

(* Drop for ProgressGuard: the transfer ended, or its future was dropped   *)
(* by the deadline.                                                        *)
DropGuard(t) ==
  /\ wpc = "free" /\ t \in guards
  /\ guards' = guards \ {t}
  /\ active' = active - 1
  /\ UNCHANGED <<manual, fabric, regions, slot, shutdown, park, drives, wpc, ppc>>

(* Mutant of MayNotify: the lock is not taken to notify.                   *)
NotifyUnlocked == TRUE

MayNotify == park = "free"

(* The notify under the park lock, of drive and of Drop; it wakes a poller *)
(* that waits and is lost on one that does not.                            *)
Notify ==
  /\ wpc \in {"notify", "dropNotify"} /\ MayNotify
  /\ ppc' = IF ppc = "wait" THEN "lock" ELSE ppc
  /\ wpc' = IF wpc = "notify" THEN "free" ELSE "join"
  /\ UNCHANGED <<manual, fabric, regions, slot, driver>>

-----------------------------------------------------------------------------
(* poll_loop                                                               *)

PollerLocks ==
  /\ ppc = "lock" /\ park = "free"
  /\ park' = "poller" /\ ppc' = "check"
  /\ UNCHANGED <<manual, fabric, regions, slot, active, shutdown, guards, drives, wpc>>

(* The two loads of the while condition.                                   *)
PollerChecks ==
  /\ ppc = "check"
  /\ IF active = 0 /\ ~shutdown THEN ppc' = "sleep" /\ UNCHANGED park
     ELSE ppc' = "test" /\ park' = "free"
  /\ UNCHANGED <<manual, fabric, regions, slot, active, shutdown, guards, drives, wpc>>

(* Condvar::wait releases the lock as it begins to wait.                   *)
PollerWaits ==
  /\ ppc = "sleep"
  /\ park' = "free" /\ ppc' = "wait"
  /\ UNCHANGED <<manual, fabric, regions, slot, active, shutdown, guards, drives, wpc>>

PollerTests ==
  /\ ppc = "test"
  /\ ppc' = IF shutdown THEN "exited" ELSE "read"
  /\ UNCHANGED <<manual, fabric, regions, slot, driver, wpc>>

(* fi_cq_read until it returns nothing.                                    *)
PollerReads ==
  /\ ppc = "read"
  /\ ppc' = "lock"
  /\ UNCHANGED <<manual, fabric, regions, slot, driver, wpc>>

Worker == \/ OpenStep \/ OpenFails \/ Opened \/ DropEndpoint \/ Register \/ Deregister
          \/ DropSlot \/ DropInner \/ Join \/ Notify
          \/ \E t \in Transfers : Drive(t) \/ DropGuard(t)
Poller == PollerLocks \/ PollerChecks \/ PollerWaits \/ PollerTests \/ PollerReads

Next == Worker \/ Poller

(* What a thread owes: it runs.  The worker finishes a notify and a drop   *)
(* it has begun, and ends by dropping what it holds.                       *)
Drops == DropSlot \/ Deregister \/ DropInner \/ Join \/ DropEndpoint

-----------------------------------------------------------------------------
(* Properties                                                              *)

(* No object is used after it is closed, whichever call of open failed:    *)
(* the poller reads an open queue, what hangs on a domain goes before it,  *)
(* regions included, the domain before its fabric, and an endpoint that is *)
(* closed has leaked nothing (endpoint.rs:445, handle.rs:21,               *)
(* progress.rs:10).                                                        *)
NoUseAfterClose ==
  /\ ppc \notin {"none", "exited", "joined"} => "cq" \in opened
  /\ opened \cap {"av", "cq", "ep"} # {} \/ regions # {} => "domain" \in opened
  /\ "ep" \in opened => {"av", "cq"} \subseteq opened
  /\ "domain" \in opened => "fabric" \in opened
  /\ life = "closed" => opened = {}

(* While a transfer is in flight on a manual provider its queue is polled: *)
(* a wake-up is never lost between the poller's check and its wait         *)
(* (progress.rs:56), however transfers begin and end meanwhile.            *)
ActivePolled == (manual /\ guards # {}) ~> (ppc = "read" \/ guards = {})
=============================================================================
