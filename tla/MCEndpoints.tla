---------------------------- MODULE MCEndpoints -----------------------------
(***************************************************************************)
(* The parts at the program's edge that share no state with each other or  *)
(* with the rest: the receive buffer, the libfabric endpoint and the       *)
(* transfers of the DMA protocol, and the admin server.  A behaviour is a  *)
(* behaviour of the one part that `part` names; the others stay in one of  *)
(* their initial states.  MCParts adds the other parts and gives the       *)
(* constants their values.                                                 *)
(***************************************************************************)
EXTENDS Integers, Sequences, FiniteSets

CONSTANTS
  Byte, InitialCapacity, MaxCapacity,   \* Buffer
  Buffers, Transfers, MaxDrives,        \* DmaFabric
  DmaConns, DmaKeys, MaxTransfers,      \* DmaTransfers
  MaxSnapshots                          \* AdminServer

(* A run has a number of DMA connections and of keys.                      *)
ASSUME DmaAssumption == IsFiniteSet(DmaConns) /\ IsFiniteSet(DmaKeys)

(* The capacity of a buffer is a usize.                                    *)
ASSUME BufferAssumption == InitialCapacity \in Nat

VARIABLES
  part,
  data, read_pos, write_pos, said,
  manual, life, opened, binds, regions, slot, active, shutdown, park, wpc, ppc,
  guards, drives,
  largeobj, stage, remote_keys, task, nextKey, buf, cur, jobs, todo, stored, kept, repair, tally,
  recording, rt, handle, at, heard, missed, visitor, staging, staged, rows, torn

Buf == INSTANCE Buffer
Fab == INSTANCE DmaFabric
Dma == INSTANCE DmaTransfers
Adm == INSTANCE AdminServer

bv == <<data, read_pos, write_pos, said>>
fv == <<manual, life, opened, binds, regions, slot, active, shutdown, park, wpc, ppc,
        guards, drives>>
xv == <<largeobj, stage, remote_keys, task, nextKey, buf, cur, jobs, todo, stored, kept, repair,
        tally>>
av == <<recording, rt, handle, at, heard, missed, visitor, staging, staged, rows, torn>>

allvars == <<part, bv, fv, xv, av>>

EndsInit ==
  /\ Buf!Init
  /\ Fab!Init /\ (part # "fabric" => ~manual)
  /\ Dma!Init /\ (part # "dma" => ~largeobj /\ remote_keys = "application")
  /\ Adm!Init /\ (part # "admin" => at["server"] = "off")

Fabric == part = "fabric" /\ UNCHANGED <<part, bv, xv, av>>
Admin  == part = "admin"  /\ UNCHANGED <<part, bv, fv, xv>>

EndsNext ==
  \/ part = "buffer" /\ Buf!Next /\ UNCHANGED <<part, fv, xv, av>>
  \/ part = "dma"    /\ Dma!Next /\ UNCHANGED <<part, bv, fv, av>>
  \/ Fabric          /\ Fab!Next
  \/ Admin           /\ Adm!Next

(* The fairness of the two parts that have liveness properties.            *)
EndsFairness ==
  /\ WF_allvars(Fabric /\ Fab!Poller) /\ WF_allvars(Fabric /\ Fab!Notify)
  /\ WF_allvars(Fabric /\ Fab!Drops)
  /\ WF_allvars(Admin /\ Adm!Admin) /\ WF_allvars(Admin /\ Adm!Shutdown)
  /\ WF_allvars(Admin /\ Adm!Joins)

EndsSpec == EndsInit /\ [][EndsNext]_allvars /\ EndsFairness

-----------------------------------------------------------------------------
(* No libfabric object is used after it is closed, no transfer writes into *)
(* the buffer of a later request unless the provider gave its remote key   *)
(* out again meanwhile, and every request is accounted for once            *)
(* (dma/fabric/endpoint.rs, dma/connection.rs).                            *)
DmaSound ==
  /\ part = "fabric" => Fab!NoUseAfterClose
  /\ part = "dma" => Dma!LateWritesMiss /\ Dma!TransfersConserved

(* A transfer in flight on a manual provider is polled for (progress.rs).  *)
ActivePolled == Fab!ActivePolled

(* What was staged is in one of the recorder's files, unless a conversion  *)
(* failed (admin/mod.rs, run_parquet_recorder).                            *)
RecordingKept == part = "admin" => Adm!RecordingKept

(* Only a notification nobody heard keeps shutdown from returning          *)
(* (admin/mod.rs:107).                                                     *)
ShutdownUnlessMissed == Adm!ShutdownUnlessMissed

(* The buffer implements the queue of bytes (buffer/mod.rs).               *)
BufferIsQueue == Buf!BufferIsQueue
=============================================================================
