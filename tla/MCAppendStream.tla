--------------------------- MODULE MCAppendStream ---------------------------
(***************************************************************************)
(* The append stream, with parameters and variables of its own names, so   *)
(* that KeyQueuesProofs can prove about it beside the prefill.  For TLC: a *)
(* worker with a writer to each of two nodes, one with a writer to the     *)
(* first, and ids on both nodes.                                           *)
(***************************************************************************)
EXTENDS Integers, TLC

CONSTANTS
  Body, BatchSize, Batches, Generations, Writers, Spread,
  AppendCluster, AppendNodes, AppendRecognised, AppendWorkers, WriterWorker, WriterEndpoint, IdHome,
  AppendDepth, AppendMoves, AppendFaults

VARIABLES
  stopped, total, head, rpc, nextId, wpc, budget,
  idQueue, idConfirmed, idTable, idClient, idBuffered, idFlight,
  idOwner, idStored, idMoves, idFaults

A == INSTANCE AppendStream WITH
       Nodes <- AppendCluster, Endpoints <- AppendNodes,
       Recognised <- AppendRecognised, Workers <- AppendWorkers,
       WorkerOf <- WriterWorker, EndpointOf <- WriterEndpoint, Home <- IdHome,
       Depth <- AppendDepth, MaxMoves <- AppendMoves, MaxFaults <- AppendFaults,
       queue <- idQueue, confirmed <- idConfirmed, table <- idTable,
       client <- idClient, buffered <- idBuffered, inFlight <- idFlight,
       owner <- idOwner, stored <- idStored, moves <- idMoves, faults <- idFaults

(* What Config::validate and the set-up of the workers grant.              *)
ASSUME AppendParameters == A!AppendAssumption

AppendsSpec == A!LiveSpec

-----------------------------------------------------------------------------
(* At every moment no id is lost or confirmed twice, whatever fails, and   *)
(* no read targets an id that is not there yet (worker.rs:4025,            *)
(* runner.rs:849, keydist.rs:231).                                         *)
AppendsSound == A!AppendsSound

(* A batch that is opened is committed, or the run is stopped, unless the  *)
(* workers' slot tables disagree for ever or an id is stranded at a node   *)
(* no MOVED reply leads to (runner.rs:849, worker.rs:2684, 4025).          *)
BatchCommits == A!BatchCommits

-----------------------------------------------------------------------------
CONSTANTS n1, n2, c1, c2, c3, w1, w2

MCWorkerOf   == (c1 :> w1) @@ (c2 :> w1) @@ (c3 :> w2)
MCEndpointOf == (c1 :> n1) @@ (c2 :> n2) @@ (c3 :> n1)
MCHome == [k \in Body .. Body + BatchSize * Batches - 1 |-> IF k = Body THEN n2 ELSE n1]
=============================================================================
