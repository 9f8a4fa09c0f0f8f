------------------------------ MODULE IdSpace ------------------------------
(***************************************************************************)
(* internal/idspace: the static partition of the virtual user id range.    *)
(* The coordinator hands each agent a block, the agent hands each of its   *)
(* workers a slice of that block, and a worker numbers its VUs from the    *)
(* start of its slice.                                                     *)
(***************************************************************************)
EXTENDS Integers

PerWorker == 100000
PerAgent == PerWorker * 100

(***************************************************************************)
(* AgentBase with indexes counted from one.                                *)
(***************************************************************************)
AgentBaseFromOne(agentIndex) == (IF agentIndex < 1 THEN 0 ELSE agentIndex - 1) * PerAgent

AgentBase(agentIndex) == (IF agentIndex < 0 THEN 0 ELSE agentIndex) * PerAgent

(***************************************************************************)
(* A worker index beyond the block wraps instead of spilling over.         *)
(***************************************************************************)
WorkerBase(agentBase, workerIndex) ==
    agentBase + (((IF workerIndex < 0 THEN 0 ELSE workerIndex) * PerWorker) % PerAgent)

(***************************************************************************)
(* The ids a worker numbering from base may allocate.                      *)
(***************************************************************************)
WorkerIds(base) == base .. base + PerWorker - 1

=============================================================================
