------------------------------ MODULE MCAgents ------------------------------
(***************************************************************************)
(* The two jobs of the processor: one mirrors delegations, the other pushes *)
(* elections.  They meet only in the contract, which each sees its own side *)
(* of, so a behaviour follows one of them.                                  *)
(*                                                                         *)
(* The mirroring job has three delegators.  The first has a transfer after  *)
(* two Delegates in one block, one of them a cancellation; the second a     *)
(* transfer of another amount in the last block of the first election; the  *)
(* third delegates after it.                                                *)
(***************************************************************************)
EXTENDS MirrorAgent, VotingAgents

CONSTANTS a, b, c

Event(d, to, blk, tx, m, v) ==
  [delegator |-> d, agent |-> to, value |-> v, block |-> blk, tx |-> tx, method |-> m]

MCEvents ==
  { Event(a, c, 3, 0, DelegateMethod, 0),
    Event(a, a, 3, 1, DelegateMethod, 0),
    Event(a, c, 4, 0, TransferMethod, 7),
    Event(b, c, 2, 0, TransferMethod, 7),
    Event(b, a, 4, 1, TransferMethod, 5),
    Event(c, a, 5, 0, TransferMethod, 7) }

VARIABLE job

Init == job \in {"mirror", "process"} /\ MirrorAgentInit /\ AgentsInit

Next ==
  \/ job = "mirror" /\ MirrorAgentNext /\ UNCHANGED <<job, agentVars>>
  \/ job = "process" /\ AgentsNext /\ UNCHANGED <<job, mirrorAgentVars>>

vars == <<job, mirrorAgentVars, agentVars>>

(* Only the job that is looked at is fair: the other does not move at all.  *)
Spec ==
  /\ Init /\ [][Next]_vars
  /\ WF_mirrorAgentVars(job = "mirror" /\ Run)
  /\ AgentsFairness

(* Every run of either job ends, and elections are held.                    *)
JobsGetOn == RunsTerminate /\ AgentsGetOn

=============================================================================
