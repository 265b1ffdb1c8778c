--------------------------- MODULE CitadelRounds ---------------------------
(***************************************************************************)
(* Citadel nodes with a ledger of what ingest_batch admitted: per node,    *)
(* origin and round, the number of operations that passed the checks.      *)
(* Rounds arrive in any order: a node's own sync loop and every peer that  *)
(* pushes to it count rounds of their own (citadel_sync.rs, api.rs).       *)
(***************************************************************************)
EXTENDS CitadelNode

VARIABLE admitted

roundVars == <<nodeVars, admitted>>

RoundsInit == NodeInit /\ admitted = [n \in Node |-> [o \in Node |-> [r \in Round |-> 0]]]

\* The steps of ingest_batch that admit the operation at hand.
AdmitStep(n) ==
  /\ IgnoreOld(n) \/ QueueReordered(n) \/ ApplyNext(n)
  /\ admitted' =
       [admitted EXCEPT ![n][Current(n).origin][guard_state[n].round] = @ + 1]

OtherStep(n) ==
  /\ \/ LocalStep(n)
     \/ \E round \in Round, ops \in Batches : BeginBatch(n, round, ops)
     \/ Reject(n) \/ Drain(n) \/ DrainDone(n) \/ EndBatch(n)
  /\ UNCHANGED admitted

RoundsNext == \E n \in Node : AdmitStep(n) \/ OtherStep(n)

RoundsSpec == RoundsInit /\ [][RoundsNext]_roundVars
-----------------------------------------------------------------------------
\* "Per-origin rate cap per round"
\* (docs/CITADEL_RESEARCH_AND_IDLE_GATE.md:30): no node admits more than
\* max_ops_per_origin_per_round operations of one origin in one round.  It
\* does not hold: roll_to clears the counts whenever a batch carries another
\* round, an earlier one included, so batches of two rounds that alternate
\* are never limited.
RateCapPerRound ==
  \A n, o \in Node, r \in Round : admitted[n][o][r] <= MaxOpsPerOrigin
=============================================================================
