--------------------------- MODULE CitadelRestart ---------------------------
(***************************************************************************)
(* Citadel nodes whose process may restart.  runtime.rs builds the node    *)
(* with DefederationNode::new on every start, under the same id when       *)
(* citadel_node_id is configured, and nothing of it is ever written to     *)
(* disk: a restarted node numbers its operations from 1 again.             *)
(***************************************************************************)
EXTENDS CitadelNode

\* The process ends anywhere, inside a batch included, and starts again.
Restart(n) ==
  /\ local_counter' = [local_counter EXCEPT ![n] = 0]
  /\ trusted_origins' = [trusted_origins EXCEPT ![n] = InitTrusted[n] \cup {n}]
  /\ known_origins' = [known_origins EXCEPT ![n] = {n}]
  /\ frontier' = [frontier EXCEPT ![n] = [o \in Node |-> 0]]
  /\ pending' = [pending EXCEPT ![n] = [o \in Node |-> {}]]
  /\ graph' = [graph EXCEPT ![n] = EmptyGraph]
  /\ op_log' = [op_log EXCEPT ![n] = [o \in Node |-> <<>>]]
  /\ guard_state' = [guard_state EXCEPT ![n] = NewGuardState]
  /\ phase' = [phase EXCEPT ![n] = "idle"]
  /\ batch' = [batch EXCEPT ![n] = <<>>]

RestartNext == NodeNext \/ \E n \in Node : Restart(n)

RestartSpec == NodeInit /\ [][RestartNext]_nodeVars
-----------------------------------------------------------------------------
\* "Ordered op frontier + pending reorder buffer to prevent drift"
\* (docs/CITADEL_RESEARCH_AND_IDLE_GATE.md:27): two nodes with the same
\* frontier have the same graph, also when nodes restart.  It does not hold:
\* the restarted node emits another operation under a number its peers have
\* applied already, they drop it as old, and no frontier tells the two apart.
NoDriftAcrossRestarts == NoDrift
=============================================================================
