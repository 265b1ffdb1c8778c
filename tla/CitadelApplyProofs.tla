------------------------- MODULE CitadelApplyProofs -------------------------
(***************************************************************************)
(* What the steps of the Citadel nodes have in common: applying the next   *)
(* operation of an origin, the initial state, and the frames of steps that *)
(* apply nothing.                                                          *)
(***************************************************************************)
EXTENDS CitadelNode, LensOpsProofs, FiniteSetTheorems
-----------------------------------------------------------------------------
(* Applying an operation *)

\* What Append does to a log.
LEMMA LogAppend ==
  ASSUME NEW log \in Seq(Op), NEW op \in Op
  PROVE  /\ Append(log, op) \in Seq(Op)
         /\ Len(Append(log, op)) = Len(log) + 1
         /\ \A i \in 1..Len(log) : Append(log, op)[i] = log[i]
         /\ Append(log, op)[Len(log) + 1] = op
         /\ OpsOf(Append(log, op)) = OpsOf(log) \cup {op}
<1>1. /\ Append(log, op) \in Seq(Op)
      /\ Len(Append(log, op)) = Len(log) + 1
      /\ \A i \in 1..Len(log) : Append(log, op)[i] = log[i]
      /\ Append(log, op)[Len(log) + 1] = op
      /\ DOMAIN log = 1..Len(log)
      /\ DOMAIN Append(log, op) = 1..(Len(log) + 1)
      /\ Len(log) \in Nat
  OBVIOUS
<1>2. 1..(Len(log) + 1) = 1..Len(log) \cup {Len(log) + 1}
  BY <1>1
<1>3. OpsOf(Append(log, op)) = OpsOf(log) \cup {op}
  BY <1>1, <1>2 DEF OpsOf
<1> QED BY <1>1, <1>3

\* The logs of a node hold operations.
LEMMA AppliedType ==
  ASSUME TypeOK, NEW n \in Node
  PROVE  AppliedOps(n) \in SUBSET Op
<1>1. \A o \in Node : op_log[n][o] \in Seq(Op)
  BY DEF TypeOK
<1>2. \A o \in Node : OpsOf(op_log[n][o]) \subseteq Op
  BY <1>1 DEF OpsOf
<1> QED BY <1>2 DEF AppliedOps

\* apply_ordered_op of the next operation of an origin, as its origin emitted
\* it or emitted by the node itself: the histories stay one, the graph stays
\* the join of what is applied, and genuine operations stay genuine.
LEMMA ApplyOrdered ==
  ASSUME TypeOK, OneHistory,
         NEW n \in Node, NEW op \in Op,
         op.counter = frontier[n][op.origin] + 1,
         op.origin = n \/ Genuine(op),
         \A m \in Node : IsJoin(graph[m], AppliedOps(m)),
         ApplyOrderedOp(n, op)
  PROVE  /\ frontier' \in [Node -> [Node -> Nat]]
         /\ op_log' \in [Node -> [Node -> Seq(Op)]]
         /\ graph' \in [Node -> Graph]
         /\ trusted_origins' \in [Node -> SUBSET Node]
         /\ frontier' = [frontier EXCEPT ![n][op.origin] = op.counter]
         /\ OneHistory'
         /\ \A p \in Op : Genuine(p) => Genuine(p)'
         /\ \A m \in Node : IsJoin(graph[m], AppliedOps(m))'
<1> DEFINE o == op.origin
<1>1. o \in Node /\ op.counter \in Nat /\ op.counter > 0 /\ op.host_id \in Host
  BY EntryType DEF Op
<1>2. /\ frontier \in [Node -> [Node -> Nat]]
      /\ op_log \in [Node -> [Node -> Seq(Op)]]
      /\ graph \in [Node -> Graph]
      /\ trusted_origins \in [Node -> SUBSET Node]
  BY DEF TypeOK
<1>3. Len(op_log[n][o]) = op.counter - 1
  BY <1>1, <1>2 DEF OneHistory
<1>4. frontier' = [frontier EXCEPT ![n][o] = op.counter]
  BY DEF ApplyOrderedOp
<1>5. op_log' = [op_log EXCEPT ![n][o] = Append(op_log[n][o], op)]
  <2>1. op_log' = [op_log EXCEPT ![n][o] =
                     IF Len(op_log[n][o]) = op.counter - 1
                     THEN Append(op_log[n][o], op) ELSE op_log[n][o]]
    BY <1>1, <1>2 DEF ApplyOrderedOp
  <2> QED BY <2>1, <1>3
<1>6. op_log[n][o] \in Seq(Op)
  BY <1>1, <1>2
<1>7. /\ op_log' \in [Node -> [Node -> Seq(Op)]]
      /\ op_log'[n][o] = Append(op_log[n][o], op)
      /\ \A m, x \in Node : ~(m = n /\ x = o) => op_log'[m][x] = op_log[m][x]
  BY <1>1, <1>2, <1>5, <1>6, LogAppend, SMTT(20)
<1>8. /\ frontier' \in [Node -> [Node -> Nat]]
      /\ frontier'[n][o] = op.counter
      /\ \A m, x \in Node : ~(m = n /\ x = o) => frontier'[m][x] = frontier[m][x]
  BY <1>1, <1>2, <1>4
<1>9. \A x \in Node : /\ Len(op_log[x][x]) = frontier[x][x]
                      /\ frontier[x][x] \in Nat
                      /\ frontier[x][x] <= frontier'[x][x]
                      /\ \A i \in 1..frontier[x][x] : op_log'[x][x][i] = op_log[x][x][i]
  <2> TAKE x \in Node
  <2>1. Len(op_log[x][x]) = frontier[x][x] /\ frontier[x][x] \in Nat
    BY <1>2 DEF OneHistory
  <2>2. CASE x = n /\ x = o
    BY <2>1, <2>2, <1>1, <1>3, <1>6, <1>7, <1>8, LogAppend, SMTT(20)
  <2>3. CASE ~(x = n /\ x = o)
    <3>1. op_log'[x][x] = op_log[x][x] /\ frontier'[x][x] = frontier[x][x]
      BY <2>3, <1>7, <1>8, Zenon
    <3> QED BY <2>1, <3>1
  <2> QED BY <2>2, <2>3
<1>10. \A p \in Op : Genuine(p) => Genuine(p)'
  <2> SUFFICES ASSUME NEW p \in Op, Genuine(p) PROVE Genuine(p)'
    OBVIOUS
  <2>1. p.origin \in Node
    BY DEF Op
  <2>2. p.counter \in 1..frontier[p.origin][p.origin]
    BY DEF Genuine
  <2>3. p.counter \in 1..frontier'[p.origin][p.origin]
    BY <2>1, <2>2, <1>9, <1>8
  <2>4. p = op_log'[p.origin][p.origin][p.counter]
    BY <2>1, <2>2, <1>9 DEF Genuine
  <2> QED BY <2>3, <2>4 DEF Genuine
<1>11. op.counter <= frontier'[o][o] /\ op = op_log'[o][o][op.counter]
  <2>1. CASE o = n
    BY <2>1, <1>1, <1>3, <1>6, <1>7, <1>8, LogAppend
  <2>2. CASE o # n
    <3>1. Genuine(op)'
      BY <2>2, <1>10
    <3> QED BY <3>1, <1>1, <1>8 DEF Genuine
  <2> QED BY <2>1, <2>2
<1>12. OneHistory'
  <2> SUFFICES ASSUME NEW m \in Node, NEW x \in Node
               PROVE  /\ Len(op_log'[m][x]) = frontier'[m][x]
                      /\ frontier'[m][x] <= frontier'[x][x]
                      /\ \A i \in 1..frontier'[m][x] :
                            /\ op_log'[m][x][i] = op_log'[x][x][i]
                            /\ op_log'[m][x][i].origin = x
                            /\ op_log'[m][x][i].counter = i
    BY DEF OneHistory
  <2>1. /\ Len(op_log[m][x]) = frontier[m][x]
        /\ frontier[m][x] <= frontier[x][x]
        /\ frontier[m][x] \in Nat
        /\ \A i \in 1..frontier[m][x] : /\ op_log[m][x][i] = op_log[x][x][i]
                                        /\ op_log[m][x][i].origin = x
                                        /\ op_log[m][x][i].counter = i
    BY <1>2 DEF OneHistory
  <2>2. frontier'[x][x] \in Nat /\ frontier[x][x] <= frontier'[x][x]
    BY <1>8, <1>9
  <2>3. CASE m = n /\ x = o
    <3>1. /\ Len(op_log'[m][x]) = op.counter
          /\ op_log'[m][x][op.counter] = op
          /\ \A i \in 1..(op.counter - 1) : op_log'[m][x][i] = op_log[m][x][i]
      <4>1. op_log'[m][x] = Append(op_log[m][x], op) /\ op_log[m][x] \in Seq(Op)
        BY <2>3, <1>6, <1>7
      <4>2. Len(op_log[m][x]) = op.counter - 1 /\ op.counter \in Nat
        BY <2>3, <1>1, <1>3
      <4>3. Len(op_log[m][x]) + 1 = op.counter
        BY <4>2
      <4> QED BY <4>1, <4>2, <4>3, LogAppend
    <3>2. frontier'[m][x] = op.counter /\ frontier[m][x] = op.counter - 1
      BY <2>3, <1>1, <1>8, <2>1
    <3>3. \A i \in 1..frontier[m][x] : /\ op_log'[m][x][i] = op_log'[x][x][i]
                                       /\ op_log'[m][x][i].origin = x
                                       /\ op_log'[m][x][i].counter = i
      <4> TAKE i \in 1..frontier[m][x]
      <4>1. i \in 1..frontier[x][x]
        BY <2>1, <1>9
      <4>2. op_log'[x][x][i] = op_log[x][x][i]
        BY <4>1, <1>9
      <4>3. op_log'[m][x][i] = op_log[m][x][i]
        BY <3>1, <3>2
      <4> QED BY <4>2, <4>3, <2>1
    <3>4. /\ op_log'[m][x][op.counter] = op_log'[x][x][op.counter]
          /\ op_log'[m][x][op.counter].origin = x
          /\ op_log'[m][x][op.counter].counter = op.counter
      BY <2>3, <3>1, <1>11
    <3>5. \A i \in 1..op.counter : i \in 1..(op.counter - 1) \/ i = op.counter
      BY <1>1
    <3> QED BY <2>3, <3>1, <3>2, <3>3, <3>4, <3>5, <1>11, Zenon
  <2>4. CASE ~(m = n /\ x = o)
    <3>1. op_log'[m][x] = op_log[m][x] /\ frontier'[m][x] = frontier[m][x]
      BY <2>4, <1>7, <1>8, Zenon
    <3>2. \A i \in 1..frontier[m][x] : op_log'[x][x][i] = op_log[x][x][i]
      BY <2>1, <1>9
    <3> QED BY <3>1, <3>2, <2>1, <2>2, <1>9
  <2> QED BY <2>3, <2>4
<1>13. AppliedOps(n)' = AppliedOps(n) \cup {op}
  <2>1. OpsOf(op_log'[n][o]) = OpsOf(op_log[n][o]) \cup {op}
    BY <1>6, <1>7, LogAppend
  <2>2. \A x \in Node : x # o => OpsOf(op_log'[n][x]) = OpsOf(op_log[n][x])
    BY <1>7
  <2> QED BY <2>1, <2>2, <1>1 DEF AppliedOps
<1>14. \A m \in Node : m # n => AppliedOps(m)' = AppliedOps(m)
  BY <1>7 DEF AppliedOps
<1>15. /\ graph' \in [Node -> Graph]
       /\ trusted_origins' \in [Node -> SUBSET Node]
       /\ \A m \in Node : IsJoin(graph'[m], AppliedOps(m)')
  <2>1. AppliedOps(n) \in SUBSET Op /\ graph[n] \in Graph
    BY <1>2, AppliedType
  <2>2. CASE op.key \in GraphKey
    <3>1. /\ graph' = [graph EXCEPT ![n] = UpdateGraph(graph[n], op.key, EntryOf(op))]
          /\ trusted_origins' = trusted_origins
      BY <2>2, <1>2 DEF ApplyOrderedOp, ApplyKind
    <3>2. /\ UpdateGraph(graph[n], op.key, EntryOf(op)) \in Graph
          /\ IsJoin(UpdateGraph(graph[n], op.key, EntryOf(op)), AppliedOps(n) \cup {op})
      BY <2>1, <2>2, JoinStep
    <3>3. graph' \in [Node -> Graph]
      BY <3>1, <3>2, <1>2
    <3>4. IsJoin(graph'[n], AppliedOps(n)')
      BY <3>1, <3>2, <1>2, <1>13
    <3>5. \A m \in Node : m # n => IsJoin(graph'[m], AppliedOps(m)')
      BY <3>1, <1>2, <1>14
    <3> QED BY <3>1, <3>3, <3>4, <3>5, <1>2
  <2>3. CASE op.key \notin GraphKey
    <3>1. /\ trusted_origins' = [trusted_origins EXCEPT ![n] =
                                   TrustOrigin(trusted_origins[n], op.key[2], op.on)]
          /\ graph' = graph
      BY <2>3, <1>2 DEF ApplyOrderedOp, ApplyKind
    <3>2. op.key \in TrustKey
      BY <2>3 DEF Op
    <3>3. op.key[2] \in Node
      BY <3>2 DEF TrustKey
    <3>4. trusted_origins' \in [Node -> SUBSET Node]
      BY <3>1, <3>3, <1>2, Zenon DEF TrustOrigin
    <3>5. IsJoin(graph[n], AppliedOps(n)')
      BY <2>3, <1>13, JoinSkip
    <3>6. \A m \in Node : m # n => IsJoin(graph'[m], AppliedOps(m)')
      BY <3>1, <1>14
    <3>7. IsJoin(graph'[n], AppliedOps(n)')
      BY <3>1, <3>5
    <3> QED BY <3>1, <3>4, <3>6, <3>7, <1>2
  <2> QED BY <2>2, <2>3
<1> QED BY <1>4, <1>7, <1>8, <1>10, <1>12, <1>15 DEF IsJoin

-----------------------------------------------------------------------------
(* The inductive invariant *)

\* The first state: every log, buffer and batch is empty.
LEMMA InitInv == NodeInit => NodeInv
<1> SUFFICES ASSUME NodeInit PROVE NodeInv
  OBVIOUS
<1>1. EmptyGraph \in Graph
  BY DEF EmptyGraph, Graph, Absent, LwwEntry, Lamport
<1>2. NewGuardState \in GuardState
  BY DEF NewGuardState, GuardState
<1>3. TypeOK
  BY <1>1, <1>2, NodeAssumption, OpsAssumption DEF NodeInit, TypeOK
<1>4. OneHistory
  BY DEF NodeInit, OneHistory
<1>5. ReorderBuffer
  BY FS_EmptySet, NodeAssumption, OpsAssumption DEF NodeInit, ReorderBuffer
<1>6. ASSUME NEW n \in Node
      PROVE  /\ local_counter[n] = frontier[n][n]
             /\ OpsOf(batch[n]) = {} /\ phase[n] = "idle"
             /\ IsJoin(graph[n], AppliedOps(n))
  <2>1. AppliedOps(n) = {}
    BY DEF NodeInit, AppliedOps, OpsOf
  <2>2. \A k \in GraphKey : EntriesAt(AppliedOps(n), k) = {}
    BY <2>1 DEF EntriesAt
  <2>3. IsJoin(graph[n], AppliedOps(n))
    BY <2>2 DEF NodeInit, IsJoin, EmptyGraph
  <2>4. OpsOf(batch[n]) = {}
    BY DEF NodeInit, OpsOf
  <2> QED BY <2>3, <2>4 DEF NodeInit
<1> QED BY <1>3, <1>4, <1>5, <1>6 DEF NodeInv

\* What a node can be sent is genuine: logs hold prefixes of the origins'
\* histories.
LEMMA SendableGenuine ==
  ASSUME NodeInv, NEW op \in Sendable
  PROVE  op \in Op /\ Genuine(op)
<1>1. PICK m \in Node, o \in Node : op \in OpsOf(op_log[m][o])
  BY DEF Sendable
<1>2. op_log[m][o] \in Seq(Op) /\ frontier[m][o] \in Nat /\ frontier[o][o] \in Nat
  BY DEF NodeInv, TypeOK
<1>3. PICK i \in DOMAIN op_log[m][o] : op = op_log[m][o][i]
  BY <1>1 DEF OpsOf
<1>4. i \in 1..frontier[m][o]
  BY <1>2, <1>3 DEF NodeInv, OneHistory
<1>5. /\ op = op_log[o][o][i] /\ op.origin = o /\ op.counter = i
      /\ frontier[m][o] <= frontier[o][o]
  BY <1>3, <1>4 DEF NodeInv, OneHistory
<1>6. i \in 1..frontier[o][o]
  BY <1>2, <1>4, <1>5
<1>7. op \in Op
  BY <1>2, <1>3
<1> QED BY <1>5, <1>6, <1>7 DEF Genuine

\* A step that applies nothing keeps the histories and the joins.
LEMMA HistoryFrame ==
  ASSUME NodeInv, UNCHANGED <<frontier, op_log, graph>>
  PROVE  /\ OneHistory'
         /\ \A p \in Op : Genuine(p) => Genuine(p)'
         /\ \A m \in Node : IsJoin(graph[m], AppliedOps(m))'
<1>1. OneHistory'
  BY DEF NodeInv, OneHistory
<1>2. \A p \in Op : Genuine(p) => Genuine(p)'
  BY DEF Genuine
<1>3. \A m \in Node : AppliedOps(m)' = AppliedOps(m)
  BY DEF AppliedOps
<1> QED BY <1>1, <1>2, <1>3 DEF NodeInv, IsJoin

\* A step of node n that leaves the buffers and frontiers alone keeps the
\* buffers, if node n has no drain under way or ends it with nothing to take.
LEMMA BufferFrame ==
  ASSUME NodeInv, NEW n \in Node, UNCHANGED <<frontier, pending, op_log>>,
         \A m \in Node : m # n => phase'[m] = phase[m] /\ batch'[m] = batch[m],
         \A o \in Node : \A p \in pending[n][o] : p.counter # frontier[n][o] + 1
  PROVE  ReorderBuffer'
<1> SUFFICES ASSUME NEW m \in Node, NEW o \in Node
             PROVE  /\ IsFiniteSet(pending[m][o]) /\ Cardinality(pending[m][o]) <= MaxPending
                    /\ \A p \in pending[m][o] :
                         /\ p.origin = o /\ Genuine(p)'
                         /\ p.counter > frontier[m][o]
                         /\ p.counter = frontier[m][o] + 1 =>
                              phase'[m] = "drain" /\ Current(m)'.origin = o
  BY DEF ReorderBuffer
<1>1. /\ IsFiniteSet(pending[m][o]) /\ Cardinality(pending[m][o]) <= MaxPending
      /\ \A p \in pending[m][o] :
           /\ p.origin = o /\ Genuine(p)
           /\ p.counter > frontier[m][o]
           /\ p.counter = frontier[m][o] + 1 =>
                phase[m] = "drain" /\ Current(m).origin = o
  BY DEF NodeInv, ReorderBuffer
<1>2. \A p \in pending[m][o] : Genuine(p)'
  BY <1>1 DEF Genuine
<1>3. m # n => phase'[m] = phase[m] /\ Current(m)' = Current(m)
  BY DEF Current
<1> QED BY <1>1, <1>2, <1>3

\* While no drain is under way nothing in the buffers of a node is next.
LEMMA NothingNext ==
  ASSUME NodeInv, NEW n \in Node, phase[n] # "drain"
  PROVE  \A o \in Node : \A p \in pending[n][o] : p.counter # frontier[n][o] + 1
BY DEF NodeInv, ReorderBuffer

\* Going on to the next operation keeps the batch genuine.
LEMMA NextOpInv ==
  ASSUME NodeInv, NEW n \in Node, batch[n] # <<>>, NextOp(n),
         \A p \in Op : Genuine(p) => Genuine(p)'
  PROVE  /\ batch' \in [Node -> Seq(Op)]
         /\ phase' \in [Node -> {"idle", "ops", "drain"}]
         /\ \A m \in Node : m # n => phase'[m] = phase[m] /\ batch'[m] = batch[m]
         /\ \A m \in Node : \A p \in OpsOf(batch'[m]) : Genuine(p)'
         /\ \A m \in Node : phase'[m] = "drain" => batch'[m] # <<>>
<1>1. /\ batch \in [Node -> Seq(Op)] /\ phase \in [Node -> {"idle", "ops", "drain"}]
      /\ \A m \in Node : \A p \in OpsOf(batch[m]) : Genuine(p)
      /\ \A m \in Node : phase[m] = "drain" => batch[m] # <<>>
  BY DEF NodeInv, TypeOK
<1>2. /\ batch' = [batch EXCEPT ![n] = Tail(batch[n])]
      /\ phase' = [phase EXCEPT ![n] = "ops"]
  BY <1>1 DEF NextOp
<1>3. batch[n] \in Seq(Op)
  BY <1>1
<1>4. Tail(batch[n]) \in Seq(Op) /\ OpsOf(Tail(batch[n])) \subseteq OpsOf(batch[n])
  <2>1. /\ Tail(batch[n]) \in Seq(Op)
        /\ \A i \in DOMAIN Tail(batch[n]) :
             Tail(batch[n])[i] = batch[n][i + 1] /\ i + 1 \in DOMAIN batch[n]
    BY <1>3
  <2> QED BY <2>1 DEF OpsOf
<1>5. /\ batch' \in [Node -> Seq(Op)]
      /\ phase' \in [Node -> {"idle", "ops", "drain"}]
      /\ \A m \in Node : m # n => phase'[m] = phase[m] /\ batch'[m] = batch[m]
      /\ batch'[n] = Tail(batch[n]) /\ phase'[n] = "ops"
  BY <1>1, <1>2, <1>4
<1>6. \A m \in Node : OpsOf(batch'[m]) \subseteq OpsOf(batch[m])
  BY <1>4, <1>5, Zenon
<1>7. \A m \in Node : OpsOf(batch[m]) \subseteq Op
  BY <1>1 DEF OpsOf
<1>8. \A m \in Node : \A p \in OpsOf(batch'[m]) : Genuine(p)'
  BY <1>1, <1>6, <1>7
<1>9. \A m \in Node : phase'[m] = "drain" => batch'[m] # <<>>
  <2>1. phase'[n] # "drain"
    BY <1>5
  <2> QED BY <1>1, <1>5, <2>1
<1> QED BY <1>5, <1>8, <1>9

\* Counting an admitted operation keeps the types of the guard.
LEMMA AdmitType ==
  ASSUME TypeOK, NEW n \in Node, NEW op \in Op, Admit(n, op)
  PROVE  /\ known_origins' \in [Node -> SUBSET Node]
         /\ guard_state' \in [Node -> GuardState]
         /\ UNCHANGED local_counter
<1>1. op.origin \in Node /\ op.host_id \in Host
  BY DEF Op
<1>2. known_origins \in [Node -> SUBSET Node] /\ guard_state \in [Node -> GuardState]
  BY DEF TypeOK
<1>3. known_origins' \in [Node -> SUBSET Node]
  BY <1>1, <1>2 DEF Admit
<1>4. guard_state' \in [Node -> GuardState]
  BY <1>1, <1>2 DEF Admit, GuardState
<1> QED BY <1>3, <1>4 DEF Admit

\* A step that changes nothing keeps the invariant.
LEMMA StutterInv ==
  ASSUME NodeInv, UNCHANGED nodeVars
  PROVE  NodeInv'
<1>1. /\ local_counter' = local_counter /\ trusted_origins' = trusted_origins
      /\ known_origins' = known_origins /\ frontier' = frontier /\ pending' = pending
      /\ graph' = graph /\ op_log' = op_log /\ guard_state' = guard_state
      /\ phase' = phase /\ batch' = batch
  BY DEF nodeVars
<1>2. TypeOK'
  BY <1>1, Zenon DEF NodeInv, TypeOK
<1>3. /\ OneHistory'
      /\ \A p \in Op : Genuine(p) => Genuine(p)'
      /\ \A m \in Node : IsJoin(graph[m], AppliedOps(m))'
  BY <1>1, HistoryFrame, SMTT(20)
<1>4. ReorderBuffer'
  <2>1. /\ \A m \in Node : Current(m)' = Current(m)
        /\ \A m, o \in Node : \A p \in pending[m][o] : Genuine(p) => Genuine(p)'
    BY <1>1 DEF Current, Genuine
  <2>2. ReorderBuffer
    BY Zenon DEF NodeInv
  <2>3. ASSUME NEW m \in Node, NEW o \in Node
        PROVE  /\ IsFiniteSet(pending[m][o]) /\ Cardinality(pending[m][o]) <= MaxPending
               /\ \A p \in pending[m][o] :
                    /\ p.origin = o /\ Genuine(p)'
                    /\ p.counter > frontier[m][o]
                    /\ p.counter = frontier[m][o] + 1 =>
                         phase[m] = "drain" /\ Current(m)'.origin = o
    BY <2>1, <2>2 DEF ReorderBuffer
  <2> QED BY <1>1, <2>3 DEF ReorderBuffer
<1>5. \A m \in Node : OpsOf(batch[m]) \subseteq Op
  BY DEF NodeInv, TypeOK, OpsOf
<1>6. \A m \in Node : \A p \in OpsOf(batch'[m]) : Genuine(p)'
  BY <1>1, <1>3, <1>5 DEF NodeInv
<1>7. \A m \in Node : /\ local_counter'[m] = frontier'[m][m]
                      /\ phase'[m] = "drain" => batch'[m] # <<>>
  BY <1>1 DEF NodeInv
<1> QED BY <1>2, <1>3, <1>4, <1>6, <1>7 DEF NodeInv

\* An operation of another origin is applied and, if it waited, leaves the
\* buffer: genuine operations with one counter are one operation, so what is
\* left in the buffer is above the new frontier.
LEMMA RemoteApplyInv ==
  ASSUME NodeInv, NEW n \in Node, NEW op \in Op, Genuine(op),
         op.counter = frontier[n][op.origin] + 1,
         ApplyOrderedOp(n, op),
         known_origins' \in [Node -> SUBSET Node],
         guard_state' \in [Node -> GuardState],
         UNCHANGED <<local_counter, batch>>,
         batch[n] # <<>>, Current(n).origin = op.origin,
         phase' = [phase EXCEPT ![n] = "drain"],
         pending' = [pending EXCEPT ![n][op.origin] = pending[n][op.origin] \ {op}]
  PROVE  NodeInv'
<1> DEFINE o == op.origin
<1>1. /\ TypeOK /\ OneHistory /\ ReorderBuffer
      /\ \A m \in Node : local_counter[m] = frontier[m][m]
      /\ \A m \in Node : \A p \in OpsOf(batch[m]) : Genuine(p)
      /\ \A m \in Node : phase[m] = "drain" => batch[m] # <<>>
      /\ \A m \in Node : IsJoin(graph[m], AppliedOps(m))
  BY DEF NodeInv
<1>2. o \in Node /\ op.counter \in Nat
  BY EntryType DEF Op
<1>3. /\ frontier' \in [Node -> [Node -> Nat]]
      /\ op_log' \in [Node -> [Node -> Seq(Op)]]
      /\ graph' \in [Node -> Graph]
      /\ trusted_origins' \in [Node -> SUBSET Node]
      /\ frontier' = [frontier EXCEPT ![n][o] = op.counter]
      /\ OneHistory'
      /\ \A p \in Op : Genuine(p) => Genuine(p)'
      /\ \A m \in Node : IsJoin(graph[m], AppliedOps(m))'
  BY <1>1, ApplyOrdered
<1>4. frontier \in [Node -> [Node -> Nat]] /\ pending \in [Node -> [Node -> SUBSET Op]]
  BY <1>1, SMTT(20) DEF TypeOK
<1>5. /\ frontier'[n][o] = op.counter
      /\ \A m, x \in Node : ~(m = n /\ x = o) => frontier'[m][x] = frontier[m][x]
  BY <1>2, <1>3, <1>4
<1>6. /\ pending' \in [Node -> [Node -> SUBSET Op]]
      /\ pending'[n][o] = pending[n][o] \ {op}
      /\ \A m, x \in Node : ~(m = n /\ x = o) => pending'[m][x] = pending[m][x]
  BY <1>2, <1>4
<1>7. TypeOK'
  <2>1. phase' \in [Node -> {"idle", "ops", "drain"}] /\ local_counter' = local_counter
        /\ batch' = batch
    BY <1>1 DEF TypeOK
  <2> QED BY <1>1, <1>3, <1>6, <2>1, Zenon DEF TypeOK
<1>8. \A m \in Node : local_counter'[m] = frontier'[m][m]
  <2>1. o # n
    <3>1. op.counter \in 1..frontier[o][o] /\ frontier[o][o] \in Nat
      BY <1>2, <1>4 DEF Genuine
    <3> QED BY <3>1
  <2> QED BY <2>1, <1>1, <1>5
<1>9. \A m \in Node : /\ phase'[m] = IF m = n THEN "drain" ELSE phase[m]
                      /\ Current(m)' = Current(m)
  BY <1>1 DEF TypeOK, Current
<1>10. \A m \in Node : phase'[m] = "drain" => batch'[m] # <<>>
  BY <1>1, <1>9
<1>11. \A m \in Node : \A p \in OpsOf(batch'[m]) : Genuine(p)'
  <2>1. \A m \in Node : OpsOf(batch[m]) \subseteq Op
    BY <1>1 DEF TypeOK, OpsOf
  <2> QED BY <2>1, <1>1, <1>3, Zenon
<1>12. ReorderBuffer'
  <2> SUFFICES ASSUME NEW m \in Node, NEW x \in Node
               PROVE  /\ IsFiniteSet(pending'[m][x])
                      /\ Cardinality(pending'[m][x]) <= MaxPending
                      /\ \A p \in pending'[m][x] :
                           /\ p.origin = x /\ Genuine(p)'
                           /\ p.counter > frontier'[m][x]
                           /\ p.counter = frontier'[m][x] + 1 =>
                                phase'[m] = "drain" /\ Current(m)'.origin = x
    BY Zenon DEF ReorderBuffer
  <2>1. /\ IsFiniteSet(pending[m][x]) /\ Cardinality(pending[m][x]) <= MaxPending
        /\ \A p \in pending[m][x] :
             /\ p.origin = x /\ Genuine(p)
             /\ p.counter > frontier[m][x]
             /\ p.counter = frontier[m][x] + 1 =>
                  phase[m] = "drain" /\ Current(m).origin = x
    BY <1>1 DEF ReorderBuffer
  <2>2. pending[m][x] \subseteq Op /\ pending'[m][x] \subseteq pending[m][x]
    <3>1. CASE m = n /\ x = o
      BY <3>1, <1>4, <1>6
    <3>2. CASE ~(m = n /\ x = o)
      BY <3>2, <1>4, <1>6, SMTT(20)
    <3> QED BY <3>1, <3>2
  <2>3. \A p \in pending'[m][x] : p.origin = x /\ Genuine(p)'
    BY <2>1, <2>2, <1>3, Zenon
  <2>4. IsFiniteSet(pending'[m][x]) /\ Cardinality(pending'[m][x]) <= MaxPending
    <3>1. /\ IsFiniteSet(pending'[m][x])
          /\ Cardinality(pending'[m][x]) <= Cardinality(pending[m][x])
      BY <2>1, <2>2, FS_Subset
    <3>2. /\ Cardinality(pending[m][x]) \in Nat /\ Cardinality(pending'[m][x]) \in Nat
          /\ MaxPending \in Nat
      BY <2>1, <3>1, FS_CardinalityType, NodeAssumption, OpsAssumption
    <3> QED BY <2>1, <3>1, <3>2
  <2>5. CASE ~(m = n /\ x = o)
    <3>1. frontier'[m][x] = frontier[m][x] /\ pending'[m][x] = pending[m][x]
      BY <2>5, <1>5, <1>6
    <3>2. phase[m] = "drain" /\ Current(m).origin = x =>
            phase'[m] = "drain" /\ Current(m)'.origin = x
      BY <1>9
    <3> QED BY <2>1, <2>3, <2>4, <3>1, <3>2, SMTT(20)
  <2>6. CASE m = n /\ x = o
    <3>1. phase'[m] = "drain" /\ Current(m)'.origin = x
      BY <2>6, <1>9
    <3>2. \A p \in pending'[m][x] : p.counter > frontier'[m][x]
      <4> TAKE p \in pending'[m][x]
      <4>1. p # op /\ p \in pending[n][o] /\ p \in Op
        BY <2>6, <1>6, <2>2
      <4>2. p.origin = o /\ Genuine(p) /\ p.counter > frontier[n][o] /\ p.counter \in Nat
        BY <4>1, <2>1, <2>6, EntryType
      <4>3. p.counter # op.counter
        BY <4>1, <4>2 DEF Genuine
      <4>4. op.counter = frontier[n][o] + 1 /\ frontier[n][o] \in Nat
        BY <1>2, <1>4
      <4> QED BY <4>2, <4>3, <4>4, <1>5, <2>6
    <3> QED BY <2>3, <2>4, <3>1, <3>2
  <2> QED BY <2>5, <2>6
<1> QED BY <1>3, <1>7, <1>8, <1>10, <1>11, <1>12 DEF NodeInv
=============================================================================
