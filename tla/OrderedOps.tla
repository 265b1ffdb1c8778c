----------------------------- MODULE OrderedOps -----------------------------
(***************************************************************************)
(* What the Citadel nodes promise together: every origin has one history   *)
(* of operations, every node has applied a prefix of each history, one     *)
(* operation at a time, and a node's view is the last-writer-wins join of  *)
(* exactly what it has applied.                                            *)
(***************************************************************************)
EXTENDS LensOps

VARIABLES log,      \* per origin, the operations it has emitted
          applied,  \* per node and origin, how many of them the node has applied
          view      \* per node, its graph

absVars == <<log, applied, view>>

\* The operations behind a node's view.
Prefixes(history, counts) ==
  UNION {{history[o][i] : i \in 1..counts[o]} : o \in Node}

AbsInit == /\ log = [o \in Node |-> <<>>]
           /\ applied = [n \in Node |-> [o \in Node |-> 0]]
           /\ view = [n \in Node |-> EmptyGraph]

Emit(n) ==
  /\ applied' = [applied EXCEPT ![n][n] = @ + 1]
  /\ \E host \in Host, key \in GraphKey \cup TrustKey, on \in BOOLEAN, pow \in 0..MaxPow :
       log' = [log EXCEPT ![n] = Append(@,
                 [origin |-> n, counter |-> Len(log[n]) + 1, host_id |-> host,
                  key |-> key, on |-> on, pow |-> pow])]
  /\ view' = [view EXCEPT ![n] = Join(Prefixes(log', applied'[n]))]

Learn(n, o) ==
  /\ applied' = [applied EXCEPT ![n][o] = @ + 1]
  /\ applied'[n][o] <= Len(log[o])
  /\ view' = [view EXCEPT ![n] = Join(Prefixes(log, applied'[n]))]
  /\ UNCHANGED log

AbsNext == \E n \in Node : Emit(n) \/ \E o \in Node : Learn(n, o)

AbsSpec == AbsInit /\ [][AbsNext]_absVars
=============================================================================
