--------------------------- MODULE CitadelOrdered ---------------------------
(* The Citadel nodes as an implementation of OrderedOps: the history of an *)
(* origin is its own log, and a frontier counts what its node has applied. *)
EXTENDS CitadelNode

Abstract == INSTANCE OrderedOps WITH
              log <- [o \in Node |-> op_log[o][o]], applied <- frontier, view <- graph

\* The nodes implement OrderedOps: each step emits one operation, lets one
\* node learn the next operation of one origin, or is invisible, and every
\* graph is the join of the prefixes its node's frontier counts.
ImplementsOrderedOps == Abstract!AbsSpec
=============================================================================
