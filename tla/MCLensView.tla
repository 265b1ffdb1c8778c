----------------------------- MODULE MCLensView -----------------------------
(* Every follow graph over three sites, self-follows and cycles included,   *)
(* in which each edge is not in the map, present, or withdrawn.             *)
EXTENDS LensView

MCEntries == {Absent, [ts |-> [counter |-> 1, origin |-> 1], present |-> TRUE],
              [ts |-> [counter |-> 2, origin |-> 1], present |-> FALSE]}
=============================================================================
