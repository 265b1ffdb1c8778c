----------------------------- MODULE LensGraph -----------------------------
(***************************************************************************)
(* The last-writer-wins graph of a Citadel node (citadel.rs, LensGraph):   *)
(* follow edges and content slots, each with the Lamport timestamp of the  *)
(* operation that wrote it.  The two BTreeMaps are one function over the   *)
(* keys; a key the maps do not hold has the entry Absent, whose timestamp  *)
(* is below that of every operation because local counters start at 1.     *)
(***************************************************************************)
EXTENDS Integers

CONSTANTS Site,      \* SiteId
          Slot       \* ContentSlot

\* The keys of `follows` and of `content`.
FollowKey  == {"follow"} \X Site \X Site
ContentKey == {"content"} \X Site \X Slot
GraphKey   == FollowKey \cup ContentKey

\* Lamport derives Ord: by counter, then by origin.
Lamport == [counter : Nat, origin : Nat]
TsGeq(a, b) == \/ a.counter > b.counter
               \/ a.counter = b.counter /\ a.origin >= b.origin

LwwEntry == [ts : Lamport, present : BOOLEAN]
Absent   == [ts |-> [counter |-> 0, origin |-> 0], present |-> FALSE]
Graph    == [GraphKey -> LwwEntry]
EmptyGraph == [k \in GraphKey |-> Absent]

\* Mutant: equal counters are not decided by the origin, the later arrival loses.
LwwByCounter(prev, next) == IF prev.ts.counter >= next.ts.counter THEN prev ELSE next

\* Mutant: the last arrival wins.
LwwByArrival(prev, next) == next

\* lww_update keeps the previous entry on `prev.ts >= next.ts`.
LwwUpdate(prev, next) == IF TsGeq(prev.ts, next.ts) THEN prev ELSE next

\* merge_from: lww_update of every entry of the other graph.
MergeFrom(g, other) == [k \in GraphKey |-> LwwUpdate(g[k], other[k])]

\* update_follow and update_content.
UpdateGraph(g, key, entry) == [g EXCEPT ![key] = LwwUpdate(@, entry)]

\* The sites that `site` follows: the edges reachable_sites takes.
Follows(g, site) == {t \in Site : g[<<"follow", site, t>>].present}

\* What reachable_sites promises: the least set that holds the root and is
\* closed under present follow edges.
Closed(g, C) == \A s \in C : Follows(g, s) \subseteq C
Reachable(g, root) ==
  {s \in Site : \A C \in SUBSET Site : root \in C /\ Closed(g, C) => s \in C}
=============================================================================
