------------------------------ MODULE LensView ------------------------------
(***************************************************************************)
(* The breadth-first search of LensGraph::reachable_sites, one step per    *)
(* site popped from the queue, over a graph that does not change (the      *)
(* handler holds the node's read lock).  The VecDeque is the set of sites  *)
(* waiting in it: any of them may be popped, FIFO order included.          *)
(***************************************************************************)
EXTENDS LensGraph

CONSTANTS Root,      \* root_site_id
          Entries    \* the entries the searched graphs hold

ASSUME ViewAssumption == Root \in Site /\ Entries \subseteq LwwEntry

VARIABLES graph,   \* the graph searched
          out,     \* sites found
          q        \* sites found and not yet expanded

vars == <<graph, out, q>>

TypeOK == /\ graph \in Graph
          /\ out \in SUBSET Site
          /\ q \in SUBSET Site

\* The graph is the parameter of the search.
Init == /\ graph \in [GraphKey -> Entries]
        /\ out = {Root}
        /\ q = {Root}

(* Mutants of Expand. *)
\* A found site is not pushed onto the queue.
ExpandWithoutPush(site) ==
  /\ site \in q
  /\ out' = out \cup Follows(graph, site)
  /\ q' = q \ {site}
  /\ UNCHANGED graph
\* Sites that are in `out` already are queued again.
ExpandRequeuesSeen(site) ==
  /\ site \in q
  /\ out' = out \cup Follows(graph, site)
  /\ q' = (q \ {site}) \cup Follows(graph, site)
  /\ UNCHANGED graph
\* Every edge in the map is taken, its `present` flag is not looked at.
ExpandTakesRemovedEdges(site) ==
  LET found == {t \in Site : graph[<<"follow", site, t>>] # Absent} \ out
  IN /\ site \in q
     /\ out' = out \cup found
     /\ q' = (q \ {site}) \cup found
     /\ UNCHANGED graph

\* One iteration of the while loop: every present edge of the popped site
\* whose target is new to `out` is put into `out` and into the queue.
Expand(site) ==
  LET found == Follows(graph, site) \ out
  IN /\ site \in q
     /\ out' = out \cup found
     /\ q' = (q \ {site}) \cup found
     /\ UNCHANGED graph

Next == \E site \in Site : Expand(site)

Spec == Init /\ [][Next]_vars /\ WF_vars(Next)

\* The inductive invariant: what is found is reachable, what is found and
\* not queued has been expanded.
SearchInv == /\ TypeOK
             /\ Root \in out
             /\ q \subseteq out
             /\ out \subseteq Reachable(graph, Root)
             /\ \A s \in out \ q : Follows(graph, s) \subseteq out

\* When the queue is empty reachable_sites returns exactly the sites that a
\* chain of present follow edges joins to the root, cycles and
\* self-follows included.
ReachableIsExact == q = {} => out = Reachable(graph, Root)

\* The search ends: no site is queued twice, whatever cycles the follow
\* graph has.
Terminates == <>(q = {})
=============================================================================
