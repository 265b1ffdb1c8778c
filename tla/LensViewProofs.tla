--------------------------- MODULE LensViewProofs ---------------------------
(***************************************************************************)
(* reachable_sites returns the sites reachable from the root, for every    *)
(* set of sites and every graph.                                           *)
(***************************************************************************)
EXTENDS LensView, TLAPS

\* The root of a view is reachable, and whatever a reachable site follows is
\* reachable: the least closed set is itself closed.
LEMMA ReachableClosed ==
  ASSUME NEW g
  PROVE  /\ Root \in Reachable(g, Root)
         /\ Closed(g, Reachable(g, Root))
<1>1. Root \in Reachable(g, Root)
  BY ViewAssumption DEF Reachable
<1>2. ASSUME NEW s \in Reachable(g, Root), NEW t \in Follows(g, s)
      PROVE  t \in Reachable(g, Root)
  BY <1>2 DEF Reachable, Closed, Follows
<1> QED BY <1>1, <1>2 DEF Closed

\* Every step of the search in reachable_sites keeps SearchInv: what it has
\* found is reachable, and what it has found and taken from the queue has
\* had its follow edges explored.
THEOREM SearchInvariant == Spec => []SearchInv
<1>1. Init => SearchInv
  <2> SUFFICES ASSUME Init PROVE SearchInv
    OBVIOUS
  <2>1. TypeOK
    BY ViewAssumption DEF Init, TypeOK, Graph
  <2> QED BY <2>1, ReachableClosed, ViewAssumption DEF Init, SearchInv
<1>2. SearchInv /\ [Next]_vars => SearchInv'
  <2> SUFFICES ASSUME SearchInv, [Next]_vars PROVE SearchInv'
    OBVIOUS
  <2>1. ASSUME NEW site \in Site, Expand(site) PROVE SearchInv'
    <3> DEFINE found == Follows(graph, site) \ out
    <3>1. /\ site \in q
          /\ out' = out \cup found
          /\ q' = (q \ {site}) \cup found
          /\ graph' = graph
      BY <2>1 DEF Expand
    <3>2. found \subseteq Site
      BY DEF Follows
    <3>3. TypeOK'
      BY <3>1, <3>2 DEF SearchInv, TypeOK
    <3>4. found \subseteq Reachable(graph, Root)
      BY <3>1, ReachableClosed DEF SearchInv, Closed
    <3>5. out' \subseteq Reachable(graph, Root)'
      BY <3>1, <3>4 DEF SearchInv
    <3>6. \A s \in out' \ q' : Follows(graph, s) \subseteq out'
      BY <3>1 DEF SearchInv
    <3> QED BY <3>1, <3>3, <3>5, <3>6 DEF SearchInv
  <2>2. CASE UNCHANGED vars
    BY <2>2 DEF vars, SearchInv, TypeOK
  <2> QED BY <2>1, <2>2 DEF Next
<1> QED BY <1>1, <1>2, PTL DEF Spec

\* When the queue of reachable_sites is empty, what it returns is exactly
\* the set of sites reachable from the root.
THEOREM SearchIsExact == Spec => []ReachableIsExact
<1>1. SearchInv => ReachableIsExact
  <2> SUFFICES ASSUME SearchInv, q = {} PROVE Reachable(graph, Root) \subseteq out
    BY DEF ReachableIsExact, SearchInv
  <2>1. Closed(graph, out) /\ Root \in out /\ out \in SUBSET Site
    BY DEF SearchInv, TypeOK, Closed
  <2> QED BY <2>1 DEF Reachable
<1> QED BY <1>1, SearchInvariant, PTL
=============================================================================
