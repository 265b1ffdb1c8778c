--------------------------- MODULE MCCitadelNode ---------------------------
(* Two or three nodes that write the same site, so that their operations   *)
(* meet on the same keys.                                                  *)
EXTENDS CitadelOrdered

OneSite     == [n \in Node |-> 1]
OneHost     == [n \in Node |-> 1]
NoneTrusted == [n \in Node |-> {}]
AllTrusted  == [n \in Node |-> Node]
EqualBase   == [n \in Node |-> 1]
EqualLow    == [n \in Node |-> 0]
\* Node 2 asks more of an origin it does not trust than node 1 mines.
SecondAsksMore == [n \in Node |-> IF n = 2 THEN 1 ELSE 0]
=============================================================================
