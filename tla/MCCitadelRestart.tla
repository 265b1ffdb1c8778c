-------------------------- MODULE MCCitadelRestart --------------------------
(* Two nodes that trust each other and write one site. *)
EXTENDS CitadelRestart

OneSite    == [n \in Node |-> 1]
OneHost    == [n \in Node |-> 1]
AllTrusted == [n \in Node |-> Node]
EqualBase  == [n \in Node |-> 1]
EqualLow   == [n \in Node |-> 0]
=============================================================================
