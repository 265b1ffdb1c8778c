--------------------------- MODULE MCCitadelMesh ---------------------------
(* Two nodes that call each other, or one that calls all the others.       *)
EXTENDS CitadelMesh

OneSite     == [n \in Node |-> 1]
OneHost     == [n \in Node |-> 1]
NoneTrusted == [n \in Node |-> {}]
EqualBase   == [n \in Node |-> 1]
EqualLow    == [n \in Node |-> 0]
EachOther   == [n \in Node |-> IF n = 1 THEN <<2>> ELSE <<1>>]
Star        == [n \in Node |-> IF n > 1 THEN <<>>
                               ELSE IF Node = {1, 2} THEN <<2>> ELSE <<2, 3>>]
=============================================================================
