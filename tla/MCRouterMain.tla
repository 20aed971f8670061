------------------------------ MODULE MCRouterMain ------------------------------
\* Two incarnations of one engine id, at one endpoint or at two.
EXTENDS RouterMain

CONSTANTS i1, i2, e

MCListens == {[i \in Incarnations |-> 1], [i \in Incarnations |-> IF i = i1 THEN 1 ELSE 2]}
MCEngineIdOf == [i \in Incarnations |-> e]
=============================================================================
