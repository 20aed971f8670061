----------------------------- MODULE MCDurableRouter -----------------------------
(* TLC instances of DurableRouter: one partition, whose log a configuration *)
(* chooses, and two Routers with an engine each.                           *)
EXTENDS DurableRouter, TLC

CONSTANTS a, b, r1, ea, eb

MCPayloads == [epoch : Epochs, attempt : Attempts]
MCEngineOf == [r \in Routers |-> IF r = a THEN ea ELSE eb]

\* The two Routers, each with its engine, are interchangeable.
MCSymmetry ==
    {f \in Permutations({a, b, ea, eb}) :
        f[a] \in {a, b} /\ f[ea] \in {ea, eb} /\ (f[a] = a <=> f[ea] = ea)}

\* Every offset holds the same request: with more than one, a duplicate.
OneRequest == [p \in Partitions |-> [o \in Offsets |-> r1]]
\* A record that does not parse, then the request at all later offsets.
PoisonThenRequest == [p \in Partitions |-> [o \in Offsets |-> IF o = 0 THEN Poison ELSE r1]]
=============================================================================
