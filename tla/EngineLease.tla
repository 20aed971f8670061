------------------------------- MODULE EngineLease -------------------------------
(***************************************************************************)
(* RouterService (cpp/src/router_service.cpp) and the Engine processes     *)
(* (cpp/src/engine_main.cpp) that register with it and renew their leases. *)
(* Every start of an Engine is an incarnation of its engine id.  A process *)
(* registers, trying again while that fails, and then sends heartbeats;    *)
(* RouterService keeps the last incarnation of each id and drops it when   *)
(* its lease has run out, which it notices when it is next asked.          *)
(* The command line gives ids that are not empty, so Register accepts.     *)
(*                                                                         *)
(* One tick is 200 ms: the deadline of a call, and the sleep between two   *)
(* heartbeats.  A process does what is due before the next tick (threads   *)
(* are scheduled within a tick), and ages stop at LeaseTtl.  A call that   *)
(* nobody waits for any more may still be handled: it is a stray.          *)
(***************************************************************************)
EXTENDS Integers, FiniteSets

CONSTANTS
    Incarnations,   \* incarnation ids, given on the command line
    EngineIds,      \* engine ids
    EngineIdOf,     \* [Incarnations -> EngineIds]
    LeaseTtl,       \* lease_ttl_ in ticks
    RegisterTries,  \* attempts to register before a process gives up
    MaxLosses,      \* bound: calls or replies lost or late
    MaxStrays       \* bound: strays at a time

ASSUME LeaseAssumption ==
    /\ EngineIdOf \in [Incarnations -> EngineIds]
    /\ {LeaseTtl, RegisterTries} \subseteq Nat \ {0} /\ {MaxLosses, MaxStrays} \subseteq Nat

VARIABLES
    registry,   \* engines_: for each id known, [incarnation, age of last_heartbeat]
    engine,     \* for each incarnation, a record:
                \*   at: "off", "register" (the loop), "heartbeat" (a call), "sleep" or "gone"
                \*   call: "none", "sent" or "handled", the call that it waits for
                \*   timer: ticks to the deadline, or to the end of the sleep
                \*   tries: attempts to register
    strays,     \* calls on their way that no process waits for: [kind, from]
    losses,     \* how many calls and replies were lost or late
    heard       \* history: ticks since a message of each incarnation was handled

leaseVars == <<registry, engine, strays, losses, heard>>

Alive(i) == engine[i].at \in {"register", "heartbeat", "sleep"}

NotRunning(at) == [at |-> at, call |-> "none", timer |-> 0, tries |-> 0]
Asleep == [at |-> "sleep", call |-> "none", timer |-> 1, tries |-> 0]

LeaseInit ==
    /\ registry = [e \in {} |-> 0]
    /\ engine = [i \in Incarnations |-> NotRunning("off")]
    /\ strays = {} /\ losses = 0
    /\ heard = [i \in Incarnations |-> LeaseTtl]

-----------------------------------------------------------------------------
(* RouterService. *)

Without(map, keys) == [k \in DOMAIN map \ keys |-> map[k]]

\* PruneExpiredLocked.
Pruned == Without(registry, {e \in DOMAIN registry : registry[e].age >= LeaseTtl})

Renewed(map, i) ==
    [e \in DOMAIN map \cup {EngineIdOf[i]} |->
        IF e = EngineIdOf[i] THEN [incarnation |-> i, age |-> 0] ELSE map[e]]

\* The last Register of an engine id wins, whichever incarnation sent it.
Register(i) ==
    /\ registry' = Renewed(registry, i)
    /\ heard' = [heard EXCEPT ![i] = 0]

HoldsLease(map, i) == EngineIdOf[i] \in DOMAIN map /\ map[EngineIdOf[i]].incarnation = i

\* lease_ok is FALSE for an unknown id and for another incarnation's record.
\* Mutants: the record is taken over, or is not renewed.
HeartbeatTakesOver(i) ==
    /\ registry' = Renewed(Pruned, i)
    /\ heard' = [heard EXCEPT ![i] = 0]
HeartbeatKeepsAge(i) ==
    /\ registry' = Pruned
    /\ heard' = [heard EXCEPT ![i] = 0]
Heartbeat(i) ==
    /\ registry' = IF HoldsLease(Pruned, i) THEN Renewed(Pruned, i) ELSE Pruned
    /\ heard' = [heard EXCEPT ![i] = 0]

Handle(c) == IF c.kind = "register" THEN Register(c.from) ELSE Heartbeat(c.from)

-----------------------------------------------------------------------------
(* The Engine process. *)

\* A call with its deadline.
Call(i, kind, tries) ==
    engine' = [engine EXCEPT ![i] = [at |-> kind, call |-> "sent", timer |-> 1, tries |-> tries]]

Start(i) ==
    /\ engine[i].at = "off"
    /\ Call(i, "register", 1)
    /\ UNCHANGED <<registry, strays, losses, heard>>

CallHandled(i) ==
    /\ Alive(i) /\ engine[i].call = "sent"
    /\ Handle([kind |-> engine[i].at, from |-> i])
    /\ engine' = [engine EXCEPT ![i].call = "handled"]
    /\ UNCHANGED <<strays, losses>>

\* The heartbeat thread calls at once.
RegisterReturns(i) ==
    /\ engine[i].at = "register" /\ engine[i].call = "handled"
    /\ Call(i, "heartbeat", 0)
    /\ UNCHANGED <<registry, strays, losses, heard>>

\* The sleep between two heartbeats.  The reply is not looked at.
Sleep(i) == engine' = [engine EXCEPT ![i] = Asleep]

HeartbeatReturns(i) ==
    /\ engine[i].at = "heartbeat" /\ engine[i].call = "handled"
    /\ Sleep(i)
    /\ UNCHANGED <<registry, strays, losses, heard>>

\* A call that nobody waits for is lost, or still on its way.
Abandoned(i) ==
    \/ strays' = strays
    \/ /\ engine[i].call = "sent" /\ Cardinality(strays) < MaxStrays
       /\ strays' = strays \cup {[kind |-> engine[i].at, from |-> i]}

\* The deadline of a call has passed.
GivenUp(i) ==
    /\ engine[i].timer = 0 /\ losses < MaxLosses
    /\ losses' = losses + 1
    /\ Abandoned(i)

RegisterTimesOut(i) ==
    /\ engine[i].at = "register" /\ GivenUp(i)
    /\ IF engine[i].tries < RegisterTries THEN Call(i, "register", engine[i].tries + 1)
       ELSE engine' = [engine EXCEPT ![i] = NotRunning("gone")]
    /\ UNCHANGED <<registry, heard>>

HeartbeatTimesOut(i) ==
    /\ engine[i].at = "heartbeat" /\ engine[i].call = "sent" /\ GivenUp(i)
    /\ Sleep(i)
    /\ UNCHANGED <<registry, heard>>

WakeUp(i) ==
    /\ engine[i].at = "sleep" /\ engine[i].timer = 0
    /\ Call(i, "heartbeat", 0)
    /\ UNCHANGED <<registry, strays, losses, heard>>

\* The process is killed; no code path ends it once it is registered.
Crash(i) ==
    /\ Alive(i)
    /\ engine' = [engine EXCEPT ![i] = NotRunning("gone")]
    /\ Abandoned(i)
    /\ UNCHANGED <<registry, losses, heard>>

StrayHandled(c) ==
    /\ Handle(c)
    /\ strays' = strays \ {c}
    /\ UNCHANGED <<engine, losses>>

Older(age) == IF age < LeaseTtl THEN age + 1 ELSE age

Tick ==
    /\ \A i \in Incarnations : Alive(i) => engine[i].timer > 0
    /\ engine' = [i \in Incarnations |->
                     IF Alive(i) THEN [engine[i] EXCEPT !.timer = @ - 1] ELSE engine[i]]
    /\ registry' = [e \in DOMAIN registry |-> [registry[e] EXCEPT !.age = Older(@)]]
    /\ heard' = [i \in Incarnations |-> Older(heard[i])]
    /\ UNCHANGED <<strays, losses>>
=============================================================================
