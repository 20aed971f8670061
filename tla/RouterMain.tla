------------------------------- MODULE RouterMain -------------------------------
(***************************************************************************)
(* The P4 Router process (cpp/src/router_main.cpp): main waits for an      *)
(* Engine to register, dispatches the requests of one of its three demos,  *)
(* drains the Engine and exits with a verdict.  It runs with the registry  *)
(* and the Engine processes of EngineLease; of an Engine's EngineService   *)
(* (modelled in full by the module of that name) only the fence, the       *)
(* running jobs and the drain matter here.                                 *)
(*                                                                         *)
(* A call goes to an endpoint, and reaches whichever incarnation listens   *)
(* there when it arrives.  The 10 s deadlines of dispatches and waits are  *)
(* long against a tick: they may pass at any time.  The registry and the   *)
(* calls that change it are followed for as long as main will look at it   *)
(* again, and the model ends with the Router.                              *)
(***************************************************************************)
EXTENDS EngineLease, Sequences

CONSTANTS
    Listens,      \* where each incarnation may listen, as functions to endpoints
    Demos,        \* subset of {"default", "overlap", "retry"}: the flags of the command line
    DemoRequests  \* bound: 0 .. --requests - 1

ASSUME MainAssumption ==
    /\ Demos \subseteq {"default", "overlap", "retry"}
    /\ DemoRequests \subseteq Nat /\ 0 \in DemoRequests

VARIABLES
    demo,       \* the demo that main runs
    endpoint,   \* where each incarnation listens
    main,       \* [at, phase, first, target, passed]: where main is, and its locals
    calls,      \* for each job dispatched so far, [state, to]: how far its call is
    service     \* for each incarnation [epoch, attempts, running, draining]

mainVars == <<demo, endpoint, main, calls, service>>
demoVars == <<leaseVars, mainVars>>

Job(q, attempt, epoch, rejection) ==
    [request |-> q, attempt |-> attempt, epoch |-> epoch, rejection |-> rejection]

Extra == 2 + CHOOSE n \in DemoRequests : \A k \in DemoRequests : k <= n

\* What main dispatches, phase by phase; the calls of a phase run in threads of
\* their own, and main joins them.  The 50 ms between the two dispatches of the
\* overlapping retry order nothing.
Script ==
    [default |-> << {Job(q, 1, 1, FALSE) : q \in DemoRequests}, {Job(0, 1, 1, TRUE)},
                    {Job(Extra, 1, 0, TRUE)} >>,
     overlap |-> << {Job(0, 1, 1, FALSE), Job(0, 2, 1, TRUE)} >>,
     retry   |-> << {Job(0, 1, 1, FALSE)}, {Job(0, 2, 2, FALSE)} >>]

\* main before and after WaitForEngine has returned an incarnation.
Waiting == [at |-> "wait", phase |-> 1, first |-> {}, target |-> {}, passed |-> TRUE]
Found(i) == [Waiting EXCEPT !.at = "dispatch", !.first = {i}, !.target = {i}]

Dispatched(known, phase, i) ==
    [j \in DOMAIN known \cup Script[demo][phase] |->
        IF j \in DOMAIN known THEN known[j] ELSE [state |-> "sent", to |-> endpoint[i]]]

NoCalls == [j \in {} |-> 0]

\* Only the retry demo looks at the registry twice; the others start where
\* WaitForEngine has returned an Engine that sleeps between two heartbeats.
MainInit ==
    /\ demo \in Demos /\ endpoint \in Listens
    /\ \/ /\ demo = "retry" /\ LeaseInit
          /\ main = Waiting /\ calls = NoCalls
       \/ /\ demo # "retry"
          /\ \E i \in Incarnations :
                 /\ engine = [[k \in Incarnations |-> NotRunning("off")] EXCEPT ![i] = Asleep]
                 /\ registry = Renewed([e \in {} |-> 0], i)
                 /\ main = Found(i) /\ calls = Dispatched(NoCalls, 1, i)
          /\ strays = {} /\ losses = 0 /\ heard = [k \in Incarnations |-> LeaseTtl]
    /\ service = [i \in Incarnations |->
                     [epoch |-> 0, attempts |-> [q \in DemoRequests \cup {Extra} |-> 0],
                      running |-> {}, draining |-> FALSE]]

Running == main.at \notin {"success", "failure"}

-----------------------------------------------------------------------------
(* RouterService's waits, and main around them. *)

Candidates(map, excluded) == {map[e].incarnation : e \in DOMAIN map} \ excluded

\* WaitForEngine.
EngineFound ==
    /\ main.at = "wait"
    /\ registry' = Pruned
    /\ \E i \in Candidates(Pruned, {}) :
           main' = Found(i) /\ calls' = Dispatched(calls, 1, i)
    /\ UNCHANGED <<engine, strays, losses, heard, demo, endpoint, service>>

\* WaitForNewIncarnation.  Mutant: the registry is not pruned.
ReplacementUnpruned == Candidates(registry, main.first)
Replacement == Candidates(Pruned, main.first)

ReplacementFound ==
    /\ main.at = "waitNew"
    /\ registry' = Pruned
    /\ \E i \in Replacement :
           /\ main' = [main EXCEPT !.at = "dispatch", !.phase = 2, !.target = {i}]
           /\ calls' = Dispatched(calls, 2, i)
    /\ UNCHANGED <<engine, strays, losses, heard, demo, endpoint, service>>

\* wait_for looks once more when its time is up.  Mutant: the second wait has no
\* timeout.
FirstWaitExpires ==
    /\ main.at = "wait" /\ Candidates(Pruned, {}) = {}
    /\ registry' = Pruned
    /\ main' = [main EXCEPT !.at = "failure"]
    /\ UNCHANGED <<engine, strays, losses, heard, demo, endpoint, calls, service>>
WaitExpires ==
    /\ main.at \in {"wait", "waitNew"}
    /\ Candidates(Pruned, main.first) = {}
    /\ registry' = Pruned
    /\ main' = [main EXCEPT !.at = "failure"]
    /\ UNCHANGED <<engine, strays, losses, heard, demo, endpoint, calls, service>>

-----------------------------------------------------------------------------
(* DispatchOne and the service it calls. *)

\* The incarnations that the call can reach: at most one listens at an endpoint.
Reached(to) == {i \in Incarnations : Alive(i) /\ endpoint[i] = to}

Seen(j, state) == calls' = [calls EXCEPT ![j].state = state]

\* ValidateAndReserve.  Mutant: an attempt that was seen before is admitted again.
AdmittedAgain(s, j) ==
    /\ ~s.draining
    /\ j.epoch >= s.epoch
    /\ j.attempt >= s.attempts[j.request]
    /\ \A k \in s.running : k.request # j.request
Admitted(s, j) ==
    /\ ~s.draining
    /\ j.epoch >= s.epoch
    /\ j.attempt > s.attempts[j.request]
    /\ \A k \in s.running : k.request # j.request

Arriving(j, i) == calls[j].state \in {"sent", "late"} /\ i \in Reached(calls[j].to)

AcceptDispatch(j, i) ==
    /\ Arriving(j, i) /\ Admitted(service[i], j)
    /\ service' = [service EXCEPT ![i].epoch = j.epoch, ![i].attempts[j.request] = j.attempt,
                                  ![i].running = @ \cup {j}]
    /\ Seen(j, IF calls[j].state = "sent" THEN "accepted" ELSE "failed")
    /\ UNCHANGED <<leaseVars, demo, endpoint, main>>

\* The epoch is recorded before the attempt is looked at.
RejectDispatch(j, i) ==
    /\ Arriving(j, i) /\ ~Admitted(service[i], j)
    /\ service' = IF ~service[i].draining /\ j.epoch >= service[i].epoch
                  THEN [service EXCEPT ![i].epoch = j.epoch] ELSE service
    /\ Seen(j, IF calls[j].state = "sent" THEN "rejected" ELSE "failed")
    /\ UNCHANGED <<leaseVars, demo, endpoint, main>>

JobCompletes(j, i) ==
    /\ Alive(i) /\ j \in service[i].running
    /\ service' = [service EXCEPT ![i].running = @ \ {j}]
    /\ Seen(j, IF calls[j].state = "accepted" THEN "completed" ELSE calls[j].state)
    /\ UNCHANGED <<leaseVars, demo, endpoint, main>>

\* The deadline passes, or nobody listens, or the Engine dies during the call.  A
\* call that was not answered yet may still arrive.
DispatchFails(j) ==
    /\ calls[j].state \in {"sent", "accepted"}
    /\ \/ Seen(j, "failed")
       \/ calls[j].state = "sent" /\ Seen(j, "late")
    /\ UNCHANGED <<leaseVars, demo, endpoint, main, service>>

\* What DispatchOne returns.
Succeeded(j) == calls[j].state = (IF j.rejection THEN "rejected" ELSE "completed")

\* main has joined the calls of the phase.  The first attempt of the retry demo is
\* meant to fail.
PhaseEnds ==
    LET jobs == Script[demo][main.phase]
        last == main.phase = Len(Script[demo])
        mayFail == demo = "retry" /\ ~last
    IN  /\ main.at = "dispatch" /\ \A j \in jobs : calls[j].state \notin {"sent", "accepted"}
        /\ main' = [main EXCEPT
                       !.at = IF last THEN "drain" ELSE IF mayFail THEN "waitNew" ELSE "dispatch",
                       !.phase = IF last \/ mayFail THEN @ ELSE @ + 1,
                       !.passed = @ /\ \A j \in jobs : Succeeded(j) # mayFail]
        /\ IF last \/ mayFail THEN UNCHANGED calls
           ELSE \E i \in main.target : calls' = Dispatched(calls, main.phase + 1, i)
        /\ UNCHANGED <<leaseVars, demo, endpoint, service>>

-----------------------------------------------------------------------------
(* Drain, a call without a deadline, and the exit. *)

DrainArrives(i) ==
    /\ main.at = "drain" /\ \E k \in main.target : i \in Reached(endpoint[k])
    /\ service' = [service EXCEPT ![i].draining = TRUE]
    /\ main' = [main EXCEPT !.at = "draining", !.target = {i}]
    /\ UNCHANGED <<leaseVars, demo, endpoint, calls>>

Exit(passed) ==
    /\ main' = [main EXCEPT !.at = IF passed THEN "success" ELSE "failure"]
    /\ UNCHANGED <<leaseVars, demo, endpoint, calls, service>>

DrainReturns ==
    /\ main.at = "draining"
    /\ \A i \in main.target : Alive(i) /\ service[i].running = {}
    /\ Exit(main.passed)

\* Nobody listens, or the Engine dies while it drains.
DrainFails ==
    /\ \/ main.at = "drain" /\ \A k \in main.target : Reached(endpoint[k]) = {}
       \/ main.at = "draining" /\ \A i \in main.target : ~Alive(i)
    /\ Exit(FALSE)

-----------------------------------------------------------------------------
\* An Engine cannot start where another one listens.
StartEngine(i) ==
    /\ IF Reached(endpoint[i]) = {} THEN Start(i)
       ELSE /\ engine[i].at = "off"
            /\ engine' = [engine EXCEPT ![i] = NotRunning("gone")]
            /\ UNCHANGED <<registry, strays, losses, heard>>
    /\ UNCHANGED mainVars

\* What a process was running dies with it.
KillEngine(i) ==
    /\ Crash(i)
    /\ service' = [service EXCEPT ![i].running = {}]
    /\ UNCHANGED <<demo, endpoint, main, calls>>

\* main will look at the registry again.
Watched == main.at \in {"wait", "waitNew"} \/ (demo = "retry" /\ main.phase = 1)

LeaseSteps ==
    \/ Tick
    \/ \E c \in strays : StrayHandled(c)
    \/ \E i \in Incarnations :
           \/ CallHandled(i) \/ RegisterReturns(i) \/ HeartbeatReturns(i)
           \/ RegisterTimesOut(i) \/ HeartbeatTimesOut(i) \/ WakeUp(i)

Waits == EngineFound \/ ReplacementFound \/ WaitExpires
Drains == (\E i \in Incarnations : DrainArrives(i)) \/ DrainReturns \/ DrainFails
Completes == \E i \in Incarnations : \E j \in service[i].running : JobCompletes(j, i)

MainNext ==
    /\ Running
    /\ \/ \E i \in Incarnations : StartEngine(i) \/ KillEngine(i)
       \/ Watched /\ LeaseSteps /\ UNCHANGED mainVars
       \/ Waits \/ PhaseEnds \/ Drains
       \/ \E j \in DOMAIN calls : \/ DispatchFails(j)
                                  \/ \E i \in Incarnations : AcceptDispatch(j, i) \/ RejectDispatch(j, i)
       \/ Completes

MainSpec == MainInit /\ [][MainNext]_demoVars

\* The waits and the dispatches have deadlines that pass, and main goes on when they
\* end.  Drain has none, so it is not forced: an Engine that hangs, or a network that
\* swallows the call, keeps main there.  Nothing is assumed of Engine processes,
\* network and clock.
Deadlines == Waits \/ PhaseEnds \/ \E j \in DOMAIN calls : DispatchFails(j)

FairMainSpec == MainSpec /\ WF_demoVars(Running /\ Deadlines)

-----------------------------------------------------------------------------
(* Properties. *)

\* Renewal keeps a lease alive: unless a call or a reply was lost or late, the
\* lease of a running Engine never runs out, however the calls, replies and
\* sleeps of its heartbeat thread fall.
LeaseOutlivesHeartbeats ==
    losses = 0 => \A e \in DOMAIN registry :
        engine[registry[e].incarnation].at \in {"heartbeat", "sleep"} => registry[e].age < LeaseTtl

\* A lease is gained by a Register of that incarnation only: heartbeats of one
\* that was superseded or whose lease ran out never bring it back, not even over
\* the record of a dead successor.
SupersededStaysOut ==
    [][\A i \in Incarnations :
           HoldsLease(registry', i) /\ ~HoldsLease(registry, i) =>
               \/ engine[i].at = "register"
               \/ [kind |-> "register", from |-> i] \in strays]_demoVars

\* A wait returns an incarnation that RouterService heard from within the lease
\* time, and for the retry another one, whatever either of them sent before.
ReturnedWasHeard ==
    [][main.at \in {"wait", "waitNew"} /\ main'.at = "dispatch" =>
           /\ main'.target # main.first
           /\ \A i \in main'.target : heard[i] < LeaseTtl]_demoVars

\* Fences live in the memory of an Engine: once a request of the default demo has
\* completed, its attempt and any older epoch are refused, and only a restart of
\* the Engine at the same endpoint lets them in.
StaleIsFenced ==
    \A j \in DOMAIN calls :
        /\ demo = "default" /\ j.rejection
        /\ calls[j].state \in {"accepted", "completed"}
        /\ calls[Job(0, 1, 1, FALSE)].state = "completed"
        => \A i \in main.first : ~Alive(i)

\* Nothing but the Drain call can hold main for ever: whatever Engines crash, call,
\* come back or stay silent, it exits or gets to Drain.
OnlyDrainHoldsMain == <>(~Running \/ main.at \in {"drain", "draining"})
=============================================================================
