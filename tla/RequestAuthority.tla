---------------------------- MODULE RequestAuthority ----------------------------
(***************************************************************************)
(* What the durable store promises the rest of InferSched, without rows,   *)
(* epochs, attempts or an outbox table: a request is accepted once, gets   *)
(* at most one answer, the answer is announced in the very step that       *)
(* accepts it, and only announced answers are ever delivered.              *)
(* DurableStore is shown to implement this specification.                  *)
(***************************************************************************)
CONSTANTS Requests, Payloads, None

VARIABLES
    status,     \* [Requests -> {"unknown", "pending", "completed", "closed"}]
    answer,     \* [Requests -> Payloads \cup {None}]
    announced,  \* requests whose answer is durably queued for delivery
    delivered   \* requests whose answer is recorded as delivered

authorityVars == <<status, answer, announced, delivered>>

AuthorityInit ==
    /\ status = [r \in Requests |-> "unknown"]
    /\ answer = [r \in Requests |-> None]
    /\ announced = {}
    /\ delivered = {}

Accept(r) ==
    /\ status[r] = "unknown"
    /\ status' = [status EXCEPT ![r] = "pending"]
    /\ UNCHANGED <<answer, announced, delivered>>

Complete(r, payload) ==
    /\ status[r] = "pending"
    /\ status' = [status EXCEPT ![r] = "completed"]
    /\ answer' = [answer EXCEPT ![r] = payload]
    /\ announced' = announced \cup {r}
    /\ UNCHANGED delivered

Close(r) ==
    /\ status[r] = "pending"
    /\ status' = [status EXCEPT ![r] = "closed"]
    /\ UNCHANGED <<answer, announced, delivered>>

Deliver(r) ==
    /\ r \in announced
    /\ delivered' = delivered \cup {r}
    /\ UNCHANGED <<status, answer, announced>>

AuthorityNext ==
    \E r \in Requests :
        \/ Accept(r)
        \/ \E payload \in Payloads : Complete(r, payload)
        \/ Close(r)
        \/ Deliver(r)

AuthoritySpec == AuthorityInit /\ [][AuthorityNext]_authorityVars
=============================================================================
