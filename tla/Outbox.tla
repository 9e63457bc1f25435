-------------------------------- MODULE Outbox --------------------------------
(***************************************************************************)
(* What a client may conclude from the answer to a request for mail, on    *)
(* which it decides whether to try again: "done" means that the provider   *)
(* carried it out exactly once; "rejected", that it did not and never      *)
(* will; "unknown", that it did or will do so at most once.                *)
(*                                                                         *)
(* Requests implements this module with retries and a network that loses   *)
(* and delays what it carries.                                             *)
(***************************************************************************)
EXTENDS Integers

CONSTANTS Requests   \* requests for mail

VARIABLES served,    \* request |-> how many times the provider carried it out
          verdict    \* request |-> what its client was told

vars == <<served, verdict>>

Verdicts == {"none", "done", "rejected", "unknown"}

Init ==
    /\ served = [r \in Requests |-> 0]
    /\ verdict = [r \in Requests |-> "none"]

\* The provider carries the request out, perhaps after its client was answered.
Serve(r) ==
    /\ served[r] = 0
    /\ verdict[r] \in {"none", "unknown"}
    /\ served' = [served EXCEPT ![r] = 1]
    /\ UNCHANGED verdict

Answer(r, v) ==
    /\ verdict[r] = "none"
    /\ v = "done" => served[r] = 1
    /\ v = "rejected" => served[r] = 0
    /\ verdict' = [verdict EXCEPT ![r] = v]
    /\ UNCHANGED served

Next ==
    \E r \in Requests : Serve(r) \/ \E v \in Verdicts \ {"none"} : Answer(r, v)

Spec == Init /\ [][Next]_vars
=============================================================================
