---------------------------- MODULE RequestService ----------------------------
(***************************************************************************)
(* What the daemon promises about a client's request, with no pipeline, no *)
(* registry and no connections: a request is released to the agents or     *)
(* settled without them; only a released request is performed, at most     *)
(* once, and possibly after its client has given up on it; the client is   *)
(* told the result of an agent only when the request was performed.        *)
(***************************************************************************)
EXTENDS Naturals

CONSTANT Requests

VARIABLES
  released,       \* requests that agents may perform
  performed,      \* how often a request was performed
  outcome         \* what the client was told, "none" so far

Outcomes == {"none", "unmatched", "failed", "refused", "finished"}

Init ==
  /\ released = {}
  /\ performed = [r \in Requests |-> 0]
  /\ outcome = [r \in Requests |-> "none"]

\* The request ends before any agent hears of it: nothing matched it, no agent
\* serves it, or the policy refuses it.
Settle(r, how) ==
  /\ outcome[r] = "none" /\ r \notin released
  /\ outcome' = [outcome EXCEPT ![r] = how]
  /\ UNCHANGED <<released, performed>>

Release(r) ==
  /\ outcome[r] = "none" /\ r \notin released
  /\ released' = released \cup {r}
  /\ UNCHANGED <<performed, outcome>>

Perform(r) ==
  /\ r \in released
  /\ performed[r] = 0
  /\ performed' = [performed EXCEPT ![r] = 1]
  /\ UNCHANGED <<released, outcome>>

\* The agent's own result is passed on, whether good or bad.
Finish(r) ==
  /\ outcome[r] = "none"
  /\ performed[r] = 1
  /\ outcome' = [outcome EXCEPT ![r] = "finished"]
  /\ UNCHANGED <<released, performed>>

\* The agent cannot be reached, goes away, or does not answer in time.
GiveUp(r) ==
  /\ outcome[r] = "none"
  /\ r \in released
  /\ outcome' = [outcome EXCEPT ![r] = "failed"]
  /\ UNCHANGED <<released, performed>>

Next ==
  \E r \in Requests :
    \/ \E how \in {"unmatched", "failed", "refused"} : Settle(r, how)
    \/ Release(r)
    \/ Perform(r)
    \/ Finish(r)
    \/ GiveUp(r)

Spec == Init /\ [][Next]_<<released, performed, outcome>>
===============================================================================
