------------------------------ MODULE PolicyRules ------------------------------
(***************************************************************************)
(* Which rule of the policy engine decides a request: the pure part of     *)
(* policy_check (policy-engine/policy/policy.c).  The loop that finds this *)
(* rule is in PolicyStore.tla.  Matching a name against a pattern is the   *)
(* constant relation AgentMatch ("*", equality or fnmatch).                *)
(***************************************************************************)
EXTENDS Integers

CONSTANTS
  AnyCapability,     \* the capability "*"
  AgentMatch         \* match_agent, pairs of a rule's agent and an agent

Matches(r, q) == /\ r.cap \in {AnyCapability, q.cap}
                 /\ <<r.agent, q.agent>> \in AgentMatch

\* The matching rules of a store, those of a negative priority left out,
\* because best_prio starts at -1.
Applicable(t, q) == {k \in DOMAIN t : Matches(t[k], q) /\ t[k].prio >= 0}

Outranks(t, k, l) == t[k].prio > t[l].prio \/ (t[k].prio = t[l].prio /\ k <= l)

\* Does the store decide a for q?  The applicable rule of the highest
\* priority does, of equals the first; without one the answer is "deny".
IsDecision(t, q, a) ==
  \/ Applicable(t, q) = {} /\ a = "deny"
  \/ \E k \in Applicable(t, q) :
       (\A l \in Applicable(t, q) : Outranks(t, k, l)) /\ a = t[k].action
===============================================================================
