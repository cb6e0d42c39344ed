--------------------------- MODULE CommandPathProofs ---------------------------
(***************************************************************************)
(* Theorems about CommandPath, for queries of any words and for keyword    *)
(* tables of any size: what was asked of the policy before a command ran.  *)
(***************************************************************************)
EXTENDS CommandPath, TLAPS

Found == agent \in DOMAIN Announces /\ cap \in Announces[agent]

\* The policy was asked about what runs: about the agent that runs it and a
\* capability that this agent announces, and allowed them.
PolicyWasAsked == outcome.runs # "nothing" => Found /\ Allowed(agent, cap)

\* An agent is found before the policy is asked, both before the task is sent,
\* and nothing has run before that; what a reply says is what the agent said of
\* these words.
StagesInOrder ==
  /\ pc \in {"check", "dispatch"} => Found
  /\ pc = "dispatch" => Allowed(agent, cap)
  /\ pc # "answered" => outcome = Nothing
  /\ outcome = Nothing \/ (Found /\ Allowed(agent, cap))

-------------------------------------------------------------------------------
LEMMA PathInvariant == PathSpec => []StagesInOrder
<1>1. PathInit => StagesInOrder
  BY DEF PathInit, StagesInOrder, Nothing, Outcome
<1>2. StagesInOrder /\ [PathNext]_pathVars => StagesInOrder'
  <2> SUFFICES ASSUME StagesInOrder, [PathNext]_pathVars PROVE StagesInOrder'
    OBVIOUS
  <2>0. Nothing.success = FALSE /\ Nothing.runs = "nothing"
    BY DEF Nothing, Outcome
  <2>1. CASE Receive \/ Route \/ Classify \/ CheckPolicy
    <3>1. /\ pc # "answered" /\ outcome = Nothing /\ outcome' = Nothing
          /\ pc' \in {"route", "classify", "find", "dispatch", "answered"}
      BY <2>1 DEF Receive, Route, Classify, CheckPolicy, StagesInOrder
    <3>2. pc' = "dispatch" => Found' /\ Allowed(agent, cap)'
      <4>1. CASE CheckPolicy
        BY <4>1 DEF CheckPolicy, StagesInOrder, Found, Allowed
      <4> QED
        BY <2>1, <4>1 DEF Receive, Route, Classify
    <3> QED
      BY <2>0, <3>1, <3>2 DEF StagesInOrder
  <2>2. CASE FindAgent
    <3>1. /\ outcome' = Nothing /\ pc' \in {"check", "answered"}
          /\ pc' = "check" => Found'
      BY <2>2 DEF FindAgent, StagesInOrder, Found
    <3> QED
      BY <2>0, <3>1 DEF StagesInOrder
  <2>3. ASSUME NEW end \in Ends, Dispatch(end) PROVE StagesInOrder'
    <3>1. /\ Found /\ Allowed(agent, cap) /\ pc' = "answered"
          /\ UNCHANGED <<words, capitals, argument, cap, agent>>
      BY <2>3 DEF Dispatch, StagesInOrder, query
    <3>2. Found' /\ Allowed(agent, cap)'
      BY <3>1 DEF Found, Allowed
    <3> QED
      BY <3>1, <3>2 DEF StagesInOrder
  <2>4. CASE Reply
    BY <2>0, <2>4 DEF Reply, StagesInOrder
  <2>5. CASE UNCHANGED pathVars
    <3>1. UNCHANGED <<pc, words, capitals, argument, cap, agent, outcome>>
      BY <2>5 DEF pathVars
    <3> QED
      BY <3>1 DEF StagesInOrder, Found, Allowed, Heard
  <2> QED
    BY <2>1, <2>2, <2>3, <2>4, <2>5 DEF PathNext
<1> QED
  BY <1>1, <1>2, PTL DEF PathSpec

\* No command runs without the policy's consent to the agent and to a capability
\* that this agent announced; that the command belongs to the capability is what
\* does not follow.
THEOREM NothingRunsUnasked == PathSpec => []PolicyWasAsked
<1>1. StagesInOrder => PolicyWasAsked
  BY DEF StagesInOrder, PolicyWasAsked, Nothing, Outcome
<1> QED
  BY <1>1, PathInvariant, PTL
===============================================================================
