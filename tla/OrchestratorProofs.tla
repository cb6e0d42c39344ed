-------------------------- MODULE OrchestratorProofs --------------------------
(***************************************************************************)
(* Theorems about Orchestrator, for any number of requests, agents,        *)
(* capabilities and slots.                                                 *)
(***************************************************************************)
EXTENDS Orchestrator, WellFoundedInduction, TLAPS

-------------------------------------------------------------------------------
(* The registry: the searches return the first hit, and registry_register     *)
(* keeps the array's type, bound and the uniqueness of names.                 *)

\* What a search by capability returns are slot numbers.
LEMMA CapableAreSlots ==
  ASSUME NEW R, NEW reg \in Seq(R), NEW c
  PROVE  Capable(reg, c) \in SUBSET Nat
<1>1. Capable(reg, c) \subseteq DOMAIN reg
  BY DEF Capable
<1>2. DOMAIN reg \subseteq Nat
  OBVIOUS
<1> QED
  BY <1>1, <1>2, Zenon

\* The first slot of a search that hits anything is one of the hits, and none
\* comes before it (the for loops of registry.c return at the first match).
LEMMA FirstOfIsLeast ==
  ASSUME NEW S \in SUBSET Nat, S # {}
  PROVE  FirstOf(S) \in S /\ \A k \in S : FirstOf(S) <= k
<1>1. PICK x \in S : \A y \in S : ~ (<<y, x>> \in OpToRel(<, Nat))
  BY NatLessThanWellFounded, WFMin
<1>2. \A y \in S : ~ (y < x)
  BY <1>1 DEF OpToRel
<1>3. \A y \in S : x <= y
  <2> TAKE y \in S
  <2>1. x \in Nat /\ y \in Nat
    OBVIOUS
  <2>2. ~ (y < x)
    BY <1>2
  <2>3. QED
    BY <2>1, <2>2
<1>4. \E i \in S : \A k \in S : i <= k
  BY <1>3
<1>5. QED
  BY <1>4 DEF FirstOf

\* Both searches look only at slots of the array.
LEMMA SearchesAreSlots ==
  ASSUME NEW reg \in Seq(AgentInfo), NEW n, NEW c
  PROVE  /\ Named(reg, n) \subseteq DOMAIN reg
         /\ Capable(reg, c) \subseteq DOMAIN reg
         /\ DOMAIN reg \subseteq Nat
BY DEF Named, Capable

\* registry_register overwrites the record of that name in place, appends a
\* new name at the end, or changes nothing: the three outcomes, slot by slot.
LEMMA RegisterInCases ==
  ASSUME NEW T \in SUBSET AgentInfo, NEW reg \in Seq(T), NEW a \in T
  PROVE  \/ \E i \in DOMAIN reg : /\ reg[i].name = a.name
                                  /\ RegisterIn(reg, a) = [reg EXCEPT ![i] = a]
         \/ /\ \A i \in DOMAIN reg : reg[i].name # a.name
            /\ Len(reg) < MaxAgents
            /\ RegisterIn(reg, a) = Append(reg, a)
         \/ /\ \A i \in DOMAIN reg : reg[i].name # a.name
            /\ RegisterIn(reg, a) = reg
<1>1. CASE Named(reg, a.name) # {}
  <2>1. Named(reg, a.name) \in SUBSET Nat
    BY DEF Named
  <2>2. FirstOf(Named(reg, a.name)) \in Named(reg, a.name)
    BY <1>1, <2>1, FirstOfIsLeast
  <2>3. QED
    BY <1>1, <2>2 DEF RegisterIn, Named
<1>2. CASE Named(reg, a.name) = {}
  <2>1. \A i \in DOMAIN reg : reg[i].name # a.name
    BY <1>2 DEF Named
  <2>2. Len(reg) \in Nat /\ MaxAgents \in Nat
    BY RegistryAssumption
  <2>3. CASE Len(reg) >= MaxAgents
    BY <1>2, <2>1, <2>3 DEF RegisterIn
  <2>4. CASE Len(reg) < MaxAgents
    BY <1>2, <2>1, <2>2, <2>4 DEF RegisterIn
  <2>5. QED
    BY <2>2, <2>3, <2>4
<1>3. QED
  BY <1>1, <1>2

\* Registration keeps the array a sequence of records of the same kind.
LEMMA RegisterInType ==
  ASSUME NEW T \in SUBSET AgentInfo, NEW reg \in Seq(T), NEW a \in T
  PROVE  RegisterIn(reg, a) \in Seq(T)
<1>1. CASE \E i \in DOMAIN reg : /\ reg[i].name = a.name
                                 /\ RegisterIn(reg, a) = [reg EXCEPT ![i] = a]
  BY <1>1
<1>2. CASE RegisterIn(reg, a) = Append(reg, a)
  BY <1>2
<1>3. CASE RegisterIn(reg, a) = reg
  BY <1>3
<1>4. QED
  BY <1>1, <1>2, <1>3, RegisterInCases

\* Registration keeps the array within its bound, with one record per name.
THEOREM RegisterInPreserves ==
  ASSUME NEW T \in SUBSET AgentInfo, NEW reg \in Seq(T), NEW a \in T,
         Len(reg) <= MaxAgents, NamesUnique(reg)
  PROVE  /\ Len(RegisterIn(reg, a)) <= MaxAgents
         /\ NamesUnique(RegisterIn(reg, a))
<1>0. MaxAgents \in Nat /\ Len(reg) \in Nat
  BY RegistryAssumption
<1>1. CASE \E i \in DOMAIN reg : /\ reg[i].name = a.name
                                 /\ RegisterIn(reg, a) = [reg EXCEPT ![i] = a]
  BY <1>1 DEF NamesUnique
<1>2. CASE /\ \A i \in DOMAIN reg : reg[i].name # a.name
           /\ Len(reg) < MaxAgents
           /\ RegisterIn(reg, a) = Append(reg, a)
  BY <1>0, <1>2 DEF NamesUnique
<1>3. CASE RegisterIn(reg, a) = reg
  BY <1>3
<1>4. QED
  BY <1>1, <1>2, <1>3, RegisterInCases

-------------------------------------------------------------------------------
(* The handler.                                                               *)

\* The only thing the proofs of the abstract predicates need of a handler's
\* end: the reply is appended and the request's locals are reset.
LEMMA RespondType ==
  ASSUME TypeOK, cur \in Requests,
         NEW status \in {"success", "error"}, NEW code \in Codes,
         NEW from \in {"daemon", "agent"},
         Respond(status, code, from)
  PROVE  /\ replies' \in [Requests -> Seq(Reply)]
         /\ pc' \in Places /\ cur' = None /\ cap' = NoCap /\ agent' = 0
         /\ conn' = "closed" /\ answer' = "none"
<1>1. [status |-> status, code |-> code, from |-> from] \in Reply
  BY DEF Reply
<1>2. replies[cur] \in Seq(Reply)
  BY DEF TypeOK
<1>3. Append(replies[cur], [status |-> status, code |-> code, from |-> from]) \in Seq(Reply)
  BY <1>1, <1>2
<1>4. QED
  BY <1>3 DEF Respond, TypeOK, Places

LEMMA FinishDispatchType ==
  ASSUME TypeOK, cur \in Requests,
         NEW status \in {"success", "error"}, NEW code \in Codes,
         NEW from \in {"daemon", "agent"},
         FinishDispatch(status, code, from)
  PROVE  TypeOK'
<1>1. metrics' \in [total : Nat, success : Nat, failed : Nat]
  BY DEF FinishDispatch, RecordRequest, TypeOK
<1>2. QED
  BY <1>1, RespondType DEF FinishDispatch, TypeOK, agentVars

\* The place of the handler and the request in hand go together.
BusyHasRequest == pc # "idle" <=> cur \in Requests

-------------------------------------------------------------------------------
\* Every variable of the daemon and of the agents keeps its type.  The request
\* in hand is part of the induction: an exit answers replies[cur].
THEOREM TypeCorrect == Spec => [](TypeOK /\ BusyHasRequest)
<1>1. Init => TypeOK /\ BusyHasRequest
  BY OrchestratorAssumption
     DEF Init, TypeOK, BusyHasRequest, Places, Verdicts, Reply
<1>2. TypeOK /\ BusyHasRequest /\ [Next]_vars => TypeOK' /\ BusyHasRequest'
  <2> SUFFICES ASSUME TypeOK, BusyHasRequest, [Next]_vars
               PROVE  TypeOK' /\ BusyHasRequest'
    OBVIOUS
  <2> USE OrchestratorAssumption
  <2>1. ASSUME NEW a \in Registrations, HandleRegister(a)
        PROVE  TypeOK' /\ BusyHasRequest'
    <3>1. registry' \in Seq(Registrations)
      <4>1. registry \in Seq(Registrations) /\ Registrations \in SUBSET AgentInfo
        BY DEF TypeOK
      <4>2. RegisterIn(registry, a) \in Seq(Registrations)
        BY <4>1, RegisterInType
      <4>3. QED
        BY <2>1, <4>2 DEF HandleRegister
    <3>2. acked' \in [Names -> Registrations \cup {None}]
      BY <2>1 DEF HandleRegister, TypeOK
    <3>3. QED
      BY <2>1, <3>1, <3>2 DEF HandleRegister, TypeOK, BusyHasRequest, agentVars
  <2>2. ASSUME NEW r \in Requests, HandleRequest(r)
        PROVE  TypeOK' /\ BusyHasRequest'
    BY <2>2 DEF HandleRequest, TypeOK, BusyHasRequest, agentVars, Places
  <2>3. ASSUME NEW out \in {"unreachable", "unknown", "no_intent"} \cup Caps,
               RuleClientQuery(out)
        PROVE  TypeOK' /\ BusyHasRequest'
    BY <2>3 DEF RuleClientQuery, Goto, TypeOK, BusyHasRequest, agentVars, Places
  <2>4. CASE RouterResolve
    BY <2>4 DEF RouterResolve, Goto, TypeOK, BusyHasRequest, agentVars, Places
  <2>5. ASSUME NEW out \in {"unreachable", "unknown"} \cup Caps,
               IntentClientClassify(out)
        PROVE  TypeOK' /\ BusyHasRequest'
    <3>1. CASE out \in {"unreachable", "unknown"}
      <4>1. Respond("success", "NONE", "daemon") /\ cur \in Requests
        BY <2>5, <3>1 DEF IntentClientClassify, BusyHasRequest
      <4>2. /\ replies' \in [Requests -> Seq(Reply)]
            /\ pc' \in Places /\ cur' = None /\ cap' = NoCap /\ agent' = 0
            /\ conn' = "closed" /\ answer' = "none"
        BY <4>1, RespondType DEF Codes
      <4>3. pc' = "idle"
        BY <4>1 DEF Respond
      <4>4. QED
        BY <2>5, <3>1, <4>2, <4>3
           DEF IntentClientClassify, TypeOK, BusyHasRequest, agentVars
    <3>2. CASE out \notin {"unreachable", "unknown"}
      BY <2>5, <3>2
         DEF IntentClientClassify, Goto, TypeOK, BusyHasRequest, agentVars, Places
    <3>3. QED
      BY <3>1, <3>2
  <2>6. CASE RegistryFindByCapability
    <3>1. CASE Capable(registry, cap) = {}
      <4>1. Respond("error", "AGENT_UNAVAILABLE", "daemon") /\ cur \in Requests
        BY <2>6, <3>1 DEF RegistryFindByCapability, BusyHasRequest
      <4>2. /\ replies' \in [Requests -> Seq(Reply)]
            /\ pc' \in Places /\ cur' = None /\ cap' = NoCap /\ agent' = 0
            /\ conn' = "closed" /\ answer' = "none"
        BY <4>1, RespondType DEF Codes
      <4>3. pc' = "idle"
        BY <4>1 DEF Respond
      <4>4. QED
        BY <2>6, <3>1, <4>2, <4>3
           DEF RegistryFindByCapability, TypeOK, BusyHasRequest, agentVars
    <3>2. CASE Capable(registry, cap) # {}
      <4>1. Capable(registry, cap) \in SUBSET Nat
        BY CapableAreSlots DEF TypeOK
      <4>2. FirstOf(Capable(registry, cap)) \in Nat
        BY <3>2, <4>1, FirstOfIsLeast
      <4>3. QED
        BY <2>6, <3>2, <4>2
           DEF RegistryFindByCapability, Goto, TypeOK, BusyHasRequest, agentVars, Places
    <3>3. QED
      BY <3>1, <3>2
  <2>7. ASSUME NEW out \in {"unreachable", "allow"} \cup Refusals,
               PolicyClientCheck(out)
        PROVE  TypeOK' /\ BusyHasRequest'
    <3>1. verdict' \in [Requests -> Verdicts]
      BY <2>7 DEF PolicyClientCheck, TypeOK, Verdicts
    <3>2. CASE out \in Refusals
      <4>1. Respond("error", "POLICY_DENIED", "daemon") /\ cur \in Requests
        BY <2>7, <3>2 DEF PolicyClientCheck, BusyHasRequest
      <4>2. /\ replies' \in [Requests -> Seq(Reply)]
            /\ pc' \in Places /\ cur' = None /\ cap' = NoCap /\ agent' = 0
            /\ conn' = "closed" /\ answer' = "none"
        BY <4>1, RespondType DEF Codes
      <4>3. pc' = "idle"
        BY <4>1 DEF Respond
      <4>4. QED
        BY <2>7, <3>1, <3>2, <4>2, <4>3
           DEF PolicyClientCheck, TypeOK, BusyHasRequest, agentVars
    <3>3. CASE out \notin Refusals
      BY <2>7, <3>1, <3>3
         DEF PolicyClientCheck, Goto, TypeOK, BusyHasRequest, agentVars, Places
    <3>4. QED
      BY <3>2, <3>3
  <2>8. CASE AgentClientConnect
    <3>1. CASE Connectable
      BY <2>8, <3>1
         DEF AgentClientConnect, TypeOK, BusyHasRequest, agentVars, Places
    <3>2. CASE ~Connectable
      BY <2>8, <3>2, FinishDispatchType
         DEF AgentClientConnect, BusyHasRequest, Codes, FinishDispatch, Respond
    <3>3. QED
      BY <3>1, <3>2
  <2>9. CASE AgentClientSend
    <3>1. CASE conn = "eof"
      <4>1. FinishDispatch("error", "AGENT_DISCONNECTED", "daemon") /\ cur \in Requests
        BY <2>9, <3>1 DEF AgentClientSend, BusyHasRequest
      <4>2. QED
        BY <4>1, FinishDispatchType, OrchestratorAssumption
           DEF BusyHasRequest, Codes, FinishDispatch, Respond
    <3>2. CASE conn # "eof"
      <4>1. pending' = [pending EXCEPT ![Target] = @ \cup {cur}]
        BY <2>9, <3>2 DEF AgentClientSend
      <4>2. cur \in Requests
        BY <2>9 DEF AgentClientSend, BusyHasRequest
      <4>3. pending' \in [Socks -> SUBSET Requests]
        BY <4>1, <4>2 DEF TypeOK
      <4>4. QED
        BY <2>9, <3>2, <4>3 DEF AgentClientSend, TypeOK, BusyHasRequest, Places
    <3>3. QED
      BY <3>1, <3>2
  <2>10. CASE AgentClientRead
    <3>1. CASE FinishDispatch("success", "NONE", "agent")
      BY <2>10, <3>1, FinishDispatchType
         DEF AgentClientRead, BusyHasRequest, Codes, FinishDispatch, Respond
    <3>2. CASE FinishDispatch("error", "INTERNAL_ERROR", "agent")
      BY <2>10, <3>2, FinishDispatchType
         DEF AgentClientRead, BusyHasRequest, Codes, FinishDispatch, Respond
    <3>3. CASE FinishDispatch("error", "AGENT_TIMEOUT", "daemon")
      BY <2>10, <3>3, FinishDispatchType
         DEF AgentClientRead, BusyHasRequest, Codes, FinishDispatch, Respond
    <3>4. QED
      BY <2>10, <3>1, <3>2, <3>3 DEF AgentClientRead
  <2>11. CASE AgentClientTimeout
    BY <2>11, FinishDispatchType
       DEF AgentClientTimeout, BusyHasRequest, Codes, FinishDispatch, Respond
  <2>12. ASSUME NEW s \in Socks, AgentStart(s)
         PROVE  TypeOK' /\ BusyHasRequest'
    BY <2>12 DEF AgentStart, TypeOK, BusyHasRequest, daemonVars
  <2>13. ASSUME NEW s \in Socks, NEW r \in Requests, AgentTake(s, r)
         PROVE  TypeOK' /\ BusyHasRequest'
    BY <2>13 DEF AgentTake, TypeOK, BusyHasRequest, daemonVars
  <2>14. ASSUME NEW s \in Socks, NEW result \in {"success", "error"},
                AgentAnswer(s, result)
         PROVE  TypeOK' /\ BusyHasRequest'
    BY <2>14 DEF AgentAnswer, TypeOK, BusyHasRequest, daemonVars
  <2>15. ASSUME NEW s \in Socks, AgentCrash(s)
         PROVE  TypeOK' /\ BusyHasRequest'
    BY <2>15 DEF AgentCrash, TypeOK, BusyHasRequest, daemonVars
  <2>16. CASE UNCHANGED vars
    BY <2>16 DEF vars, TypeOK, BusyHasRequest
  <2>17. QED
    BY <2>1, <2>2, <2>3, <2>4, <2>5, <2>6, <2>7, <2>8, <2>9, <2>10, <2>11,
       <2>12, <2>13, <2>14, <2>15, <2>16
       DEF Next, HandlerStep, AgentStep
<1>3. QED
  BY <1>1, <1>2, PTL DEF Spec

-------------------------------------------------------------------------------
(* The inductive invariant. *)

\* Every exit of the handler keeps the invariant: the request in hand gets its
\* only reply, "success" from an agent only if that agent took it up, and the
\* tasks of the others are where they were.
LEMMA RespondKeepsInvariant ==
  ASSUME TypeOK, BusyHasRequest, IInv, pc # "idle",
         NEW status, NEW code, NEW from,
         Respond(status, code, from),
         from = "agent" => execs[cur] = 1,
         \/ verdict' = verdict
         \/ ~InDispatch /\ \E out \in Refusals : verdict' = [verdict EXCEPT ![cur] = out],
         UNCHANGED <<registry, acked, pending, running, execs>>
  PROVE  IInv'
<1> DEFINE reply == [status |-> status, code |-> code, from |-> from]
<1>0. cur \in Requests /\ cur # None
  BY OrchestratorAssumption DEF BusyHasRequest
<1>1. /\ replies' = [replies EXCEPT ![cur] = <<reply>>]
      /\ pc' = "idle" /\ cur' = None /\ answer' = "none"
  BY <1>0 DEF Respond, IInv, HandlerHoldsRequest, TypeOK
<1>2. /\ \A r \in Requests : r # cur => verdict'[r] = verdict[r]
      /\ \A r \in Requests : Permitted(r)' => Permitted(r)
  BY <1>0 DEF TypeOK, Permitted, Refusals
<1>3. HandlerHoldsRequest'
  BY <1>0, <1>1, <1>2, OrchestratorAssumption
     DEF IInv, HandlerHoldsRequest, TypeOK, InDispatch
<1>4. TaskIsInOnePlace'
  <2> SUFFICES ASSUME NEW r \in Requests
      PROVE  /\ ~Permitted(r)' =>
                  execs[r] = 0 /\ \A s \in Socks : r \notin pending[s] /\ running[s] # r
             /\ \A s \in Socks : r \in pending[s] =>
                  execs[r] = 0 /\ \A t \in Socks : r \in pending[t] => s = t
             /\ \A s \in Socks : running[s] = r => execs[r] = 1
    BY <1>1, OrchestratorAssumption DEF TaskIsInOnePlace
  <2>1. ~Permitted(r)' => ~Permitted(r) \/ (r = cur /\ ~InDispatch)
    <3>1. CASE r # cur
      BY <1>2, <3>1 DEF Permitted
    <3>2. CASE verdict' = verdict
      BY <3>2 DEF Permitted
    <3>3. CASE r = cur /\ ~InDispatch
      BY <3>3
    <3>4. QED
      BY <3>1, <3>2, <3>3
  <2>2. r = cur /\ ~InDispatch => ~Permitted(r)
    BY DEF IInv, HandlerHoldsRequest, Permitted
  <2>3. QED
    BY <2>1, <2>2 DEF IInv, TaskIsInOnePlace
<1>5. AnswerIsForRequest' /\ AgentPointerFresh'
  BY <1>1 DEF AnswerIsForRequest, AgentPointerFresh
<1>6. AtMostOneReply'
  BY <1>0, <1>1 DEF IInv, AtMostOneReply, TypeOK
<1>7. ExecutedAtMostOnce' /\ RegistryIsLastAcked'
  BY DEF IInv, ExecutedAtMostOnce, RegistryIsLastAcked, NamesUnique
<1>8. SuccessMeansExecuted'
  <2> SUFFICES ASSUME NEW r \in Requests, NEW i \in DOMAIN (replies'[r]),
                      replies'[r][i].from = "agent"
               PROVE  execs[r] = 1
    BY DEF SuccessMeansExecuted
  <2>1. CASE r = cur
    BY <1>0, <1>1, <2>1 DEF TypeOK
  <2>2. CASE r # cur
    BY <1>1, <2>2 DEF IInv, SuccessMeansExecuted, TypeOK
  <2>3. QED
    BY <2>1, <2>2
<1>9. QED
  BY <1>3, <1>4, <1>5, <1>6, <1>7, <1>8 DEF IInv

\* The registry's part of the invariant: what the array holds is what was
\* acknowledged last, one record per name.
LEMMA HandleRegisterKeepsRegistry ==
  ASSUME TypeOK, RegistryIsLastAcked, NEW a \in Registrations, HandleRegister(a)
  PROVE  RegistryIsLastAcked'
<1>0. /\ registry \in Seq(Registrations) /\ Registrations \in SUBSET AgentInfo
      /\ \A i \in DOMAIN registry : registry[i].name \in Names
  BY OrchestratorAssumption DEF TypeOK, AgentInfo
<1>1. registry' = RegisterIn(registry, a)
  BY DEF HandleRegister
<1>2. Len(registry') <= MaxAgents /\ NamesUnique(registry')
  BY <1>0, <1>1, RegisterInPreserves DEF RegistryIsLastAcked
<1>3. /\ a.name \in Names
      /\ acked'[a.name] = a
      /\ \A n \in Names : n # a.name => acked'[n] = acked[n]
  BY OrchestratorAssumption DEF HandleRegister, TypeOK, AgentInfo
<1>4. \A i \in DOMAIN registry' : registry'[i] = acked'[registry'[i].name]
  <2>1. CASE \E k \in DOMAIN registry : /\ registry[k].name = a.name
                                        /\ registry' = [registry EXCEPT ![k] = a]
    BY <1>0, <1>3, <2>1 DEF RegistryIsLastAcked, NamesUnique
  <2>2. CASE /\ \A k \in DOMAIN registry : registry[k].name # a.name
             /\ registry' = Append(registry, a)
    BY <1>0, <1>3, <2>2 DEF RegistryIsLastAcked
  <2>3. CASE /\ \A k \in DOMAIN registry : registry[k].name # a.name
             /\ registry' = registry
    BY <1>0, <1>3, <2>3 DEF RegistryIsLastAcked
  <2>4. QED
    BY <1>0, <1>1, <2>1, <2>2, <2>3, RegisterInCases
<1>5. QED
  BY <1>2, <1>4 DEF RegistryIsLastAcked

\* A step of the handler that neither ends it nor touches a task keeps the
\* invariant when it leaves pointer and verdict in order.
LEMMA GotoKeepsInvariant ==
  ASSUME TypeOK, BusyHasRequest, IInv, pc # "idle", ~InDispatch,
         NEW place \in Places \ {"idle", "send", "read"}, Goto(place),
         AgentPointerFresh',
         \/ verdict' = verdict /\ place # "connect"
         \/ \E out \in {"unreachable", "allow"} :
              place = "connect" /\ verdict' = [verdict EXCEPT ![cur] = out]
  PROVE  IInv'
<1>0. cur \in Requests /\ cur # None
  BY OrchestratorAssumption DEF BusyHasRequest
<1>1. /\ pc' = place
      /\ UNCHANGED <<registry, acked, cur, answer, replies, pending, running, execs>>
  BY DEF Goto, agentVars
<1>2. \A r \in Requests : r # cur => verdict'[r] = verdict[r]
  BY <1>0 DEF TypeOK
<1>3. /\ place = "connect" => verdict'[cur] \in {"unreachable", "allow"}
      /\ place # "connect" => verdict'[cur] = verdict[cur]
  BY <1>0 DEF TypeOK
<1>4. HandlerHoldsRequest'
  BY <1>0, <1>1, <1>2, <1>3
     DEF IInv, HandlerHoldsRequest, InDispatch, Permitted, Places
<1>5. TaskIsInOnePlace'
  <2>1. ~Permitted(cur)
    BY DEF IInv, HandlerHoldsRequest, Permitted
  <2>2. \A r \in Requests : ~Permitted(r)' => ~Permitted(r)
    BY <1>2, <2>1 DEF Permitted
  <2>3. QED
    BY <1>1, <2>1, <2>2 DEF IInv, TaskIsInOnePlace
<1>6. AnswerIsForRequest'
  BY <1>1 DEF IInv, AnswerIsForRequest, InDispatch
<1>7. QED
  BY <1>1, <1>4, <1>5, <1>6
     DEF IInv, AtMostOneReply, ExecutedAtMostOnce, SuccessMeansExecuted,
         RegistryIsLastAcked, NamesUnique

\* The invariant holds of every reachable state: of the handler, of the
\* registry and of the agents, whatever they do between two of its steps.
THEOREM InductiveInvariant == Spec => []IInv
<1>1. Init => IInv
  BY OrchestratorAssumption, RegistryAssumption
     DEF Init, IInv, HandlerHoldsRequest, InDispatch, Permitted, TaskIsInOnePlace,
         AnswerIsForRequest, AtMostOneReply, ExecutedAtMostOnce,
         SuccessMeansExecuted, AgentPointerFresh, RegistryIsLastAcked, NamesUnique
<1>2. /\ TypeOK /\ BusyHasRequest /\ IInv
      /\ TypeOK' /\ BusyHasRequest'
      /\ [Next]_vars
      => IInv'
  <2> SUFFICES ASSUME TypeOK, BusyHasRequest, IInv, [Next]_vars,
                      TypeOK', BusyHasRequest'
               PROVE  IInv'
    OBVIOUS
  <2> USE OrchestratorAssumption
  <2>1. ASSUME NEW a \in Registrations, HandleRegister(a)
        PROVE  IInv'
    <3>1. RegistryIsLastAcked'
      BY <2>1, HandleRegisterKeepsRegistry DEF IInv
    <3>2. QED
      BY <2>1, <3>1
         DEF HandleRegister, IInv, HandlerHoldsRequest, InDispatch, Permitted,
             TaskIsInOnePlace, AnswerIsForRequest, AtMostOneReply,
             ExecutedAtMostOnce, SuccessMeansExecuted, AgentPointerFresh, agentVars
  <2>2. ASSUME NEW r \in Requests, HandleRequest(r)
        PROVE  IInv'
    <3>1. /\ UNCHANGED <<registry, acked, verdict, answer, replies, pending, running, execs>>
          /\ pc = "idle" /\ pc' = "rule" /\ cur' = r /\ replies[r] = <<>>
      BY <2>2 DEF HandleRequest, agentVars
    <3>2. cur = None
      BY <3>1 DEF IInv, HandlerHoldsRequest
    <3>3. HandlerHoldsRequest'
      BY <3>1, <3>2 DEF IInv, HandlerHoldsRequest, InDispatch
    <3>4. TaskIsInOnePlace'
      BY <3>1 DEF IInv, TaskIsInOnePlace, Permitted
    <3>5. AnswerIsForRequest' /\ AgentPointerFresh'
      BY <3>1 DEF IInv, AnswerIsForRequest, AgentPointerFresh
    <3>6. QED
      BY <3>1, <3>3, <3>4, <3>5
         DEF IInv, AtMostOneReply, ExecutedAtMostOnce, SuccessMeansExecuted,
             RegistryIsLastAcked, NamesUnique
  <2>3. ASSUME NEW out \in {"unreachable", "unknown", "no_intent"} \cup Caps,
               RuleClientQuery(out)
        PROVE  IInv'
    <3>1. pc = "rule" /\ verdict' = verdict /\ (Goto("router") \/ Goto("find"))
      BY <2>3 DEF RuleClientQuery
    <3>2. AgentPointerFresh'
      BY <3>1 DEF Goto, AgentPointerFresh
    <3>3. QED
      BY <3>1, <3>2, GotoKeepsInvariant DEF Places, InDispatch
  <2>4. CASE RouterResolve
    <3>1. pc = "router" /\ verdict' = verdict /\ (Goto("classify") \/ Goto("find"))
      BY <2>4 DEF RouterResolve
    <3>2. AgentPointerFresh'
      BY <3>1 DEF Goto, AgentPointerFresh
    <3>3. QED
      BY <3>1, <3>2, GotoKeepsInvariant DEF Places, InDispatch
  <2>5. ASSUME NEW out \in {"unreachable", "unknown"} \cup Caps,
               IntentClientClassify(out)
        PROVE  IInv'
    <3>1. CASE out \in {"unreachable", "unknown"}
      BY <2>5, <3>1, RespondKeepsInvariant DEF IntentClientClassify, agentVars
    <3>2. CASE out \notin {"unreachable", "unknown"}
      <4>1. pc = "classify" /\ verdict' = verdict /\ Goto("find")
        BY <2>5, <3>2 DEF IntentClientClassify
      <4>2. AgentPointerFresh'
        BY <4>1 DEF Goto, AgentPointerFresh
      <4>3. QED
        BY <4>1, <4>2, GotoKeepsInvariant DEF Places, InDispatch
    <3>3. QED
      BY <3>1, <3>2
  <2>6. CASE RegistryFindByCapability
    <3>1. CASE Capable(registry, cap) = {}
      BY <2>6, <3>1, RespondKeepsInvariant DEF RegistryFindByCapability, agentVars
    <3>2. CASE Capable(registry, cap) # {}
      <4>1. /\ pc = "find" /\ verdict' = verdict /\ Goto("policy")
            /\ agent' = FirstOf(Capable(registry, cap)) /\ cap' = cap
        BY <2>6, <3>2 DEF RegistryFindByCapability
      <4>2. Capable(registry, cap) \in SUBSET Nat
        BY CapableAreSlots DEF TypeOK
      <4>3. AgentPointerFresh'
        BY <3>2, <4>1, <4>2, FirstOfIsLeast DEF Goto, AgentPointerFresh
      <4>4. QED
        BY <4>1, <4>3, GotoKeepsInvariant DEF Places, InDispatch
    <3>3. QED
      BY <3>1, <3>2
  <2>7. ASSUME NEW out \in {"unreachable", "allow"} \cup Refusals,
               PolicyClientCheck(out)
        PROVE  IInv'
    <3>1. CASE out \in Refusals
      BY <2>7, <3>1, RespondKeepsInvariant
         DEF PolicyClientCheck, agentVars, InDispatch
    <3>2. CASE out \notin Refusals
      <4>1. /\ pc = "policy" /\ Goto("connect") /\ cap' = cap /\ agent' = agent
            /\ verdict' = [verdict EXCEPT ![cur] = out]
            /\ out \in {"unreachable", "allow"}
        BY <2>7, <3>2 DEF PolicyClientCheck
      <4>2. AgentPointerFresh'
        BY <4>1 DEF Goto, AgentPointerFresh, IInv
      <4>3. QED
        BY <4>1, <4>2, GotoKeepsInvariant DEF Places, InDispatch
    <3>3. QED
      BY <3>1, <3>2
  <2>8. CASE AgentClientConnect
    <3>1. CASE Connectable
      <4>1. /\ pc = "connect" /\ pc' = "send"
            /\ UNCHANGED <<registry, cur, cap, agent, verdict, acked, answer,
                           replies, pending, running, execs>>
        BY <2>8, <3>1 DEF AgentClientConnect, agentVars
      <4>2. HandlerHoldsRequest'
        BY <4>1 DEF IInv, HandlerHoldsRequest, InDispatch, Permitted
      <4>3. TaskIsInOnePlace'
        BY <4>1 DEF IInv, TaskIsInOnePlace, Permitted
      <4>4. QED
        BY <4>1, <4>2, <4>3
           DEF IInv, AnswerIsForRequest, AgentPointerFresh, AtMostOneReply,
               ExecutedAtMostOnce, SuccessMeansExecuted, RegistryIsLastAcked,
               NamesUnique
    <3>2. CASE ~Connectable
      BY <2>8, <3>2, RespondKeepsInvariant
         DEF AgentClientConnect, FinishDispatch, agentVars
    <3>3. QED
      BY <3>1, <3>2
  <2>9. CASE AgentClientSend
    <3>1. CASE conn = "eof"
      BY <2>9, <3>1, RespondKeepsInvariant
         DEF AgentClientSend, FinishDispatch, agentVars
    <3>2. CASE conn # "eof"
      <4>1. /\ pc = "send" /\ pc' = "read"
            /\ pending' = [pending EXCEPT ![Target] = @ \cup {cur}]
            /\ UNCHANGED <<registry, cur, cap, agent, verdict, acked, answer,
                           replies, running, execs>>
        BY <2>9, <3>2 DEF AgentClientSend
      <4>2. cur \in Requests /\ Permitted(cur)
        BY <4>1 DEF BusyHasRequest, IInv, HandlerHoldsRequest, InDispatch
      <4>3. HandlerHoldsRequest'
        BY <4>1 DEF IInv, HandlerHoldsRequest, InDispatch, Permitted
      <4>4. TaskIsInOnePlace'
        <5> SUFFICES ASSUME NEW r \in Requests
            PROVE  /\ ~Permitted(r) =>
                        execs[r] = 0 /\ \A s \in Socks : r \notin pending'[s] /\ running[s] # r
                   /\ \A s \in Socks : r \in pending'[s] =>
                        execs[r] = 0 /\ \A t \in Socks : r \in pending'[t] => s = t
                   /\ \A s \in Socks : running[s] = r => execs[r] = 1
          BY <4>1 DEF TaskIsInOnePlace, Permitted
        <5>1. CASE r # cur
          <6>1. \A s \in Socks : r \in pending'[s] <=> r \in pending[s]
            BY <4>1, <5>1 DEF TypeOK
          <6>2. QED
            BY <6>1 DEF IInv, TaskIsInOnePlace
        <5>2. CASE r = cur
          <6>1. execs[r] = 0 /\ \A s \in Socks : r \notin pending[s] /\ running[s] # r
            BY <4>1, <5>2 DEF IInv, TaskIsInOnePlace
          <6>2. \A s \in Socks : r \in pending'[s] => s = Target
            BY <4>1, <6>1 DEF TypeOK
          <6>3. QED
            BY <4>2, <5>2, <6>1, <6>2
        <5>3. QED
          BY <5>1, <5>2
      <4>5. QED
        BY <4>1, <4>3, <4>4
           DEF IInv, AnswerIsForRequest, AgentPointerFresh, AtMostOneReply,
               ExecutedAtMostOnce, SuccessMeansExecuted, RegistryIsLastAcked,
               NamesUnique
    <3>3. QED
      BY <3>1, <3>2
  <2>10. CASE AgentClientRead
    <3>1. CASE answer # "none"
      <4>1. execs[cur] = 1
        BY <3>1 DEF IInv, AnswerIsForRequest
      <4>2. QED
        BY <2>10, <3>1, <4>1, RespondKeepsInvariant
           DEF AgentClientRead, FinishDispatch, agentVars
    <3>2. CASE answer = "none"
      BY <2>10, <3>2, RespondKeepsInvariant
         DEF AgentClientRead, FinishDispatch, agentVars
    <3>3. QED
      BY <3>1, <3>2
  <2>11. CASE AgentClientTimeout
    BY <2>11, RespondKeepsInvariant DEF AgentClientTimeout, FinishDispatch, agentVars
  <2>12. ASSUME NEW s \in Socks, AgentStart(s)
         PROVE  IInv'
    BY <2>12
       DEF AgentStart, daemonVars, IInv, HandlerHoldsRequest, InDispatch, Permitted,
           TaskIsInOnePlace, AnswerIsForRequest, AtMostOneReply, ExecutedAtMostOnce,
           SuccessMeansExecuted, AgentPointerFresh, RegistryIsLastAcked, NamesUnique
  <2>13. ASSUME NEW s \in Socks, NEW r \in Requests, AgentTake(s, r)
         PROVE  IInv'
    <3>1. /\ UNCHANGED <<registry, acked, pc, cur, cap, agent, verdict, answer, replies>>
          /\ r \in pending[s] /\ running[s] = None
          /\ pending' = [pending EXCEPT ![s] = @ \ {r}]
          /\ running' = [running EXCEPT ![s] = r]
          /\ execs' = [execs EXCEPT ![r] = @ + 1]
      BY <2>13 DEF AgentTake, daemonVars
    <3>2. execs[r] = 0 /\ \A t \in Socks : r \in pending[t] => t = s
      BY <3>1 DEF IInv, TaskIsInOnePlace
    <3>3. execs'[r] = 1 /\ \A q \in Requests : q # r => execs'[q] = execs[q]
      BY <3>1, <3>2 DEF TypeOK
    <3>4. HandlerHoldsRequest'
      BY <3>1 DEF IInv, HandlerHoldsRequest, InDispatch, Permitted
    <3>5. TaskIsInOnePlace'
      <4> SUFFICES ASSUME NEW q \in Requests
          PROVE  /\ ~Permitted(q) \/ (cur = q /\ pc \in {"connect", "send"}) =>
                      execs'[q] = 0 /\ \A t \in Socks : q \notin pending'[t] /\ running'[t] # q
                 /\ \A t \in Socks : q \in pending'[t] =>
                      execs'[q] = 0 /\ \A u \in Socks : q \in pending'[u] => t = u
                 /\ \A t \in Socks : running'[t] = q => execs'[q] = 1
        BY <3>1 DEF TaskIsInOnePlace, Permitted
      <4>1. CASE q = r
        <5>1. \A t \in Socks : r \notin pending'[t]
          BY <3>1, <3>2 DEF TypeOK
        <5>2. ~ (~Permitted(r) \/ (cur = r /\ pc \in {"connect", "send"}))
          BY <3>1 DEF IInv, TaskIsInOnePlace
        <5>3. QED
          BY <3>3, <4>1, <5>1, <5>2
      <4>2. CASE q # r
        <5>1. \A t \in Socks : /\ q \in pending'[t] <=> q \in pending[t]
                               /\ running'[t] = q => running[t] = q
          BY <3>1, <4>2 DEF TypeOK
        <5>2. QED
          BY <3>3, <4>2, <5>1 DEF IInv, TaskIsInOnePlace
      <4>3. QED
        BY <4>1, <4>2
    <3>6. AnswerIsForRequest'
      <4>1. answer # "none" => pc = "read" /\ execs[cur] = 1 /\ cur \in Requests
        BY DEF IInv, AnswerIsForRequest, BusyHasRequest
      <4>2. QED
        BY <3>1, <3>2, <3>3, <4>1 DEF AnswerIsForRequest
    <3>7. ExecutedAtMostOnce' /\ SuccessMeansExecuted'
      BY <3>1, <3>2, <3>3 DEF IInv, ExecutedAtMostOnce, SuccessMeansExecuted, TypeOK
    <3>8. QED
      BY <3>1, <3>4, <3>5, <3>6, <3>7
         DEF IInv, AtMostOneReply, AgentPointerFresh, RegistryIsLastAcked, NamesUnique
  <2>14. ASSUME NEW s \in Socks, NEW result \in {"success", "error"},
                AgentAnswer(s, result)
         PROVE  IInv'
    <3>1. /\ UNCHANGED <<registry, acked, pc, cur, cap, agent, verdict, replies,
                         pending, execs>>
          /\ running[s] # None
          /\ running' = [running EXCEPT ![s] = None]
          /\ answer' = IF pc = "read" /\ cur = running[s] THEN result ELSE answer
      BY <2>14 DEF AgentAnswer, daemonVars
    <3>2. \A t \in Socks, r \in Requests : running'[t] = r => running[t] = r
      BY <3>1 DEF TypeOK
    <3>3. TaskIsInOnePlace'
      BY <3>1, <3>2 DEF IInv, TaskIsInOnePlace, Permitted
    <3>4. AnswerIsForRequest'
      <4>1. \A r \in Requests : running[s] = r => execs[r] = 1
        BY DEF IInv, TaskIsInOnePlace
      <4>2. running[s] \in Requests
        BY <3>1 DEF TypeOK
      <4>3. QED
        BY <3>1, <4>1, <4>2 DEF IInv, AnswerIsForRequest
    <3>5. QED
      BY <3>1, <3>3, <3>4
         DEF IInv, HandlerHoldsRequest, InDispatch, Permitted, AtMostOneReply,
             ExecutedAtMostOnce, SuccessMeansExecuted, AgentPointerFresh,
             RegistryIsLastAcked, NamesUnique
  <2>15. ASSUME NEW s \in Socks, AgentCrash(s)
         PROVE  IInv'
    <3>1. /\ UNCHANGED <<registry, acked, pc, cur, cap, agent, verdict, replies,
                         answer, execs>>
          /\ pending' = [pending EXCEPT ![s] = {}]
          /\ running' = [running EXCEPT ![s] = None]
      BY <2>15 DEF AgentCrash, daemonVars
    <3>2. \A t \in Socks, r \in Requests : /\ running'[t] = r => running[t] = r
                                           /\ r \in pending'[t] => r \in pending[t]
      BY <3>1 DEF TypeOK
    <3>3. TaskIsInOnePlace'
      BY <3>1, <3>2 DEF IInv, TaskIsInOnePlace, Permitted
    <3>4. QED
      BY <3>1, <3>3
         DEF IInv, HandlerHoldsRequest, InDispatch, Permitted, AnswerIsForRequest,
             AtMostOneReply, ExecutedAtMostOnce, SuccessMeansExecuted,
             AgentPointerFresh, RegistryIsLastAcked, NamesUnique
  <2>16. CASE UNCHANGED vars
    BY <2>16
       DEF vars, IInv, HandlerHoldsRequest, InDispatch, Permitted,
           TaskIsInOnePlace, AnswerIsForRequest, AtMostOneReply, ExecutedAtMostOnce,
           SuccessMeansExecuted, AgentPointerFresh, RegistryIsLastAcked, NamesUnique
  <2>17. QED
    BY <2>1, <2>2, <2>3, <2>4, <2>5, <2>6, <2>7, <2>8, <2>9, <2>10, <2>11,
       <2>12, <2>13, <2>14, <2>15, <2>16
       DEF Next, HandlerStep, AgentStep
<1>3. QED
  BY <1>1, <1>2, TypeCorrect, PTL DEF Spec

\* A refused request never reaches an agent: no later step of a backlog, of a
\* late agent or of another request can undo the policy's refusal.
THEOREM DenialStays == Spec => []DenialIsFinal
<1>1. TypeOK /\ IInv => DenialIsFinal
  BY DEF IInv, TaskIsInOnePlace, DenialIsFinal, Permitted, Refusals
<1>2. QED
  BY <1>1, TypeCorrect, InductiveInvariant, PTL

\* Each exit of on_request_handler answers the one request in hand, so no client
\* is answered twice.
THEOREM AnsweredOnce == Spec => []AtMostOneReply
<1>1. IInv => AtMostOneReply
  BY DEF IInv
<1>2. QED
  BY <1>1, InductiveInvariant, PTL

\* No time-out, lost connection or late answer makes an agent carry out a request
\* a second time.
THEOREM ExecutedOnce == Spec => []ExecutedAtMostOnce
<1>1. IInv => ExecutedAtMostOnce
  BY DEF IInv
<1>2. QED
  BY <1>1, InductiveInvariant, PTL

\* An agent's "success" is never that of another request.
THEOREM SuccessIsExecution == Spec => []SuccessMeansExecuted
<1>1. IInv => SuccessMeansExecuted
  BY DEF IInv
<1>2. QED
  BY <1>1, InductiveInvariant, PTL

\* The registry holds one record per name, the last one acknowledged.
THEOREM RegistrySound == Spec => []RegistryIsLastAcked
<1>1. IInv => RegistryIsLastAcked
  BY DEF IInv
<1>2. QED
  BY <1>1, InductiveInvariant, PTL

\* The pointer into the registry that a dispatch uses is the one that the search
\* would return now.
THEOREM PointerSound == Spec => []AgentPointerFresh
<1>1. IInv => AgentPointerFresh
  BY DEF IInv
<1>2. QED
  BY <1>1, InductiveInvariant, PTL

-------------------------------------------------------------------------------
(* Refinement. *)

\* A reply sent by an exit of the handler is one step of the abstract service:
\* it settles, finishes or gives up the request in hand.
LEMMA RespondIsServiceStep ==
  ASSUME TypeOK, BusyHasRequest, IInv, pc # "idle",
         NEW status \in {"success", "error"}, NEW code \in Codes,
         NEW from \in {"daemon", "agent"},
         Respond(status, code, from), execs' = execs,
         from = "agent" => InDispatch /\ execs[cur] = 1,
         status = "success" /\ from = "daemon" => ~InDispatch,
         code = "POLICY_DENIED" => ~InDispatch /\ from = "daemon",
         \/ verdict' = verdict
         \/ ~InDispatch /\ \E out \in Refusals : verdict' = [verdict EXCEPT ![cur] = out]
  PROVE  Service!Next
<1> DEFINE reply == [status |-> status, code |-> code, from |-> from]
           told == [r \in Requests |->
                      IF replies[r] = <<>> THEN "none" ELSE Outcome(replies[r][1])]
           free == {r \in Requests : Permitted(r)}
<1>0. PICK q \in Requests : q = cur /\ replies[q] = <<>>
  BY OrchestratorAssumption DEF BusyHasRequest, IInv, HandlerHoldsRequest
<1>1. replies' = [replies EXCEPT ![q] = <<reply>>]
  BY <1>0 DEF Respond, TypeOK
<1>2. told' = [told EXCEPT ![q] = Outcome(reply)] /\ told[q] = "none"
  BY <1>0, <1>1 DEF TypeOK
<1>3. free' = free
  <2>1. ~InDispatch => ~Permitted(q)
    BY <1>0 DEF IInv, HandlerHoldsRequest, Permitted
  <2>2. \A r \in Requests : Permitted(r)' <=> Permitted(r)
    BY <1>0, <2>1 DEF Permitted, TypeOK, Refusals
  <2>3. QED
    BY <2>2
<1>4. InDispatch <=> q \in free
  BY <1>0 DEF IInv, HandlerHoldsRequest, Permitted
<1>5. CASE from = "agent"
  <2>1. Outcome(reply) = "finished"
    BY <1>5 DEF Outcome
  <2>2. Service!Finish(q)
    BY <1>0, <1>2, <1>3, <1>5, <2>1 DEF Service!Finish
  <2>3. QED
    BY <1>0, <2>2 DEF Service!Next
<1>6. CASE from = "daemon" /\ ~InDispatch
  <2>1. Outcome(reply) \in {"unmatched", "failed", "refused"}
    BY <1>6 DEF Outcome
  <2>2. Service!Settle(q, Outcome(reply))
    BY <1>0, <1>2, <1>3, <1>4, <1>6 DEF Service!Settle
  <2>3. QED
    BY <1>0, <2>1, <2>2 DEF Service!Next
<1>7. CASE from = "daemon" /\ InDispatch
  <2>1. Outcome(reply) = "failed"
    BY <1>7 DEF Outcome
  <2>2. Service!GiveUp(q)
    BY <1>0, <1>2, <1>3, <1>4, <1>7, <2>1 DEF Service!GiveUp
  <2>3. QED
    BY <1>0, <2>2 DEF Service!Next
<1>8. QED
  BY <1>5, <1>6, <1>7

\* The daemon, its agents and their failures implement the abstract service:
\* the policy step releases a request, an agent that takes up its task
\* performs it, every exit of the handler reports on it once, and all other
\* steps leave the service as it is.
THEOREM Refinement == Spec => ImplementsService
<1> DEFINE told == [r \in Requests |->
                      IF replies[r] = <<>> THEN "none" ELSE Outcome(replies[r][1])]
           free == {r \in Requests : Permitted(r)}
           ServiceStep == Service!Next \/ (UNCHANGED <<free, execs, told>>)
<1>1. Init => Service!Init
  BY DEF Init, Service!Init, Permitted
<1>2. TypeOK /\ BusyHasRequest /\ IInv /\ [Next]_vars => ServiceStep
  <2> SUFFICES ASSUME TypeOK, BusyHasRequest, IInv, [Next]_vars
               PROVE  ServiceStep
    OBVIOUS
  <2> USE OrchestratorAssumption
  <2>0. ASSUME UNCHANGED <<verdict, execs, replies>>
        PROVE  ServiceStep
    BY <2>0 DEF Permitted
  <2>1. ASSUME NEW a \in Registrations, HandleRegister(a)
        PROVE  ServiceStep
    BY <2>0, <2>1 DEF HandleRegister, agentVars
  <2>2. ASSUME NEW r \in Requests, HandleRequest(r)
        PROVE  ServiceStep
    BY <2>0, <2>2 DEF HandleRequest, agentVars
  <2>3. ASSUME NEW out \in {"unreachable", "unknown", "no_intent"} \cup Caps,
               RuleClientQuery(out)
        PROVE  ServiceStep
    BY <2>0, <2>3 DEF RuleClientQuery, Goto, agentVars
  <2>4. CASE RouterResolve
    BY <2>0, <2>4 DEF RouterResolve, Goto, agentVars
  <2>5. ASSUME NEW out \in {"unreachable", "unknown"} \cup Caps,
               IntentClientClassify(out)
        PROVE  ServiceStep
    <3>1. CASE out \in {"unreachable", "unknown"}
      BY <2>5, <3>1, RespondIsServiceStep
         DEF IntentClientClassify, agentVars, InDispatch, Codes
    <3>2. CASE out \notin {"unreachable", "unknown"}
      BY <2>0, <2>5, <3>2 DEF IntentClientClassify, Goto, agentVars
    <3>3. QED
      BY <3>1, <3>2
  <2>6. CASE RegistryFindByCapability
    <3>1. CASE Capable(registry, cap) = {}
      BY <2>6, <3>1, RespondIsServiceStep
         DEF RegistryFindByCapability, agentVars, InDispatch, Codes
    <3>2. CASE Capable(registry, cap) # {}
      BY <2>0, <2>6, <3>2 DEF RegistryFindByCapability, Goto, agentVars
    <3>3. QED
      BY <3>1, <3>2
  <2>7. ASSUME NEW out \in {"unreachable", "allow"} \cup Refusals,
               PolicyClientCheck(out)
        PROVE  ServiceStep
    <3>1. CASE out \in Refusals
      BY <2>7, <3>1, RespondIsServiceStep
         DEF PolicyClientCheck, agentVars, InDispatch, Codes
    <3>2. CASE out \notin Refusals
      <4>1. PICK q \in Requests : q = cur /\ replies[q] = <<>> /\ verdict[q] = "none"
        BY <2>7 DEF PolicyClientCheck, BusyHasRequest, IInv, HandlerHoldsRequest, InDispatch
      <4>2. /\ verdict' = [verdict EXCEPT ![q] = out]
            /\ out \in {"unreachable", "allow"}
            /\ replies' = replies /\ execs' = execs
        BY <2>7, <3>2, <4>1 DEF PolicyClientCheck, Goto, agentVars
      <4>3. free' = free \cup {q} /\ q \notin free
        BY <4>1, <4>2 DEF TypeOK, Permitted
      <4>4. Service!Release(q)
        BY <4>1, <4>2, <4>3 DEF Service!Release
      <4>5. QED
        BY <4>4 DEF Service!Next
    <3>3. QED
      BY <3>1, <3>2
  <2>8. CASE AgentClientConnect
    <3>1. CASE Connectable
      BY <2>0, <2>8, <3>1 DEF AgentClientConnect, agentVars
    <3>2. CASE ~Connectable
      BY <2>8, <3>2, RespondIsServiceStep
         DEF AgentClientConnect, FinishDispatch, agentVars, InDispatch, Codes
    <3>3. QED
      BY <3>1, <3>2
  <2>9. CASE AgentClientSend
    <3>1. CASE conn = "eof"
      BY <2>9, <3>1, RespondIsServiceStep
         DEF AgentClientSend, FinishDispatch, agentVars, InDispatch, Codes
    <3>2. CASE conn # "eof"
      BY <2>0, <2>9, <3>2 DEF AgentClientSend
    <3>3. QED
      BY <3>1, <3>2
  <2>10. CASE AgentClientRead
    <3>1. CASE answer # "none"
      <4>1. execs[cur] = 1
        BY <3>1 DEF IInv, AnswerIsForRequest
      <4>2. QED
        BY <2>10, <3>1, <4>1, RespondIsServiceStep
           DEF AgentClientRead, FinishDispatch, agentVars, InDispatch, Codes
    <3>2. CASE answer = "none"
      BY <2>10, <3>2, RespondIsServiceStep
         DEF AgentClientRead, FinishDispatch, agentVars, InDispatch, Codes
    <3>3. QED
      BY <3>1, <3>2
  <2>11. CASE AgentClientTimeout
    BY <2>11, RespondIsServiceStep
       DEF AgentClientTimeout, FinishDispatch, agentVars, InDispatch, Codes
  <2>12. ASSUME NEW s \in Socks, AgentStart(s)
         PROVE  ServiceStep
    BY <2>0, <2>12 DEF AgentStart, daemonVars
  <2>13. ASSUME NEW s \in Socks, NEW r \in Requests, AgentTake(s, r)
         PROVE  ServiceStep
    <3>1. execs[r] = 0 /\ r \in free
      BY <2>13 DEF AgentTake, IInv, TaskIsInOnePlace
    <3>2. /\ execs' = [execs EXCEPT ![r] = 1]
          /\ verdict' = verdict /\ replies' = replies
      BY <2>13, <3>1 DEF AgentTake, daemonVars, TypeOK
    <3>3. free' = free /\ told' = told
      BY <3>2 DEF Permitted
    <3>4. Service!Perform(r)
      BY <3>1, <3>2, <3>3 DEF Service!Perform
    <3>5. QED
      BY <3>4 DEF Service!Next
  <2>14. ASSUME NEW s \in Socks, NEW result \in {"success", "error"},
                AgentAnswer(s, result)
         PROVE  ServiceStep
    BY <2>0, <2>14 DEF AgentAnswer, daemonVars
  <2>15. ASSUME NEW s \in Socks, AgentCrash(s)
         PROVE  ServiceStep
    BY <2>0, <2>15 DEF AgentCrash, daemonVars
  <2>16. CASE UNCHANGED vars
    BY <2>0, <2>16 DEF vars
  <2>17. QED
    BY <2>1, <2>2, <2>3, <2>4, <2>5, <2>6, <2>7, <2>8, <2>9, <2>10, <2>11,
       <2>12, <2>13, <2>14, <2>15, <2>16
       DEF Next, HandlerStep, AgentStep
<1>3. QED
  BY <1>1, <1>2, TypeCorrect, InductiveInvariant, PTL
     DEF Spec, ImplementsService, Service!Spec
===============================================================================
