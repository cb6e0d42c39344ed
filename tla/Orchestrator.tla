----------------------------- MODULE Orchestrator -----------------------------
(***************************************************************************)
(* The request pipeline of the orchestrator daemon                         *)
(* (orchestrator/main.c, on_request_handler) with its clients for the rule *)
(* engine, the intent classifier, the policy engine and the agents, and    *)
(* the agent processes it dispatches to.                                   *)
(*                                                                         *)
(* The daemon is one thread: the event loop runs a handler to its end      *)
(* before it reads the next message, so pc is the place in the handler     *)
(* ("idle" is the event loop).  Every step that ends in a blocking call is *)
(* an action of its own, because agents start, crash, work and answer      *)
(* between two of them.                                                    *)
(*                                                                         *)
(* A request is a member of Requests; its text is abstracted to what the   *)
(* local keyword router makes of it (RouterCap).  What the other daemons   *)
(* answer is chosen freely among the replies the clients tell apart.       *)
(***************************************************************************)
EXTENDS Registry, FiniteSets

CONSTANTS
  Requests,       \* the requests clients send, each once
  None,           \* no request, no agent record
  Registrations,  \* the register messages agents send
  Backlog,        \* connections an agent's listening socket holds (listen(8))
  RouterCap       \* what router_resolve finds for a request, NoCap if nothing

ASSUME OrchestratorAssumption ==
  /\ None \notin Requests
  /\ None \notin AgentInfo
  /\ Registrations \subseteq AgentInfo
  /\ RouterCap \in [Requests -> Caps \cup {NoCap}]
  /\ Backlog \in Nat

VARIABLES
  registry,       \* the registry's array
  acked,          \* last registration of a name answered with "success"
  pc,             \* place in on_request_handler
  cur,            \* the request in hand
  cap,            \* intent.required_capability
  agent,          \* slot of the agent found (a pointer into the array), 0 if none
  verdict,        \* what the policy check of a request came to
  conn,           \* the dispatch connection: "closed", "open", "eof"
  answer,         \* what the agent wrote on that connection
  metrics,        \* counters of metrics.c that the daemon ever changes
  replies,        \* replies sent for a request, in order
  up,             \* is the agent process of a socket running?
  pending,        \* tasks an agent process has not yet taken up
  running,        \* task an agent process is working on
  execs           \* how many times a request was taken up by an agent

daemonVars == <<registry, acked, pc, cur, cap, agent, verdict, metrics, replies>>
agentVars == <<up, pending, running, execs>>
vars == <<registry, acked, pc, cur, cap, agent, verdict, conn, answer,
          metrics, replies, up, pending, running, execs>>

Places == {"idle", "rule", "router", "classify", "find", "policy",
           "connect", "send", "read"}
Refusals == {"deny", "ask_user", "no_action"}
Verdicts == {"none", "unreachable", "allow"} \cup Refusals
Codes == {"NONE", "AGENT_UNAVAILABLE", "POLICY_DENIED",
          "AGENT_DISCONNECTED", "AGENT_TIMEOUT", "INTERNAL_ERROR"}
Reply == [status : {"success", "error"}, code : Codes, from : {"daemon", "agent"}]

-------------------------------------------------------------------------------
Init ==
  /\ registry = <<>>
  /\ acked = [n \in Names |-> None]
  /\ pc = "idle"
  /\ cur = None
  /\ cap = NoCap
  /\ agent = 0
  /\ verdict = [r \in Requests |-> "none"]
  /\ conn = "closed"
  /\ answer = "none"
  /\ metrics = [total |-> 0, success |-> 0, failed |-> 0]
  /\ replies = [r \in Requests |-> <<>>]
  /\ up = [s \in Socks |-> FALSE]
  /\ pending = [s \in Socks |-> {}]
  /\ running = [s \in Socks |-> None]
  /\ execs = [r \in Requests |-> 0]

-------------------------------------------------------------------------------
(* Ends of the handler. *)

\* send_response and return to the event loop; the request's locals are gone
\* and every exit of agent_client_dispatch has closed its socket.
Respond(status, code, from) ==
  /\ replies' = [replies EXCEPT ![cur] =
                   Append(@, [status |-> status, code |-> code, from |-> from])]
  /\ pc' = "idle"
  /\ cur' = None
  /\ cap' = NoCap
  /\ agent' = 0
  /\ conn' = "closed"
  /\ answer' = "none"

\* metrics_record_request(m, 0, resolved).  The only call is behind the
\* dispatch, where "resolved" is always 1.
RecordRequest(ok) ==
  metrics' = [total   |-> metrics.total + 1,
              success |-> IF ok THEN metrics.success + 1 ELSE metrics.success,
              failed  |-> IF ok THEN metrics.failed ELSE metrics.failed + 1]

\* Every return of agent_client_dispatch: count the request and answer it.
FinishDispatch(status, code, from) ==
  /\ RecordRequest(TRUE)
  /\ Respond(status, code, from)
  /\ UNCHANGED <<registry, acked, verdict, agentVars>>

Goto(place) ==
  /\ pc' = place
  /\ UNCHANGED <<registry, acked, cur, conn, answer, metrics, replies, agentVars>>

-------------------------------------------------------------------------------
(* The handler, in program order. *)

\* Mutant of HandleRegister: registrations are handled on a thread of their own.
HandleRegisterConcurrently(a) ==
  /\ registry' = RegisterIn(registry, a)
  /\ acked' = [acked EXCEPT ![a.name] = a]
  /\ UNCHANGED <<pc, cur, cap, agent, verdict, conn, answer, metrics, replies,
                 agentVars>>

\* MSG_REGISTER.  The return value of registry_register is not looked at: the
\* answer is "success" whether or not there was room.
HandleRegister(a) ==
  /\ pc = "idle"
  /\ registry' = RegisterIn(registry, a)
  /\ acked' = [acked EXCEPT ![a.name] = a]
  /\ UNCHANGED <<pc, cur, cap, agent, verdict, conn, answer, metrics, replies,
                 agentVars>>

\* MSG_REQUEST: a client's request is read from its connection.
HandleRequest(r) ==
  /\ pc = "idle"
  /\ replies[r] = <<>>
  /\ pc' = "rule"
  /\ cur' = r
  /\ UNCHANGED <<registry, acked, cap, agent, verdict, conn, answer, metrics,
                 replies, agentVars>>

\* Tier 0.  The client fails when the engine cannot be reached, does not
\* answer in time, or answers "unknown".  Any other reply resolves the
\* request, one that names no intent (an error reply, or a compound query of
\* which no part matched) to the empty capability.
RuleClientQuery(out) ==
  /\ pc = "rule"
  /\ IF out \in {"unreachable", "unknown"}
       THEN Goto("router") /\ UNCHANGED cap
       ELSE Goto("find") /\ cap' = (IF out = "no_intent" THEN NoCap ELSE out)
  /\ UNCHANGED <<agent, verdict>>

\* Tier 0 fallback: the local keyword router.
RouterResolve ==
  /\ pc = "router"
  /\ IF RouterCap[cur] = NoCap
       THEN Goto("classify") /\ UNCHANGED cap
       ELSE Goto("find") /\ cap' = RouterCap[cur]
  /\ UNCHANGED <<agent, verdict>>

\* Tier 1.  When this fails too the client is told "success", with the text
\* "no intent matched for query".
IntentClientClassify(out) ==
  /\ pc = "classify"
  /\ IF out \in {"unreachable", "unknown"}
       THEN /\ Respond("success", "NONE", "daemon")
            /\ UNCHANGED <<registry, acked, metrics, agentVars>>
       ELSE Goto("find") /\ cap' = out /\ UNCHANGED agent
  /\ UNCHANGED verdict

RegistryFindByCapability ==
  /\ pc = "find"
  /\ IF Capable(registry, cap) = {}
       THEN /\ Respond("error", "AGENT_UNAVAILABLE", "daemon")
            /\ UNCHANGED <<registry, acked, metrics, agentVars>>
       ELSE Goto("policy") /\ agent' = FirstOf(Capable(registry, cap)) /\ UNCHANGED cap
  /\ UNCHANGED verdict

\* Mutant of PolicyClientCheck: no "break" behind the refusal's reply.
PolicyClientCheckFallingThrough(out) ==
  /\ pc = "policy"
  /\ verdict' = [verdict EXCEPT ![cur] = out]
  /\ replies' = IF out \in Refusals
                  THEN [replies EXCEPT ![cur] = Append(@,
                          [status |-> "error", code |-> "POLICY_DENIED", from |-> "daemon"])]
                  ELSE replies
  /\ pc' = "connect"
  /\ UNCHANGED <<registry, acked, cur, cap, agent, conn, answer, metrics, agentVars>>

\* The policy check.  Only the action "allow" permits; any other reply
\* refuses.  An engine that cannot be reached or does not answer in time is
\* passed over.
PolicyClientCheck(out) ==
  /\ pc = "policy"
  /\ verdict' = [verdict EXCEPT ![cur] = out]
  /\ IF out \in Refusals
       THEN /\ Respond("error", "POLICY_DENIED", "daemon")
            /\ UNCHANGED <<registry, acked, metrics, agentVars>>
       ELSE Goto("connect") /\ UNCHANGED <<cap, agent>>

-------------------------------------------------------------------------------
(* agent_client_dispatch.  It follows the pointer into the array that the     *)
(* search returned before the policy check, makes one attempt, and never      *)
(* looks at another agent.                                                    *)

Target == registry[agent].sock

\* An agent that announced no socket path is found but cannot be reached.  A
\* connect to a socket nobody listens on fails at once, one to a full backlog
\* after SO_SNDTIMEO.
Connectable ==
  /\ Target # NoSock
  /\ up[Target]
  /\ Cardinality(pending[Target]) <= Backlog

AgentClientConnect ==
  /\ pc = "connect"
  /\ IF Connectable
       THEN /\ pc' = "send"
            /\ conn' = "open"
            /\ UNCHANGED <<registry, acked, cur, cap, agent, verdict, answer,
                           metrics, replies, agentVars>>
       ELSE FinishDispatch("error", "AGENT_UNAVAILABLE", "daemon")

\* The task waits in the agent's backlog until the process accepts it.  The
\* backlog is a set: nothing below depends on the order of acceptance.
AgentClientSend ==
  /\ pc = "send"
  /\ \/ /\ conn = "eof"
        /\ FinishDispatch("error", "AGENT_DISCONNECTED", "daemon")
     \/ /\ conn = "open"
        /\ pc' = "read"
        /\ pending' = [pending EXCEPT ![Target] = @ \cup {cur}]
        /\ UNCHANGED <<registry, acked, cur, cap, agent, verdict, conn, answer,
                       metrics, replies, up, running, execs>>

\* Mutant of AgentClientRead: read() is not checked for 0.
AgentClientReadUnchecked ==
  /\ pc = "read"
  /\ answer # "none" \/ conn = "eof"
  /\ FinishDispatch("success", "NONE", "agent")

\* read() returned: an answer, or 0 when the agent has gone without one.
AgentClientRead ==
  /\ pc = "read"
  /\ \/ /\ answer = "success"
        /\ FinishDispatch("success", "NONE", "agent")
     \/ /\ answer = "error"
        /\ FinishDispatch("error", "INTERNAL_ERROR", "agent")
     \/ /\ answer = "none" /\ conn = "eof"
        /\ FinishDispatch("error", "AGENT_TIMEOUT", "daemon")

\* Mutant of AgentClientTimeout: there is no timeout on the socket.
AgentClientTimeoutMissing == FALSE

\* SO_RCVTIMEO passed.  The task stays with the agent.
AgentClientTimeout ==
  /\ pc = "read"
  /\ answer = "none" /\ conn = "open"
  /\ FinishDispatch("error", "AGENT_TIMEOUT", "daemon")

-------------------------------------------------------------------------------
(* The agent processes: one connection at a time, accept - read - work -      *)
(* answer - close.                                                            *)

AgentStart(s) ==
  /\ ~up[s]
  /\ up' = [up EXCEPT ![s] = TRUE]
  /\ UNCHANGED <<daemonVars, conn, answer, pending, running, execs>>

\* A closed connection still delivers the task that was written to it.
AgentTake(s, r) ==
  /\ up[s]
  /\ running[s] = None
  /\ r \in pending[s]
  /\ pending' = [pending EXCEPT ![s] = @ \ {r}]
  /\ running' = [running EXCEPT ![s] = r]
  /\ execs' = [execs EXCEPT ![r] = @ + 1]
  /\ UNCHANGED <<daemonVars, conn, answer, up>>

\* The answer goes to the connection the task came by; a dispatcher that has
\* given up has closed it.
AgentAnswer(s, result) ==
  /\ running[s] # None
  /\ running' = [running EXCEPT ![s] = None]
  /\ answer' = IF pc = "read" /\ cur = running[s] THEN result ELSE answer
  /\ UNCHANGED <<daemonVars, conn, up, pending, execs>>

\* The process dies, or is stopped: its socket, the connections in its
\* backlog and the task it works on are gone.
AgentCrash(s) ==
  /\ up[s]
  /\ up' = [up EXCEPT ![s] = FALSE]
  /\ pending' = [pending EXCEPT ![s] = {}]
  /\ running' = [running EXCEPT ![s] = None]
  /\ conn' = IF conn = "open" /\ Target = s THEN "eof" ELSE conn
  /\ UNCHANGED <<daemonVars, answer, execs>>

-------------------------------------------------------------------------------
HandlerStep ==
  \/ \E out \in {"unreachable", "unknown", "no_intent"} \cup Caps : RuleClientQuery(out)
  \/ RouterResolve
  \/ \E out \in {"unreachable", "unknown"} \cup Caps : IntentClientClassify(out)
  \/ RegistryFindByCapability
  \/ \E out \in {"unreachable", "allow"} \cup Refusals : PolicyClientCheck(out)
  \/ AgentClientConnect
  \/ AgentClientSend
  \/ AgentClientRead
  \/ AgentClientTimeout

AgentStep ==
  \E s \in Socks :
    \/ AgentStart(s)
    \/ \E r \in Requests : AgentTake(s, r)
    \/ \E result \in {"success", "error"} : AgentAnswer(s, result)
    \/ AgentCrash(s)

Next ==
  \/ \E a \in Registrations : HandleRegister(a)
  \/ \E r \in Requests : HandleRequest(r)
  \/ HandlerStep
  \/ AgentStep

\* Every blocking call of the handler to another program has a socket timeout, so
\* the handler always takes its next step.  Nothing is assumed of agents; of
\* clients, that their buffer takes the one reply (ipc_server_send tries again as
\* long as it does not, which is the subject of IpcServer.tla).
Spec == Init /\ [][Next]_vars /\ WF_vars(HandlerStep)

-------------------------------------------------------------------------------
(* Properties. *)

TypeOK ==
  /\ registry \in Seq(Registrations)
  /\ acked \in [Names -> Registrations \cup {None}]
  /\ pc \in Places
  /\ cur \in Requests \cup {None}
  /\ cap \in Caps \cup {NoCap}
  /\ agent \in Nat
  /\ verdict \in [Requests -> Verdicts]
  /\ conn \in {"closed", "open", "eof"}
  /\ answer \in {"none", "success", "error"}
  /\ metrics \in [total : Nat, success : Nat, failed : Nat]
  /\ replies \in [Requests -> Seq(Reply)]
  /\ up \in [Socks -> BOOLEAN]
  /\ pending \in [Socks -> SUBSET Requests]
  /\ running \in [Socks -> Requests \cup {None}]
  /\ execs \in [Requests -> Nat]

\* A request is answered at most once, whichever exit of on_request_handler
\* is taken (each exit calls send_response itself).
AtMostOneReply == \A r \in Requests : Len(replies[r]) <= 1

\* A request the policy engine refused never reaches an agent, now or later,
\* not even through the backlog of an agent that answers late.
DenialIsFinal ==
  \A r \in Requests : verdict[r] \in Refusals =>
    execs[r] = 0 /\ \A s \in Socks : r \notin pending[s] /\ running[s] # r

\* A request is carried out at most once: a dispatch that timed out or lost
\* its agent is not tried again while the first task may still be waiting
\* (rpc.md: no retry).
ExecutedAtMostOnce == \A r \in Requests : execs[r] <= 1

\* A client is told "success" on an agent's word only if that agent took up
\* this very request.
SuccessMeansExecuted ==
  \A r \in Requests : \A i \in DOMAIN replies[r] :
    replies[r][i].from = "agent" => execs[r] = 1

\* The pointer returned by registry_find_by_capability is used unlocked
\* across the policy query and the dispatch; meanwhile it keeps pointing at
\* the first agent that announces the capability the policy was asked about.
AgentPointerFresh ==
  pc \in {"policy", "connect", "send", "read"} =>
    /\ agent \in Capable(registry, cap)
    /\ \A k \in Capable(registry, cap) : agent <= k

\* The array holds one record per name, and it is the last one acknowledged:
\* re-registering replaces the old socket and capabilities and leaves no
\* second record that a search could find first.
RegistryIsLastAcked ==
  /\ Len(registry) <= MaxAgents
  /\ NamesUnique(registry)
  /\ \A i \in DOMAIN registry : registry[i] = acked[registry[i].name]

-------------------------------------------------------------------------------
(* What the safety properties rest on: an inductive strengthening.            *)

Permitted(r) == verdict[r] \in {"allow", "unreachable"}
InDispatch == pc \in {"connect", "send", "read"}

\* The handler holds one unanswered request; its verdict is open until the
\* policy step and permits the request during the dispatch.
HandlerHoldsRequest ==
  /\ cur = None <=> pc = "idle"
  /\ cur # None => replies[cur] = <<>>
  /\ \A r \in Requests : replies[r] = <<>> /\ cur # r => verdict[r] = "none"
  /\ pc \notin {"idle"} /\ ~InDispatch => verdict[cur] = "none"
  /\ InDispatch => Permitted(cur)

\* Where a request's task can be: nowhere before it is sent, then in one
\* backlog, then with one process, and never back.
TaskIsInOnePlace ==
  \A r \in Requests :
    /\ ~Permitted(r) \/ (cur = r /\ pc \in {"connect", "send"}) =>
         execs[r] = 0 /\ \A s \in Socks : r \notin pending[s] /\ running[s] # r
    /\ \A s \in Socks : r \in pending[s] =>
         execs[r] = 0 /\ \A t \in Socks : r \in pending[t] => s = t
    /\ \A s \in Socks : running[s] = r => execs[r] = 1

\* An answer in hand is the answer to the request in hand.
AnswerIsForRequest ==
  answer # "none" => pc = "read" /\ execs[cur] = 1

\* The safety properties and their strengthening, preserved by every step of
\* the daemon and of the agents.
IInv ==
  /\ HandlerHoldsRequest
  /\ TaskIsInOnePlace
  /\ AnswerIsForRequest
  /\ AtMostOneReply
  /\ ExecutedAtMostOnce
  /\ SuccessMeansExecuted
  /\ AgentPointerFresh
  /\ RegistryIsLastAcked

\* Every request read from a client is answered, whatever the agents do.
EveryRequestAnswered ==
  \A r \in Requests : cur = r ~> replies[r] # <<>>

-------------------------------------------------------------------------------
(* The daemon implements RequestService.  A request is released by the policy *)
(* step, and released when that step was passed over, too.                    *)

Outcome(reply) ==
  IF reply.from = "agent" THEN "finished"
  ELSE IF reply.code = "POLICY_DENIED" THEN "refused"
  ELSE IF reply.status = "success" THEN "unmatched"
  ELSE "failed"

Service == INSTANCE RequestService WITH
  released  <- {r \in Requests : Permitted(r)},
  performed <- execs,
  outcome   <- [r \in Requests |->
                  IF replies[r] = <<>> THEN "none" ELSE Outcome(replies[r][1])]

\* Every step of the daemon and of the agents is a step of the abstract
\* service or leaves it unchanged: in particular a request is never performed
\* after the daemon refused it, and never reported on twice.
ImplementsService == Service!Spec

-------------------------------------------------------------------------------
(* What the repository's documents say and the code does not do.              *)

\* "No agent may carry out an operation without the policy engine"
\* (policy-engine/README.md).
NoExecutionWithoutAllow ==
  \A r \in Requests : execs[r] > 0 => verdict[r] = "allow"
===============================================================================
