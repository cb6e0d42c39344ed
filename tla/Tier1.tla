--------------------------------- MODULE Tier1 ---------------------------------
(***************************************************************************)
(* The second opinion on a query: the orchestrator's client of the intent  *)
(* classifier (orchestrator/intent_client), the classifier's request       *)
(* handler (intent-classifier/main.c) and the model runtime it asks        *)
(* (model-runtime).  Three programs with two time-outs: the one who asks   *)
(* the classifier waits 5 s and hangs up, the classifier waits 10 s for    *)
(* the runtime and serves nobody else meanwhile.                           *)
(*                                                                         *)
(* Time is counted in steps of 5 s.  A reply is the intent read from it,   *)
(* its confidence in percent and whether the keywords gave it; what the    *)
(* model and the keywords say of a query is a constant (Keywords.tla has   *)
(* the keywords).                                                          *)
(***************************************************************************)
EXTENDS Naturals, Sequences

CONSTANTS
  Askers,          \* clients of the classifier; the orchestrator is one
  Queries,
  Intents,
  NoQuery,
  ModelSays,       \* intent the model's text names
  KeywordsSay,     \* intent of the keyword rules
  AskTimeout,      \* QUERY_TIMEOUT_SEC
  RuntimeTimeout,  \* SO_RCVTIMEO of connect_to_runtime
  Backlog,         \* connections that the runtime's accept queue takes
  MaxAsks          \* bound: questions of all askers

Unknown == "unknown"
Empty == ""        \* intent of a zeroed response
ASSUME Tier1Assumption ==
  /\ NoQuery \notin Queries
  /\ Unknown \notin Intents /\ Empty \notin Intents
  /\ ModelSays \in [Queries -> Intents \cup {Unknown}]
  /\ KeywordsSay \in [Queries -> Intents \cup {Unknown}]
  /\ AskTimeout \in Nat \ {0} /\ RuntimeTimeout \in Nat \ {0}
  /\ Backlog \in Nat /\ MaxAsks \in Nat

\* The asker is the less patient of the two: 5 s and 10 s.
ASSUME PatienceAssumption == AskTimeout < RuntimeTimeout

VARIABLES
  asked,      \* number of questions asked
  ask,        \* each asker's question: its number, query and age
  inbox,      \* the classifier's reply in the asker's socket
  result,     \* what the asker made of its last question
  pending,    \* questions written to the classifier and not looked at
  batch,      \* events epoll_wait returned, not handled yet
  pc,         \* "idle", "connect", "wait", "fallback", "reply"
  serving,    \* the question in the classifier's hands
  resp,       \* classifier_response_t
  waited,     \* how long the classifier has waited for the runtime
  call,       \* its connection to the runtime: "none", "sent", "error", "text", "reset"
  up, held,   \* the runtime runs; it writes to another client that does not read
  queue,      \* connections that it has not accepted since it does so
  model,      \* eng->state
  wasDown, wasHeld  \* the runtime was, at some moment since the asker asked
                    \* (not in the code; kept while a property needs them)

askVars == <<asked, ask, inbox, result, wasDown, wasHeld>>
classifierVars == <<pending, batch, pc, serving, resp, waited>>
runtimeVars == <<up, held, queue, model>>
vars == <<askVars, classifierVars, call, runtimeVars>>

Request == [asker : Askers, n : 1..MaxAsks, query : Queries]
Event == [asker : Askers, n : 1..MaxAsks, query : Queries, hup : BOOLEAN]
Response == [intent : Intents \cup {Unknown, Empty}, conf : 0..100, fallback : BOOLEAN]
Zeroed == [intent |-> Empty, conf |-> 0, fallback |-> FALSE]
NoResult == [query |-> NoQuery, resp |-> Zeroed]
Nobody == <<>>

Waiting(a) == ask[a].query # NoQuery
\* The asker's end of the connection is open.
Open(r) == ask[r.asker].n = r.n /\ Waiting(r.asker)

Init ==
  /\ asked = 0
  /\ ask = [a \in Askers |-> [n |-> 0, query |-> NoQuery, age |-> 0]]
  /\ inbox = [a \in Askers |-> <<>>]
  /\ result = [a \in Askers |-> NoResult]
  /\ wasDown = [a \in Askers |-> FALSE] /\ wasHeld = [a \in Askers |-> FALSE]
  /\ pending = <<>> /\ batch = <<>>
  /\ pc = "idle" /\ serving = Nobody /\ resp = Zeroed /\ waited = 0
  /\ call = "none"
  /\ up = TRUE /\ held = FALSE /\ queue = 0 /\ model = "loaded"

-------------------------------------------------------------------------------
(* intent_client_classify.                                                    *)

Ask(a, q) ==
  /\ ~Waiting(a) /\ asked < MaxAsks
  /\ asked' = asked + 1
  /\ ask' = [ask EXCEPT ![a] = [n |-> asked', query |-> q, age |-> 0]]
  /\ result' = [result EXCEPT ![a] = NoResult]
  /\ pending' = Append(pending, [asker |-> a, n |-> asked', query |-> q])
  /\ wasDown' = [wasDown EXCEPT ![a] = ~up]
  /\ wasHeld' = [wasHeld EXCEPT ![a] = held]
  /\ UNCHANGED <<inbox, batch, pc, serving, resp, waited, call, runtimeVars>>

Hangup(a, res) ==
  /\ ask' = [ask EXCEPT ![a].query = NoQuery, ![a].age = 0]
  /\ inbox' = [inbox EXCEPT ![a] = <<>>]
  /\ result' = [result EXCEPT ![a] = res]
  /\ wasHeld' = [wasHeld EXCEPT ![a] = FALSE]
  /\ wasDown' = [wasDown EXCEPT ![a] = @ /\ res.resp.fallback]
  /\ UNCHANGED <<asked, classifierVars, call, runtimeVars>>

\* An answer counts when it names an intent.
Accepts(r) == r.intent # Empty /\ r.intent # Unknown

ReadAnswer(a) ==
  /\ Waiting(a) /\ inbox[a] # <<>>
  /\ Hangup(a, IF Accepts(Head(inbox[a]))
                 THEN [query |-> ask[a].query, resp |-> Head(inbox[a])] ELSE NoResult)

GiveUp(a) ==
  /\ Waiting(a) /\ inbox[a] = <<>>
  /\ ask[a].age = AskTimeout
  /\ Hangup(a, NoResult)

-------------------------------------------------------------------------------
(* The classifier's thread.                                                   *)

\* epoll_wait: some of the connections with text on them, and whether the
\* asker has hung up by now.
Collect ==
  /\ pc = "idle" /\ batch = <<>>
  /\ \E k \in 1..Len(pending) :
       /\ batch' = [i \in 1..k |->
            [asker |-> pending[i].asker, n |-> pending[i].n, query |-> pending[i].query,
             hup |-> ~Open(pending[i])]]
       /\ pending' = SubSeq(pending, k + 1, Len(pending))
  /\ UNCHANGED <<askVars, pc, serving, resp, waited, call, runtimeVars>>

DropHungUp ==
  /\ pc = "idle" /\ batch # <<>> /\ Head(batch).hup
  /\ batch' = Tail(batch)
  /\ UNCHANGED <<askVars, pending, pc, serving, resp, waited, call, runtimeVars>>

\* client_handler, CMSG_CLASSIFY.
HandleClassify ==
  /\ pc = "idle" /\ batch # <<>> /\ ~Head(batch).hup
  /\ serving' = Head(batch)
  /\ batch' = Tail(batch)
  /\ pc' = "connect"
  /\ UNCHANGED <<askVars, pending, resp, waited, call, runtimeVars>>

\* connect() has no time-out: the two of the socket are set after it.
ConnectBlocks == pc = "connect" /\ held /\ queue = Backlog

\* connect_to_runtime and send_to_runtime.
ConnectToRuntime ==
  /\ pc = "connect" /\ ~ConnectBlocks
  /\ IF up THEN pc' = "wait" /\ call' = "sent" ELSE pc' = "fallback" /\ UNCHANGED call
  /\ queue' = IF held THEN queue + 1 ELSE queue
  /\ UNCHANGED <<askVars, pending, batch, serving, resp, waited, up, held, model>>

\* Mutants of Returns: only the newline ends a reply, which the runtime does
\* not send; the socket has no time-out.
ReturnsLate == pc = "wait" /\ (call = "reset" \/ waited = RuntimeTimeout)
ReturnsWithoutTimeout == pc = "wait" /\ call # "sent"

\* recv_from_runtime returns with the closing brace of the reply, at the end of
\* the file or when SO_RCVTIMEO has passed.
Returns == pc = "wait" /\ (call # "sent" \/ waited = RuntimeTimeout)

\* Mutant of RuntimeAnswered: an error is answered by the keywords.
RuntimeAnsweredErrorFallsBack ==
  /\ Returns /\ call \in {"error", "text"}
  /\ resp' = [resp EXCEPT !.intent = ModelSays[serving.query], !.conf = 85]
  /\ pc' = IF call = "text" THEN "reply" ELSE "fallback"
  /\ call' = "none" /\ waited' = 0
  /\ UNCHANGED <<askVars, pending, batch, serving, runtimeVars>>

\* parse_llm_response reads the model's text or, where there is none, the reply
\* itself, which names no intent; a confidence of 0 becomes 0.7.
RuntimeAnswered ==
  /\ Returns /\ call \in {"error", "text"}
  /\ LET intent == IF call = "text" THEN ModelSays[serving.query] ELSE resp.intent
     IN resp' = [resp EXCEPT !.intent = intent,
                             !.conf = IF intent \in Intents THEN 85 ELSE 70]
  /\ pc' = "reply" /\ call' = "none" /\ waited' = 0
  /\ UNCHANGED <<askVars, pending, batch, serving, runtimeVars>>

\* No response: the classifier hangs up on the runtime, in whose queue the
\* connection stays.
RuntimeSilent ==
  /\ Returns /\ call \in {"sent", "reset"}
  /\ pc' = "fallback" /\ call' = "none" /\ waited' = 0
  /\ UNCHANGED <<askVars, pending, batch, serving, resp, runtimeVars>>

\* keyword_classify, or "unknown" with a confidence of 0.1.
Fallback ==
  /\ pc = "fallback"
  /\ LET intent == KeywordsSay[serving.query] IN
     resp' = [intent |-> intent, conf |-> IF intent = Unknown THEN 10 ELSE 50,
              fallback |-> TRUE]
  /\ pc' = "reply"
  /\ UNCHANGED <<askVars, pending, batch, serving, waited, call, runtimeVars>>

\* Mutant of SendResponse: the next question finds the response of this one.
SendResponseUncleared ==
  /\ pc = "reply"
  /\ inbox' = IF Open(serving)
                THEN [inbox EXCEPT ![serving.asker] = Append(@, resp)] ELSE inbox
  /\ pc' = "idle" /\ serving' = Nobody
  /\ UNCHANGED <<asked, ask, result, wasDown, wasHeld, pending, batch, resp, waited, call, runtimeVars>>

\* ipc_server_send: EPIPE when the asker has gone.  The response is a local
\* of the handler, zeroed for every question.
SendResponse ==
  /\ pc = "reply"
  /\ inbox' = IF Open(serving)
                THEN [inbox EXCEPT ![serving.asker] = Append(@, resp)] ELSE inbox
  /\ pc' = "idle" /\ serving' = Nobody /\ resp' = Zeroed
  /\ UNCHANGED <<asked, ask, result, wasDown, wasHeld, pending, batch, waited, call, runtimeVars>>

-------------------------------------------------------------------------------
(* The runtime.                                                               *)

\* RMSG_INFERENCE: inference_generate refuses when no model is loaded, and the
\* reply has an error and no text.
Infer ==
  /\ up /\ ~held /\ call = "sent"
  /\ call' = IF model = "loaded" THEN "text" ELSE "error"
  /\ UNCHANGED <<askVars, classifierVars, runtimeVars>>

\* RMSG_LOAD_MODEL and RMSG_UNLOAD_MODEL of some client.  Loading succeeds with
\* every backend: one that is missing is replaced by the mock.
LoadModel ==
  /\ up /\ ~held /\ model' = "loaded"
  /\ UNCHANGED <<askVars, classifierVars, call, up, held, queue>>
UnloadModel ==
  /\ up /\ ~held /\ model' = "unloaded"
  /\ UNCHANGED <<askVars, classifierVars, call, up, held, queue>>

\* ipc_server_send to a client that does not read tries again until it does or
\* hangs up; everybody else waits.
SendStalls ==
  /\ up /\ ~held
  /\ held' = TRUE
  /\ wasHeld' = [a \in Askers |-> wasHeld[a] \/ Waiting(a)]
  /\ UNCHANGED <<asked, ask, inbox, result, wasDown, classifierVars, call, up, queue, model>>
SendEnds ==
  /\ held
  /\ held' = FALSE /\ queue' = 0
  /\ UNCHANGED <<askVars, classifierVars, call, up, model>>

\* A client of the runtime other than the classifier.
OthersConnect ==
  /\ held /\ queue < Backlog
  /\ queue' = queue + 1
  /\ UNCHANGED <<askVars, classifierVars, call, up, held, model>>

RuntimeDies ==
  /\ up
  /\ up' = FALSE /\ held' = FALSE /\ queue' = 0
  /\ wasDown' = [a \in Askers |-> wasDown[a] \/ Waiting(a)]
  /\ call' = IF call = "sent" THEN "reset" ELSE call
  /\ UNCHANGED <<asked, ask, inbox, result, wasHeld, classifierVars, model>>

\* systemd; main loads the model before it listens.
RuntimeStarts ==
  /\ ~up
  /\ up' = TRUE /\ model' = "loaded"
  /\ UNCHANGED <<askVars, classifierVars, call, held, queue>>

-------------------------------------------------------------------------------
ClassifierStep ==
  \/ Collect \/ DropHungUp \/ HandleClassify
  \/ ConnectToRuntime \/ RuntimeAnswered \/ RuntimeSilent \/ Fallback \/ SendResponse

AskerStep(a) == ReadAnswer(a) \/ GiveUp(a)

\* Nothing that the three programs can do at once takes 5 s.
Pressing ==
  \/ pc \notin {"idle", "wait"} /\ ~ConnectBlocks
  \/ pc = "idle" /\ (batch # <<>> \/ pending # <<>>)
  \/ Returns
  \/ pc = "wait" /\ call = "sent" /\ ~held
  \/ \E a \in Askers : Waiting(a) /\ (inbox[a] # <<>> \/ ask[a].age = AskTimeout)

Tick ==
  /\ ~Pressing
  /\ pc = "wait" \/ \E a \in Askers : Waiting(a)
  /\ waited' = IF pc = "wait" /\ waited < RuntimeTimeout THEN waited + 1 ELSE waited
  /\ ask' = [a \in Askers |-> IF Waiting(a) THEN [ask[a] EXCEPT !.age = @ + 1] ELSE ask[a]]
  /\ UNCHANGED <<asked, inbox, result, wasDown, wasHeld, pending, batch, pc, serving, resp, call,
                 runtimeVars>>

Next ==
  \/ \E a \in Askers : (\E q \in Queries : Ask(a, q)) \/ AskerStep(a)
  \/ ClassifierStep
  \/ Infer \/ LoadModel \/ UnloadModel \/ SendStalls \/ SendEnds
  \/ OthersConnect \/ RuntimeDies \/ RuntimeStarts
  \/ Tick

\* The programs and the clock go on; that the runtime comes back, or lets go,
\* is not assumed.  Its loop takes every connection that is ready in turn, so
\* a runtime that lets go again and again comes to the classifier's question.
Spec ==
  /\ Init /\ [][Next]_vars
  /\ WF_vars(ClassifierStep) /\ SF_vars(Infer) /\ WF_vars(Tick)
  /\ \A a \in Askers : WF_vars(AskerStep(a))

-------------------------------------------------------------------------------
TypeOK ==
  /\ asked \in 0..MaxAsks
  /\ ask \in [Askers -> [n : 0..MaxAsks, query : Queries \cup {NoQuery}, age : 0..AskTimeout]]
  /\ inbox \in [Askers -> Seq(Response)]
  /\ result \in [Askers -> [query : Queries \cup {NoQuery}, resp : Response]]
  /\ pending \in Seq(Request) /\ batch \in Seq(Event)
  /\ pc \in {"idle", "connect", "wait", "fallback", "reply"}
  /\ serving \in Event \cup {Nobody}
  /\ resp \in Response
  /\ waited \in 0..RuntimeTimeout
  /\ call \in {"none", "sent", "error", "text", "reset"}
  /\ up \in BOOLEAN /\ held \in BOOLEAN /\ queue \in 0..Backlog
  /\ model \in {"loaded", "unloaded"}
  /\ wasDown \in [Askers -> BOOLEAN] /\ wasHeld \in [Askers -> BOOLEAN]

\* An answer that the orchestrator acts on names the intent of the query it
\* asked about, of the model or of the keywords: not that of an earlier query,
\* of another asker, or of an error reply of the runtime.
AnswersTheQuestion ==
  \A a \in Askers : result[a].query # NoQuery =>
    /\ result[a].resp.intent \in Intents
    /\ result[a].resp.intent =
         IF result[a].resp.fallback THEN KeywordsSay[result[a].query]
                                    ELSE ModelSays[result[a].query]

\* The keywords speak for the model only where it was not running: a runtime
\* that is merely silent keeps the classifier longer than the orchestrator
\* waits.
FallbackMeansDown ==
  \A a \in Askers : ~Waiting(a) /\ result[a].resp.fallback => wasDown[a]

\* An asker waits in vain only when the runtime was silent meanwhile: what was
\* asked before and given up does not delay it otherwise.
WaitsInVainOnlyForSilence ==
  [][\A a \in Askers : GiveUp(a) => wasHeld[a]]_vars

\* Whatever the runtime does, the classifier is free again for the next question,
\* unless connections that nobody accepts, those of its own given-up questions
\* among them, fill the queue of a runtime that is held.
ClassifierFreed == pc # "idle" ~> (pc = "idle" \/ ConnectBlocks)
===============================================================================
