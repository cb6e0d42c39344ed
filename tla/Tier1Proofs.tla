----------------------------- MODULE Tier1Proofs ------------------------------
(***************************************************************************)
(* Theorems about Tier1, for any number of askers and questions, whatever  *)
(* the model and the keywords say: an answer that is acted on belongs to   *)
(* the question asked, the keywords speak only for a runtime that was      *)
(* down, and who waits in vain waited for a runtime that was silent.       *)
(***************************************************************************)
EXTENDS Tier1, SequenceTheorems, TLAPS

\* What the classifier's place in its handler says of its locals.
HandlerLocals ==
  /\ pc # "idle" => serving \in Event
  /\ pc # "wait" => call = "none" /\ waited = 0
  /\ pc # "reply" => resp = Zeroed

\* The questions the classifier has still to look at or has in hand.
Held == {pending[i] : i \in DOMAIN pending} \cup {batch[i] : i \in DOMAIN batch}
          \cup (IF pc = "idle" THEN {} ELSE {serving})

\* None is newer than the last one asked, and whoever still waits for one
\* waits for its query.
QuestionsMatch ==
  \A r \in Held : r.n <= asked /\ (Open(r) => r.query = ask[r.asker].query)

\* A response the asker would accept is what the model or the keywords say of
\* the query.
Fits(r, q) ==
  Accepts(r) =>
    /\ r.intent \in Intents
    /\ r.intent = IF r.fallback THEN KeywordsSay[q] ELSE ModelSays[q]

AnswersFit ==
  /\ pc = "reply" => Fits(resp, serving.query)
  /\ \A a \in Askers : inbox[a] # <<>> =>
       Waiting(a) /\ Fits(Head(inbox[a]), ask[a].query)
  /\ AnswersTheQuestion

\* An asker that waits while the runtime is down, or whose question fell to
\* the keywords, knows of the outage; one that waits has waited as long as the
\* classifier has.
OutageKnown ==
  /\ ~up => \A a \in Askers : Waiting(a) => wasDown[a]
  /\ pc # "idle" /\ Open(serving) =>
       /\ pc = "wait" => waited <= ask[serving.asker].age
       /\ pc = "fallback" \/ call = "reset" \/ (pc = "reply" /\ resp.fallback)
            => wasDown[serving.asker]
  /\ \A a \in Askers : inbox[a] # <<>> => (Head(inbox[a]).fallback => wasDown[a])
  /\ FallbackMeansDown

IInv == TypeOK /\ HandlerLocals /\ QuestionsMatch /\ AnswersFit /\ OutageKnown

-------------------------------------------------------------------------------
LEMMA ConstantsTyped ==
  /\ Zeroed \in Response /\ NoResult.query = NoQuery /\ NoResult.resp = Zeroed
  /\ NoResult \in [query : Queries \cup {NoQuery}, resp : Response]
  /\ Zeroed.fallback = FALSE /\ Zeroed.intent = Empty /\ ~Accepts(Zeroed)
  /\ \A q \in Queries : ModelSays[q] \in Intents \cup {Unknown}
  /\ \A q \in Queries : KeywordsSay[q] \in Intents \cup {Unknown}
BY Tier1Assumption DEF Zeroed, Response, NoResult, Accepts

\* The askers.
LEMMA AskKeepsType ==
  ASSUME TypeOK, NEW a \in Askers, NEW q \in Queries, Ask(a, q)
  PROVE  TypeOK'
<1>1. /\ asked' = asked + 1 /\ asked' \in 1..MaxAsks
      /\ ask' = [ask EXCEPT ![a] = [n |-> asked', query |-> q, age |-> 0]]
      /\ result' = [result EXCEPT ![a] = NoResult]
      /\ pending' = Append(pending, [asker |-> a, n |-> asked', query |-> q])
  BY Tier1Assumption DEF Ask, TypeOK
<1>2. wasDown' = [wasDown EXCEPT ![a] = ~up] /\ wasHeld' = [wasHeld EXCEPT ![a] = held]
  BY DEF Ask
<1>3. UNCHANGED <<inbox, batch, pc, serving, resp, waited, call, up, held, queue, model>>
  BY DEF Ask, runtimeVars
<1>4. ask' \in [Askers -> [n : 0..MaxAsks, query : Queries \cup {NoQuery}, age : 0..AskTimeout]]
  BY <1>1, Tier1Assumption DEF TypeOK
<1>5. pending' \in Seq(Request)
  BY <1>1, AppendProperties DEF TypeOK, Request
<1>6. wasDown' \in [Askers -> BOOLEAN] /\ wasHeld' \in [Askers -> BOOLEAN]
  BY <1>2 DEF TypeOK
<1>7. result' \in [Askers -> [query : Queries \cup {NoQuery}, resp : Response]]
  BY <1>1, ConstantsTyped DEF TypeOK
<1> QED
  BY <1>1, <1>3, <1>4, <1>5, <1>6, <1>7, Tier1Assumption DEF TypeOK

LEMMA HangupKeepsType ==
  ASSUME TypeOK, NEW a \in Askers,
         NEW res \in [query : Queries \cup {NoQuery}, resp : Response], Hangup(a, res)
  PROVE  TypeOK'
<1>1. /\ ask' = [ask EXCEPT ![a].query = NoQuery, ![a].age = 0]
      /\ inbox' = [inbox EXCEPT ![a] = <<>>]
      /\ result' = [result EXCEPT ![a] = res]
      /\ wasHeld' = [wasHeld EXCEPT ![a] = FALSE]
      /\ wasDown' = [wasDown EXCEPT ![a] = @ /\ res.resp.fallback]
  BY DEF Hangup
<1>2. UNCHANGED <<asked, pending, batch, pc, serving, resp, waited, call, up, held, queue, model>>
  BY DEF Hangup, classifierVars, runtimeVars
<1>3. ask' \in [Askers -> [n : 0..MaxAsks, query : Queries \cup {NoQuery}, age : 0..AskTimeout]]
  <2> DEFINE Question == [n : 0..MaxAsks, query : Queries \cup {NoQuery}, age : 0..AskTimeout]
  <2>1. ask \in [Askers -> Question] /\ ask[a] \in Question
    BY DEF TypeOK
  <2>2. [ask[a] EXCEPT !.query = NoQuery] \in Question
    BY <2>1
  <2>3. [ask EXCEPT ![a].query = NoQuery] \in [Askers -> Question]
    BY <2>1, <2>2
  <2>4. \A m \in Question : [m EXCEPT !.age = 0] \in Question
    BY Tier1Assumption
  <2> QED
    BY <1>1, <2>3, <2>4
<1>4. inbox' \in [Askers -> Seq(Response)]
  BY <1>1 DEF TypeOK
<1>5. wasDown' \in [Askers -> BOOLEAN]
  <2> DEFINE known == wasDown[a] /\ res.resp.fallback
  <2>1. known \in BOOLEAN
    OBVIOUS
  <2>2. wasDown' = [wasDown EXCEPT ![a] = known]
    BY <1>1
  <2> QED
    BY <2>1, <2>2 DEF TypeOK
<1>6. wasHeld' \in [Askers -> BOOLEAN]
  BY <1>1 DEF TypeOK
<1>7. result' \in [Askers -> [query : Queries \cup {NoQuery}, resp : Response]]
  BY <1>1 DEF TypeOK
<1> QED
  BY <1>2, <1>3, <1>4, <1>5, <1>6, <1>7 DEF TypeOK

\* What the asker makes of a reply, and what is in its hands when it gives up.
LEMMA ResultsTyped ==
  ASSUME TypeOK, NEW a \in Askers, ReadAnswer(a)
  PROVE  /\ Head(inbox[a]) \in Response
         /\ (IF Accepts(Head(inbox[a]))
               THEN [query |-> ask[a].query, resp |-> Head(inbox[a])] ELSE NoResult)
              \in [query : Queries \cup {NoQuery}, resp : Response]
<1>1. inbox[a] \in Seq(Response) /\ inbox[a] # <<>>
  BY DEF TypeOK, ReadAnswer
<1>2. Head(inbox[a]) \in Response
  BY <1>1, HeadTailProperties
<1>3. ask[a].query \in Queries \cup {NoQuery}
  BY DEF TypeOK
<1> QED
  BY <1>2, <1>3, ConstantsTyped

\* The classifier: it keeps its locals and touches the askers' side only when
\* it sends.
LEMMA ClassifierKeepsType ==
  ASSUME TypeOK, HandlerLocals, ClassifierStep
  PROVE  TypeOK' /\ HandlerLocals'
<1> USE Tier1Assumption
<1>0. /\ UNCHANGED <<asked, ask, result, wasDown, wasHeld, up, held, model>>
      /\ inbox' = inbox \/ SendResponse
  BY DEF ClassifierStep, Collect, DropHungUp, HandleClassify, ConnectToRuntime, RuntimeAnswered,
         RuntimeSilent, Fallback, SendResponse, askVars, runtimeVars
<1>q. queue' \in 0..Backlog
  <2>1. queue' = queue \/ (queue' = queue + 1 /\ queue # Backlog)
    BY DEF ClassifierStep, Collect, DropHungUp, HandleClassify, ConnectToRuntime, ConnectBlocks,
           RuntimeAnswered, RuntimeSilent, Fallback, SendResponse, runtimeVars
  <2> QED
    BY <2>1 DEF TypeOK
<1>1. CASE Collect
  <2>1. /\ pc = "idle" /\ UNCHANGED <<pc, serving, resp, waited, call, inbox>>
    BY <1>1 DEF Collect, askVars
  <2>2. PICK k \in 1..Len(pending) :
          /\ batch' = [i \in 1..k |->
               [asker |-> pending[i].asker, n |-> pending[i].n, query |-> pending[i].query,
                hup |-> ~Open(pending[i])]]
          /\ pending' = SubSeq(pending, k + 1, Len(pending))
    BY <1>1 DEF Collect
  <2>3. \A i \in 1..k : pending[i] \in Request /\ (~Open(pending[i])) \in BOOLEAN
    BY DEF TypeOK
  <2>4. \A i \in 1..k : batch'[i] \in Event
    BY <2>2, <2>3 DEF Request, Event
  <2>5. k \in Nat /\ Len(pending) \in Nat /\ batch' \in Seq(Event)
    BY <2>2, <2>4 DEF TypeOK
  <2>6. \A i \in (k + 1)..Len(pending) : pending[i] \in Request
    BY <2>5 DEF TypeOK
  <2>7. pending' \in Seq(Request)
    BY <2>2, <2>5, <2>6, SubSeqProperties
  <2> QED
    BY <1>0, <1>q, <2>1, <2>5, <2>7 DEF TypeOK, HandlerLocals
<1>2. CASE DropHungUp \/ HandleClassify
  <2>1. /\ Head(batch) \in Event /\ batch' = Tail(batch) /\ Tail(batch) \in Seq(Event)
        /\ UNCHANGED <<pending, resp, waited, call, inbox>> /\ pc = "idle"
    BY <1>2, HeadTailProperties DEF DropHungUp, HandleClassify, TypeOK, askVars
  <2>2. (pc' = "idle" /\ serving' = serving) \/ (pc' = "connect" /\ serving' = Head(batch))
    BY <1>2, <2>1 DEF DropHungUp, HandleClassify
  <2> QED
    BY <1>0, <1>q, <2>1, <2>2 DEF TypeOK, HandlerLocals
<1>3. CASE ConnectToRuntime
  <2>1. /\ pc = "connect" /\ UNCHANGED <<pending, batch, serving, resp, waited, inbox>>
        /\ (pc' = "wait" /\ call' = "sent") \/ (pc' = "fallback" /\ call' = call)
    BY <1>3 DEF ConnectToRuntime, askVars
  <2> QED
    BY <1>0, <1>q, <2>1 DEF TypeOK, HandlerLocals
<1>4. CASE RuntimeAnswered
  <2>1. /\ pc = "wait" /\ pc' = "reply" /\ call' = "none" /\ waited' = 0
        /\ UNCHANGED <<pending, batch, serving, inbox>>
    BY <1>4 DEF RuntimeAnswered, Returns, askVars
  <2>2. serving.query \in Queries /\ resp = Zeroed
    BY <2>1 DEF HandlerLocals, Event
  <2> DEFINE intent == IF call = "text" THEN ModelSays[serving.query] ELSE resp.intent
             conf == IF intent \in Intents THEN 85 ELSE 70
  <2>3. /\ resp' = [resp EXCEPT !.intent = intent, !.conf = conf]
        /\ intent \in Intents \cup {Unknown, Empty} /\ conf \in 0..100
    BY <1>4, <2>2, ConstantsTyped DEF RuntimeAnswered
  <2> HIDE DEF intent, conf
  <2>4. resp' \in Response
    BY <2>3 DEF TypeOK, Response
  <2> QED
    BY <1>0, <1>q, <2>1, <2>4 DEF TypeOK, HandlerLocals
<1>5. CASE RuntimeSilent
  <2>1. /\ pc = "wait" /\ pc' = "fallback" /\ call' = "none" /\ waited' = 0
        /\ UNCHANGED <<pending, batch, serving, resp, inbox>>
    BY <1>5 DEF RuntimeSilent, Returns, askVars
  <2> QED
    BY <1>0, <1>q, <2>1 DEF TypeOK, HandlerLocals
<1>6. CASE Fallback
  <2>1. /\ pc = "fallback" /\ pc' = "reply"
        /\ UNCHANGED <<pending, batch, serving, waited, call, inbox>>
    BY <1>6 DEF Fallback, askVars
  <2>2. serving.query \in Queries
    BY <2>1 DEF HandlerLocals, Event
  <2>3. resp' \in Response
    BY <1>6, <2>2, ConstantsTyped DEF Fallback, Response
  <2> QED
    BY <1>0, <1>q, <2>1, <2>3 DEF TypeOK, HandlerLocals
<1>7. CASE SendResponse
  <2>1. /\ pc = "reply" /\ pc' = "idle" /\ serving' = Nobody /\ resp' = Zeroed
        /\ UNCHANGED <<pending, batch, waited, call>>
    BY <1>7 DEF SendResponse
  <2>2. serving \in Event
    BY <2>1 DEF HandlerLocals
  <2>3. serving.asker \in Askers
    BY <2>2 DEF Event
  <2>4. Append(inbox[serving.asker], resp) \in Seq(Response)
    BY <2>3 DEF TypeOK
  <2>5. inbox' \in [Askers -> Seq(Response)]
    BY <1>7, <2>3, <2>4 DEF SendResponse, TypeOK
  <2> QED
    BY <1>0, <1>q, <2>1, <2>5, ConstantsTyped DEF TypeOK, HandlerLocals
<1> QED
  BY <1>1, <1>2, <1>3, <1>4, <1>5, <1>6, <1>7 DEF ClassifierStep

\* The runtime and the clock.
RuntimeStep ==
  Infer \/ LoadModel \/ UnloadModel \/ SendStalls \/ SendEnds
    \/ OthersConnect \/ RuntimeDies \/ RuntimeStarts

LEMMA RuntimeKeepsType ==
  ASSUME TypeOK, HandlerLocals, RuntimeStep
  PROVE  TypeOK' /\ HandlerLocals'
<1>1. /\ UNCHANGED <<asked, ask, inbox, result, pending, batch, pc, serving, resp, waited>>
      /\ call' = call \/ (call = "sent" /\ call' \in {"text", "error", "reset"})
      /\ model' \in {"loaded", "unloaded"}
  BY DEF RuntimeStep, Infer, LoadModel, UnloadModel, SendStalls, SendEnds,
         OthersConnect, RuntimeDies, RuntimeStarts, askVars, classifierVars, runtimeVars, TypeOK
<1>2. up' \in BOOLEAN
  BY DEF RuntimeStep, Infer, LoadModel, UnloadModel, SendStalls, SendEnds,
         OthersConnect, RuntimeDies, RuntimeStarts, runtimeVars, TypeOK
<1>3. held' \in BOOLEAN
  BY DEF RuntimeStep, Infer, LoadModel, UnloadModel, SendStalls, SendEnds,
         OthersConnect, RuntimeDies, RuntimeStarts, runtimeVars, TypeOK
<1>q. queue' \in 0..Backlog
  <2>1. queue' = queue \/ queue' = 0 \/ (queue' = queue + 1 /\ queue < Backlog)
    BY DEF RuntimeStep, Infer, LoadModel, UnloadModel, SendStalls, SendEnds, OthersConnect,
           RuntimeDies, RuntimeStarts, runtimeVars
  <2> QED
    BY <2>1, Tier1Assumption DEF TypeOK
<1>4. wasDown' = wasDown \/ wasDown' = [a \in Askers |-> wasDown[a] \/ Waiting(a)]
  BY DEF RuntimeStep, Infer, LoadModel, UnloadModel, SendStalls, SendEnds,
         OthersConnect, RuntimeDies, RuntimeStarts, askVars
<1>5. wasHeld' = wasHeld \/ wasHeld' = [a \in Askers |-> wasHeld[a] \/ Waiting(a)]
  BY DEF RuntimeStep, Infer, LoadModel, UnloadModel, SendStalls, SendEnds,
         OthersConnect, RuntimeDies, RuntimeStarts, askVars
<1>6. \A a \in Askers : (wasDown[a] \/ Waiting(a)) \in BOOLEAN /\ (wasHeld[a] \/ Waiting(a)) \in BOOLEAN
  OBVIOUS
<1>7. wasDown' \in [Askers -> BOOLEAN]
  BY <1>4, <1>6 DEF TypeOK
<1>8. wasHeld' \in [Askers -> BOOLEAN]
  BY <1>5, <1>6 DEF TypeOK
<1> QED
  BY <1>1, <1>2, <1>3, <1>q, <1>7, <1>8 DEF TypeOK, HandlerLocals

LEMMA TickKeepsType ==
  ASSUME TypeOK, HandlerLocals, Tick
  PROVE  TypeOK' /\ HandlerLocals'
<1>1. /\ UNCHANGED <<asked, inbox, result, pending, batch, pc, serving, resp, call, up, held,
                     queue, model, wasDown, wasHeld>>
      /\ waited' = IF pc = "wait" /\ waited < RuntimeTimeout THEN waited + 1 ELSE waited
      /\ ask' = [a \in Askers |-> IF Waiting(a) THEN [ask[a] EXCEPT !.age = @ + 1] ELSE ask[a]]
  BY DEF Tick, runtimeVars
<1>2. \A a \in Askers : Waiting(a) => ask[a].age # AskTimeout
  BY DEF Tick, Pressing
<1>3. \A a \in Askers : ask[a].age # AskTimeout => ask[a].age + 1 \in 0..AskTimeout
  BY Tier1Assumption DEF TypeOK
<1>4. ask' \in [Askers -> [n : 0..MaxAsks, query : Queries \cup {NoQuery}, age : 0..AskTimeout]]
  BY <1>1, <1>2, <1>3 DEF TypeOK
<1>5. waited' \in 0..RuntimeTimeout
  BY <1>1, Tier1Assumption DEF TypeOK
<1> QED
  BY <1>1, <1>4, <1>5 DEF TypeOK, HandlerLocals

-------------------------------------------------------------------------------
(* What a step does to the askers' questions.                                 *)

LEMMA AskChanges ==
  ASSUME TypeOK, NEW a \in Askers, NEW q \in Queries, Ask(a, q)
  PROVE  /\ asked' = asked + 1 /\ asked \in Nat
         /\ ask'[a].n = asked + 1 /\ ask'[a].query = q /\ ask'[a].age = 0
         /\ \A b \in Askers \ {a} : ask'[b] = ask[b]
BY Tier1Assumption DEF Ask, TypeOK

LEMMA HangupChanges ==
  ASSUME TypeOK, NEW a \in Askers, NEW res, Hangup(a, res)
  PROVE  /\ ask'[a].query = NoQuery
         /\ \A b \in Askers \ {a} : ask'[b] = ask[b]
BY DEF Hangup, TypeOK

LEMMA TickChanges ==
  ASSUME TypeOK, Tick
  PROVE  \A b \in Askers :
           /\ ask'[b].n = ask[b].n /\ ask'[b].query = ask[b].query
           /\ ask[b].query # NoQuery => ask'[b].age = ask[b].age + 1
BY DEF Tick, TypeOK, Waiting

LEMMA RestOfSequence ==
  ASSUME NEW S, NEW s \in Seq(S), NEW k \in 1..Len(s)
  PROVE  /\ DOMAIN SubSeq(s, k + 1, Len(s)) = 1..(Len(s) - k)
         /\ \A i \in DOMAIN SubSeq(s, k + 1, Len(s)) :
              k + i \in DOMAIN s /\ SubSeq(s, k + 1, Len(s))[i] = s[k + i]
<1>1. Len(s) \in Nat /\ DOMAIN s = 1..Len(s) /\ \A j \in (k + 1)..Len(s) : s[j] \in S
  OBVIOUS
<1>2. /\ SubSeq(s, k + 1, Len(s)) \in Seq(S)
      /\ Len(SubSeq(s, k + 1, Len(s))) =
           IF k + 1 <= Len(s) THEN Len(s) - (k + 1) + 1 ELSE 0
      /\ \A i \in 1..(Len(s) - (k + 1) + 1) :
           SubSeq(s, k + 1, Len(s))[i] = s[(k + 1) + i - 1]
  BY <1>1, SubSeqProperties
<1>3. DOMAIN SubSeq(s, k + 1, Len(s)) = 1..(Len(s) - k)
  BY <1>1, <1>2
<1>4. \A n \in Nat : \A i \in 1..(n - k) : i \in 1..(n - (k + 1) + 1) /\ k + i \in 1..n /\ (k + 1) + i - 1 = k + i
  OBVIOUS
<1> QED
  BY <1>1, <1>2, <1>3, <1>4

LEMMA HeldTyped ==
  ASSUME TypeOK, HandlerLocals, NEW r \in Held
  PROVE  r.asker \in Askers /\ r.n \in Nat
<1>1. CASE r \in {pending[i] : i \in DOMAIN pending}
  <2>1. PICK i \in DOMAIN pending : r = pending[i]
    BY <1>1
  <2>2. pending[i] \in Request
    BY <2>1, ElementOfSeq DEF TypeOK
  <2> QED
    BY <2>1, <2>2, Tier1Assumption DEF Request
<1>2. CASE r \in {batch[i] : i \in DOMAIN batch}
  <2>1. PICK i \in DOMAIN batch : r = batch[i]
    BY <1>2
  <2>2. batch[i] \in Event
    BY <2>1 DEF TypeOK
  <2> QED
    BY <2>1, <2>2, Tier1Assumption DEF Event
<1>3. CASE pc # "idle" /\ r = serving
  BY <1>3, Tier1Assumption DEF HandlerLocals, Event
<1> QED
  BY <1>1, <1>2, <1>3 DEF Held

LEMMA ServingIsHeld ==
  ASSUME HandlerLocals, pc # "idle"
  PROVE  serving \in Held /\ serving \in Event /\ serving.asker \in Askers
BY DEF Held, HandlerLocals, Event

\* A classifier's step takes up no question that was not asked.
LEMMA ClassifierHolds ==
  ASSUME TypeOK, HandlerLocals, ClassifierStep, NEW r \in Held'
  PROVE  \E s \in Held : r.asker = s.asker /\ r.n = s.n /\ r.query = s.query
<1>1. CASE Collect
  <2>1. PICK k \in 1..Len(pending) :
          /\ batch' = [i \in 1..k |->
               [asker |-> pending[i].asker, n |-> pending[i].n, query |-> pending[i].query,
                hup |-> ~Open(pending[i])]]
          /\ pending' = SubSeq(pending, k + 1, Len(pending))
    BY <1>1 DEF Collect
  <2>2. k \in Nat /\ Len(pending) \in Nat /\ k <= Len(pending) /\ DOMAIN pending = 1..Len(pending)
    BY DEF TypeOK
  <2>3. ASSUME NEW i \in DOMAIN batch', r = batch'[i]
        PROVE  pending[i] \in Held /\ r.asker = pending[i].asker /\ r.n = pending[i].n
                 /\ r.query = pending[i].query
    BY <2>1, <2>2, <2>3 DEF Held
  <2>4. ASSUME NEW i \in DOMAIN pending', r = pending'[i] PROVE r \in Held
    <3>1. pending \in Seq(Request)
      BY DEF TypeOK
    <3>2. k + i \in DOMAIN pending /\ r = pending[k + i]
      BY <2>1, <2>2, <2>4, <3>1, RestOfSequence
    <3> QED
      BY <3>2 DEF Held
  <2>5. pc = "idle" /\ pc' = "idle"
    BY <1>1 DEF Collect
  <2> QED
    BY <2>3, <2>4, <2>5 DEF Held
<1>2. CASE DropHungUp \/ HandleClassify
  <2>1. /\ batch # <<>> /\ batch' = Tail(batch) /\ batch \in Seq(Event) /\ pending' = pending
        /\ pc' = "idle" \/ serving' = Head(batch)
    BY <1>2 DEF DropHungUp, HandleClassify, TypeOK
  <2>2. /\ Head(batch) = batch[1] /\ 1 \in DOMAIN batch
        /\ \A i \in DOMAIN batch' : i + 1 \in DOMAIN batch /\ batch'[i] = batch[i + 1]
    <3>1. Len(batch) \in Nat \ {0}
      BY <2>1, EmptySeq
    <3>2. batch' \in Seq(Event) /\ Len(batch') = Len(batch) - 1
          /\ \A i \in 1..Len(batch') : batch'[i] = batch[i + 1]
      BY <2>1, HeadTailProperties
    <3> QED
      BY <2>1, <3>1, <3>2
  <2> QED
    BY <2>1, <2>2 DEF Held
<1>3. CASE ~(Collect \/ DropHungUp \/ HandleClassify)
  <2>1. /\ pending' = pending /\ batch' = batch
        /\ pc # "idle" /\ (pc' = "idle" \/ serving' = serving)
    BY <1>3 DEF ClassifierStep, ConnectToRuntime, RuntimeAnswered, RuntimeSilent, Fallback,
                SendResponse, Returns
  <2> QED
    BY <2>1 DEF Held
<1> QED
  BY <1>1, <1>2, <1>3

LEMMA ClassifierLeavesAskers ==
  ClassifierStep => UNCHANGED <<asked, ask, result, wasDown, wasHeld, up, held, model>>
BY DEF ClassifierStep, Collect, DropHungUp, HandleClassify, ConnectToRuntime, RuntimeAnswered,
       RuntimeSilent, Fallback, SendResponse, askVars, runtimeVars

-------------------------------------------------------------------------------
(* Questions match.                                                           *)

LEMMA AskKeepsMatch ==
  ASSUME TypeOK, HandlerLocals, QuestionsMatch, NEW a \in Askers, NEW q \in Queries, Ask(a, q)
  PROVE  QuestionsMatch'
<1> DEFINE new == [asker |-> a, n |-> asked + 1, query |-> q]
<1>1. UNCHANGED <<batch, pc, serving>> /\ pending' = Append(pending, new) /\ pending \in Seq(Request)
  BY DEF Ask, TypeOK
<1>2. \A r \in Held' : r \in Held \/ r = new
  <2>1. /\ DOMAIN pending = 1..Len(pending) /\ DOMAIN pending' = 1..(Len(pending) + 1)
        /\ \A i \in 1..Len(pending) : pending'[i] = pending[i]
        /\ pending'[Len(pending) + 1] = new /\ Len(pending) \in Nat
    <3> HIDE DEF new
    <3> QED
      BY <1>1
  <2>2. \A i \in DOMAIN pending' : i \in DOMAIN pending \/ i = Len(pending) + 1
    BY <2>1
  <2>3. \A i \in DOMAIN pending' : pending'[i] = new \/ pending'[i] \in Held
    <3> HIDE DEF new
    <3> QED
      BY <2>1, <2>2 DEF Held
  <2> HIDE DEF new
  <2> QED
    BY <1>1, <2>3 DEF Held
<1>3. ASSUME NEW r \in Held PROVE r.n <= asked' /\ (Open(r)' => r.query = ask'[r.asker].query)
  <2>1. r.asker \in Askers /\ r.n \in Nat /\ r.n <= asked
    BY HeldTyped DEF QuestionsMatch
  <2>2. r.n <= asked' /\ r.n # asked + 1
    BY <2>1, AskChanges
  <2>3. ~(r.asker = a /\ Open(r)')
    BY <2>2, AskChanges DEF Open
  <2>4. CASE r.asker # a
    BY <2>1, <2>2, <2>4, AskChanges DEF QuestionsMatch, Open, Waiting
  <2> QED
    BY <2>2, <2>3, <2>4
<1>4. new.n <= asked' /\ new.query = ask'[new.asker].query
  BY AskChanges
<1> QED
  BY <1>2, <1>3, <1>4 DEF QuestionsMatch

LEMMA HangupKeepsMatch ==
  ASSUME TypeOK, HandlerLocals, QuestionsMatch, NEW a \in Askers, NEW res, Hangup(a, res)
  PROVE  QuestionsMatch'
<1>1. Held' = Held /\ asked' = asked
  BY DEF Hangup, classifierVars, Held
<1>2. ASSUME NEW r \in Held PROVE Open(r)' => r.asker # a
  BY HangupChanges DEF Open, Waiting
<1>3. ASSUME NEW r \in Held, r.asker # a PROVE Open(r)' => r.query = ask'[r.asker].query
  BY <1>3, HeldTyped, HangupChanges DEF QuestionsMatch, Open, Waiting
<1> QED
  BY <1>1, <1>2, <1>3 DEF QuestionsMatch

LEMMA ClassifierKeepsMatch ==
  ASSUME TypeOK, HandlerLocals, QuestionsMatch, ClassifierStep
  PROVE  QuestionsMatch'
<1>1. ask' = ask /\ asked' = asked
  BY ClassifierLeavesAskers
<1>2. ASSUME NEW r \in Held' PROVE r.n <= asked' /\ (Open(r)' => r.query = ask'[r.asker].query)
  <2>1. PICK s \in Held : r.asker = s.asker /\ r.n = s.n /\ r.query = s.query
    BY ClassifierHolds
  <2>2. s.n <= asked /\ (Open(s) => s.query = ask[s.asker].query)
    BY DEF QuestionsMatch
  <2> QED
    BY <1>1, <2>1, <2>2 DEF Open, Waiting
<1> QED
  BY <1>2 DEF QuestionsMatch

LEMMA OthersKeepMatch ==
  ASSUME TypeOK, HandlerLocals, QuestionsMatch, RuntimeStep \/ Tick \/ UNCHANGED vars
  PROVE  QuestionsMatch'
<1>1. Held' = Held /\ asked' = asked
  BY DEF RuntimeStep, Infer, LoadModel, UnloadModel, SendStalls, SendEnds,
         OthersConnect, RuntimeDies, RuntimeStarts, Tick, askVars, classifierVars, vars, Held
<1>2. ask' = ask \/ Tick
  BY DEF RuntimeStep, Infer, LoadModel, UnloadModel, SendStalls, SendEnds,
         OthersConnect, RuntimeDies, RuntimeStarts, askVars, vars
<1>3. \A b \in Askers : ask'[b].n = ask[b].n /\ ask'[b].query = ask[b].query
  BY <1>2, TickChanges
<1>4. ASSUME NEW r \in Held PROVE Open(r)' => r.query = ask'[r.asker].query
  BY <1>3, HeldTyped DEF QuestionsMatch, Open, Waiting
<1> QED
  BY <1>1, <1>4 DEF QuestionsMatch

-------------------------------------------------------------------------------
(* Answers fit, and outages are known.                                        *)

LEMMA AskKeepsAnswers ==
  ASSUME IInv, NEW a \in Askers, NEW q \in Queries, Ask(a, q)
  PROVE  AnswersFit' /\ OutageKnown'
<1> USE DEF IInv
<1>1. /\ UNCHANGED <<inbox, pc, serving, resp, waited, call, up>>
      /\ result' = [result EXCEPT ![a] = NoResult]
      /\ wasDown' = [wasDown EXCEPT ![a] = ~up]
      /\ ~Waiting(a)
  BY DEF Ask, runtimeVars
<1>2. /\ result'[a] = NoResult /\ wasDown'[a] = ~up
      /\ \A b \in Askers \ {a} : result'[b] = result[b] /\ wasDown'[b] = wasDown[b]
  BY <1>1 DEF TypeOK
<1>3. /\ Waiting(a)'
      /\ \A b \in Askers \ {a} : ask'[b] = ask[b] /\ Waiting(b)' = Waiting(b)
  BY AskChanges, Tier1Assumption DEF Waiting
<1>4. \A b \in Askers : inbox[b] # <<>> => b # a
  BY <1>1 DEF AnswersFit
<1>5. pc # "idle" /\ Open(serving)' => Open(serving) /\ serving.asker \in Askers \ {a}
  <2> SUFFICES ASSUME pc # "idle", Open(serving)'
               PROVE  Open(serving) /\ serving.asker \in Askers \ {a}
    OBVIOUS
  <2>1. serving.n <= asked /\ serving.n \in Nat /\ serving.asker \in Askers
    BY ServingIsHeld, HeldTyped DEF QuestionsMatch
  <2>2. ask'[serving.asker].n = serving.n
    BY <1>1 DEF Open
  <2>3. serving.asker # a
    BY <2>1, <2>2, AskChanges
  <2> QED
    BY <1>1, <1>3, <2>1, <2>3 DEF Open
<1>6. AnswersTheQuestion'
  BY <1>2, ConstantsTyped DEF AnswersFit, AnswersTheQuestion
<1>7. \A b \in Askers : inbox'[b] # <<>> =>
        Waiting(b)' /\ Fits(Head(inbox'[b]), ask'[b].query)
  BY <1>1, <1>3, <1>4 DEF AnswersFit
<1>8. AnswersFit'
  BY <1>1, <1>6, <1>7 DEF AnswersFit, Fits
<1>9. ~up' => \A b \in Askers : Waiting(b)' => wasDown'[b]
  BY <1>1, <1>2, <1>3 DEF OutageKnown
<1>10. pc' # "idle" /\ Open(serving)' =>
         /\ pc' = "wait" => waited' <= ask'[serving'.asker].age
         /\ pc' = "fallback" \/ call' = "reset" \/ (pc' = "reply" /\ resp'.fallback)
              => wasDown'[serving'.asker]
  BY <1>1, <1>2, <1>3, <1>5 DEF OutageKnown
<1>11. \A b \in Askers : inbox'[b] # <<>> => (Head(inbox'[b]).fallback => wasDown'[b])
  BY <1>1, <1>2, <1>4 DEF OutageKnown
<1>12. FallbackMeansDown'
  BY <1>2, <1>3 DEF OutageKnown, FallbackMeansDown
<1> QED
  BY <1>1, <1>8, <1>9, <1>10, <1>11, <1>12 DEF OutageKnown

LEMMA HangupKeepsAnswers ==
  ASSUME IInv, NEW a \in Askers, Waiting(a),
         NEW res \in [query : Queries \cup {NoQuery}, resp : Response], Hangup(a, res),
         res.query # NoQuery =>
           /\ res.resp.intent \in Intents
           /\ res.resp.intent = IF res.resp.fallback THEN KeywordsSay[res.query]
                                                     ELSE ModelSays[res.query],
         res.resp.fallback => wasDown[a]
  PROVE  AnswersFit' /\ OutageKnown'
<1> USE DEF IInv
<1>1. /\ UNCHANGED <<pc, serving, resp, waited, call, up>>
      /\ inbox' = [inbox EXCEPT ![a] = <<>>]
      /\ result' = [result EXCEPT ![a] = res]
      /\ wasDown' = [wasDown EXCEPT ![a] = @ /\ res.resp.fallback]
  BY DEF Hangup, classifierVars, runtimeVars
<1>2. /\ inbox'[a] = <<>> /\ result'[a] = res /\ (res.resp.fallback => wasDown'[a])
      /\ \A b \in Askers \ {a} :
           inbox'[b] = inbox[b] /\ result'[b] = result[b] /\ wasDown'[b] = wasDown[b]
  BY <1>1 DEF TypeOK
<1>3. /\ ~Waiting(a)'
      /\ \A b \in Askers \ {a} : ask'[b] = ask[b] /\ Waiting(b)' = Waiting(b)
  BY HangupChanges DEF Waiting
<1>4. pc # "idle" /\ Open(serving)' => Open(serving) /\ serving.asker \in Askers \ {a}
  <2> SUFFICES ASSUME pc # "idle", Open(serving)'
               PROVE  Open(serving) /\ serving.asker \in Askers \ {a}
    OBVIOUS
  <2>1. serving.asker \in Askers
    BY ServingIsHeld
  <2>2. Waiting(serving.asker)'
    BY <1>1 DEF Open
  <2>3. serving.asker # a
    BY <1>1, <1>3, <2>2 DEF Waiting
  <2> QED
    BY <1>1, <1>3, <2>1, <2>3 DEF Open
<1>5. AnswersTheQuestion'
  BY <1>2 DEF AnswersFit, AnswersTheQuestion
<1>6. \A b \in Askers : inbox'[b] # <<>> =>
        Waiting(b)' /\ Fits(Head(inbox'[b]), ask'[b].query)
  BY <1>2, <1>3 DEF AnswersFit
<1>7. AnswersFit'
  BY <1>1, <1>5, <1>6 DEF AnswersFit, Fits
<1>8. ~up' => \A b \in Askers : Waiting(b)' => wasDown'[b]
  BY <1>1, <1>2, <1>3 DEF OutageKnown
<1>9. pc' # "idle" /\ Open(serving)' =>
        /\ pc' = "wait" => waited' <= ask'[serving'.asker].age
        /\ pc' = "fallback" \/ call' = "reset" \/ (pc' = "reply" /\ resp'.fallback)
             => wasDown'[serving'.asker]
  BY <1>1, <1>2, <1>3, <1>4 DEF OutageKnown
<1>10. \A b \in Askers : inbox'[b] # <<>> => (Head(inbox'[b]).fallback => wasDown'[b])
  BY <1>2 DEF OutageKnown
<1>11. FallbackMeansDown'
  BY <1>2, <1>3 DEF OutageKnown, FallbackMeansDown
<1> QED
  BY <1>1, <1>7, <1>8, <1>9, <1>10, <1>11 DEF OutageKnown

LEMMA AskerKeepsAnswers ==
  ASSUME IInv, NEW a \in Askers, AskerStep(a)
  PROVE  IInv'
<1> USE DEF IInv
<1>1. PICK res \in [query : Queries \cup {NoQuery}, resp : Response] :
        /\ Hangup(a, res) /\ Waiting(a)
        /\ res = NoResult \/ (inbox[a] # <<>> /\ Accepts(Head(inbox[a]))
                               /\ res = [query |-> ask[a].query, resp |-> Head(inbox[a])])
  BY ResultsTyped, ConstantsTyped DEF AskerStep, ReadAnswer, GiveUp
<1>2. res.query # NoQuery =>
        /\ res.resp.intent \in Intents
        /\ res.resp.intent = IF res.resp.fallback THEN KeywordsSay[res.query]
                                                  ELSE ModelSays[res.query]
  BY <1>1, ConstantsTyped DEF AnswersFit, Fits
<1>3. res.resp.fallback => wasDown[a]
  BY <1>1, ConstantsTyped DEF OutageKnown
<1>4. HandlerLocals'
  BY <1>1 DEF Hangup, HandlerLocals, classifierVars
<1> QED
  BY <1>1, <1>2, <1>3, <1>4, HangupKeepsType, HangupKeepsMatch, HangupKeepsAnswers

LEMMA ClassifierKeepsAnswers ==
  ASSUME IInv, ClassifierStep
  PROVE  AnswersFit' /\ OutageKnown'
<1> USE DEF IInv
<1>1. UNCHANGED <<asked, ask, result, wasDown, up>>
  BY ClassifierLeavesAskers
<1>2. /\ AnswersTheQuestion' /\ FallbackMeansDown'
      /\ ~up' => \A b \in Askers : Waiting(b)' => wasDown'[b]
  BY <1>1 DEF AnswersFit, OutageKnown, AnswersTheQuestion, FallbackMeansDown, Waiting
<1>3. ASSUME inbox' = inbox
      PROVE  /\ \A b \in Askers : inbox'[b] # <<>> =>
                  Waiting(b)' /\ Fits(Head(inbox'[b]), ask'[b].query)
             /\ \A b \in Askers : inbox'[b] # <<>> => (Head(inbox'[b]).fallback => wasDown'[b])
  BY <1>1, <1>3 DEF AnswersFit, OutageKnown, Waiting
<1>4. CASE Collect \/ DropHungUp
  <2>1. pc' = "idle" /\ inbox' = inbox
    BY <1>4 DEF Collect, DropHungUp, askVars
  <2> QED
    BY <1>2, <1>3, <2>1 DEF AnswersFit, OutageKnown
<1>5. CASE HandleClassify
  <2>1. pc' = "connect" /\ inbox' = inbox /\ call' = "none"
    BY <1>5 DEF HandleClassify, askVars, HandlerLocals
  <2> QED
    BY <1>2, <1>3, <2>1 DEF AnswersFit, OutageKnown
<1>6. CASE ConnectToRuntime
  <2>1. /\ pc = "connect" /\ inbox' = inbox /\ waited' = 0 /\ serving' = serving
        /\ (pc' = "wait" /\ call' = "sent") \/ (pc' = "fallback" /\ ~up)
    BY <1>6 DEF ConnectToRuntime, askVars, HandlerLocals
  <2>2. serving.asker \in Askers /\ ask[serving.asker].age \in Nat
    BY <2>1, ServingIsHeld, Tier1Assumption DEF TypeOK
  <2>3. ~up /\ Open(serving) => wasDown[serving.asker]
    BY <2>2 DEF OutageKnown, Open
  <2> QED
    BY <1>1, <1>2, <1>3, <2>1, <2>2, <2>3 DEF AnswersFit, OutageKnown, Open, Waiting
<1>7. CASE RuntimeAnswered
  <2>1. /\ pc = "wait" /\ pc' = "reply" /\ inbox' = inbox /\ serving' = serving /\ call' = "none"
    BY <1>7 DEF RuntimeAnswered, Returns, askVars
  <2>2. resp = Zeroed /\ serving.query \in Queries
    BY <2>1, ServingIsHeld DEF HandlerLocals, Event
  <2>3. /\ resp'.fallback = FALSE
        /\ resp'.intent = IF call = "text" THEN ModelSays[serving.query] ELSE Empty
    BY <1>7, <2>2 DEF RuntimeAnswered, Zeroed
  <2>4. Fits(resp', serving'.query)
    BY <2>1, <2>2, <2>3, ConstantsTyped DEF Fits, Accepts
  <2>5. AnswersFit'
    BY <1>2, <1>3, <2>1, <2>4 DEF AnswersFit, Fits
  <2> QED
    BY <1>2, <1>3, <2>1, <2>3, <2>5 DEF OutageKnown
<1>8. CASE RuntimeSilent
  <2>1. /\ pc = "wait" /\ pc' = "fallback" /\ inbox' = inbox /\ serving' = serving
        /\ call' = "none" /\ (call = "reset" \/ waited = RuntimeTimeout)
    BY <1>8 DEF RuntimeSilent, Returns, askVars
  <2>2. serving.asker \in Askers /\ ask[serving.asker].age \in 0..AskTimeout
    BY <2>1, ServingIsHeld DEF TypeOK
  <2>3. Open(serving) => wasDown[serving.asker]
    <3>1. Open(serving) => waited # RuntimeTimeout
      BY <2>1, <2>2, PatienceAssumption, Tier1Assumption DEF OutageKnown
    <3> QED
      BY <2>1, <3>1 DEF OutageKnown
  <2> QED
    BY <1>1, <1>2, <1>3, <2>1, <2>3 DEF AnswersFit, OutageKnown, Open, Waiting
<1>9. CASE Fallback
  <2>1. /\ pc = "fallback" /\ pc' = "reply" /\ inbox' = inbox /\ serving' = serving
        /\ call' = "none"
    BY <1>9 DEF Fallback, askVars, HandlerLocals
  <2>2. serving.query \in Queries
    BY <2>1, ServingIsHeld DEF Event
  <2>3. resp'.fallback = TRUE /\ resp'.intent = KeywordsSay[serving.query]
    BY <1>9 DEF Fallback
  <2>4. Fits(resp', serving'.query)
    BY <2>1, <2>2, <2>3, ConstantsTyped DEF Fits, Accepts
  <2>5. AnswersFit'
    BY <1>2, <1>3, <2>1, <2>4 DEF AnswersFit, Fits
  <2>6. Open(serving) => wasDown[serving.asker]
    BY <2>1 DEF OutageKnown
  <2> QED
    BY <1>1, <1>2, <1>3, <2>1, <2>5, <2>6 DEF OutageKnown, Open, Waiting
<1>10. CASE SendResponse
  <2>1. /\ pc = "reply" /\ pc' = "idle"
        /\ inbox' = IF Open(serving)
                      THEN [inbox EXCEPT ![serving.asker] = Append(@, resp)] ELSE inbox
    BY <1>10 DEF SendResponse
  <2>2. CASE ~Open(serving)
    BY <1>2, <1>3, <2>1, <2>2 DEF AnswersFit, OutageKnown
  <2>3. CASE Open(serving)
    <3> DEFINE x == serving.asker
    <3>1. /\ x \in Askers /\ inbox[x] \in Seq(Response) /\ resp \in Response
      BY <2>1, ServingIsHeld DEF TypeOK
    <3>2. /\ inbox'[x] = Append(inbox[x], resp)
          /\ \A b \in Askers \ {x} : inbox'[b] = inbox[b]
      BY <2>1, <2>3, <3>1 DEF TypeOK
    <3>3. Head(inbox'[x]) = IF inbox[x] = <<>> THEN resp ELSE Head(inbox[x])
      BY <3>1, <3>2, HeadTailAppend
    <3>4. Waiting(x) /\ serving.query = ask[x].query
      BY <2>1, <2>3, ServingIsHeld DEF QuestionsMatch, Open
    <3>5. Fits(resp, ask[x].query) /\ (resp.fallback => wasDown[x])
      BY <2>1, <2>3, <3>4 DEF AnswersFit, OutageKnown
    <3>6. Fits(Head(inbox'[x]), ask[x].query) /\ (Head(inbox'[x]).fallback => wasDown[x])
      BY <3>1, <3>3, <3>5 DEF AnswersFit, OutageKnown
    <3> HIDE DEF x
    <3>7. \A b \in Askers : inbox'[b] # <<>> =>
            /\ Waiting(b)' /\ Fits(Head(inbox'[b]), ask'[b].query)
            /\ Head(inbox'[b]).fallback => wasDown'[b]
      BY <1>1, <3>1, <3>2, <3>4, <3>6 DEF AnswersFit, OutageKnown, Waiting
    <3> QED
      BY <1>2, <2>1, <3>7 DEF AnswersFit, OutageKnown
  <2> QED
    BY <2>2, <2>3
<1> QED
  BY <1>4, <1>5, <1>6, <1>7, <1>8, <1>9, <1>10 DEF ClassifierStep

LEMMA RuntimeKeepsAnswers ==
  ASSUME IInv, RuntimeStep
  PROVE  AnswersFit' /\ OutageKnown'
<1> USE DEF IInv
<1>1. /\ UNCHANGED <<asked, ask, inbox, result, pc, serving, resp, waited>>
      /\ \/ wasDown' = wasDown /\ (call' = call \/ call' \in {"text", "error"}) /\ (up' = up \/ up' = TRUE)
         \/ wasDown' = [b \in Askers |-> wasDown[b] \/ Waiting(b)]
  BY DEF RuntimeStep, Infer, LoadModel, UnloadModel, SendStalls, SendEnds,
         OthersConnect, RuntimeDies, RuntimeStarts, askVars, classifierVars, runtimeVars
<1>2. AnswersFit'
  BY <1>1 DEF AnswersFit, Fits, Waiting, AnswersTheQuestion
<1>3. /\ \A b \in Askers : Waiting(b)' = Waiting(b)
      /\ Open(serving)' <=> Open(serving)
  BY <1>1 DEF Open, Waiting
<1>4. \A b \in Askers : (wasDown[b] => wasDown'[b]) /\ (Waiting(b) /\ ~up' => wasDown'[b])
  BY <1>1 DEF OutageKnown
<1>5. ASSUME pc' # "idle", Open(serving)'
      PROVE  /\ pc' = "wait" => waited' <= ask'[serving'.asker].age
             /\ pc' = "fallback" \/ call' = "reset" \/ (pc' = "reply" /\ resp'.fallback)
                  => wasDown'[serving'.asker]
  <2>1. serving.asker \in Askers /\ Open(serving) /\ Waiting(serving.asker) /\ serving' = serving
    BY <1>1, <1>3, <1>5, ServingIsHeld DEF Open
  <2>2. /\ pc = "wait" => waited <= ask[serving.asker].age
        /\ pc = "fallback" \/ call = "reset" \/ (pc = "reply" /\ resp.fallback)
             => wasDown[serving.asker]
    BY <1>1, <1>5, <2>1 DEF OutageKnown
  <2>3. call' = "reset" /\ call # "reset" => wasDown'[serving.asker]
    BY <1>1, <2>1
  <2> QED
    BY <1>1, <1>4, <2>1, <2>2, <2>3
<1>6. \A b \in Askers : inbox'[b] # <<>> => (Head(inbox'[b]).fallback => wasDown'[b])
  BY <1>1, <1>4 DEF OutageKnown
<1>7. FallbackMeansDown'
  BY <1>1, <1>3, <1>4 DEF OutageKnown, FallbackMeansDown
<1> QED
  BY <1>2, <1>3, <1>4, <1>5, <1>6, <1>7 DEF OutageKnown

LEMMA TickKeepsAnswers ==
  ASSUME IInv, Tick
  PROVE  AnswersFit' /\ OutageKnown'
<1> USE DEF IInv
<1>1. /\ UNCHANGED <<asked, inbox, result, pc, serving, resp, call, up, wasDown>>
      /\ pc = "wait" => waited' = waited + 1 \/ waited' = waited
  BY DEF Tick, runtimeVars
<1>2. \A b \in Askers : /\ Waiting(b)' = Waiting(b) /\ ask'[b].query = ask[b].query
                        /\ ask'[b].n = ask[b].n
                        /\ Waiting(b) => ask'[b].age = ask[b].age + 1
  BY TickChanges DEF Waiting
<1>3. AnswersFit'
  BY <1>1, <1>2 DEF AnswersFit, Fits, AnswersTheQuestion
<1>4. pc # "idle" /\ Open(serving)' =>
        /\ Open(serving)
        /\ pc = "wait" => waited' <= ask'[serving.asker].age
  <2> SUFFICES ASSUME pc # "idle", Open(serving)'
               PROVE  Open(serving) /\ (pc = "wait" => waited' <= ask'[serving.asker].age)
    OBVIOUS
  <2>1. serving.asker \in Askers /\ serving' = serving
    BY <1>1, ServingIsHeld
  <2>2. Open(serving)
    BY <1>2, <2>1 DEF Open, Waiting
  <2>3. pc = "wait" => waited <= ask[serving.asker].age
    BY <2>2 DEF OutageKnown
  <2>4. /\ ask'[serving.asker].age = ask[serving.asker].age + 1
        /\ ask[serving.asker].age \in Nat /\ waited \in Nat
    BY <1>2, <2>1, <2>2, Tier1Assumption DEF Open, TypeOK
  <2> QED
    BY <1>1, <2>2, <2>3, <2>4
<1>5. ~up' => \A b \in Askers : Waiting(b)' => wasDown'[b]
  BY <1>1, <1>2 DEF OutageKnown
<1>6. FallbackMeansDown'
  BY <1>1, <1>2 DEF OutageKnown, FallbackMeansDown
<1> QED
  BY <1>1, <1>3, <1>4, <1>5, <1>6 DEF OutageKnown

LEMMA Inductive ==
  ASSUME IInv, [Next]_vars
  PROVE  IInv'
<1>1. ASSUME NEW a \in Askers, NEW q \in Queries, Ask(a, q) PROVE IInv'
  <2>1. HandlerLocals'
    BY <1>1 DEF IInv, HandlerLocals, Ask
  <2> QED
    BY <1>1, <2>1, AskKeepsType, AskKeepsMatch, AskKeepsAnswers DEF IInv
<1>2. ASSUME NEW a \in Askers, AskerStep(a) PROVE IInv'
  BY <1>2, AskerKeepsAnswers
<1>3. CASE ClassifierStep
  BY <1>3, ClassifierKeepsType, ClassifierKeepsMatch, ClassifierKeepsAnswers DEF IInv
<1>4. CASE RuntimeStep
  BY <1>4, RuntimeKeepsType, OthersKeepMatch, RuntimeKeepsAnswers DEF IInv
<1>5. CASE Tick
  BY <1>5, TickKeepsType, OthersKeepMatch, TickKeepsAnswers DEF IInv
<1>6. CASE UNCHANGED vars
  <2>1. UNCHANGED <<asked, ask, inbox, result, wasDown, wasHeld, pending, batch, pc, serving,
                    resp, waited, call, up, held, queue, model>>
    BY <1>6 DEF vars, askVars, classifierVars, runtimeVars
  <2>2. TypeOK' /\ HandlerLocals'
    BY <2>1 DEF IInv, TypeOK, HandlerLocals
  <2>3. AnswersFit'
    BY <2>1 DEF IInv, AnswersFit, Fits, Waiting, AnswersTheQuestion
  <2>4. OutageKnown'
    BY <2>1 DEF IInv, OutageKnown, Open, Waiting, FallbackMeansDown
  <2> QED
    BY <1>6, <2>2, <2>3, <2>4, OthersKeepMatch DEF IInv
<1> QED
  BY <1>1, <1>2, <1>3, <1>4, <1>5, <1>6 DEF Next, RuntimeStep

LEMMA Initially == Init => IInv
<1> SUFFICES ASSUME Init PROVE IInv
  OBVIOUS
<1> USE Tier1Assumption DEF Init
<1>1. TypeOK
  <2>1. /\ asked \in 0..MaxAsks /\ waited \in 0..RuntimeTimeout /\ 0 \in 0..AskTimeout
    OBVIOUS
  <2>2. ask \in [Askers -> [n : 0..MaxAsks, query : Queries \cup {NoQuery}, age : 0..AskTimeout]]
    BY <2>1
  <2>3. /\ inbox \in [Askers -> Seq(Response)] /\ pending \in Seq(Request) /\ batch \in Seq(Event)
        /\ result \in [Askers -> [query : Queries \cup {NoQuery}, resp : Response]]
    BY ConstantsTyped
  <2>4. wasDown \in [Askers -> BOOLEAN] /\ wasHeld \in [Askers -> BOOLEAN]
    OBVIOUS
  <2>5. up \in BOOLEAN /\ held \in BOOLEAN
    OBVIOUS
  <2> QED
    BY <2>1, <2>2, <2>3, <2>4, <2>5, ConstantsTyped DEF TypeOK
<1>2. HandlerLocals
  BY DEF HandlerLocals
<1>3. QuestionsMatch
  BY DEF QuestionsMatch, Held
<1>4. AnswersFit
  BY ConstantsTyped DEF AnswersFit, AnswersTheQuestion
<1>5. OutageKnown
  BY ConstantsTyped DEF OutageKnown, FallbackMeansDown
<1> QED
  BY <1>1, <1>2, <1>3, <1>4, <1>5 DEF IInv

-------------------------------------------------------------------------------
LEMMA Invariant == Spec => []IInv
<1>1. Init => IInv
  BY Initially
<1>2. IInv /\ [Next]_vars => IInv'
  BY Inductive
<1> QED
  BY <1>1, <1>2, PTL DEF Spec

\* Every variable of the three programs keeps its type.
THEOREM TypeCorrect == Spec => []TypeOK
<1>1. IInv => TypeOK
  BY DEF IInv
<1> QED
  BY <1>1, Invariant, PTL

\* Whatever the orchestrator acts on is what the model, or the keywords, say of
\* the query it asked about.
THEOREM AnswersAreOwn == Spec => []AnswersTheQuestion
<1>1. IInv => AnswersTheQuestion
  BY DEF IInv, AnswersFit
<1> QED
  BY <1>1, Invariant, PTL

\* Because the asker is less patient than the classifier, the keywords' answer
\* reaches it only when the runtime was down.
THEOREM FallbackIsOutage == Spec => []FallbackMeansDown
<1>1. IInv => FallbackMeansDown
  BY DEF IInv, OutageKnown
<1> QED
  BY <1>1, Invariant, PTL

-------------------------------------------------------------------------------
(* Nobody waits in vain without a reason.                                     *)

\* The classifier has a question of the asker's to look at, or in hand.
AskedFor(a) == \E r \in Held : r.asker = a /\ r.n = ask[a].n

\* Whoever waits has its answer or is still in the classifier's books, which
\* drops only those that are gone; time has passed for it only while the
\* runtime was silent.
SilenceKnown ==
  /\ pc = "wait" => call # "none"
  /\ \A i \in DOMAIN batch : batch[i].hup => ~Open(batch[i])
  /\ \A a \in Askers : Waiting(a) =>
       /\ held => wasHeld[a]
       /\ inbox[a] # <<>> \/ AskedFor(a)
       /\ inbox[a] # <<>> \/ ask[a].age = 0 \/ wasHeld[a]

LEMMA AskKeepsSilence ==
  ASSUME IInv, SilenceKnown, NEW a \in Askers, NEW q \in Queries, Ask(a, q)
  PROVE  SilenceKnown'
<1> USE DEF IInv
<1> DEFINE new == [asker |-> a, n |-> asked + 1, query |-> q]
<1>1. /\ UNCHANGED <<inbox, batch, pc, serving, call, held>>
      /\ pending' = Append(pending, new) /\ pending \in Seq(Request)
      /\ wasHeld' = [wasHeld EXCEPT ![a] = held]
  BY DEF Ask, runtimeVars, TypeOK
<1>2. /\ DOMAIN pending = 1..Len(pending) /\ DOMAIN pending' = 1..(Len(pending) + 1)
      /\ \A i \in 1..Len(pending) : pending'[i] = pending[i]
      /\ pending'[Len(pending) + 1] = new /\ Len(pending) \in Nat
  <2> HIDE DEF new
  <2> QED
    BY <1>1
<1>3. new \in Held' /\ \A r \in Held : r \in Held'
  <2> HIDE DEF new
  <2>1. Len(pending) + 1 \in DOMAIN pending' /\ \A i \in DOMAIN pending : i \in DOMAIN pending'
    BY <1>2
  <2> QED
    BY <1>1, <1>2, <2>1 DEF Held
<1>4. wasHeld'[a] = held /\ \A b \in Askers \ {a} : wasHeld'[b] = wasHeld[b]
  BY <1>1 DEF TypeOK
<1>5. /\ ask'[a].n = asked + 1 /\ ask'[a].age = 0
      /\ \A b \in Askers \ {a} : ask'[b] = ask[b] /\ Waiting(b)' = Waiting(b)
  BY AskChanges DEF Waiting
<1>6. AskedFor(a)'
  BY <1>3, <1>5 DEF AskedFor
<1>7. \A b \in Askers \ {a} : AskedFor(b) => AskedFor(b)'
  BY <1>3, <1>5 DEF AskedFor
<1>8. ASSUME NEW i \in DOMAIN batch, batch[i].hup PROVE ~Open(batch[i])'
  <2> DEFINE r == batch[i]
  <2>1. r \in Held
    BY DEF Held
  <2>2. ~Open(r)
    BY <1>8 DEF SilenceKnown
  <2> HIDE DEF r
  <2>3. r.asker \in Askers /\ r.n \in Nat /\ r.n <= asked
    BY <2>1, HeldTyped DEF QuestionsMatch
  <2>4. ~(ask'[r.asker].n = r.n /\ ask'[r.asker].query # NoQuery)
    <3>1. CASE r.asker = a
      BY <2>3, <3>1, AskChanges
    <3>2. CASE r.asker # a
      BY <1>5, <2>2, <2>3, <3>2 DEF Open, Waiting
    <3> QED
      BY <3>1, <3>2
  <2> QED
    BY <1>1, <2>4 DEF Open, r, Waiting
<1> QED
  BY <1>1, <1>4, <1>5, <1>6, <1>7, <1>8 DEF SilenceKnown

LEMMA HangupKeepsSilence ==
  ASSUME IInv, SilenceKnown, NEW a \in Askers, NEW res, Hangup(a, res)
  PROVE  SilenceKnown'
<1> USE DEF IInv
<1>1. /\ UNCHANGED <<pending, batch, pc, serving, call, held>> /\ Held' = Held
      /\ inbox' = [inbox EXCEPT ![a] = <<>>] /\ wasHeld' = [wasHeld EXCEPT ![a] = FALSE]
  BY DEF Hangup, classifierVars, runtimeVars, Held
<1>2. /\ ~Waiting(a)'
      /\ \A b \in Askers \ {a} :
           /\ ask'[b] = ask[b] /\ Waiting(b)' = Waiting(b)
           /\ inbox'[b] = inbox[b] /\ wasHeld'[b] = wasHeld[b] /\ AskedFor(b)' = AskedFor(b)
  BY <1>1, HangupChanges DEF Waiting, AskedFor, TypeOK
<1>3. ASSUME NEW r \in Held, Open(r)' PROVE Open(r)
  <2>1. r.asker \in Askers /\ Waiting(r.asker)'
    BY <1>3, HeldTyped DEF Open, Waiting
  <2>2. r.asker # a
    BY <1>2, <2>1 DEF Waiting
  <2> QED
    BY <1>2, <1>3, <2>1, <2>2 DEF Open
<1>4. \A i \in DOMAIN batch : batch[i] \in Held
  BY DEF Held
<1>5. \A i \in DOMAIN batch' : batch'[i].hup => ~Open(batch[i])'
  BY <1>1, <1>3, <1>4 DEF SilenceKnown
<1> QED
  BY <1>1, <1>2, <1>5 DEF SilenceKnown, Open

\* The classifier drops no question whose asker still waits for it: it keeps
\* it, or answers it.
LEMMA ClassifierPasses ==
  ASSUME TypeOK, HandlerLocals, SilenceKnown, ClassifierStep,
         NEW a \in Askers, Waiting(a), AskedFor(a)
  PROVE  inbox'[a] # <<>> \/ AskedFor(a)'
<1>1. PICK s \in Held : s.asker = a /\ s.n = ask[a].n
  BY DEF AskedFor
<1>2. ask' = ask /\ Open(s)
  BY <1>1, ClassifierLeavesAskers DEF Open
<1>3. SUFFICES ASSUME ~(inbox'[a] # <<>>)
               PROVE  \E r \in Held' : r.asker = s.asker /\ r.n = s.n
  BY <1>1, <1>2 DEF AskedFor
<1>4. CASE Collect
  <2>1. PICK k \in 1..Len(pending) :
          /\ batch' = [i \in 1..k |->
               [asker |-> pending[i].asker, n |-> pending[i].n, query |-> pending[i].query,
                hup |-> ~Open(pending[i])]]
          /\ pending' = SubSeq(pending, k + 1, Len(pending))
    BY <1>4 DEF Collect
  <2>2. k \in Nat /\ Len(pending) \in Nat /\ k <= Len(pending) /\ DOMAIN pending = 1..Len(pending)
        /\ pending \in Seq(Request)
    BY DEF TypeOK
  <2>3. PICK j \in DOMAIN pending : s = pending[j]
    BY <1>4 DEF Held, Collect
  <2>4. CASE j <= k
    <3>1. j \in DOMAIN batch' /\ batch'[j].asker = s.asker /\ batch'[j].n = s.n
      BY <2>1, <2>2, <2>3, <2>4
    <3> QED
      BY <3>1 DEF Held
  <2>5. CASE ~(j <= k)
    <3>1. DOMAIN pending' = 1..(Len(pending) - k)
          /\ \A i \in DOMAIN pending' : pending'[i] = pending[k + i]
      BY <2>1, <2>2, RestOfSequence
    <3>2. j - k \in 1..(Len(pending) - k) /\ k + (j - k) = j
      BY <2>2, <2>3, <2>5
    <3>3. j - k \in DOMAIN pending' /\ pending'[j - k] = s
      BY <2>3, <3>1, <3>2
    <3> QED
      BY <3>3 DEF Held
  <2> QED
    BY <2>4, <2>5
<1>5. CASE DropHungUp \/ HandleClassify
  <2>1. /\ batch # <<>> /\ batch' = Tail(batch) /\ batch \in Seq(Event) /\ pending' = pending
        /\ pc = "idle"
        /\ Head(batch).hup \/ (pc' # "idle" /\ serving' = Head(batch))
    BY <1>5 DEF DropHungUp, HandleClassify, TypeOK
  <2>2. /\ Len(batch) \in Nat \ {0} /\ DOMAIN batch = 1..Len(batch) /\ Head(batch) = batch[1]
        /\ 1 \in DOMAIN batch
    BY <2>1, EmptySeq
  <2>3. /\ DOMAIN batch' = 1..(Len(batch) - 1)
        /\ \A i \in 1..(Len(batch) - 1) : batch'[i] = batch[i + 1]
    <3>1. /\ batch' \in Seq(Event) /\ Len(batch') = Len(batch) - 1
          /\ \A i \in 1..Len(batch') : batch'[i] = batch[i + 1]
      BY <2>1, HeadTailProperties
    <3> QED
      BY <3>1
  <2>4. CASE s \in {pending[i] : i \in DOMAIN pending}
    BY <2>1, <2>4 DEF Held
  <2>5. CASE s = batch[1]
    <3>1. ~Head(batch).hup
      BY <1>2, <2>2, <2>5 DEF SilenceKnown
    <3> QED
      BY <2>1, <2>2, <2>5, <3>1 DEF Held
  <2>6. ASSUME NEW i \in DOMAIN batch, i # 1, s = batch[i] PROVE s \in Held'
    <3>1. i - 1 \in 1..(Len(batch) - 1) /\ (i - 1) + 1 = i
      BY <2>2, <2>6
    <3>2. i - 1 \in DOMAIN batch' /\ batch'[i - 1] = s
      BY <2>3, <2>6, <3>1
    <3> QED
      BY <3>2 DEF Held
  <2> QED
    BY <2>1, <2>4, <2>5, <2>6 DEF Held
<1>6. CASE SendResponse
  <2>1. /\ pending' = pending /\ batch' = batch /\ pc = "reply"
        /\ inbox' = IF Open(serving)
                      THEN [inbox EXCEPT ![serving.asker] = Append(@, resp)] ELSE inbox
    BY <1>6 DEF SendResponse
  <2>2. s # serving
    <3> SUFFICES ASSUME s = serving PROVE FALSE
      OBVIOUS
    <3>1. inbox[a] \in Seq(Response) /\ resp \in Response /\ a \in DOMAIN inbox
      BY DEF TypeOK
    <3>2. inbox'[a] = Append(inbox[a], resp)
      BY <1>1, <1>2, <2>1, <3>1
    <3>3. inbox'[a] # <<>>
      BY <3>1, <3>2, AppendProperties
    <3> QED
      BY <1>3, <3>3
  <2> QED
    BY <2>1, <2>2 DEF Held
<1>7. CASE ConnectToRuntime \/ RuntimeAnswered \/ RuntimeSilent \/ Fallback
  <2>1. /\ pending' = pending /\ batch' = batch /\ serving' = serving
        /\ pc # "idle" /\ pc' # "idle"
    BY <1>7 DEF ConnectToRuntime, RuntimeAnswered, RuntimeSilent, Fallback, Returns
  <2> QED
    BY <2>1 DEF Held
<1> QED
  BY <1>4, <1>5, <1>6, <1>7 DEF ClassifierStep

LEMMA ClassifierKeepsSilence ==
  ASSUME IInv, SilenceKnown, ClassifierStep
  PROVE  SilenceKnown'
<1> USE DEF IInv
<1>1. UNCHANGED <<ask, wasHeld, held>> /\ \A b \in Askers : Waiting(b)' = Waiting(b)
  BY ClassifierLeavesAskers DEF Waiting
<1>2. \A b \in Askers : inbox[b] # <<>> => inbox'[b] # <<>>
  <2>1. CASE SendResponse
    <3>1. serving.asker \in Askers /\ resp \in Response /\ inbox \in [Askers -> Seq(Response)]
      BY <2>1, ServingIsHeld DEF SendResponse, TypeOK
    <3>2. Append(inbox[serving.asker], resp) # <<>>
      BY <3>1, AppendProperties
    <3> QED
      BY <2>1, <3>1, <3>2 DEF SendResponse
  <2>2. CASE ~SendResponse
    BY <2>2 DEF ClassifierStep, Collect, DropHungUp, HandleClassify, ConnectToRuntime,
                RuntimeAnswered, RuntimeSilent, Fallback, askVars
  <2> QED
    BY <2>1, <2>2
<1>3. \A b \in Askers : Waiting(b) => inbox'[b] # <<>> \/ AskedFor(b)'
  BY <1>2, ClassifierPasses DEF SilenceKnown
<1>4. pc' = "wait" => call' # "none"
  BY DEF SilenceKnown, ClassifierStep, Collect, DropHungUp, HandleClassify, ConnectToRuntime,
         RuntimeAnswered, RuntimeSilent, Fallback, SendResponse
<1>5. \A i \in DOMAIN batch' : batch'[i].hup => ~Open(batch'[i])
  <2>1. CASE Collect
    <3>1. PICK k \in 1..Len(pending) : batch' = [i \in 1..k |->
            [asker |-> pending[i].asker, n |-> pending[i].n, query |-> pending[i].query,
             hup |-> ~Open(pending[i])]]
      BY <2>1 DEF Collect
    <3> QED
      BY <3>1 DEF Open
  <2>2. CASE DropHungUp \/ HandleClassify
    <3>1. batch # <<>> /\ batch' = Tail(batch) /\ batch \in Seq(Event)
      BY <2>2 DEF DropHungUp, HandleClassify, TypeOK
    <3>2. \A i \in DOMAIN batch' : i + 1 \in DOMAIN batch /\ batch'[i] = batch[i + 1]
      <4>1. Len(batch) \in Nat \ {0}
        BY <3>1, EmptySeq
      <4>2. batch' \in Seq(Event) /\ Len(batch') = Len(batch) - 1
            /\ \A i \in 1..Len(batch') : batch'[i] = batch[i + 1]
        BY <3>1, HeadTailProperties
      <4> QED
        BY <3>1, <4>1, <4>2
    <3> QED
      BY <3>2 DEF SilenceKnown
  <2>3. CASE ~(Collect \/ DropHungUp \/ HandleClassify)
    <3>1. batch' = batch
      BY <2>3 DEF ClassifierStep, ConnectToRuntime, RuntimeAnswered, RuntimeSilent, Fallback,
                  SendResponse
    <3> QED
      BY <3>1 DEF SilenceKnown
  <2> QED
    BY <2>1, <2>2, <2>3
<1>6. \A i \in DOMAIN batch' : batch'[i].hup => ~Open(batch[i])'
  BY <1>1, <1>5 DEF Open, Waiting
<1> QED
  BY <1>1, <1>2, <1>3, <1>4, <1>6 DEF SilenceKnown

LEMMA RuntimeKeepsSilence ==
  ASSUME IInv, SilenceKnown, RuntimeStep
  PROVE  SilenceKnown'
<1> USE DEF IInv
<1>1. /\ UNCHANGED <<ask, inbox, pending, batch, pc, serving>>
      /\ call' = call \/ call' \in {"text", "error", "reset"}
      /\ \/ wasHeld' = wasHeld /\ (held' => held)
         \/ wasHeld' = [b \in Askers |-> wasHeld[b] \/ Waiting(b)]
  BY DEF RuntimeStep, Infer, LoadModel, UnloadModel, SendStalls, SendEnds,
         OthersConnect, RuntimeDies, RuntimeStarts, askVars, classifierVars, runtimeVars
<1>2. /\ \A b \in Askers : Waiting(b)' = Waiting(b) /\ AskedFor(b)' = AskedFor(b)
      /\ \A i \in DOMAIN batch : Open(batch[i])' = Open(batch[i])
  BY <1>1 DEF Waiting, AskedFor, Held, Open
<1>3. \A b \in Askers : (wasHeld[b] => wasHeld'[b]) /\ (Waiting(b) /\ held' => wasHeld'[b])
  BY <1>1 DEF SilenceKnown
<1> QED
  BY <1>1, <1>2, <1>3 DEF SilenceKnown

\* Time passes for an asker only while the classifier waits for a runtime that
\* is held.
LEMMA TickKeepsSilence ==
  ASSUME IInv, SilenceKnown, Tick
  PROVE  SilenceKnown'
<1> USE DEF IInv
<1>1. UNCHANGED <<inbox, pending, batch, pc, serving, call, held, wasHeld>> /\ Held' = Held
  BY DEF Tick, runtimeVars, Held
<1>2. \A b \in Askers : /\ Waiting(b)' = Waiting(b)
                        /\ ask'[b].n = ask[b].n /\ ask'[b].query = ask[b].query
  BY TickChanges DEF Waiting
<1>3. \A b \in Askers : AskedFor(b)' = AskedFor(b)
  BY <1>1, <1>2 DEF AskedFor
<1>4. ASSUME NEW i \in DOMAIN batch PROVE Open(batch[i])' => Open(batch[i])
  <2>1. batch[i] \in Held
    BY DEF Held
  <2>2. batch[i].asker \in Askers
    BY <2>1, HeldTyped
  <2> QED
    BY <1>1, <1>2, <2>2 DEF Open, Waiting
<1>5. ASSUME NEW b \in Askers, Waiting(b) PROVE wasHeld[b]
  <2>1. AskedFor(b)
    BY <1>5 DEF Tick, Pressing, SilenceKnown
  <2>2. Held # {} /\ (pc = "idle" => batch = <<>> /\ pending = <<>>)
    BY <2>1 DEF AskedFor, Tick, Pressing
  <2>3. pc = "wait" \/ ConnectBlocks
    BY <2>2 DEF Held, Tick, Pressing
  <2>4. held
    BY <2>3 DEF Tick, Pressing, Returns, ConnectBlocks
  <2> QED
    BY <1>5, <2>4 DEF SilenceKnown
<1> QED
  BY <1>1, <1>2, <1>3, <1>4, <1>5 DEF SilenceKnown

LEMMA SilenceInductive ==
  ASSUME IInv, SilenceKnown, [Next]_vars
  PROVE  SilenceKnown'
<1>1. ASSUME NEW a \in Askers, AskerStep(a) PROVE SilenceKnown'
  BY <1>1, HangupKeepsSilence DEF AskerStep, ReadAnswer, GiveUp
<1>2. CASE UNCHANGED vars
  BY <1>2 DEF vars, askVars, classifierVars, runtimeVars, SilenceKnown, Waiting, AskedFor, Held, Open
<1> QED
  BY <1>1, <1>2, AskKeepsSilence, ClassifierKeepsSilence, RuntimeKeepsSilence, TickKeepsSilence
     DEF Next, RuntimeStep

LEMMA SilenceInvariant == Spec => []SilenceKnown
<1>1. Init => SilenceKnown
  BY DEF Init, SilenceKnown, Waiting
<1>2. IInv /\ SilenceKnown /\ [Next]_vars => SilenceKnown'
  BY SilenceInductive
<1> QED
  BY <1>1, <1>2, Invariant, PTL DEF Spec

\* Only a runtime that was silent while it waited makes an asker give up: the
\* questions of others, and those given up before, do not cost it its answer.
THEOREM OnlySilenceIsWaitedFor == Spec => WaitsInVainOnlyForSilence
<1>1. ASSUME IInv, SilenceKnown
      PROVE  \A a \in Askers : GiveUp(a) => wasHeld[a]
  <2>1. \A a \in Askers : ask[a].age = AskTimeout => ask[a].age # 0
    BY Tier1Assumption
  <2> QED
    BY <1>1, <2>1 DEF SilenceKnown, GiveUp
<1>2. IInv /\ SilenceKnown => [\A a \in Askers : GiveUp(a) => wasHeld[a]]_vars
  BY <1>1
<1> QED
  BY <1>2, Invariant, SilenceInvariant, PTL DEF WaitsInVainOnlyForSilence
===============================================================================
