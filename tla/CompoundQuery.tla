----------------------------- MODULE CompoundQuery -----------------------------
(***************************************************************************)
(* Compound queries of the rule engine (rule-engine/main.c, split_query    *)
(* and the request case of handle_message): a text with a separator in it  *)
(* is cut in two, the pipeline runs for one part after the other, and one  *)
(* reply has the results of both.  The pipeline, and the thread that       *)
(* reloads the rules meanwhile, are those of RuleEngine.tla; here is what  *)
(* the server thread does between the pipeline's runs.                     *)
(*                                                                         *)
(* A text is the sequence of what stands between its blanks, the empty     *)
(* word where two blanks follow each other and where it ends with one.     *)
(***************************************************************************)
EXTENDS RuleEngine

CONSTANTS
  Words, Blank,   \* words of a text; the empty one
  Separators,     \* "ve", "&", ..., in the order in which they are looked for
  Texts           \* the queries that clients send

VARIABLES
  parts,          \* of the request in hand, <<>> when there is none
  results,        \* multi_results: what the pipeline made of the parts so far
  found,          \* how many of them were recognised
  response        \* the response sent, until the next request; "computed" is
                  \* all of its results
partVars == <<parts, results, found>>
compoundVars == <<vars, partVars, response>>

-------------------------------------------------------------------------------
(* Splitting (split_query).                                                   *)

Text == Seq(Words \cup {Blank})
LeastOf(S) == CHOOSE i \in S : \A k \in S : i <= k
GreatestOf(S) == CHOOSE i \in S : \A k \in S : k <= i

\* A separator is looked for with a blank on either side.
Occurrences(t, word) == {k \in 2..(Len(t) - 1) : t[k] = word}
Present(t) == {i \in DOMAIN Separators : Occurrences(t, Separators[i]) # {}}

Trimmed(t) ==
  LET written == {k \in DOMAIN t : t[k] # Blank}
  IN IF written = {} THEN <<>> ELSE SubSeq(t, LeastOf(written), GreatestOf(written))

\* The first separator of the list that occurs decides, wherever it stands, and
\* nothing is cut a second time.  If nothing is left on one side of it, the
\* text is a query of its own.
SplitQuery(t) ==
  IF Present(t) = {} THEN <<t>>
  ELSE LET cut == LeastOf(Occurrences(t, Separators[LeastOf(Present(t))]))
           front == Trimmed(SubSeq(t, 1, cut - 1))
           back == Trimmed(SubSeq(t, cut + 1, Len(t)))
       IN IF front = <<>> \/ back = <<>> THEN <<t>> ELSE <<front, back>>

ASSUME CompoundAssumption ==
  /\ Separators \in Seq(Words) /\ Blank \notin Words
  /\ Texts \subseteq Text \ {<<>>}
  /\ \A t \in Texts : \A i \in DOMAIN SplitQuery(t) : SplitQuery(t)[i] \in Queries

-------------------------------------------------------------------------------
(* What is sent, and what the orchestrator reads in it.                       *)

Recognised(rs) == {i \in DOMAIN rs : rs[i].answer # None}

\* Mutant of Sent: all results.
SentAll(rs, n) == rs

\* protocol_build_response, or protocol_build_multi_response: as many results
\* from the front as were recognised.
Sent(rs, n) == IF Len(rs) = 1 THEN rs ELSE SubSeq(rs, 1, n)

\* rule_client_query searches the whole text for an intent "unknown" and takes
\* the first intent otherwise.
RuleClientReads(rs) ==
  IF Recognised(rs) # DOMAIN rs THEN "unknown"
  ELSE IF rs = <<>> THEN "no_intent"
  ELSE rs[1].answer

-------------------------------------------------------------------------------
NoResponse == [parts |-> <<>>, computed |-> <<>>, results |-> <<>>]

CompoundInit ==
  /\ Init
  /\ parts = <<>> /\ results = <<>> /\ found = 0
  /\ response = NoResponse

Idle == ipc = "idle" /\ parts = <<>>

ReceiveText(t) ==
  /\ Idle
  /\ parts' = SplitQuery(t) /\ response' = NoResponse
  /\ UNCHANGED <<vars, results, found>>

RunPart ==
  /\ ipc = "idle" /\ Len(results) < Len(parts)
  /\ ReceiveQuery(parts[Len(results) + 1])
  /\ UNCHANGED <<partVars, response>>

\* A step of the pipeline; when it returns, its result is the part's.
PipelineStep ==
  /\ CacheLookup \/ StageLookup \/ AliasLookup \/ CacheStore
  /\ IF ipc' = "idle"
       THEN /\ results' = Append(results, reply')
            /\ found' = IF reply'.answer # None THEN found + 1 ELSE found
       ELSE UNCHANGED <<results, found>>
  /\ UNCHANGED <<parts, response>>

SendResponse ==
  /\ ipc = "idle" /\ parts # <<>> /\ Len(results) = Len(parts)
  /\ response' = [parts |-> parts, computed |-> results, results |-> Sent(results, found)]
  /\ parts' = <<>> /\ results' = <<>> /\ found' = 0
  /\ UNCHANGED vars

\* Mutant of AddRuleBetween: a rule is taken between two parts.
AddRuleBetweenParts(s, r) == AddRule(s, r) /\ UNCHANGED <<partVars, response>>

\* The thread reads the next message when the response is sent.
AddRuleBetween(s, r) == Idle /\ AddRule(s, r) /\ UNCHANGED <<partVars, response>>

\* The rest of handle_add_rule, the other thread and the environment.
OtherStep ==
  /\ \/ ParseRule \/ CheckRuleRoom \/ AppendRuntimeRule \/ FlushCache
     \/ ReloadStep \/ CacheCleanup
     \/ \E content \in Contents : EditFiles(content)
     \/ RequestReload
  /\ UNCHANGED <<partVars, response>>

CompoundNext ==
  \/ \E t \in Texts : ReceiveText(t)
  \/ RunPart \/ PipelineStep \/ SendResponse
  \/ \E sr \in RuntimeRules : AddRuleBetween(sr[1], sr[2])
  \/ OtherStep

\* Fairness is that of RuleEngine (the server thread, the main thread, the
\* cleanup interval), and the server thread goes on with a request in hand.
CompoundSpec ==
  /\ CompoundInit /\ [][CompoundNext]_compoundVars
  /\ WF_vars(ReloadStep) /\ WF_vars(CacheCleanup) /\ WF_vars(IpcStep)
  /\ WF_compoundVars(RunPart \/ SendResponse)

-------------------------------------------------------------------------------
(* Properties.                                                                *)

PartResult == [query : Queries, answer : Answers \cup Queries \cup {None}]
CompoundTypeOK ==
  /\ parts \in Seq(Queries) /\ results \in Seq(PartResult) /\ found \in Nat
  /\ response.parts \in Seq(Queries)
  /\ response.computed \in Seq(PartResult) /\ response.results \in Seq(PartResult)

\* Requests of two parts are nothing but queries one after the other: each step
\* is one of RuleEngine, or one of which it knows nothing, and what RuleEngine
\* is sure to do is done.
ImplementsEngine == Spec

\* Without a reload the parts of a request are answered from the same rules,
\* those of the moment in which the response is sent: no client's rule gets in
\* between them.
PartsSeeTheSameRules ==
  reloads = 0 => \A i \in DOMAIN results : results[i].answer = Answer(results[i].query)

\* When the built-in intents know every part, every part is answered by them,
\* in the order of the text, whatever is reloaded between the parts.
BuiltinPartsAnswered ==
  (\A i \in DOMAIN response.parts : Matching(Builtin["intent"], response.parts[i]) # {}) =>
    /\ Len(response.results) = Len(response.parts)
    /\ \A i \in DOMAIN response.parts :
         response.results[i] = [query |-> response.parts[i],
                                answer |-> Best(Builtin["intent"], response.parts[i]).answer]

\* The first part decides what the orchestrator makes of the reply, as the
\* recognised results are counted and then taken from the front: with it
\* recognised the request has its capability, whatever the second part came to;
\* without it a second part that was recognised is never acted upon.
FirstPartDecides ==
  response.parts # <<>> =>
    LET first == response.computed[1] IN
    /\ first.query = response.parts[1]
    /\ IF first.answer # None THEN RuleClientReads(response.results) = first.answer
       ELSE RuleClientReads(response.results) \in {"unknown", "no_intent"}
===============================================================================
