------------------------------- MODULE RuleEngine ------------------------------
(***************************************************************************)
(* The rule engine daemon (rule-engine/main.c): two threads over the same  *)
(* four rule tables and the result cache.  The server thread answers       *)
(* queries and adds runtime rules; the main thread reloads the rule files  *)
(* when asked to and empties the cache now and then.  Each table and the   *)
(* cache has a mutex of its own, held for one operation only, so whatever  *)
(* takes two operations can be cut in between.  Both threads cut a rule's  *)
(* text into its fields with strtok, whose place is one variable of the    *)
(* program, under no common mutex.                                         *)
(*                                                                         *)
(* A rule is the query it matches, its answer, its rank among the matches  *)
(* and where it comes from.  Matching itself (text comparison, regular     *)
(* expressions, substrings) is abstracted to the query.  Tables are        *)
(* sequences: later rules lose against earlier ones of the same rank, and  *)
(* in the intent and alias tables all rules have the same.                 *)
(***************************************************************************)
EXTENDS Naturals, Sequences, FiniteSets

CONSTANTS
  Queries,
  Answers,        \* intents a query can be recognised as
  None,           \* no answer ("unknown"), no query
  Builtin,        \* the rules compiled in, per table
  Contents,       \* contents the rule files can have, per table
  RuntimeRules,   \* <<table, rule>> that clients add
  Misread,        \* rules that the pieces of a line and of a client's text
                  \* can make, per table
  MinScore,       \* score from which a token match counts (confidence 0.5)
  MaxRules,       \* size of a table
  MaxEdits,       \* bound: edits of the rule files
  MaxReloads      \* bound: reload requests

Stages == {"intent", "regex", "token", "alias"}

\* The order in which the pipeline asks the tables, and the order in which a
\* reload goes through them.
NextStage == [cache |-> "intent", intent |-> "regex", regex |-> "token",
              token |-> "alias", alias |-> "unknown"]
LoadOrder == <<"regex", "token", "intent", "alias">>

\* A rule of a table, from one of some sources; an alias rule's answer is the
\* query it stands for.
Sources == {"builtin", "file", "runtime"}
Rule(s, srcs) ==
  [query : Queries, answer : Answers \cup Queries,
   rank : IF s \in {"intent", "alias"} THEN {0} ELSE Nat, src : srcs]

ASSUME RuleEngineAssumption ==
  /\ None \notin Queries /\ None \notin Answers
  /\ DOMAIN Builtin = Stages
  /\ \A s \in Stages : Builtin[s] \in Seq(Rule(s, {"builtin"})) /\ Len(Builtin[s]) <= MaxRules
  /\ \A content \in Contents :
       DOMAIN content = Stages /\ \A s \in Stages : content[s] \in Seq(Rule(s, {"file"}))
  /\ \A sr \in RuntimeRules : sr[1] \in Stages /\ sr[2] \in Rule(sr[1], {"runtime"})
  /\ \A s \in Stages : Misread[s] \subseteq Rule(s, {"file"})
  /\ MinScore \in Nat /\ MaxRules \in Nat /\ MaxEdits \in Nat /\ MaxReloads \in Nat

VARIABLES
  tables,         \* the four tables
  cache,          \* the cached answer of a query
  files,          \* the rule files
  reload,         \* g_reload
  main,           \* the main thread: "sleep" or its place in do_reload
  stage,          \* index into LoadOrder
  todo,           \* rules of the open file not added yet
  torn,           \* threads whose strtok was used by the other one meanwhile
  ipc,            \* the server thread: "idle" or its place in a handler
  query, answer,  \* of the query in its hands
  adding,         \* the runtime rule in its hands
  reply,          \* the reply to the last query, until the next one
  loaded,         \* what the last reload read, per table
  garbled,        \* tables of which it read a torn line (not in the code;
                  \* kept while a property needs it)
  added,          \* runtime rules added so far, per table
  asked, edits, reloads  \* of the bounds: rules asked to add, edits, requests

mainVars == <<main, stage, todo, loaded, garbled>>
ipcVars == <<ipc, query, answer, adding, reply, added>>
envVars == <<files, asked, edits, reloads>>
vars == <<tables, cache, reload, torn, mainVars, ipcVars, envVars>>

NoReply == [query |-> None, answer |-> None]
NoRules == [s \in Stages |-> <<>>]
EmptyCache == [q \in Queries |-> None]

\* The cache, with the room that its size leaves it (ResultCache.tla has the
\* hash table).
Cache == INSTANCE CacheMap WITH CacheQueries <- Queries, CacheAnswers <- Answers \cup Queries,
                                Nothing <- None, held <- cache

-------------------------------------------------------------------------------
(* What the tables say.                                                       *)

Matching(t, q) == {i \in DOMAIN t : t[i].query = q}

\* Mutant of Best: among equals the last.
BestOfEqualsLast(t, q) ==
  t[CHOOSE i \in Matching(t, q) : \A k \in Matching(t, q) :
      t[k].rank < t[i].rank \/ (t[k].rank = t[i].rank /\ k <= i)]

\* The slots of a table that match, and the one that wins: the best rank, and
\* among equals the first.
Best(t, q) ==
  t[CHOOSE i \in Matching(t, q) : \A k \in Matching(t, q) :
      t[k].rank < t[i].rank \/ (t[k].rank = t[i].rank /\ i <= k)]

\* Does this stage recognise the query?  A token match below the confidence
\* threshold is passed over.
Recognises(s, q) ==
  /\ Matching(tables[s], q) # {}
  /\ s = "token" => Best(tables[s], q).rank >= MinScore

\* What an undisturbed run of the pipeline answers.  Behind the alias table
\* comes only the fuzzy matcher, whose table is never filled.
Answer(q) ==
  IF Recognises("intent", q) THEN Best(tables["intent"], q).answer
  ELSE IF Recognises("regex", q) THEN Best(tables["regex"], q).answer
  ELSE IF Recognises("token", q) THEN Best(tables["token"], q).answer
  ELSE None

\* The compaction loop: what is kept of the first n slots when the rules of
\* some sources stay, and what is kept in the end.
KeptUpTo(t, srcs) ==
  LET kept[n \in 0..Len(t)] ==
        IF n = 0 THEN <<>>
        ELSE IF t[n].src \in srcs THEN Append(kept[n - 1], t[n]) ELSE kept[n - 1]
  IN kept
Keep(t, srcs) == KeptUpTo(t, srcs)[Len(t)]

From(src, t) == Keep(t, {src})

\* A file is read into a table as far as there is room.
Filled(t, file) ==
  LET room == MaxRules - Len(t)
  IN t \o SubSeq(file, 1, IF Len(file) <= room THEN Len(file) ELSE room)

-------------------------------------------------------------------------------
Init ==
  /\ files \in Contents
  /\ tables = [s \in Stages |-> Filled(Builtin[s], files[s])]
  /\ loaded = files
  /\ cache = EmptyCache
  /\ reload = FALSE
  /\ main = "sleep" /\ stage = 1 /\ todo = <<>>
  /\ torn = {} /\ garbled = {}
  /\ ipc = "idle" /\ query = None /\ answer = None /\ adding = None
  /\ reply = NoReply
  /\ added = NoRules
  /\ asked = {} /\ edits = 0 /\ reloads = 0

-------------------------------------------------------------------------------
(* The main thread: do_reload and rules_load_all.                             *)

Main(place) ==
  /\ main' = place
  /\ UNCHANGED <<torn, ipcVars, envVars>>

\* cache_clear comes first, before the tables change.
ReloadStart ==
  /\ main = "sleep" /\ reload
  /\ cache' = EmptyCache
  /\ stage' = 1
  /\ Main("clear")
  /\ UNCHANGED <<tables, reload, todo, loaded, garbled>>

\* Mutants of ClearTable: everything that is not built in goes; what is there
\* stays.
ClearTableOfAll ==
  /\ main = "clear"
  /\ tables' = [tables EXCEPT ![LoadOrder[stage]] = Keep(@, {"builtin"})]
  /\ stage' = IF stage = 4 THEN 1 ELSE stage + 1
  /\ Main(IF stage = 4 THEN "open" ELSE "clear")
  /\ UNCHANGED <<cache, reload, todo, loaded, garbled>>
ClearTableOfNone ==
  /\ main = "clear"
  /\ stage' = IF stage = 4 THEN 1 ELSE stage + 1
  /\ Main(IF stage = 4 THEN "open" ELSE "clear")
  /\ UNCHANGED <<tables, cache, reload, todo, loaded, garbled>>

\* The file rules of all four tables go, one table after the other; the others
\* close up in their order.
ClearTable ==
  /\ main = "clear"
  /\ tables' = [tables EXCEPT ![LoadOrder[stage]] = Keep(@, {"builtin", "runtime"})]
  /\ stage' = IF stage = 4 THEN 1 ELSE stage + 1
  /\ Main(IF stage = 4 THEN "open" ELSE "clear")
  /\ UNCHANGED <<cache, reload, todo, loaded, garbled>>

OpenFile ==
  /\ main = "open"
  /\ todo' = files[LoadOrder[stage]]
  /\ loaded' = [loaded EXCEPT ![LoadOrder[stage]] = files[LoadOrder[stage]]]
  /\ garbled' = garbled \ {LoadOrder[stage]}
  /\ Main("read")
  /\ UNCHANGED <<tables, cache, reload, stage>>

\* A line is read and its fields are cut out.  When the server thread does the
\* same with a client's rule, each of the two may go on in the other's text.
ReadLine ==
  /\ main = "read" /\ todo # <<>>
  /\ main' = "parse"
  /\ torn' = IF ipc = "parse" THEN {"main", "ipc"} ELSE torn
  /\ UNCHANGED <<tables, cache, reload, stage, todo, loaded, garbled, ipcVars, envVars>>

\* A torn line may come out whole, as another rule, or as none.
ParseLine ==
  /\ main = "parse"
  /\ \/ main' = "check" /\ todo' = todo
     \/ "main" \in torn /\ main' = "read" /\ todo' = Tail(todo)
     \/ /\ "main" \in torn /\ main' = "check"
        /\ \E r \in Misread[LoadOrder[stage]] : todo' = <<r>> \o Tail(todo)
  /\ torn' = torn \ {"main"}
  /\ garbled' = IF "main" \in torn THEN garbled \cup {LoadOrder[stage]} ELSE garbled
  /\ UNCHANGED <<tables, cache, reload, stage, loaded, ipcVars, envVars>>

\* The table's count is compared with its size without the mutex: the rule is
\* appended in a step of its own.
CheckRoom ==
  /\ main = "check"
  /\ IF Len(tables[LoadOrder[stage]]) >= MaxRules
       THEN todo' = Tail(todo) /\ Main("read")
       ELSE UNCHANGED todo /\ Main("append")
  /\ UNCHANGED <<tables, cache, reload, stage, loaded, garbled>>

AppendFileRule ==
  /\ main = "append"
  /\ tables' = [tables EXCEPT ![LoadOrder[stage]] = Append(@, Head(todo))]
  /\ todo' = Tail(todo)
  /\ Main("read")
  /\ UNCHANGED <<cache, reload, stage, loaded, garbled>>

NextFile ==
  /\ main = "read" /\ todo = <<>>
  /\ stage' = IF stage = 4 THEN 1 ELSE stage + 1
  /\ Main(IF stage = 4 THEN "done" ELSE "open")
  /\ UNCHANGED <<tables, cache, reload, todo, loaded, garbled>>

\* g_reload is reset at the end, with whatever was asked meanwhile.
ReloadDone ==
  /\ main = "done"
  /\ reload' = FALSE
  /\ Main("sleep")
  /\ UNCHANGED <<tables, cache, stage, todo, loaded, garbled>>

\* Mutant of CacheCleanup: the interval never comes.
CacheCleanupNever == FALSE

\* Every cache_cleanup_interval seconds.
CacheCleanup ==
  /\ main = "sleep"
  /\ cache' = EmptyCache
  /\ Main("sleep")
  /\ UNCHANGED <<tables, reload, stage, todo, loaded, garbled>>

-------------------------------------------------------------------------------
(* The server thread: run_tier0_pipeline and handle_add_rule.                 *)

Ipc(place) ==
  /\ ipc' = place
  /\ UNCHANGED <<torn, mainVars, envVars, reload>>

ReceiveQuery(q) ==
  /\ ipc = "idle"
  /\ query' = q /\ reply' = NoReply
  /\ Ipc("cache")
  /\ UNCHANGED <<tables, cache, answer, adding, added>>

Respond(a) ==
  /\ reply' = [query |-> query, answer |-> a]
  /\ query' = None /\ answer' = None
  /\ Ipc("idle")
  /\ UNCHANGED <<tables, adding, added>>

CacheLookup ==
  /\ ipc = "cache"
  /\ IF cache[query] # None
       THEN Respond(cache[query])
       ELSE Ipc(NextStage["cache"]) /\ UNCHANGED <<tables, query, answer, adding, reply, added>>
  /\ UNCHANGED cache

\* One stage: its table is searched under its mutex.
StageLookup ==
  /\ ipc \in {"intent", "regex", "token"}
  /\ IF Recognises(ipc, query)
       THEN answer' = Best(tables[ipc], query).answer /\ Ipc("store")
       ELSE UNCHANGED answer /\ Ipc(NextStage[ipc])
  /\ UNCHANGED <<tables, cache, query, adding, reply, added>>

\* An alias that is found ends the pipeline with its target but no intent, and
\* one that is not found leads to the fuzzy matcher, which finds nothing: the
\* answer is "unknown" either way.
AliasLookup ==
  /\ ipc = "alias"
  /\ Respond(None)
  /\ UNCHANGED cache

\* The answer is stored, in the place of another query's when the cache is full.
CacheStore ==
  /\ ipc = "store"
  /\ Cache!Store(query, answer)
  /\ Respond(answer)

\* Each rule of RuntimeRules is asked for once; that is a bound of the model.
AddRule(s, r) ==
  /\ ipc = "idle"
  /\ <<s, r>> \notin asked
  /\ asked' = asked \cup {<<s, r>>}
  /\ adding' = <<s, r>>
  /\ ipc' = "parse"
  /\ torn' = IF main = "parse" THEN {"main", "ipc"} ELSE torn
  /\ UNCHANGED <<tables, cache, reload, query, answer, reply, added, mainVars, files, edits,
                 reloads>>

\* A torn rule may come out whole, as another one, or as none ("invalid_rule").
ParseRule ==
  /\ ipc = "parse"
  /\ \/ ipc' = "check" /\ adding' = adding
     \/ "ipc" \in torn /\ ipc' = "idle" /\ adding' = None
     \/ /\ "ipc" \in torn /\ ipc' = "check"
        /\ \E r \in Misread[adding[1]] : adding' = <<adding[1], [r EXCEPT !.src = "runtime"]>>
  /\ torn' = torn \ {"ipc"}
  /\ UNCHANGED <<tables, cache, reload, query, answer, reply, added, mainVars, envVars>>

\* A full table refuses ("invalid_rule").
CheckRuleRoom ==
  /\ ipc = "check"
  /\ IF Len(tables[adding[1]]) >= MaxRules
       THEN adding' = None /\ Ipc("idle")
       ELSE UNCHANGED adding /\ Ipc("append")
  /\ UNCHANGED <<tables, cache, query, answer, reply, added>>

AppendRuntimeRule ==
  /\ ipc = "append"
  /\ tables' = [tables EXCEPT ![adding[1]] = Append(@, adding[2])]
  /\ added' = [added EXCEPT ![adding[1]] = Append(@, adding[2])]
  /\ Ipc("flush")
  /\ UNCHANGED <<cache, query, answer, adding, reply>>

FlushCache ==
  /\ ipc = "flush"
  /\ cache' = EmptyCache
  /\ adding' = None
  /\ Ipc("idle")
  /\ UNCHANGED <<tables, query, answer, reply, added>>

-------------------------------------------------------------------------------
(* The environment: an administrator edits the files and asks for a reload,   *)
(* by SIGHUP or with a message.                                               *)

EditFiles(content) ==
  /\ edits < MaxEdits /\ content # files
  /\ edits' = edits + 1
  /\ files' = content
  /\ UNCHANGED <<tables, cache, reload, torn, mainVars, ipcVars, asked, reloads>>

RequestReload ==
  /\ reloads < MaxReloads
  /\ reloads' = reloads + 1
  /\ reload' = TRUE
  /\ UNCHANGED <<tables, cache, torn, mainVars, ipcVars, files, asked, edits>>

-------------------------------------------------------------------------------
ReloadStep ==
  \/ ReloadStart \/ ClearTable \/ OpenFile \/ ReadLine \/ ParseLine \/ CheckRoom
  \/ AppendFileRule \/ NextFile \/ ReloadDone

IpcStep ==
  \/ CacheLookup \/ StageLookup \/ AliasLookup \/ CacheStore
  \/ ParseRule \/ CheckRuleRoom \/ AppendRuntimeRule \/ FlushCache

Next ==
  \/ ReloadStep
  \/ CacheCleanup
  \/ IpcStep
  \/ \E q \in Queries : ReceiveQuery(q)
  \/ \E sr \in RuntimeRules : AddRule(sr[1], sr[2])
  \/ \E content \in Contents : EditFiles(content)
  \/ RequestReload

\* Both threads are scheduled and the cleanup interval passes again and again;
\* nothing is assumed of queries, edits and requests.
Spec ==
  /\ Init /\ [][Next]_vars
  /\ WF_vars(ReloadStep) /\ WF_vars(CacheCleanup) /\ WF_vars(IpcStep)

-------------------------------------------------------------------------------
(* Properties.                                                                *)

\* Reloading takes the file rules out and compacts the tables while the other
\* thread appends: no runtime rule that was once stored is ever lost, and they
\* keep their order.
RuntimeRulesSurvive == \A s \in Stages : From("runtime", tables[s]) = added[s]

\* Between reloads a table's file rules are what the last reload read, once
\* each and in the file's order, unless the table is full or a client's rule
\* was cut up together with one of its lines; even so no line has given two.
FileRulesAsLoaded ==
  main = "sleep" =>
    \A s \in Stages :
      /\ Len(From("file", tables[s])) <= Len(loaded[s])
      /\ \/ From("file", tables[s]) = loaded[s]
         \/ Len(tables[s]) >= MaxRules
         \/ s \in garbled

\* A query the built-in intent table knows is always answered from there:
\* neither a reload in progress, nor runtime rules, nor the cache change it.
BuiltinIntentsAreStable ==
  Matching(Builtin["intent"], reply.query) # {} =>
    reply.answer = Best(Builtin["intent"], reply.query).answer

\* What the cache holds is what the tables would answer.
CacheAgrees == \A q \in Queries : cache[q] # None => cache[q] = Answer(q)

\* As long as nobody asks for a reload, the cache never contradicts the
\* tables between two messages: adding a rule empties it.
CacheAgreesWithoutReload == reloads = 0 /\ ipc = "idle" => CacheAgrees

\* A reload can leave stale answers in the cache (a query that is being
\* answered stores what it found in the old tables), but when the reloads end
\* they do not stay.
CacheEventuallyAgrees == <>[]CacheAgrees

-------------------------------------------------------------------------------
(* What the repository's documents say and the code does not do.              *)

\* "Intent table: 2048" (protocol/protocol.md, limits): a table never holds
\* more rules than its size.
TablesWithinLimits == \A s \in Stages : Len(tables[s]) <= MaxRules

\* "regex | Tier 0.2 ... token | Tier 0.3 ... intent | Tier 0.4"
\* (protocol/protocol.md, source values; rule-engine/README.md has the same
\* order): the intent table is asked when neither a regular expression nor a
\* token recognises the query.
DocumentedAnswer(q) ==
  IF Recognises("regex", q) THEN Best(tables["regex"], q).answer
  ELSE IF Recognises("token", q) THEN Best(tables["token"], q).answer
  ELSE Best(tables["intent"], q).answer
DocumentedOrder == reloads = 0 /\ ipc = "store" => answer = DocumentedAnswer(query)
===============================================================================
