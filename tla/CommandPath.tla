------------------------------ MODULE CommandPath ------------------------------
(***************************************************************************)
(* The way of a query from its words to a command, when the rule engine    *)
(* does not recognise it: the router's keywords or else the classifier's   *)
(* name a capability, the registry an agent, the policy engine is asked    *)
(* about agent and capability, and the agent decides by the words again    *)
(* what it runs.  Four programs read the same words with tables of their   *)
(* own; Orchestrator.tla has the same path with the tables left open and   *)
(* with its failures.                                                      *)
(***************************************************************************)
EXTENDS AgentCommands, PolicyRules

CONSTANTS
  Queries,          \* sets of words
  NoAgent

ASSUME PathAssumption ==
  /\ MaxKeywords \in Nat /\ MaxKeywordRules \in Nat
  /\ NoAgent \notin DOMAIN Announces

VARIABLES
  pc,               \* the stage of on_request_handler
  words,            \* of the query
  capitals,         \* its letters a to z are capitals
  argument,         \* there is text for a command's argument in it
  cap, agent,
  outcome           \* of the task
pathVars == <<pc, words, capitals, argument, cap, agent, outcome>>
query == <<words, capitals, argument>>

Nothing == Outcome("nothing", FALSE)

\* rules/defaults/default.policy.toml; require_root is not looked at.
DefaultRule(c, a, act, p) == [cap |-> c, agent |-> a, action |-> act, prio |-> p]
DefaultRules == <<
  DefaultRule("*", "*", "allow", 0),
  DefaultRule("open_application", "*", "allow", 10),
  DefaultRule("close_application", "*", "allow", 10),
  DefaultRule("install_package", "package-agent", "allow", 10),
  DefaultRule("search_package", "*", "allow", 10),
  DefaultRule("install_package", "*", "deny", 20),
  DefaultRule("system_shutdown", "*", "deny", 50),
  DefaultRule("system_reboot", "*", "deny", 50),
  DefaultRule("remove_package", "*", "deny", 30),
  DefaultRule("network_management", "*", "allow", 10),
  DefaultRule("audio_control", "*", "allow", 10),
  DefaultRule("screenshot", "*", "allow", 10),
  DefaultRule("notification", "*", "allow", 10) >>

Allowed(a, c) == IsDecision(DefaultRules, [agent |-> a, cap |-> c], "allow")

-------------------------------------------------------------------------------
Receive ==
  /\ pc = "idle"
  /\ pc' = "route"
  /\ words' \in Queries /\ capitals' \in BOOLEAN /\ argument' \in BOOLEAN
  /\ UNCHANGED <<cap, agent, outcome>>

\* Router and classifier turn capitals into small letters first.
Route ==
  /\ pc = "route"
  /\ cap' = RouterResolve(words)
  /\ pc' = IF cap' = NoCapability THEN "classify" ELSE "find"
  /\ UNCHANGED <<query, agent, outcome>>

\* Without a capability the client is told that no intent matched.
Classify ==
  /\ pc = "classify"
  /\ cap' = KeywordClassify(words)
  /\ pc' = IF cap' = NoCapability THEN "answered" ELSE "find"
  /\ UNCHANGED <<query, agent, outcome>>

FindAgent ==
  /\ pc = "find"
  /\ \/ \E a \in DOMAIN Announces : cap \in Announces[a] /\ agent' = a /\ pc' = "check"
     \/ /\ \A a \in DOMAIN Announces : cap \notin Announces[a]
        /\ pc' = "answered" /\ UNCHANGED agent
  /\ UNCHANGED <<query, cap, outcome>>

CheckPolicy ==
  /\ pc = "check"
  /\ pc' = IF Allowed(agent, cap) THEN "dispatch" ELSE "answered"
  /\ UNCHANGED <<query, cap, agent, outcome>>

\* The agent gets the words as they were written, and compares them as they
\* are.
Heard == IF capitals THEN Contained(words) \cap {"%"} ELSE Contained(words)

Dispatch(end) ==
  /\ pc = "dispatch"
  /\ outcome' = Task(agent, Heard, argument, end)
  /\ pc' = "answered"
  /\ UNCHANGED <<query, cap, agent>>

Reply ==
  /\ pc = "answered"
  /\ pc' = "idle"
  /\ words' = {} /\ capitals' = FALSE /\ argument' = FALSE
  /\ cap' = NoCapability /\ agent' = NoAgent /\ outcome' = Nothing

PathInit ==
  /\ pc = "idle" /\ words = {} /\ capitals = FALSE /\ argument = FALSE
  /\ cap = NoCapability /\ agent = NoAgent /\ outcome = Nothing

PathNext ==
  \/ Receive \/ Route \/ Classify \/ FindAgent \/ CheckPolicy
  \/ \E end \in Ends : Dispatch(end)
  \/ Reply

PathSpec == PathInit /\ [][PathNext]_pathVars

-------------------------------------------------------------------------------
\* A keyword by itself means what its table says, though others are inside it
\* ('install' in 'uninstall', 'mute' in 'unmute', 'start' in 'restart') and
\* though both tables are full.  The exceptions are two of the router's that
\* have an earlier keyword inside them, and its last one, for which the table
\* has no room.
Lost == {"baglat", "baghlat", "yenileh"}
KeywordsReachTheirCapability ==
  pc = "answered" =>
    /\ \A i \in DOMAIN Pairs :
         words = {Pairs[i][1]} /\ Pairs[i][1] \notin Lost => cap = Pairs[i][2]
    /\ \A i \in DOMAIN KeywordRules :
         words = {KeywordRules[i][1]} => KeywordClassify(words) = KeywordRules[i][2]

\* What an agent runs for a keyword of the router is what the keyword says: the
\* tables of router and agents, which know nothing of each other, agree on the
\* words both have.
Meaning ==
  {<<"ac", "open">>, <<"ach", "open">>, <<"kur", "install">>, <<"install", "install">>,
   <<"sil", "remove">>, <<"remove", "remove">>, <<"ara", "search">>, <<"search", "search">>,
   <<"shutdown", "poweroff">>, <<"reboot", "reboot">>, <<"yeniden baslat", "reboot">>,
   <<"yenidehn bashlat", "reboot">>, <<"lock", "lock">>, <<"mute", "mute">>,
   <<"update", "update">>}
WordsKeepTheirMeaning ==
  pc = "answered" /\ outcome.runs # "nothing" => \A i \in DOMAIN Pairs :
    words = {Pairs[i][1]} => <<Pairs[i][1], outcome.runs>> \in Meaning

\* The command that runs is one that the policy would allow the agent, had it
\* been asked about the command and not about the capability of the keyword
\* that happened to come first.
CommandCapability ==
  [poweroff |-> "system_shutdown", reboot |-> "system_reboot",
   install |-> "install_package", remove |-> "remove_package"]
PolicyGovernsCommands ==
  pc = "answered" /\ outcome.runs \in DOMAIN CommandCapability =>
    Allowed(agent, CommandCapability[outcome.runs])
===============================================================================
