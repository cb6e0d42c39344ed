------------------------------ MODULE PolicyStore -----------------------------
(***************************************************************************)
(* The policy engine (policy-engine/main.c, policy/policy.c): one thread   *)
(* that reads the rule files when it starts and when it is told to, adds   *)
(* the rules that clients send, and decides requests.  Reading a file and  *)
(* deciding a request are loops over the store, taken here one rule at a   *)
(* time.                                                                   *)
(*                                                                         *)
(* match_type and require_root are left out: they are read from the files  *)
(* and never consulted.                                                    *)
(***************************************************************************)
EXTENDS PolicyRules, Sequences

CONSTANTS
  Capabilities,
  Agents, Patterns,              \* agent names; what a rule can have as agent
  Texts, Absent,                 \* what is written as action; nothing is
  Directories,                   \* contents the policy directory can have
  WireMessages,                  \* rules that clients send
  MaxPolicies,                   \* size of the store (MAX_POLICIES)
  MaxSeen                        \* bound: sections and rules between two reloads

Actions == {"allow", "deny", "ask_user"}
DefaultPriority == 10

\* A section of a rule file: texts and numbers as written.
Section == [cap : Capabilities \cup {AnyCapability}, agent : Patterns,
            action : Texts, prio : Int]
Message == [cap : Capabilities \cup {AnyCapability}, agent : Patterns,
            action : Texts]
PolicyRule == [cap : Capabilities \cup {AnyCapability}, agent : Patterns,
               action : Actions, prio : Int]
PolicyRequest == [agent : Agents, cap : Capabilities]

ASSUME PolicyAssumption ==
  /\ Absent \in Texts \ Actions
  /\ Directories \subseteq Seq(Seq(Section))
  /\ WireMessages \subseteq Message
  /\ MaxPolicies \in Nat /\ MaxSeen \in Nat

VARIABLES
  rules,          \* the store
  policyDir,      \* the policy directory: the files in the order of their names
  op,             \* "load", "idle", "check" or "answer"
  files, body,    \* names (numbers) of files still to read; sections of the open file still to read
  held,           \* the rule being read, <<>> when there is none (in_rule)
  request, index, best, bestPrio,   \* of policy_check
  decision,
  seen            \* every section opened and rule sent since the last reset

loadVars == <<files, body, held>>
checkVars == <<request, index, best, bestPrio, decision>>
policyVars == <<rules, policyDir, op, loadVars, checkVars, seen>>

-------------------------------------------------------------------------------
(* Conversions and matching.                                                  *)

\* policy_action_from_str, and the action of a rule that gives none.
ActionOf(text) == CASE text = Absent -> "allow"
                    [] text \in Actions -> text
                    [] OTHER -> "deny"

FileRule(s) == [cap |-> s.cap, agent |-> s.agent, action |-> ActionOf(s.action),
                prio |-> s.prio]

\* Mutant of WireRule: rules of clients rank above those of the files.
WireRuleUrgent(m) == [cap |-> m.cap, agent |-> m.agent, action |-> ActionOf(m.action),
                      prio |-> 5 * DefaultPriority]

WireRule(m) == [cap |-> m.cap, agent |-> m.agent, action |-> ActionOf(m.action),
                prio |-> DefaultPriority]

\* A full store keeps what it has.
Stored(t, r) == IF Len(t) < MaxPolicies THEN Append(t, r) ELSE t

-------------------------------------------------------------------------------
(* Reading the directory (policy_load_dir and policy_load_file).              *)

\* The ls of policy_load_dir lists the files once; each is read as it is when
\* its turn comes, and skipped when it has gone by then.
Listing == [k \in DOMAIN policyDir |-> k]

OpenFile ==
  /\ op = "load" /\ held = <<>> /\ body = <<>> /\ files # <<>>
  /\ LET sections == IF Head(files) \in DOMAIN policyDir THEN policyDir[Head(files)] ELSE <<>>
     IN /\ body' = sections
        /\ seen' = seen \o [k \in DOMAIN sections |-> FileRule(sections[k])]
  /\ files' = Tail(files)
  /\ UNCHANGED <<rules, policyDir, op, held, checkVars>>

\* A header: the rule read before it goes to the store, the new one is held.
ReadSection ==
  /\ op = "load" /\ body # <<>>
  /\ rules' = IF held = <<>> THEN rules ELSE Stored(rules, held[1])
  /\ held' = <<FileRule(Head(body))>>
  /\ body' = Tail(body)
  /\ UNCHANGED <<policyDir, op, files, checkVars, seen>>

\* Mutant of EndOfFile: the last rule of the file is forgotten.
EndOfFileForgetting ==
  /\ op = "load" /\ body = <<>> /\ held # <<>>
  /\ held' = <<>>
  /\ UNCHANGED <<rules, policyDir, op, files, body, checkVars, seen>>

\* The end of the file: the last rule goes to the store.
EndOfFile ==
  /\ op = "load" /\ body = <<>> /\ held # <<>>
  /\ rules' = Stored(rules, held[1])
  /\ held' = <<>>
  /\ UNCHANGED <<policyDir, op, files, body, checkVars, seen>>

LoadDone ==
  /\ op = "load" /\ body = <<>> /\ held = <<>> /\ files = <<>>
  /\ op' = "idle"
  /\ UNCHANGED <<rules, policyDir, loadVars, checkVars, seen>>

\* A client asks for a reload: the store is emptied, rules of clients included.
ReloadPolicies ==
  /\ op = "idle"
  /\ rules' = <<>> /\ seen' = <<>>
  /\ op' = "load"
  /\ files' = Listing
  /\ UNCHANGED <<policyDir, body, held, checkVars>>

-------------------------------------------------------------------------------
(* Rules of clients.                                                          *)

\* The client is told that the rule was added whether there was room or not.
AddPolicy(m) ==
  /\ op = "idle" /\ Len(seen) < MaxSeen
  /\ rules' = Stored(rules, WireRule(m))
  /\ seen' = Append(seen, WireRule(m))
  /\ UNCHANGED <<policyDir, op, loadVars, checkVars>>

-------------------------------------------------------------------------------
(* Deciding a request (policy_check): the whole loop is under the mutex.      *)

StartCheck(q) ==
  /\ op = "idle"
  /\ op' = "check"
  /\ request' = q
  /\ index' = 1 /\ best' = 0 /\ bestPrio' = -1
  /\ decision' = "deny"
  /\ UNCHANGED <<rules, policyDir, loadVars, seen>>

\* Mutant of Better: a later rule of the same priority wins.
BetterOrEqual(r) == Matches(r, request) /\ r.prio >= bestPrio

Better(r) == Matches(r, request) /\ r.prio > bestPrio

CheckRule ==
  /\ op = "check" /\ index <= Len(rules)
  /\ IF Better(rules[index])
       THEN best' = index /\ bestPrio' = rules[index].prio
       ELSE UNCHANGED <<best, bestPrio>>
  /\ index' = index + 1
  /\ UNCHANGED <<rules, policyDir, op, loadVars, request, decision, seen>>

CheckDone ==
  /\ op = "check" /\ index > Len(rules)
  /\ decision' = IF best # 0 THEN rules[best].action ELSE decision
  /\ op' = "answer"
  /\ UNCHANGED <<rules, policyDir, loadVars, request, index, best, bestPrio, seen>>

SendDecision ==
  /\ op = "answer"
  /\ op' = "idle"
  /\ index' = 1 /\ best' = 0 /\ bestPrio' = -1 /\ decision' = "deny"
  /\ UNCHANGED <<rules, policyDir, loadVars, request, seen>>

\* The administrator edits the rule files.
EditPolicies(d) ==
  /\ policyDir' = d
  /\ UNCHANGED <<rules, op, loadVars, checkVars, seen>>

-------------------------------------------------------------------------------
PolicyInit ==
  /\ rules = <<>> /\ seen = <<>>
  /\ policyDir \in Directories
  /\ op = "load"
  /\ files = Listing /\ body = <<>> /\ held = <<>>
  /\ request \in PolicyRequest
  /\ index = 1 /\ best = 0 /\ bestPrio = -1
  /\ decision = "deny"

PolicyNext ==
  \/ OpenFile \/ ReadSection \/ EndOfFile \/ LoadDone
  \/ ReloadPolicies
  \/ \E m \in WireMessages : AddPolicy(m)
  \/ \E q \in PolicyRequest : StartCheck(q)
  \/ CheckRule \/ CheckDone \/ SendDecision
  \/ \E d \in Directories : EditPolicies(d)

PolicySpec == PolicyInit /\ [][PolicyNext]_policyVars

-------------------------------------------------------------------------------
(* What the store promises.                                                   *)

\* Types; the store never outgrows its array.
PolicyTypeOK ==
  /\ rules \in Seq(PolicyRule) /\ Len(rules) <= MaxPolicies
  /\ seen \in Seq(PolicyRule)
  /\ policyDir \in Directories
  /\ op \in {"load", "idle", "check", "answer"}
  /\ files \in Seq(Nat) /\ body \in Seq(Section)
  /\ held \in Seq(PolicyRule) /\ Len(held) <= 1
  /\ request \in PolicyRequest
  /\ index \in Nat \ {0} /\ best \in Nat /\ bestPrio \in Int /\ bestPrio >= -1
  /\ decision \in Actions

\* Every answer is the action of the rule of highest priority that matches
\* the request, the first of equals, and "deny" when none matches: what the
\* loop of policy_check computes rule by rule.
DecisionIsBest == op = "answer" => IsDecision(rules, request, decision)

\* Outside of a reload the store holds the sections of all files that were
\* opened, in the order of the files, and after them the rules of clients,
\* cut off at the size of the array: no section is lost at a header or at the
\* end of a file, and none is stored twice.
StoreAsRead ==
  op # "load" =>
    /\ Len(rules) = (IF Len(seen) < MaxPolicies THEN Len(seen) ELSE MaxPolicies)
    /\ \A k \in DOMAIN rules : rules[k] = seen[k]

\* What the two rest on.  While files are read, the store lags behind what was
\* opened by the rule in hand and the rest of the file.
Done == Len(seen) - Len(held) - Len(body)
LoadedSoFar ==
  /\ op # "load" => held = <<>> /\ body = <<>>
  /\ Done >= 0
  /\ Len(rules) = (IF Done < MaxPolicies THEN Done ELSE MaxPolicies)
  /\ \A k \in DOMAIN rules : rules[k] = seen[k]
  /\ held # <<>> => held[1] = seen[Done + 1]
  /\ \A k \in DOMAIN body : FileRule(body[k]) = seen[Done + Len(held) + k]

\* While a request is decided, best is the winner among the rules before index.
ScannedSoFar ==
  op = "check" =>
    /\ index <= Len(rules) + 1 /\ best < index
    /\ decision = "deny"
    /\ IF best = 0
         THEN bestPrio = -1 /\ \A k \in Applicable(rules, request) : k >= index
         ELSE /\ best \in Applicable(rules, request) /\ bestPrio = rules[best].prio
              /\ \A k \in Applicable(rules, request) :
                   k < index => Outranks(rules, best, k)

PolicyIInv == PolicyTypeOK /\ LoadedSoFar /\ ScannedSoFar /\ DecisionIsBest

\* A rule that a client adds never changes the decision of a request that a
\* stored rule of the default priority or a higher one applies to: the socket
\* can fill gaps of the policy, it cannot overturn it.
AddedRuleYields ==
  op = "idle" /\ op' = "idle" =>
    \A q \in PolicyRequest, a \in Actions :
      /\ \E k \in Applicable(rules, q) : rules[k].prio >= DefaultPriority
      /\ IsDecision(rules, q, a)
      => IsDecision(rules', q, a)
AddedRulesYield == [][AddedRuleYields]_policyVars
===============================================================================
