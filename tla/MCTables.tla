------------------------------- MODULE MCTables --------------------------------
(***************************************************************************)
(* The tables of the system: four that are filled while it runs, each on   *)
(* an instance small enough to be full, and the words and rules that a     *)
(* query meets on its way to a command.  They share nothing that changes,  *)
(* so a behaviour takes the steps of one module, and the others stay as    *)
(* they are.                                                               *)
(***************************************************************************)
EXTENDS PolicyStore, SessionManager, EventBus, ResultCache, MCCommandPath

VARIABLE table     \* the table whose steps are taken

vars == <<table, policyVars, sessionVars, eventVars, cacheVars, pathVars>>

(* Priorities below, at and above the default and a negative one; patterns   *)
(* that match one agent, every agent and none.                               *)
PatternMatch == {<<"*", "a1">>, <<"*", "a2">>, <<"a*", "a1">>, <<"a*", "a2">>, <<"a2", "a2">>}
(* and the patterns of the default rules for the agents of the system.       *)
AgentsMatched == PatternMatch \cup DefaultPatterns
Rule(c, g, a, p) == [cap |-> c, agent |-> g, action |-> a, prio |-> p]
TwoFiles == << <<Rule("*", "*", "allow", 0), Rule("c1", "a2", "deny", 20)>>,
               <<>>,
               <<Rule("c1", "a*", "ask_user", 20)>> >>
Negative == << <<Rule("*", "*", "allow", -1), Rule("c2", "a2", "typo", 10),
                 Rule("c2", "a*", "absent", 10)>> >>
PolicyDirectories == {TwoFiles, Negative}
Sent == {[cap |-> "c1", agent |-> "a*", action |-> "absent"],
         [cap |-> "c2", agent |-> "", action |-> "allow"],
         [cap |-> "*", agent |-> "*", action |-> "deny"]}

(* Two queries of the same bucket and a third.                               *)
Bucket == [q \in CacheQueries |-> IF q = "q3" THEN 1 ELSE 0]

PolicyRest == UNCHANGED policyVars
SessionRest == UNCHANGED sessionVars
EventRest == UNCHANGED eventVars
CacheRest == UNCHANGED cacheVars
PathRest == UNCHANGED pathVars

Init == /\ PolicyInit /\ SessionInit /\ EventInit /\ CacheInit /\ PathInit
        /\ table \in {"policies", "sessions", "subscribers", "results", "words"}
        /\ table = "policies" \/ (policyDir = TwoFiles)
        /\ request = [agent |-> "a1", cap |-> "c1"]

Next ==
  /\ UNCHANGED table
  /\ \/ table = "policies" /\ PolicyNext /\ SessionRest /\ EventRest /\ CacheRest /\ PathRest
     \/ table = "sessions" /\ SessionNext /\ PolicyRest /\ EventRest /\ CacheRest /\ PathRest
     \/ table = "subscribers" /\ EventNext /\ PolicyRest /\ SessionRest /\ CacheRest /\ PathRest
     \/ table = "results" /\ CacheNext /\ PolicyRest /\ SessionRest /\ EventRest /\ PathRest
     \/ table = "words" /\ PathNext /\ PolicyRest /\ SessionRest /\ EventRest /\ CacheRest

Spec == Init /\ [][Next]_vars
===============================================================================
