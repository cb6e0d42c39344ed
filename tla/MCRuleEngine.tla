------------------------------ MODULE MCRuleEngine -----------------------------
(***************************************************************************)
(* Instances of RuleEngine for TLC.  Query q1 is known to the built-in     *)
(* intents, and to the built-in regular expressions as something else, as  *)
(* the query that shuts the system down also matches the expression that   *)
(* closes an application; q2 is known to the files, to clients and,        *)
(* through an alias, as q1.                                                *)
(***************************************************************************)
EXTENDS RuleEngine

CONSTANTS q1, q2, a1, a2, a3

R(q, a, n, s) == [query |-> q, answer |-> a, rank |-> n, src |-> s]
InTable(s, rules) == [NoRules EXCEPT ![s] = rules]

BuiltinIntents ==
  [NoRules EXCEPT !["intent"] = <<R(q1, a1, 0, "builtin")>>,
                  !["regex"] = <<R(q1, a2, 10, "builtin")>>,
                  !["alias"] = <<R(q2, q1, 0, "builtin")>>]

\* The files: rules that compete with a built-in one and with those of clients.
New == [NoRules EXCEPT !["intent"] = <<R(q1, a3, 0, "file"), R(q2, a3, 0, "file")>>,
                       !["regex"] = <<R(q2, a3, 2, "file")>>]
NewOnly == {New}

\* Rules clients add: a token that matches a built-in query and an intent.
Added == {<<"token", R(q1, a2, 2, "runtime")>>, <<"intent", R(q2, a1, 0, "runtime")>>}

\* The end of a file's line cut out of a client's text, and the other way round.
MixedRules == [s \in Stages |-> IF s = "intent" THEN {R(q2, a2, 0, "file")} ELSE {}]
===============================================================================
