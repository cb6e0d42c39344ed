---------------------------- MODULE MCCompoundQuery ----------------------------
(***************************************************************************)
(* Instances of CompoundQuery for TLC.  The built-in intents know "lock";  *)
(* "mute" is known to the files and to a client's rule.                    *)
(***************************************************************************)
EXTENDS CompoundQuery

Lock == <<"lock">>
Mute == <<"mute">>

SeparatorWords == <<"ve", "&">>
TextWords == {"lock", "mute", "ve", "&"}

\* Two parts that the built-in intents know, and one of them before and behind
\* a part that they do not.
SomeTexts == {<<"lock", "&", "lock">>, <<"mute", "", "ve", "lock">>, <<"lock", "ve", "mute">>}
SomeQueries == {Lock, Mute}

\* A text that ends with the separator that counts is one query, with the
\* other separator in it.
ASSUME SplitAssumption ==
  LET t == <<"mute", "&", "lock", "ve", "">> IN SplitQuery(t) = <<t>>

R(q, a, n, s) == [query |-> q, answer |-> a, rank |-> n, src |-> s]
InTable(s, rules) == [NoRules EXCEPT ![s] = rules]

BuiltinIntents == InTable("intent", <<R(Lock, "lock_screen", 0, "builtin")>>)

\* The files before and after an edit: the rule for "mute" moves to another
\* table, with another answer, and one rule competes with the built-in one.
Old == InTable("regex", <<R(Mute, "volume", 1, "file")>>)
New == [NoRules EXCEPT !["intent"] = <<R(Lock, "sleep", 0, "file"), R(Mute, "sleep", 0, "file")>>]
OldAndNew == {Old, New}

\* A client's intent, which competes with those of the files.
Added == {<<"intent", R(Mute, "mute_all", 0, "runtime")>>}

\* The end of a file's line cut out of a client's text, and the other way round.
MixedRules == [s \in Stages |-> IF s = "intent" THEN {R(Lock, "mute_all", 0, "file")} ELSE {}]
===============================================================================
