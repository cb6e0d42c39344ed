-------------------------------- MODULE CacheMap -------------------------------
(***************************************************************************)
(* What the rule engine's result cache (rule-engine/cache/cache.c)         *)
(* promises, without hashing, size and time: the answer that was stored    *)
(* for a query, until the query makes room for another or all is cleared.  *)
(* RuleEngine uses this cache; ResultCache implements it.                  *)
(***************************************************************************)

CONSTANTS
  CacheQueries, CacheAnswers,
  Nothing         \* no answer

VARIABLE held     \* the answer that a lookup of a query finds

\* A query that is held keeps its answer.  Otherwise it gets this one, and one
\* other query at most goes for it.
Store(q, a) ==
  IF held[q] # Nothing THEN UNCHANGED held
  ELSE \E p \in CacheQueries : held' = [held EXCEPT ![p] = Nothing, ![q] = a]

Clear == held' = [q \in CacheQueries |-> Nothing]

MapInit == held = [q \in CacheQueries |-> Nothing]
MapNext == Clear \/ \E q \in CacheQueries, a \in CacheAnswers : Store(q, a)
MapSpec == MapInit /\ [][MapNext]_held
===============================================================================
