------------------------------ MODULE ResultCache ------------------------------
(***************************************************************************)
(* The rule engine's result cache (rule-engine/cache/cache.c): an open     *)
(* hash table of fixed size with one probe sequence per query, and an      *)
(* eviction that looks for the smallest timestamp.  The timestamp is the   *)
(* second of the last use plus a drift that grows by one with every        *)
(* DriftStep stores.  cache_lookup, cache_store and cache_clear hold the   *)
(* mutex throughout.  RuleEngine.tla uses CacheMap, which this table       *)
(* implements.                                                             *)
(***************************************************************************)
EXTENDS Integers, FiniteSets

CONSTANTS
  CacheQueries, CacheAnswers,
  NoQuery,        \* the empty query of an unused entry
  NoAnswer,       \* of a lookup in vain
  Size,           \* MAX_CACHE_ENTRIES
  Hash,           \* hash_query
  DriftStep,      \* stores per second of drift (256)
  LastSecond,     \* bound: seconds that pass
  MaxStores       \* bound: value of the store counter

ASSUME CacheAssumption ==
  /\ NoQuery \notin CacheQueries /\ NoAnswer \notin CacheAnswers /\ CacheAnswers # {}
  /\ Size \in Nat \ {0} /\ DriftStep \in Nat \ {0}
  /\ Hash \in [CacheQueries -> 0..(Size - 1)]
  /\ LastSecond \in Nat /\ MaxStores \in Nat

Entries == 0..(Size - 1)
Entry == [query : CacheQueries \cup {NoQuery}, answer : CacheAnswers, time : Nat]

VARIABLES
  cached,         \* the table
  clock,          \* time(NULL)
  stores,         \* g_lru_counter
  lastUsed,       \* the second in which an entry was last used
  given           \* per query, the answer stored when it last was not in the table
cacheVars == <<cached, clock, stores, lastUsed, given>>

Empty(t) == {e \in DOMAIN t : t[e].query = NoQuery}
Holding(t, q) == {e \in DOMAIN t : t[e].query = q}

\* The entry of a set that the probe sequence of q meets first.
ProbeDistance(q, e) == (e - Hash[q] + Size) % Size
FirstProbed(q, S) ==
  CHOOSE e \in S : \A f \in S : ProbeDistance(q, e) <= ProbeDistance(q, f)

Timestamp == clock + stores \div DriftStep
NewEntry(q, a) == [query |-> q, answer |-> a, time |-> Timestamp]

-------------------------------------------------------------------------------
\* Mutant of CacheHit: a hit is no use of the entry.
CacheHitUntouched(q) ==
  /\ Holding(cached, q) # {}
  /\ LET e == FirstProbed(q, Holding(cached, q)) IN lastUsed' = [lastUsed EXCEPT ![e] = clock]
  /\ UNCHANGED <<cached, clock, stores, given>>

CacheHit(q) ==
  /\ Holding(cached, q) # {}
  /\ LET e == FirstProbed(q, Holding(cached, q)) IN
       /\ cached' = [cached EXCEPT ![e].time = Timestamp]
       /\ lastUsed' = [lastUsed EXCEPT ![e] = clock]
  /\ UNCHANGED <<clock, stores, given>>

\* Mutant of Target: the first probe that is empty or the query's, and no other.
TargetUnprobed(q) == Holding(cached, q) \cap {Hash[q]}

\* The entries at which the first loop of cache_store stops.
Target(q) == Empty(cached) \cup Holding(cached, q)

\* The second loop: the first entry with the smallest timestamp below that of
\* the next second, or the first entry of all.
Victim ==
  LET past == {e \in Entries : cached[e].time < clock + 1} IN
  IF past = {} THEN 0
  ELSE CHOOSE e \in past : \A f \in past :
         cached[e].time < cached[f].time \/ (cached[e].time = cached[f].time /\ e <= f)

\* An unused entry is filled.
StoreInEmpty(q, a) ==
  /\ Target(q) # {}
  /\ LET e == FirstProbed(q, Target(q)) IN
       /\ cached[e].query = NoQuery
       /\ cached' = [cached EXCEPT ![e] = NewEntry(q, a)]
       /\ lastUsed' = [lastUsed EXCEPT ![e] = clock]

\* The query is there already: its answer stays.
StoreOnHolder(q) ==
  /\ Target(q) # {}
  /\ LET e == FirstProbed(q, Target(q)) IN
       /\ cached[e].query = q
       /\ cached' = [cached EXCEPT ![e].time = Timestamp]
       /\ lastUsed' = [lastUsed EXCEPT ![e] = clock]

\* Mutant of StoreEvicting: the answer is not overwritten.
StoreEvictingQuery(q, a) ==
  /\ Target(q) = {}
  /\ cached' = [cached EXCEPT ![Victim].query = q, ![Victim].time = Timestamp]
  /\ lastUsed' = [lastUsed EXCEPT ![Victim] = clock]

StoreEvicting(q, a) ==
  /\ Target(q) = {}
  /\ cached' = [cached EXCEPT ![Victim] = NewEntry(q, a)]
  /\ lastUsed' = [lastUsed EXCEPT ![Victim] = clock]

\* cache_store; the daemon stores what it looked up in vain, the operation
\* takes anything.
CacheStored(q, a) ==
  /\ stores < MaxStores
  /\ StoreInEmpty(q, a) \/ StoreOnHolder(q) \/ StoreEvicting(q, a)
  /\ stores' = stores + 1
  /\ given' = IF Holding(cached, q) = {} THEN [given EXCEPT ![q] = a] ELSE given
  /\ UNCHANGED clock

Unused == [query |-> NoQuery, answer |-> CHOOSE a \in CacheAnswers : TRUE, time |-> 0]

\* cache_clear, by the other thread at any time.
CacheClear ==
  /\ cached' = [e \in Entries |-> Unused]
  /\ lastUsed' = [e \in Entries |-> 0]
  /\ stores' = 0
  /\ UNCHANGED <<clock, given>>

ClockTick ==
  /\ clock < LastSecond
  /\ clock' = clock + 1
  /\ UNCHANGED <<cached, stores, lastUsed, given>>

CacheInit ==
  /\ cached = [e \in Entries |-> Unused]
  /\ clock = 0 /\ stores = 0
  /\ given = [q \in CacheQueries |-> CHOOSE a \in CacheAnswers : TRUE]
  /\ lastUsed = [e \in Entries |-> 0]

CacheNext ==
  \/ \E q \in CacheQueries : CacheHit(q) \/ \E a \in CacheAnswers : CacheStored(q, a)
  \/ CacheClear
  \/ ClockTick

CacheSpec == CacheInit /\ [][CacheNext]_cacheVars

-------------------------------------------------------------------------------
CacheTypeOK ==
  /\ cached \in [Entries -> Entry]
  /\ clock \in 0..LastSecond /\ stores \in 0..MaxStores
  /\ lastUsed \in [Entries -> Nat]
  /\ given \in [CacheQueries -> CacheAnswers]

\* No query has two entries: entries are emptied all at once only, so a probe
\* sequence that ends at an empty entry has passed every entry of the query.
OneEntryPerQuery ==
  \A e, f \in Entries : cached[e].query = cached[f].query /\ e # f =>
    cached[e].query = NoQuery

\* Every entry answers its query with what was stored when the query last was
\* not in the table: no second entry with an answer of its own lies behind the
\* first, and an eviction leaves nothing of the entry that it replaces.
AnswersAsStored ==
  \A e \in Entries :
    cached[e].query # NoQuery => cached[e].answer = given[cached[e].query]

\* To its users the table is a cache that keeps what was stored until it makes
\* room or is cleared: a store changes the answer of no query but its own, and
\* takes that of one other at most, wherever collisions have put the entries.
Found(t, q) ==
  IF Holding(t, q) = {} THEN NoAnswer ELSE t[FirstProbed(q, Holding(t, q))].answer
Map == INSTANCE CacheMap WITH Nothing <- NoAnswer, held <- [q \in CacheQueries |-> Found(cached, q)]
ImplementsCacheMap == Map!MapSpec

\* The entry that an eviction replaces is one that was not used since any other
\* was (in whole seconds), unless every entry was used within the seconds of
\* the drift: then it is the first entry, however recent.
EvictionSparesRecent ==
  [][\A e \in Entries :
       cached[e].query # NoQuery /\ cached'[e].query \notin {NoQuery, cached[e].query} =>
         \/ \A f \in Entries : lastUsed[e] <= lastUsed[f]
         \/ \A f \in Entries : lastUsed[f] + stores \div DriftStep > clock]_cacheVars
===============================================================================
