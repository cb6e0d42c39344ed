--------------------------- MODULE RuleEngineProofs ---------------------------
(***************************************************************************)
(* Theorems about RuleEngine, for any queries, tables, rule files and      *)
(* rules: its types, that a reload loses no runtime rule and leaves each   *)
(* file rule once, that a table is overrun by one rule at most, that the   *)
(* built-in intents always win, and that without a reload the cache agrees *)
(* with the tables.  Then about CompoundQuery: it implements RuleEngine,   *)
(* and what its replies say of the parts of a text.                        *)
(*                                                                         *)
(* What the compaction loop keeps is a recursive function of the table's   *)
(* length; what is proved of it by induction is proved with a set of       *)
(* numbers or of sequences in the place of a predicate.                    *)
(***************************************************************************)
EXTENDS CompoundQuery, SequenceTheorems, WellFoundedInduction, TLAPS

-------------------------------------------------------------------------------
(* Induction.                                                                 *)

\* A set that has 0 and every successor has all numbers: otherwise there is a
\* least one that it does not have.
LEMMA NatSetInduction ==
  ASSUME NEW G, 0 \in G, \A n \in Nat : n \in G => n + 1 \in G
  PROVE  Nat \subseteq G
<1>1. SUFFICES ASSUME Nat \ G # {} PROVE FALSE
  OBVIOUS
<1>2. PICK x \in Nat \ G : \A y \in Nat \ G : ~ (<<y, x>> \in OpToRel(<, Nat))
  BY <1>1, NatLessThanWellFounded, WFMin
<1>3. x # 0
  OBVIOUS
<1>4. x - 1 \in Nat /\ x - 1 < x /\ (x - 1) + 1 = x
  BY <1>3
<1>5. x - 1 \in G
  BY <1>2, <1>4 DEF OpToRel
<1> QED
  BY <1>4, <1>5

\* A set of numbers has a least one.
LEMMA LeastNumber ==
  ASSUME NEW M, M \subseteq Nat, M # {}
  PROVE  \E i \in M : \A k \in M : i <= k
<1>1. PICK i \in M : \A k \in M : ~ (<<k, i>> \in OpToRel(<, Nat))
  BY NatLessThanWellFounded, WFMin
<1>2. ASSUME NEW k \in M PROVE i <= k
  <2>1. k \in Nat /\ i \in Nat
    OBVIOUS
  <2>2. ~ (k < i)
    BY <1>1, <2>1 DEF OpToRel
  <2> QED
    BY <2>1, <2>2
<1> QED
  BY <1>2

\* The same for sequences: a set that has the empty one and whatever one
\* element more makes of its members has all.
LEMMA SeqSetInduction ==
  ASSUME NEW R, NEW G, <<>> \in G,
         \A t \in Seq(R), r \in R : t \in G => Append(t, r) \in G
  PROVE  Seq(R) \subseteq G
<1> DEFINE H == {n \in Nat : \A t \in Seq(R) : Len(t) = n => t \in G}
<1>1. 0 \in H
  BY EmptySeq
<1>2. ASSUME NEW n \in Nat, n \in H PROVE n + 1 \in H
  <2>1. ASSUME NEW t \in Seq(R), Len(t) = n + 1 PROVE t \in G
    <3> DEFINE u == SubSeq(t, 1, n)
    <3>1. u \in Seq(R) /\ Len(u) = n /\ t[n + 1] \in R
      BY <2>1
    <3>2. t = Append(u, t[n + 1])
      BY <2>1
    <3>3. u \in G
      BY <1>2, <3>1
    <3> QED
      BY <3>1, <3>2, <3>3
  <2> QED
    BY <2>1
<1>3. Nat \subseteq H
  <2> HIDE DEF H
  <2> QED BY <1>1, <1>2, NatSetInduction
<1> QED
  BY <1>3

-------------------------------------------------------------------------------
(* What the compaction loop keeps.                                            *)

\* One step of the loop, for any function of the shorter prefixes.
OneStep(t, srcs, kept, n) ==
  IF n = 0 THEN <<>>
  ELSE IF t[n].src \in srcs THEN Append(kept[n - 1], t[n]) ELSE kept[n - 1]

\* There is a function that the steps of the loop define...
LEMMA KeptExists ==
  ASSUME NEW t, NEW srcs, NEW k \in Nat
  PROVE  \E kept : kept = [n \in 0..k |-> OneStep(t, srcs, kept, n)]
<1> DEFINE Is(kept, m) == kept = [n \in 0..m |-> OneStep(t, srcs, kept, n)]
           G == {m \in Nat : \E kept : Is(kept, m)}
<1>1. 0 \in G
  <2>1. Is([n \in 0..0 |-> <<>>], 0)
    BY DEF OneStep
  <2> QED
    BY <2>1
<1>2. ASSUME NEW m \in Nat, m \in G PROVE m + 1 \in G
  <2>1. PICK kept : Is(kept, m)
    BY <1>2
  <2>a. DOMAIN kept = 0..m /\ \A n \in 0..m : kept[n] = OneStep(t, srcs, kept, n)
    BY <2>1
  <2> DEFINE more == [n \in 0..(m + 1) |->
         IF n = m + 1 THEN OneStep(t, srcs, kept, m + 1) ELSE kept[n]]
  <2>b. \A n \in 0..m : more[n] = kept[n]
    OBVIOUS
  <2>c. more[m + 1] = OneStep(t, srcs, kept, m + 1) /\ DOMAIN more = 0..(m + 1)
    OBVIOUS
  <2>d. more = [n \in 0..(m + 1) |-> more[n]]
    OBVIOUS
  <2> HIDE DEF more
  <2>e. ASSUME NEW n \in 0..(m + 1) PROVE more[n] = OneStep(t, srcs, more, n)
    <3>1. n # 0 => n - 1 \in 0..m
      OBVIOUS
    <3>2. n = m + 1 \/ n \in 0..m
      OBVIOUS
    <3>3. OneStep(t, srcs, more, n) = OneStep(t, srcs, kept, n)
      BY <3>1, <2>b DEF OneStep
    <3> QED
      BY <3>2, <3>3, <2>a, <2>b, <2>c
  <2>2. Is(more, m + 1)
    BY <2>d, <2>e
  <2> QED
    BY <2>2
<1> HIDE DEF G
<1>3. Nat \subseteq G
  BY <1>1, <1>2, NatSetInduction
<1> QED
  BY <1>3 DEF G

\* ... and KeptUpTo is it.
LEMMA KeptUpToIs ==
  ASSUME NEW t, Len(t) \in Nat, NEW srcs
  PROVE  KeptUpTo(t, srcs) = [n \in 0..Len(t) |-> OneStep(t, srcs, KeptUpTo(t, srcs), n)]
<1> DEFINE P(kept) == kept = [n \in 0..Len(t) |-> IF n = 0 THEN <<>>
        ELSE IF t[n].src \in srcs THEN Append(kept[n - 1], t[n]) ELSE kept[n - 1]]
<1>1. KeptUpTo(t, srcs) = CHOOSE kept : P(kept)
  BY Zenon DEF KeptUpTo
<1>2. \E kept : P(kept)
  <2>1. PICK kept : kept = [n \in 0..Len(t) |-> OneStep(t, srcs, kept, n)]
    BY KeptExists
  <2>2. P(kept)
    BY <2>1 DEF OneStep
  <2> HIDE DEF P
  <2> QED BY <2>2
<1>3. P(KeptUpTo(t, srcs))
  <2> HIDE DEF P
  <2> QED BY <1>1, <1>2, Zenon
<1> QED
  BY <1>3 DEF OneStep

\* One slot more: its rule is kept or not.
LEMMA KeepOfAppend ==
  ASSUME NEW R, NEW t \in Seq(R), NEW r \in R, NEW srcs
  PROVE  Keep(Append(t, r), srcs) =
           IF r.src \in srcs THEN Append(Keep(t, srcs), r) ELSE Keep(t, srcs)
<1> DEFINE u == Append(t, r)
           k == KeptUpTo(t, srcs)
           l == KeptUpTo(u, srcs)
           G == {n \in Nat : n <= Len(t) => l[n] = k[n]}
<1>1. /\ Len(t) \in Nat /\ Len(u) = Len(t) + 1 /\ u[Len(t) + 1] = r
      /\ \A n \in 1..Len(t) : u[n] = t[n]
  OBVIOUS
<1>2. /\ \A n \in 0..Len(t) : k[n] = OneStep(t, srcs, k, n)
      /\ \A n \in 0..(Len(t) + 1) : l[n] = OneStep(u, srcs, l, n)
  <2> HIDE DEF u
  <2>1. k = [n \in 0..Len(t) |-> OneStep(t, srcs, k, n)]
    BY <1>1, KeptUpToIs
  <2>2. l = [n \in 0..Len(u) |-> OneStep(u, srcs, l, n)]
    BY <1>1, KeptUpToIs
  <2> HIDE DEF k, l
  <2> QED
    BY <1>1, <2>1, <2>2
<1> HIDE DEF u, k, l
<1>3. 0 \in G
  BY <1>1, <1>2 DEF OneStep
<1>4. ASSUME NEW n \in Nat, n \in G PROVE n + 1 \in G
  <2>1. CASE n + 1 <= Len(t)
    <3>1. n + 1 \in 0..Len(t) /\ n + 1 \in 0..(Len(t) + 1) /\ n + 1 \in 1..Len(t)
          /\ (n + 1) - 1 = n /\ n + 1 # 0
      BY <1>1, <2>1
    <3>2. l[n] = k[n] /\ u[n + 1] = t[n + 1]
      BY <1>1, <1>4, <3>1
    <3>3. l[n + 1] = k[n + 1]
      BY <1>2, <3>1, <3>2 DEF OneStep
    <3> QED
      BY <3>3
  <2> QED
    BY <1>1, <2>1
<1>5. Nat \subseteq G
  <2> HIDE DEF G
  <2> QED BY <1>3, <1>4, NatSetInduction
<1>6. l[Len(t)] = k[Len(t)]
  BY <1>1, <1>5
<1>7. l[Len(t) + 1] = OneStep(u, srcs, l, Len(t) + 1) /\ (Len(t) + 1) - 1 = Len(t) /\ Len(t) + 1 # 0
  BY <1>1, <1>2
<1>8. l[Len(t) + 1] = IF r.src \in srcs THEN Append(k[Len(t)], r) ELSE k[Len(t)]
  BY <1>1, <1>6, <1>7 DEF OneStep
<1>9. Keep(u, srcs) = l[Len(t) + 1] /\ Keep(t, srcs) = k[Len(t)]
  BY <1>1 DEF Keep, k, l
<1> QED
  BY <1>8, <1>9 DEF u

\* An empty table stays empty.
LEMMA KeepOfNone ==
  ASSUME NEW srcs PROVE Keep(<<>>, srcs) = <<>>
<1>1. Len(<<>>) = 0 /\ 0 \in 0..0
  OBVIOUS
<1>2. KeptUpTo(<<>>, srcs) = [n \in 0..Len(<<>>) |-> OneStep(<<>>, srcs, KeptUpTo(<<>>, srcs), n)]
  BY <1>1, KeptUpToIs
<1>3. KeptUpTo(<<>>, srcs)[0] = <<>>
  BY <1>1, <1>2 DEF OneStep
<1> QED
  BY <1>1, <1>3 DEF Keep

\* What is kept is a table, no longer than before, of the right sources.
LEMMA KeepIsSeq ==
  ASSUME NEW R, NEW t \in Seq(R), NEW srcs
  PROVE  /\ Keep(t, srcs) \in Seq(R) /\ Len(Keep(t, srcs)) <= Len(t)
         /\ \A i \in 1..Len(Keep(t, srcs)) : Keep(t, srcs)[i].src \in srcs
<1> DEFINE P(u) == /\ Keep(u, srcs) \in Seq(R) /\ Len(Keep(u, srcs)) <= Len(u)
                   /\ \A i \in 1..Len(Keep(u, srcs)) : Keep(u, srcs)[i].src \in srcs
           G == {u \in Seq(R) : P(u)}
<1>1. <<>> \in G
  <2>1. Keep(<<>>, srcs) = <<>> /\ <<>> \in Seq(R) /\ Len(<<>>) = 0 /\ 1..0 = {}
    BY KeepOfNone
  <2>2. P(<<>>)
    <3>1. \A i \in 1..Len(Keep(<<>>, srcs)) : FALSE
      BY <2>1
    <3>2. Keep(<<>>, srcs) \in Seq(R)
      BY <2>1
    <3>4. Len(Keep(<<>>, srcs)) <= Len(<<>>)
      BY <2>1
    <3> QED
      BY <3>1, <3>2, <3>4, Zenon
  <2> QED
    BY <2>1, <2>2
<1>2. ASSUME NEW u \in Seq(R), NEW r \in R, u \in G PROVE Append(u, r) \in G
  <2>1. /\ Keep(u, srcs) \in Seq(R) /\ Len(Keep(u, srcs)) <= Len(u)
        /\ \A i \in 1..Len(Keep(u, srcs)) : Keep(u, srcs)[i].src \in srcs
    BY <1>2
  <2>2. Append(u, r) \in Seq(R) /\ Len(Append(u, r)) = Len(u) + 1
    OBVIOUS
  <2> DEFINE v == Keep(Append(u, r), srcs)
  <2>3. v = IF r.src \in srcs THEN Append(Keep(u, srcs), r) ELSE Keep(u, srcs)
    BY KeepOfAppend
  <2> HIDE DEF v
  <2>4. v \in Seq(R) /\ Len(v) <= Len(u) + 1 /\ \A i \in 1..Len(v) : v[i].src \in srcs
    BY <2>1, <2>3
  <2> QED
    BY <2>2, <2>4 DEF v
<1>3. Seq(R) \subseteq G
  <2> HIDE DEF G
  <2> QED BY <1>1, <1>2, SeqSetInduction
<1> QED
  BY <1>3

\* Keeping twice keeps what both keep.
LEMMA KeepTwice ==
  ASSUME NEW R, NEW t \in Seq(R), NEW one, NEW two
  PROVE  Keep(Keep(t, one), two) = Keep(t, one \cap two)
<1> DEFINE G == {u \in Seq(R) : Keep(Keep(u, one), two) = Keep(u, one \cap two)}
<1>1. <<>> \in G
  BY KeepOfNone
<1>2. ASSUME NEW u \in Seq(R), NEW r \in R, u \in G PROVE Append(u, r) \in G
  <2>1. Keep(Append(u, r), one) = IF r.src \in one THEN Append(Keep(u, one), r) ELSE Keep(u, one)
    BY KeepOfAppend
  <2>2. Keep(Append(u, r), one \cap two)
          = IF r.src \in one \cap two THEN Append(Keep(u, one \cap two), r) ELSE Keep(u, one \cap two)
    BY KeepOfAppend
  <2>3. Keep(Append(Keep(u, one), r), two)
          = IF r.src \in two THEN Append(Keep(Keep(u, one), two), r) ELSE Keep(Keep(u, one), two)
    BY KeepIsSeq, KeepOfAppend
  <2>4. Keep(Keep(u, one), two) = Keep(u, one \cap two)
    BY <1>2
  <2>5. Append(u, r) \in Seq(R)
    OBVIOUS
  <2>6. Keep(Keep(Append(u, r), one), two) = Keep(Append(u, r), one \cap two)
    <3>1. CASE r.src \in one /\ r.src \in two
      BY <2>1, <2>2, <2>3, <2>4, <3>1
    <3>2. CASE r.src \in one /\ r.src \notin two
      BY <2>1, <2>2, <2>3, <2>4, <3>2
    <3>3. CASE r.src \notin one
      BY <2>1, <2>2, <2>4, <3>3
    <3> QED
      BY <3>1, <3>2, <3>3
  <2> QED
    BY <2>5, <2>6
<1>3. Seq(R) \subseteq G
  <2> HIDE DEF G
  <2> QED BY <1>1, <1>2, SeqSetInduction
<1> QED
  BY <1>3

\* Appending to the second of two sequences appends to both together.
LEMMA AppendToConcat ==
  ASSUME NEW R, NEW t \in Seq(R), NEW v \in Seq(R), NEW r \in R
  PROVE  t \o Append(v, r) = Append(t \o v, r)
<1>1. t \o v \in Seq(R)
  BY ConcatProperties
<1>2. Append(v, r) = v \o <<r>> /\ Append(t \o v, r) = (t \o v) \o <<r>>
  BY <1>1, AppendIsConcat
<1>3. (t \o v) \o <<r>> = t \o (v \o <<r>>)
  <2>1. <<r>> \in Seq(R)
    OBVIOUS
  <2> QED
    BY <2>1, ConcatAssociative
<1> QED
  BY <1>1, <1>2, <1>3, Zenon

\* Tables behind one another are filtered each for itself.
LEMMA KeepOfConcat ==
  ASSUME NEW R, NEW t \in Seq(R), NEW u \in Seq(R), NEW srcs
  PROVE  Keep(t \o u, srcs) = Keep(t, srcs) \o Keep(u, srcs)
<1> DEFINE G == {v \in Seq(R) : Keep(t \o v, srcs) = Keep(t, srcs) \o Keep(v, srcs)}
<1>0. Keep(t, srcs) \in Seq(R)
  BY KeepIsSeq
<1>1. <<>> \in G
  BY <1>0, KeepOfNone
<1>2. ASSUME NEW v \in Seq(R), NEW r \in R, v \in G PROVE Append(v, r) \in G
  <2>1. Keep(Append(v, r), srcs) = IF r.src \in srcs THEN Append(Keep(v, srcs), r) ELSE Keep(v, srcs)
    BY KeepOfAppend
  <2>2. t \o Append(v, r) = Append(t \o v, r) /\ t \o v \in Seq(R)
    BY ConcatProperties, AppendToConcat
  <2>3. Keep(Append(t \o v, r), srcs)
          = IF r.src \in srcs THEN Append(Keep(t \o v, srcs), r) ELSE Keep(t \o v, srcs)
    BY <2>2, KeepOfAppend
  <2>4. Keep(v, srcs) \in Seq(R)
    BY KeepIsSeq
  <2>5. Keep(t, srcs) \o Append(Keep(v, srcs), r) = Append(Keep(t, srcs) \o Keep(v, srcs), r)
    BY <1>0, <2>4, AppendToConcat
  <2>6. Keep(t \o v, srcs) = Keep(t, srcs) \o Keep(v, srcs)
    BY <1>2
  <2>7. Append(v, r) \in Seq(R)
    OBVIOUS
  <2> QED
    BY <2>1, <2>2, <2>3, <2>5, <2>6, <2>7
<1>3. Seq(R) \subseteq G
  <2> HIDE DEF G
  <2> QED BY <1>1, <1>2, SeqSetInduction
<1> QED
  BY <1>3

\* A table of the right sources only stays as it is.
LEMMA KeepAll ==
  ASSUME NEW R, NEW t \in Seq(R), NEW srcs, \A r \in R : r.src \in srcs
  PROVE  Keep(t, srcs) = t
<1> DEFINE G == {u \in Seq(R) : Keep(u, srcs) = u}
<1>1. <<>> \in G
  BY KeepOfNone
<1>2. ASSUME NEW u \in Seq(R), NEW r \in R, u \in G PROVE Append(u, r) \in G
  <2>1. Keep(Append(u, r), srcs) = IF r.src \in srcs THEN Append(Keep(u, srcs), r) ELSE Keep(u, srcs)
    BY KeepOfAppend
  <2> QED
    BY <1>2, <2>1
<1>3. Seq(R) \subseteq G
  <2> HIDE DEF G
  <2> QED BY <1>1, <1>2, SeqSetInduction
<1> QED
  BY <1>3

\* A table of other sources only is emptied.
LEMMA KeepNothing ==
  ASSUME NEW R, NEW t \in Seq(R), NEW srcs, \A r \in R : r.src \notin srcs
  PROVE  Keep(t, srcs) = <<>>
<1> DEFINE G == {u \in Seq(R) : Keep(u, srcs) = <<>>}
<1>1. <<>> \in G
  BY KeepOfNone
<1>2. ASSUME NEW u \in Seq(R), NEW r \in R, u \in G PROVE Append(u, r) \in G
  <2>1. Keep(Append(u, r), srcs) = IF r.src \in srcs THEN Append(Keep(u, srcs), r) ELSE Keep(u, srcs)
    BY KeepOfAppend
  <2> QED
    BY <1>2, <2>1
<1>3. Seq(R) \subseteq G
  <2> HIDE DEF G
  <2> QED BY <1>1, <1>2, SeqSetInduction
<1> QED
  BY <1>3

-------------------------------------------------------------------------------
(* The invariants.                                                            *)

\* The main thread's places in a file and the server thread's in a client's
\* rule.
Reading == {"read", "parse", "check", "append"}
Adding == {"parse", "check", "append"}

\* Every table holds rules of its own, whichever source they come from; the
\* rules in the threads' hands are of the right table and source.
RulesTypeOK ==
  /\ DOMAIN tables = Stages /\ \A s \in Stages : tables[s] \in Seq(Rule(s, Sources))
  /\ DOMAIN added = Stages /\ \A s \in Stages : added[s] \in Seq(Rule(s, {"runtime"}))
  /\ DOMAIN loaded = Stages /\ \A s \in Stages : loaded[s] \in Seq(Rule(s, {"file"}))
  /\ files \in Contents
  /\ main \in {"sleep", "clear", "open", "done"} \cup Reading
  /\ stage \in 1..4
  /\ main \in Reading => todo \in Seq(Rule(LoadOrder[stage], {"file"}))
  /\ main \in Reading \ {"read"} => todo # <<>>
  /\ ipc \in {"cache", "intent", "regex", "token", "alias", "store", "idle", "flush"} \cup Adding
  /\ ipc \in Adding => adding[1] \in Stages /\ adding[2] \in Rule(adding[1], {"runtime"})

\* A table has the file rules of its file, or no room for them, or some of
\* them were torn; it never has more.
FileRules(s) == From("file", tables[s])
ReadIn(s) ==
  /\ Len(FileRules(s)) <= Len(loaded[s])
  /\ FileRules(s) = loaded[s] \/ Len(tables[s]) >= MaxRules \/ s \in garbled

\* ... so far, with the rest still in the main thread's hands.
HalfRead(s) ==
  /\ Len(FileRules(s)) + Len(todo) <= Len(loaded[s])
  /\ FileRules(s) \o todo = loaded[s] \/ Len(tables[s]) >= MaxRules \/ s \in garbled

\* The place of table s, the i-th to be read, in the reload: cleared or not,
\* read or not, or half read.
Progress(s, i) ==
  \/ main = "clear" /\ (i < stage => FileRules(s) = <<>>)
  \/ main = "open" /\ (IF i < stage THEN ReadIn(s) ELSE FileRules(s) = <<>>)
  \/ /\ main \in Reading
     /\ i < stage => ReadIn(s)
     /\ i = stage => HalfRead(s)
     /\ i > stage => FileRules(s) = <<>>
  \/ main \in {"done", "sleep"} /\ ReadIn(s)
ReloadProgress == \A i \in 1..4 : Progress(LoadOrder[i], i)

\* The appends to a table that have passed the check of its room.  Two threads
\* add rules, so there can be two.
Pending(s) == (IF main = "append" /\ LoadOrder[stage] = s THEN 1 ELSE 0)
              + (IF ipc = "append" /\ adding[1] = s THEN 1 ELSE 0)
OneTooMany == \A s \in Stages : Len(tables[s]) + Pending(s) <= MaxRules + 1

\* The built-in intents are in front of all others, and whatever the query's
\* thread and the cache hold for a query they know is their answer.
Known(q) == Matching(Builtin["intent"], q) # {}
Meaning(q) == Best(Builtin["intent"], q).answer
BuiltinIntentsFirst ==
  \E t \in Seq(Rule("intent", Sources)) : tables["intent"] = Builtin["intent"] \o t
BuiltinIntentsHold ==
  /\ \A q \in Queries : Known(q) => cache[q] \in {None, Meaning(q)}
  /\ ipc = "store" /\ Known(query) => answer = Meaning(query)
  /\ ipc \in {"regex", "token", "alias"} => ~Known(query)
  /\ BuiltinIntentsAreStable

Pipeline == {"cache", "intent", "regex", "token", "alias", "store"}

\* What the server thread and the cache hold.
ServerTypeOK ==
  /\ DOMAIN cache = Queries /\ cache = [q \in Queries |-> cache[q]]
  /\ ipc \in Pipeline \cup Adding \cup {"idle", "flush"}
  /\ ipc \in Pipeline => query \in Queries
  /\ reloads \in Nat

\* The query in hand was passed over by every table asked so far, and the
\* answer about to be stored is the tables' answer.
PassedOver ==
  /\ ipc \in {"regex", "token", "alias"} => ~Recognises("intent", query)
  /\ ipc \in {"token", "alias"} => ~Recognises("regex", query)
  /\ ipc = "alias" => ~Recognises("token", query)
  /\ ipc = "store" => answer = Answer(query)

\* Between the tables' change and the flush the cache may be wrong; at any
\* other time it agrees.
CacheInvariant ==
  reloads = 0 =>
    /\ reload = FALSE /\ main = "sleep"
    /\ ipc # "flush" => CacheAgrees
    /\ PassedOver

CacheIInv == ServerTypeOK /\ CacheInvariant

-------------------------------------------------------------------------------
(* Rules, tables and what the program starts with.                            *)

\* The reload goes through every table once.
LEMMA LoadOrderFacts ==
  /\ \A i \in 1..4 : LoadOrder[i] \in Stages
  /\ \A i, j \in 1..4 : LoadOrder[i] = LoadOrder[j] => i = j
  /\ \A s \in Stages : \E i \in 1..4 : LoadOrder[i] = s
<1> DEFINE L == LoadOrder
<1>1. L[1] = "regex" /\ L[2] = "token" /\ L[3] = "intent" /\ L[4] = "alias"
  BY DEF LoadOrder
<1> HIDE DEF L
<1>2. 1..4 = {1, 2, 3, 4}
  OBVIOUS
<1>3. \A i \in 1..4 : L[i] \in Stages
  BY <1>1, <1>2 DEF Stages
<1>4. \A i, j \in 1..4 : L[i] = L[j] => i = j
  BY <1>1, <1>2
<1>5. \A s \in Stages : \E i \in 1..4 : L[i] = s
  BY <1>1, <1>2 DEF Stages
<1> QED
  BY <1>3, <1>4, <1>5 DEF L

\* Rules of some sources are rules of more sources.
LEMMA MoreSources ==
  ASSUME NEW s, NEW srcs, NEW more, srcs \subseteq more
  PROVE  /\ Rule(s, srcs) \subseteq Rule(s, more)
         /\ \A t \in Seq(Rule(s, srcs)) : t \in Seq(Rule(s, more))
<1>1. Rule(s, srcs) \subseteq Rule(s, more)
  BY DEF Rule
<1>2. ASSUME NEW A, NEW B, A \subseteq B, NEW t \in Seq(A) PROVE t \in Seq(B)
  BY <1>2
<1> QED
  BY <1>1, <1>2

\* A rule of one source has it.
LEMMA RuleSource ==
  ASSUME NEW s, NEW srcs, NEW r \in Rule(s, srcs)
  PROVE  r.src \in srcs
BY DEF Rule

\* What becomes of the lines in hand when the first is dropped or misread.
LEMMA FirstDropped ==
  ASSUME NEW R, NEW u \in Seq(R), u # <<>>
  PROVE  Tail(u) \in Seq(R) /\ Len(Tail(u)) <= Len(u)
OBVIOUS

LEMMA FirstReplaced ==
  ASSUME NEW R, NEW u \in Seq(R), u # <<>>, NEW r \in R
  PROVE  /\ <<r>> \o Tail(u) \in Seq(R) /\ <<r>> \o Tail(u) # <<>>
         /\ Len(<<r>> \o Tail(u)) <= Len(u)
<1>1. Tail(u) \in Seq(R) /\ Len(Tail(u)) = Len(u) - 1 /\ Len(u) \in Nat
  OBVIOUS
<1>2. <<r>> \in Seq(R) /\ Len(<<r>>) = 1
  OBVIOUS
<1> DEFINE t == Tail(u)
           v == <<r>>
<1>3. v \o t \in Seq(R) /\ Len(v \o t) = Len(v) + Len(t)
  <2> HIDE DEF t, v
  <2>1. t \in Seq(R) /\ v \in Seq(R)
    BY <1>1, <1>2 DEF t, v
  <2> QED
    BY <2>1
<1>4. Len(v \o t) = Len(u) /\ Len(u) # 0
  BY <1>1, <1>2, <1>3
<1>5. v \o t # <<>>
  <2>1. Len(<<>>) = 0
    OBVIOUS
  <2> QED
    BY <1>4, <2>1, Zenon
<1> QED
  BY <1>1, <1>3, <1>4, <1>5

\* What the tables hold at the start.
LEMMA InitTables ==
  ASSUME Init, NEW s \in Stages
  PROVE  /\ tables[s] \in Seq(Rule(s, Sources)) /\ Len(tables[s]) <= MaxRules
         /\ Builtin[s] \in Seq(Rule(s, {"builtin"})) /\ loaded[s] \in Seq(Rule(s, {"file"}))
         /\ \E p \in Seq(Rule(s, {"file"})) :
              /\ tables[s] = Builtin[s] \o p /\ Len(p) <= Len(loaded[s])
              /\ p = loaded[s] \/ Len(tables[s]) = MaxRules
<1> DEFINE R == Rule(s, Sources)
           F == Rule(s, {"file"})
           B == Rule(s, {"builtin"})
<1>1. tables[s] = Filled(Builtin[s], files[s]) /\ loaded[s] = files[s] /\ files \in Contents
  BY DEF Init
<1>2. Builtin[s] \in Seq(B) /\ files[s] \in Seq(F) /\ Len(Builtin[s]) <= MaxRules
  BY <1>1, RuleEngineAssumption
<1>3. F \subseteq R /\ Builtin[s] \in Seq(R)
  BY <1>2, MoreSources DEF Sources
<1> HIDE DEF R, F, B
<1> DEFINE t == Builtin[s]
           file == files[s]
           room == MaxRules - Len(t)
           n == IF Len(file) <= room THEN Len(file) ELSE room
           part == SubSeq(file, 1, n)
<1>4. tables[s] = t \o part
  BY <1>1 DEF Filled
<1>5. Len(t) \in Nat /\ Len(file) \in Nat /\ MaxRules \in Nat
  BY <1>2, <1>3, RuleEngineAssumption
<1>6. n \in 0..Len(file) /\ (n = Len(file) \/ Len(t) + n = MaxRules) /\ Len(t) + n <= MaxRules
  <2>1. \A a, b, m \in Nat : a <= m =>
          LET k == IF b <= m - a THEN b ELSE m - a
          IN k \in 0..b /\ (k = b \/ a + k = m) /\ a + k <= m
    OBVIOUS
  <2>2. Len(t) <= MaxRules
    BY <1>2
  <2> QED
    BY <1>5, <2>1, <2>2
<1>7. file \in Seq(F) /\ t \in Seq(R)
  BY <1>2, <1>3
<1> HIDE DEF n, room, file, t
<1>8. part \in Seq(F) /\ Len(part) = n /\ (n = Len(file) => part = file)
  BY <1>5, <1>6, <1>7
<1> HIDE DEF part
<1>9. part \in Seq(R)
  BY <1>3, <1>8
<1>10. t \o part \in Seq(R) /\ Len(t \o part) = Len(t) + n
  BY <1>7, <1>8, <1>9
<1>a. Len(part) <= Len(file) /\ (part = file \/ Len(tables[s]) = MaxRules)
  BY <1>4, <1>5, <1>6, <1>8, <1>10
<1>11. \E p \in Seq(F) : /\ tables[s] = t \o p /\ Len(p) <= Len(file)
                         /\ p = file \/ Len(tables[s]) = MaxRules
  BY <1>4, <1>8, <1>a
<1>12. tables[s] \in Seq(R) /\ Len(tables[s]) <= MaxRules
  BY <1>4, <1>6, <1>10
<1>13. t \in Seq(B) /\ loaded[s] = file /\ file \in Seq(F)
  BY <1>1, <1>2 DEF t, file
<1>14. \E p \in Seq(F) : /\ tables[s] = t \o p /\ Len(p) <= Len(loaded[s])
                         /\ p = loaded[s] \/ Len(tables[s]) = MaxRules
  BY <1>11, <1>13
<1>15. loaded[s] \in Seq(F)
  BY <1>13
<1>16. t \in Seq(B)
  BY <1>13
<1>17. tables[s] \in Seq(Rule(s, Sources)) /\ Len(tables[s]) <= MaxRules
  BY <1>12 DEF R
<1>18. Builtin[s] \in Seq(Rule(s, {"builtin"})) /\ loaded[s] \in Seq(Rule(s, {"file"}))
  BY <1>15, <1>16 DEF t, B, F
<1>19. \E p \in Seq(Rule(s, {"file"})) : /\ tables[s] = Builtin[s] \o p /\ Len(p) <= Len(loaded[s])
                                         /\ p = loaded[s] \/ Len(tables[s]) = MaxRules
  BY <1>14, Zenon DEF t, F
<1> QED
  BY <1>17, <1>18, <1>19

-------------------------------------------------------------------------------
(* Types.                                                                     *)

\* The initial state is typed.
LEMMA TypeInit == Init => RulesTypeOK
<1> SUFFICES ASSUME Init PROVE RulesTypeOK
  OBVIOUS
<1>1. \A s \in Stages : tables[s] \in Seq(Rule(s, Sources))
  BY InitTables
<1>2. DOMAIN tables = Stages /\ DOMAIN added = Stages /\ files \in Contents
      /\ loaded = files /\ main = "sleep" /\ stage = 1 /\ ipc = "idle" /\ todo = <<>>
  BY DEF Init, NoRules
<1>3. \A s \in Stages : added[s] \in Seq(Rule(s, {"runtime"}))
  BY DEF Init, NoRules
<1>4. DOMAIN loaded = Stages /\ \A s \in Stages : loaded[s] \in Seq(Rule(s, {"file"}))
  BY <1>2, RuleEngineAssumption
<1> QED
  BY <1>1, <1>2, <1>3, <1>4 DEF RulesTypeOK, Reading, Adding

\* Every step keeps the types.
LEMMA TypeStep == RulesTypeOK /\ [Next]_vars => RulesTypeOK'
<1> SUFFICES ASSUME RulesTypeOK, [Next]_vars PROVE RulesTypeOK'
  OBVIOUS
<1>0. /\ stage \in 1..4 /\ LoadOrder[stage] \in Stages
      /\ (IF stage = 4 THEN 1 ELSE stage + 1) \in 1..4
  BY LoadOrderFacts DEF RulesTypeOK
<1>1. ASSUME NEW s \in Stages, NEW t \in Seq(Rule(s, Sources)), tables' = [tables EXCEPT ![s] = t]
      PROVE  DOMAIN tables' = Stages /\ \A x \in Stages : tables'[x] \in Seq(Rule(x, Sources))
  BY <1>1 DEF RulesTypeOK
<1>2. CASE ReloadStart \/ ReloadDone \/ CacheCleanup
  <2>1. /\ UNCHANGED <<tables, added, loaded, files, ipc, adding>>
        /\ stage' \in {stage, 1} /\ main' \in {"sleep", "clear"}
    BY <1>2 DEF ReloadStart, ReloadDone, CacheCleanup, Main, ipcVars, envVars
  <2> QED
    BY <2>1 DEF RulesTypeOK, Reading
<1>3. CASE ClearTable
  <2> DEFINE s == LoadOrder[stage]
  <2>1. /\ tables' = [tables EXCEPT ![s] = Keep(tables[s], {"builtin", "runtime"})]
        /\ UNCHANGED <<added, loaded, files, ipc, adding>>
        /\ stage' \in 1..4 /\ main' \in {"open", "clear"}
    BY <1>0, <1>3 DEF ClearTable, Main, ipcVars, envVars
  <2>2. tables[s] \in Seq(Rule(s, Sources))
    BY <1>0 DEF RulesTypeOK
  <2>3. Keep(tables[s], {"builtin", "runtime"}) \in Seq(Rule(s, Sources))
    BY <2>2, KeepIsSeq
  <2>4. DOMAIN tables' = Stages /\ \A x \in Stages : tables'[x] \in Seq(Rule(x, Sources))
    BY <1>0, <1>1, <2>1, <2>3
  <2> QED
    BY <2>1, <2>4 DEF RulesTypeOK, Reading
<1>4. CASE OpenFile
  <2> DEFINE s == LoadOrder[stage]
  <2>1. /\ todo' = files[s] /\ loaded' = [loaded EXCEPT ![s] = files[s]]
        /\ UNCHANGED <<tables, added, files, ipc, adding, stage>> /\ main' = "read"
    BY <1>4 DEF OpenFile, Main, ipcVars, envVars
  <2>2. files[s] \in Seq(Rule(s, {"file"}))
    BY <1>0, RuleEngineAssumption DEF RulesTypeOK
  <2>3. DOMAIN loaded' = Stages /\ \A x \in Stages : loaded'[x] \in Seq(Rule(x, {"file"}))
    BY <1>0, <2>1, <2>2 DEF RulesTypeOK
  <2>4. todo' \in Seq(Rule(LoadOrder[stage'], {"file"}))
    BY <2>1, <2>2
  <2> QED
    BY <2>1, <2>3, <2>4 DEF RulesTypeOK, Reading
<1>l. CASE ReadLine
  <2>1. /\ UNCHANGED <<tables, added, loaded, files, ipc, adding, stage, todo>>
        /\ main = "read" /\ todo # <<>> /\ main' = "parse"
    BY <1>l DEF ReadLine, ipcVars, envVars
  <2> QED
    BY <2>1 DEF RulesTypeOK, Reading
<1>p. CASE ParseLine
  <2> DEFINE s == LoadOrder[stage]
             F == Rule(s, {"file"})
  <2>1. /\ UNCHANGED <<tables, added, loaded, files, ipc, adding, stage>> /\ main = "parse"
        /\ \/ main' = "check" /\ todo' = todo
           \/ main' = "read" /\ todo' = Tail(todo)
           \/ main' = "check" /\ \E r \in Misread[s] : todo' = <<r>> \o Tail(todo)
    BY <1>p DEF ParseLine, ipcVars, envVars
  <2>2. todo \in Seq(F) /\ todo # <<>>
    BY <2>1 DEF RulesTypeOK, Reading
  <2>3. Misread[s] \subseteq F
    BY <1>0, RuleEngineAssumption
  <2> HIDE DEF s, F
  <2>4. todo' \in Seq(F) /\ (main' = "check" => todo' # <<>>)
    <3>1. Tail(todo) \in Seq(F)
      BY <2>2, FirstDropped, Zenon
    <3>2. ASSUME NEW r \in Misread[s], todo' = <<r>> \o Tail(todo)
          PROVE  todo' \in Seq(F) /\ todo' # <<>>
      <4>1. r \in F
        BY <2>3
      <4>2. <<r>> \o Tail(todo) \in Seq(F) /\ <<r>> \o Tail(todo) # <<>>
        BY <2>2, <4>1, FirstReplaced, Zenon
      <4> QED
        BY <3>2, <4>2, Zenon
    <3>3. CASE main' = "check" /\ todo' = todo
      BY <2>2, <3>3
    <3>4. CASE main' = "read" /\ todo' = Tail(todo)
      BY <3>1, <3>4
    <3> QED
      BY <2>1, <3>2, <3>3, <3>4, Zenon
  <2>5. main' \in {"read", "check"} /\ todo' \in Seq(Rule(LoadOrder[stage'], {"file"}))
    <3>1. stage' = stage /\ main' \in {"read", "check"}
      BY <2>1
    <3>2. LoadOrder[stage'] = s
      BY <3>1 DEF s
    <3> QED
      BY <2>4, <3>1, <3>2 DEF F
  <2> QED
    BY <2>1, <2>4, <2>5 DEF RulesTypeOK, Reading
<1>5. CASE CheckRoom
  <2>1. /\ UNCHANGED <<tables, added, loaded, files, ipc, adding, stage>>
        /\ main = "check"
        /\ \/ todo' = Tail(todo) /\ main' = "read"
           \/ todo' = todo /\ main' = "append"
    BY <1>5 DEF CheckRoom, Main, ipcVars, envVars
  <2>2. todo \in Seq(Rule(LoadOrder[stage], {"file"})) /\ todo # <<>>
    BY <2>1 DEF RulesTypeOK, Reading
  <2>3. todo' \in Seq(Rule(LoadOrder[stage'], {"file"}))
    BY <2>1, <2>2
  <2> QED
    BY <2>1, <2>2, <2>3 DEF RulesTypeOK, Reading
<1>6. CASE AppendFileRule
  <2> DEFINE s == LoadOrder[stage]
  <2>1. /\ tables' = [tables EXCEPT ![s] = Append(tables[s], Head(todo))]
        /\ todo' = Tail(todo) /\ main = "append" /\ main' = "read"
        /\ UNCHANGED <<added, loaded, files, ipc, adding, stage>>
    BY <1>6 DEF AppendFileRule, Main, ipcVars, envVars
  <2>2. todo \in Seq(Rule(s, {"file"})) /\ todo # <<>>
    BY <2>1 DEF RulesTypeOK, Reading
  <2>3. Head(todo) \in Rule(s, {"file"}) /\ Tail(todo) \in Seq(Rule(s, {"file"}))
    BY <2>2
  <2>4. Head(todo) \in Rule(s, Sources) /\ tables[s] \in Seq(Rule(s, Sources))
    BY <1>0, <2>3, MoreSources DEF Sources, RulesTypeOK
  <2>5. Append(tables[s], Head(todo)) \in Seq(Rule(s, Sources))
    BY <2>4
  <2>6. DOMAIN tables' = Stages /\ \A x \in Stages : tables'[x] \in Seq(Rule(x, Sources))
    BY <1>0, <1>1, <2>1, <2>5
  <2>7. todo' \in Seq(Rule(LoadOrder[stage'], {"file"}))
    BY <2>1, <2>3
  <2> QED
    BY <2>1, <2>6, <2>7 DEF RulesTypeOK, Reading
<1>7. CASE NextFile
  <2>1. /\ UNCHANGED <<tables, added, loaded, files, ipc, adding>>
        /\ stage' \in 1..4 /\ main' \in {"done", "open"}
    BY <1>0, <1>7 DEF NextFile, Main, ipcVars, envVars
  <2> QED
    BY <2>1 DEF RulesTypeOK, Reading
<1>8. CASE CacheLookup \/ StageLookup \/ AliasLookup \/ CacheStore \/ FlushCache
           \/ \E q \in Queries : ReceiveQuery(q)
  <2>1. /\ UNCHANGED <<tables, added, loaded, files, stage, main, todo>>
        /\ ipc' \in {"cache", "intent", "regex", "token", "alias", "store", "idle"}
    BY <1>8 DEF CacheLookup, StageLookup, AliasLookup, CacheStore, FlushCache, ReceiveQuery,
                Respond, Ipc, NextStage, mainVars, envVars
  <2> QED
    BY <2>1 DEF RulesTypeOK, Adding
<1>9. ASSUME NEW sr \in RuntimeRules, AddRule(sr[1], sr[2]) PROVE RulesTypeOK'
  <2>1. /\ UNCHANGED <<tables, added, loaded, files, stage, main, todo>>
        /\ ipc' = "parse" /\ adding' = <<sr[1], sr[2]>>
    BY <1>9 DEF AddRule, mainVars
  <2>2. sr[1] \in Stages /\ sr[2] \in Rule(sr[1], {"runtime"})
    BY RuleEngineAssumption
  <2> QED
    BY <2>1, <2>2 DEF RulesTypeOK, Adding
<1>r. CASE ParseRule \/ CheckRuleRoom
  <2> DEFINE s == adding[1]
  <2>1. /\ UNCHANGED <<tables, added, loaded, files, stage, main, todo>> /\ ipc \in Adding
        /\ \/ ipc' \in Adding /\ adding' = adding
           \/ ipc' = "idle"
           \/ ipc' \in Adding /\ \E r \in Misread[s] : adding' = <<s, [r EXCEPT !.src = "runtime"]>>
    BY <1>r DEF ParseRule, CheckRuleRoom, Ipc, mainVars, envVars, Adding
  <2>2. s \in Stages /\ Misread[s] \subseteq Rule(s, {"file"})
    BY <2>1, RuleEngineAssumption DEF RulesTypeOK
  <2>3. \A r \in Rule(s, {"file"}) : [r EXCEPT !.src = "runtime"] \in Rule(s, {"runtime"})
    BY DEF Rule
  <2>4. ipc' \in Adding => adding'[1] \in Stages /\ adding'[2] \in Rule(adding'[1], {"runtime"})
    <3>1. CASE adding' = adding
      BY <2>1, <3>1 DEF RulesTypeOK
    <3>2. CASE \E r \in Misread[s] : adding' = <<s, [r EXCEPT !.src = "runtime"]>>
      BY <2>2, <2>3, <3>2
    <3> QED
      BY <2>1, <3>1, <3>2 DEF Adding
  <2> QED
    BY <2>1, <2>4 DEF RulesTypeOK
<1>10. CASE AppendRuntimeRule
  <2> DEFINE s == adding[1]
             r == adding[2]
  <2>1. /\ tables' = [tables EXCEPT ![s] = Append(tables[s], r)]
        /\ added' = [added EXCEPT ![s] = Append(added[s], r)]
        /\ UNCHANGED <<loaded, files, stage, main, todo>> /\ ipc = "append" /\ ipc' = "flush"
    BY <1>10 DEF AppendRuntimeRule, Ipc, mainVars, envVars
  <2>2. s \in Stages /\ r \in Rule(s, {"runtime"})
    BY <2>1 DEF RulesTypeOK, Adding
  <2> HIDE DEF s, r
  <2>3. r \in Rule(s, Sources)
    BY <2>2, MoreSources DEF Sources
  <2>4. Append(tables[s], r) \in Seq(Rule(s, Sources)) /\ Append(added[s], r) \in Seq(Rule(s, {"runtime"}))
    BY <2>2, <2>3 DEF RulesTypeOK
  <2>5. DOMAIN tables' = Stages /\ \A x \in Stages : tables'[x] \in Seq(Rule(x, Sources))
    BY <1>1, <2>1, <2>2, <2>4
  <2>6. DOMAIN added' = Stages /\ \A x \in Stages : added'[x] \in Seq(Rule(x, {"runtime"}))
    BY <2>1, <2>2, <2>4 DEF RulesTypeOK
  <2> QED
    BY <2>1, <2>5, <2>6 DEF RulesTypeOK, Adding
<1>11. CASE (\E content \in Contents : EditFiles(content)) \/ RequestReload \/ UNCHANGED vars
  <2>1. /\ UNCHANGED <<tables, added, loaded, stage, main, todo, ipc, adding>>
        /\ files' \in Contents
    BY <1>11 DEF EditFiles, RequestReload, vars, mainVars, ipcVars, envVars, RulesTypeOK
  <2> QED
    BY <2>1 DEF RulesTypeOK
<1> QED
  BY <1>2, <1>3, <1>4, <1>l, <1>p, <1>5, <1>6, <1>7, <1>8, <1>9, <1>r, <1>10, <1>11
     DEF Next, ReloadStep, IpcStep

-------------------------------------------------------------------------------
(* How the tables change.                                                     *)

\* How a step changes the tables: not at all; a reload clears one of its file
\* rules or adds one; a client adds one.
LEMMA TablesStep ==
  ASSUME RulesTypeOK, [Next]_vars
  PROVE  \/ tables' = tables /\ added' = added
         \/ /\ ClearTable /\ added' = added
            /\ \A x \in Stages : tables'[x] = IF x = LoadOrder[stage]
                                                THEN Keep(tables[x], {"builtin", "runtime"})
                                                ELSE tables[x]
         \/ \E s \in Stages : \E r \in Rule(s, {"file"}) :
              /\ AppendFileRule /\ s = LoadOrder[stage] /\ r = Head(todo) /\ added' = added
              /\ \A x \in Stages : tables'[x] = IF x = s THEN Append(tables[x], r) ELSE tables[x]
         \/ \E s \in Stages : \E r \in Rule(s, {"runtime"}) :
              /\ AppendRuntimeRule /\ s = adding[1]
              /\ \A x \in Stages : tables'[x] = IF x = s THEN Append(tables[x], r) ELSE tables[x]
              /\ \A x \in Stages : added'[x] = IF x = s THEN Append(added[x], r) ELSE added[x]
<1>1. CASE ClearTable
  BY <1>1 DEF ClearTable, Main, ipcVars, RulesTypeOK
<1>2. CASE AppendFileRule
  <2> DEFINE s == LoadOrder[stage]
             r == Head(todo)
  <2>1. /\ tables' = [tables EXCEPT ![s] = Append(tables[s], r)]
        /\ added' = added /\ main = "append"
    BY <1>2 DEF AppendFileRule, Main, ipcVars
  <2>2. todo \in Seq(Rule(s, {"file"})) /\ todo # <<>> /\ stage \in 1..4
    BY <2>1 DEF RulesTypeOK, Reading
  <2>3. s \in Stages /\ r \in Rule(s, {"file"})
    BY <2>2, LoadOrderFacts
  <2>4. \A x \in Stages : tables'[x] = IF x = s THEN Append(tables[x], r) ELSE tables[x]
    BY <2>1 DEF RulesTypeOK
  <2> HIDE DEF s, r
  <2>5. s = LoadOrder[stage] /\ r = Head(todo)
    BY DEF s, r
  <2> QED
    BY <1>2, <2>1, <2>3, <2>4, <2>5
<1>3. CASE AppendRuntimeRule
  <2> DEFINE s == adding[1]
             r == adding[2]
  <2>1. /\ tables' = [tables EXCEPT ![s] = Append(tables[s], r)]
        /\ added' = [added EXCEPT ![s] = Append(added[s], r)] /\ ipc = "append"
    BY <1>3 DEF AppendRuntimeRule, Ipc
  <2>2. s \in Stages /\ r \in Rule(s, {"runtime"})
    BY <2>1 DEF RulesTypeOK, Adding
  <2>3. /\ \A x \in Stages : tables'[x] = IF x = s THEN Append(tables[x], r) ELSE tables[x]
        /\ \A x \in Stages : added'[x] = IF x = s THEN Append(added[x], r) ELSE added[x]
    BY <2>1 DEF RulesTypeOK
  <2> HIDE DEF s, r
  <2>4. s = adding[1]
    BY DEF s
  <2> QED
    BY <1>3, <2>2, <2>3, <2>4
<1>4. CASE ~ (ClearTable \/ AppendFileRule \/ AppendRuntimeRule)
  <2>1. tables' = tables /\ added' = added
    BY <1>4 DEF Next, ReloadStep, IpcStep, ReloadStart, OpenFile, ReadLine, ParseLine, CheckRoom,
                NextFile,
         ReloadDone, CacheCleanup, Main, CacheLookup, StageLookup, AliasLookup, CacheStore,
         FlushCache, ReceiveQuery, AddRule, ParseRule, CheckRuleRoom, Respond, Ipc, EditFiles,
         RequestReload,
         vars, ipcVars, mainVars, envVars
  <2> QED
    BY <2>1
<1> QED
  BY <1>1, <1>2, <1>3, <1>4

\* What appending a rule does to the rules of some sources.
LEMMA AppendToTable ==
  ASSUME RulesTypeOK, NEW s \in Stages, NEW src \in Sources, NEW r \in Rule(s, {src}), NEW srcs
  PROVE  Keep(Append(tables[s], r), srcs) =
           IF src \in srcs THEN Append(Keep(tables[s], srcs), r) ELSE Keep(tables[s], srcs)
<1> DEFINE R == Rule(s, Sources)
<1>1. r.src = src
  BY RuleSource
<1>2. r \in R /\ tables[s] \in Seq(R)
  BY MoreSources DEF RulesTypeOK
<1> HIDE DEF R
<1> QED
  BY <1>1, <1>2, KeepOfAppend

\* Clearing a table of its file rules leaves the others.
LEMMA ClearOfTable ==
  ASSUME RulesTypeOK, NEW s \in Stages
  PROVE  /\ From("runtime", Keep(tables[s], {"builtin", "runtime"})) = From("runtime", tables[s])
         /\ From("file", Keep(tables[s], {"builtin", "runtime"})) = <<>>
         /\ Len(Keep(tables[s], {"builtin", "runtime"})) <= Len(tables[s])
<1> DEFINE R == Rule(s, Sources)
           kept == {"builtin", "runtime"}
<1>1. tables[s] \in Seq(R)
  BY DEF RulesTypeOK
<1>2. kept \cap {"runtime"} = {"runtime"} /\ kept \cap {"file"} = {}
  OBVIOUS
<1> HIDE DEF R, kept
<1>3. Keep(Keep(tables[s], kept), {"runtime"}) = Keep(tables[s], {"runtime"})
  BY <1>1, <1>2, KeepTwice
<1>4. Keep(Keep(tables[s], kept), {"file"}) = Keep(tables[s], {})
  BY <1>1, <1>2, KeepTwice
<1>5. Keep(tables[s], {}) = <<>>
  BY <1>1, KeepNothing
<1>6. Len(Keep(tables[s], kept)) <= Len(tables[s])
  BY <1>1, KeepIsSeq
<1> QED
  BY <1>3, <1>4, <1>5, <1>6 DEF From, kept

\* The tables start with built-in rules and those of the files, without any
\* runtime rule.
LEMMA InitKept ==
  ASSUME Init, NEW s \in Stages
  PROVE  From("runtime", tables[s]) = <<>> /\ ReadIn(s)
<1> DEFINE R == Rule(s, Sources)
           F == Rule(s, {"file"})
           b == Builtin[s]
           B == Rule(s, {"builtin"})
<1>1. PICK part \in Seq(F) : /\ tables[s] = b \o part /\ Len(part) <= Len(loaded[s])
                             /\ part = loaded[s] \/ Len(tables[s]) = MaxRules
  BY InitTables
<1>2. b \in Seq(B) /\ tables[s] = b \o part
  BY <1>1, InitTables
<1>3. /\ \A r \in B : r.src \notin {"runtime"} /\ r.src \notin {"file"}
      /\ \A r \in F : r.src \notin {"runtime"} /\ r.src \in {"file"}
  BY DEF Rule
<1>4. b \in Seq(R) /\ part \in Seq(R)
  <2>1. {"builtin"} \subseteq Sources /\ {"file"} \subseteq Sources
    BY DEF Sources
  <2>2. (\A t \in Seq(B) : t \in Seq(R)) /\ (\A t \in Seq(F) : t \in Seq(R))
    BY <2>1, MoreSources
  <2> QED
    BY <1>2, <2>2
<1> HIDE DEF R, F, B, b
<1>5. Keep(b, {"runtime"}) = <<>> /\ Keep(part, {"runtime"}) = <<>> /\ Keep(b, {"file"}) = <<>>
  BY <1>1, <1>2, <1>3, KeepNothing
<1>6. Keep(part, {"file"}) = part
  BY <1>1, <1>3, KeepAll
<1>7. \A srcs : Keep(b \o part, srcs) = Keep(b, srcs) \o Keep(part, srcs)
  BY <1>4, KeepOfConcat
<1>8. <<>> \o <<>> = <<>> /\ <<>> \o part = part
  BY <1>4
<1>9. Keep(b \o part, {"runtime"}) = <<>>
  BY <1>5, <1>7, <1>8, Zenon
<1>10. Keep(b \o part, {"file"}) = part
  BY <1>5, <1>6, <1>7, <1>8, Zenon
<1>11. From("runtime", tables[s]) = <<>> /\ From("file", tables[s]) = part
  <2>1. tables[s] = b \o part
    BY <1>2
  <2> QED
    BY <1>9, <1>10, <2>1, Zenon DEF From
<1> QED
  BY <1>1, <1>11, RuleEngineAssumption DEF ReadIn, FileRules

\* No rule has been added, none is there.
LEMMA SurviveInit == Init => RuntimeRulesSurvive
BY InitKept DEF Init, NoRules, RuntimeRulesSurvive

\* No step takes a runtime rule out of a table or changes their order.
LEMMA SurviveStep == RulesTypeOK /\ RuntimeRulesSurvive /\ [Next]_vars => RuntimeRulesSurvive'
<1> SUFFICES ASSUME RulesTypeOK, RuntimeRulesSurvive, [Next]_vars, NEW x \in Stages
             PROVE  Keep(tables'[x], {"runtime"}) = added'[x]
  BY DEF RuntimeRulesSurvive, From
<1>0. Keep(tables[x], {"runtime"}) = added[x]
  BY DEF RuntimeRulesSurvive, From
<1>1. CASE tables' = tables /\ added' = added
  BY <1>0, <1>1
<1>2. CASE /\ ClearTable /\ added' = added
           /\ \A y \in Stages : tables'[y] = IF y = LoadOrder[stage]
                                               THEN Keep(tables[y], {"builtin", "runtime"})
                                               ELSE tables[y]
  BY <1>0, <1>2, ClearOfTable DEF From
<1>3. ASSUME NEW s \in Stages, NEW r \in Rule(s, {"file"}), added' = added,
             \A y \in Stages : tables'[y] = IF y = s THEN Append(tables[y], r) ELSE tables[y]
      PROVE  Keep(tables'[x], {"runtime"}) = added'[x]
  <2>1. Keep(Append(tables[s], r), {"runtime"}) = Keep(tables[s], {"runtime"})
    BY AppendToTable DEF Sources
  <2> QED
    BY <1>0, <1>3, <2>1
<1>4. ASSUME NEW s \in Stages, NEW r \in Rule(s, {"runtime"}),
             \A y \in Stages : tables'[y] = IF y = s THEN Append(tables[y], r) ELSE tables[y],
             \A y \in Stages : added'[y] = IF y = s THEN Append(added[y], r) ELSE added[y]
      PROVE  Keep(tables'[x], {"runtime"}) = added'[x]
  <2>1. Keep(Append(tables[s], r), {"runtime"}) = Append(Keep(tables[s], {"runtime"}), r)
    BY AppendToTable DEF Sources
  <2> QED
    BY <1>0, <1>4, <2>1
<1> QED
  BY <1>1, <1>2, <1>3, <1>4, TablesStep

-------------------------------------------------------------------------------
(* The reload.                                                                *)

\* The files are read before the threads start.
LEMMA ProgressInit == Init => ReloadProgress
BY InitKept, LoadOrderFacts DEF Init, ReloadProgress, Progress

\* A step that leaves a table and what was read for it alone.
LEMMA SameTable ==
  ASSUME NEW s, tables'[s] = tables[s]
  PROVE  /\ FileRules(s)' = FileRules(s) /\ Len(tables[s])' = Len(tables[s])
         /\ loaded'[s] = loaded[s] /\ (s \in garbled' <=> s \in garbled) =>
              (ReadIn(s)' <=> ReadIn(s))
BY DEF FileRules, ReadIn, From

\* Every step of the reload keeps the account of what has been read, and no
\* step of the other thread disturbs it.
LEMMA ProgressStep == RulesTypeOK /\ ReloadProgress /\ [Next]_vars => ReloadProgress'
<1> SUFFICES ASSUME RulesTypeOK, ReloadProgress, [Next]_vars, NEW i \in 1..4
             PROVE  Progress(LoadOrder[i], i)'
  BY DEF ReloadProgress
<1> DEFINE s == LoadOrder[i]
<1>a. Progress(s, i) /\ s \in Stages /\ stage \in 1..4
  BY LoadOrderFacts DEF ReloadProgress, RulesTypeOK
<1>b. LoadOrder[stage] \in Stages /\ (s = LoadOrder[stage] <=> i = stage)
  BY <1>a, LoadOrderFacts
<1> HIDE DEF s
<1>c. tables[s] \in Seq(Rule(s, Sources)) /\ Len(tables[s]) \in Nat /\ MaxRules \in Nat
  BY <1>a, RuleEngineAssumption DEF RulesTypeOK
<1>0. /\ Progress(s, i) /\ stage \in 1..4 /\ s \in Stages /\ LoadOrder[stage] \in Stages
      /\ s = LoadOrder[stage] <=> i = stage
      /\ tables[s] \in Seq(Rule(s, Sources)) /\ Len(tables[s]) \in Nat /\ MaxRules \in Nat
  BY <1>a, <1>b, <1>c
<1> SUFFICES Progress(s, i)'
  BY DEF s
<1>d. FileRules(s)' = Keep(tables'[s], {"file"}) /\ FileRules(s) = Keep(tables[s], {"file"})
  BY DEF FileRules, From
<1>e. /\ FileRules(s) \in Seq(Rule(s, Sources)) /\ Len(FileRules(s)) \in Nat
      /\ Len(loaded[s]) \in Nat /\ (main \in Reading => Len(todo) \in Nat)
  BY <1>0, <1>d, KeepIsSeq DEF RulesTypeOK
<1>1. CASE ReloadStart
  BY <1>0, <1>1 DEF ReloadStart, Main, Progress
<1>2. CASE ClearTable
  <2>1. /\ main = "clear"
        /\ i < stage => FileRules(s) = <<>>
        /\ \/ main' = "clear" /\ stage' = stage + 1 /\ stage < 4
           \/ main' = "open" /\ stage' = 1 /\ stage = 4
    BY <1>0, <1>2 DEF ClearTable, Main, Progress, Reading
  <2>2. tables'[s] = IF i = stage THEN Keep(tables[s], {"builtin", "runtime"}) ELSE tables[s]
    BY <1>0, <1>2 DEF ClearTable, RulesTypeOK
  <2>3. i <= stage => FileRules(s)' = <<>>
    <3>1. CASE i = stage
      <4>1. Keep(Keep(tables[s], {"builtin", "runtime"}), {"file"}) = <<>>
        BY <1>0, ClearOfTable DEF From
      <4> QED
        BY <1>d, <2>2, <3>1, <4>1
    <3>2. CASE i < stage
      <4>1. tables'[s] = tables[s]
        BY <1>0, <2>2, <3>2
      <4> QED
        BY <2>1, <3>2, <4>1, SameTable
    <3> QED
      BY <1>0, <3>1, <3>2
  <2> QED
    BY <1>0, <2>1, <2>3 DEF Progress
<1>3. CASE OpenFile
  <2>1. /\ main = "open" /\ main' = "read" /\ stage' = stage /\ tables' = tables
        /\ todo' = files[LoadOrder[stage]]
        /\ garbled' = garbled \ {LoadOrder[stage]}
        /\ IF i < stage THEN ReadIn(s) ELSE FileRules(s) = <<>>
    BY <1>0, <1>3 DEF OpenFile, Main, Progress, Reading
  <2>2. loaded'[s] = IF i = stage THEN todo' ELSE loaded[s]
    BY <1>0, <1>3 DEF OpenFile, RulesTypeOK
  <2>3. i = stage => todo' \in Seq(Rule(s, {"file"}))
    BY <1>0, <2>1, RuleEngineAssumption DEF RulesTypeOK
  <2>4. CASE i = stage
    <3>1. FileRules(s)' = <<>>
      BY <1>0, <2>1, <2>4, SameTable
    <3>2. <<>> \o todo' = todo' /\ Len(<<>>) = 0 /\ 0 + Len(todo') <= Len(todo')
      BY <2>3, <2>4
    <3>3. HalfRead(s)'
      BY <2>2, <2>4, <3>1, <3>2 DEF HalfRead
    <3> QED
      BY <1>0, <2>1, <2>4, <3>3 DEF Progress, Reading
  <2>5. CASE i # stage
    <3>1. loaded'[s] = loaded[s] /\ (s \in garbled' <=> s \in garbled)
      BY <1>0, <2>1, <2>2, <2>5
    <3>2. FileRules(s)' = FileRules(s) /\ (ReadIn(s)' <=> ReadIn(s))
      BY <2>1, <3>1, SameTable
    <3> QED
      BY <1>0, <2>1, <2>5, <3>2 DEF Progress, Reading
  <2> QED
    BY <2>4, <2>5
<1>4. CASE ReadLine \/ ParseLine \/ CheckRoom
  <2>1. /\ main \in Reading /\ main' \in Reading /\ stage' = stage
        /\ tables' = tables /\ loaded' = loaded
        /\ garbled' = garbled \/ garbled' = garbled \cup {LoadOrder[stage]}
    BY <1>4 DEF ReadLine, ParseLine, CheckRoom, Main, Reading
  <2>2. CASE i # stage
    <3>1. s \in garbled' <=> s \in garbled
      BY <1>0, <2>1, <2>2
    <3> QED
      BY <1>0, <2>1, <2>2, <3>1, SameTable DEF Progress, Reading
  <2>3. CASE i = stage
    <3>1. HalfRead(s)
      BY <1>0, <2>1, <2>3 DEF Progress, Reading
    <3>2. todo \in Seq(Rule(s, {"file"})) /\ (main # "read" => todo # <<>>)
      BY <1>0, <2>1, <2>3 DEF RulesTypeOK, Reading
    <3>3. \/ todo' = todo
          \/ /\ \/ todo' = Tail(todo)
                \/ \E r \in Rule(s, {"file"}) : todo' = <<r>> \o Tail(todo)
             /\ Len(tables[s]) >= MaxRules \/ s \in garbled'
             /\ todo # <<>>
      <4>1. Misread[s] \subseteq Rule(s, {"file"})
        BY <1>0, RuleEngineAssumption
      <4> QED
        BY <1>0, <1>4, <2>3, <3>2, <4>1 DEF ReadLine, ParseLine, CheckRoom, Main
    <3>4. todo' \in Seq(Rule(s, {"file"}))
      <4>1. RulesTypeOK'
        BY TypeStep
      <4> QED
        BY <2>1, <2>3, <4>1, LoadOrderFacts DEF RulesTypeOK, s
    <3>5. Len(todo') <= Len(todo) /\ Len(todo') \in Nat /\ Len(todo) \in Nat
      <4> DEFINE F == Rule(s, {"file"})
      <4>1. todo \in Seq(F) /\ todo' \in Seq(F)
        BY <3>2, <3>4
      <4> HIDE DEF F
      <4>2. Len(todo') \in Nat /\ Len(todo) \in Nat
        BY <4>1
      <4>3. todo # <<>> => Len(Tail(todo)) <= Len(todo)
        BY <4>1, FirstDropped, Zenon
      <4>4. todo # <<>> => \A r \in F : Len(<<r>> \o Tail(todo)) <= Len(todo)
        BY <4>1, FirstReplaced, Zenon
      <4>5. todo' = todo \/ Len(todo') <= Len(todo)
        BY <3>3, <4>3, <4>4, Zenon DEF F
      <4> QED
        BY <4>2, <4>5
    <3>6. Len(FileRules(s)) + Len(todo') <= Len(loaded[s])
      BY <1>e, <3>1, <3>5 DEF HalfRead
    <3>7. FileRules(s)' = FileRules(s) /\ (s \in garbled => s \in garbled')
      BY <2>1, SameTable
    <3>8. HalfRead(s)'
      BY <2>1, <3>1, <3>3, <3>6, <3>7 DEF HalfRead
    <3> QED
      BY <1>0, <2>1, <2>3, <3>8 DEF Progress
  <2> QED
    BY <2>2, <2>3
<1>5. CASE AppendFileRule
  <2>1. /\ main = "append" /\ main' = "read" /\ stage' = stage /\ loaded' = loaded
        /\ todo' = Tail(todo) /\ garbled' = garbled
    BY <1>5 DEF AppendFileRule, Main
  <2>2. tables'[s] = IF i = stage THEN Append(tables[s], Head(todo)) ELSE tables[s]
    BY <1>0, <1>5 DEF AppendFileRule, RulesTypeOK
  <2>3. CASE i # stage
    BY <1>0, <2>1, <2>2, <2>3, SameTable DEF Progress, Reading
  <2>4. CASE i = stage
    <3>1. todo \in Seq(Rule(s, {"file"})) /\ todo # <<>>
      BY <1>0, <2>1, <2>4 DEF RulesTypeOK, Reading
    <3>2. Head(todo) \in Rule(s, {"file"})
      BY <3>1
    <3>3. FileRules(s)' = Append(FileRules(s), Head(todo))
      <4>1. Keep(Append(tables[s], Head(todo)), {"file"}) = Append(Keep(tables[s], {"file"}), Head(todo))
        BY <1>0, <3>2, AppendToTable DEF Sources
      <4> QED
        BY <1>d, <2>2, <2>4, <4>1
    <3>4. todo \in Seq(Rule(s, Sources))
      <4>1. {"file"} \subseteq Sources
        BY DEF Sources
      <4> QED
        BY <1>0, <3>1, <4>1, MoreSources
    <3>5. /\ Append(FileRules(s), Head(todo)) \o Tail(todo) = FileRules(s) \o todo
          /\ Len(Append(FileRules(s), Head(todo))) + Len(Tail(todo)) = Len(FileRules(s)) + Len(todo)
      <4>1. ASSUME NEW R, NEW t \in Seq(R), NEW u \in Seq(R), u # <<>>
            PROVE  Append(t, Head(u)) \o Tail(u) = t \o u
        BY <4>1
      <4>2. ASSUME NEW R, NEW t \in Seq(R), NEW u \in Seq(R), u # <<>>
            PROVE  Len(Append(t, Head(u))) + Len(Tail(u)) = Len(t) + Len(u)
        BY <4>2
      <4> QED
        BY <1>e, <3>1, <3>4, <4>1, <4>2
    <3>6. Len(tables'[s]) = Len(tables[s]) + 1
      BY <1>0, <2>2, <2>4
    <3>7. HalfRead(s)
      BY <1>0, <2>1, <2>4 DEF Progress, Reading
    <3>8. Len(tables[s]) >= MaxRules => Len(tables'[s]) >= MaxRules
      BY <1>0, <3>6
    <3>9. HalfRead(s)'
      BY <2>1, <3>3, <3>5, <3>7, <3>8 DEF HalfRead
    <3> QED
      BY <1>0, <2>1, <2>4, <3>9 DEF Progress, Reading
  <2> QED
    BY <2>3, <2>4
<1>6. CASE NextFile
  <2>1. /\ main = "read" /\ todo = <<>> /\ tables' = tables /\ loaded' = loaded
        /\ garbled' = garbled
        /\ \/ main' = "open" /\ stage' = stage + 1 /\ stage < 4
           \/ main' = "done" /\ stage = 4
    BY <1>0, <1>6 DEF NextFile, Main
  <2>2. FileRules(s) \o <<>> = FileRules(s) /\ Len(FileRules(s)) + Len(<<>>) = Len(FileRules(s))
    BY <1>e
  <2>3. HalfRead(s) => ReadIn(s)
    BY <2>1, <2>2 DEF HalfRead, ReadIn
  <2>4. (i <= stage => ReadIn(s)) /\ (i > stage => FileRules(s) = <<>>)
    BY <1>0, <2>1, <2>3 DEF Progress, Reading
  <2> QED
    BY <1>0, <2>1, <2>4, SameTable DEF Progress, Reading
<1>7. CASE ReloadDone \/ CacheCleanup
  <2>1. /\ main \in {"done", "sleep"} /\ main' = "sleep" /\ tables' = tables /\ loaded' = loaded
        /\ garbled' = garbled
    BY <1>7 DEF ReloadDone, CacheCleanup, Main
  <2> QED
    BY <1>0, <2>1, SameTable DEF Progress, Reading
<1>8. CASE AppendRuntimeRule
  <2>1. UNCHANGED <<main, stage, todo, loaded, garbled>>
    BY <1>8 DEF AppendRuntimeRule, Ipc, mainVars
  <2>2. FileRules(s)' = FileRules(s) /\ (Len(tables[s]) >= MaxRules => Len(tables'[s]) >= MaxRules)
    <3> DEFINE x == adding[1]
               r == adding[2]
    <3>1. /\ x \in Stages /\ r \in Rule(x, {"runtime"})
          /\ tables'[s] = IF s = x THEN Append(tables[s], r) ELSE tables[s]
      BY <1>0, <1>8 DEF AppendRuntimeRule, Ipc, RulesTypeOK, Adding
    <3> HIDE DEF x, r
    <3>2. CASE s # x
      BY <3>1, <3>2, SameTable
    <3>3. CASE s = x
      <4>1. Keep(Append(tables[x], r), {"file"}) = Keep(tables[x], {"file"})
        BY <3>1, AppendToTable DEF Sources
      <4>2. Len(tables'[s]) = Len(tables[s]) + 1
        BY <1>0, <3>1, <3>3
      <4> QED
        BY <1>0, <3>1, <3>3, <4>1, <4>2 DEF FileRules, From
    <3> QED
      BY <3>2, <3>3
  <2>3. (ReadIn(s) => ReadIn(s)') /\ (HalfRead(s) => HalfRead(s)')
    BY <2>1, <2>2 DEF ReadIn, HalfRead
  <2> QED
    BY <1>0, <2>1, <2>2, <2>3 DEF Progress
<1>9. CASE ~ (ReloadStep \/ CacheCleanup \/ AppendRuntimeRule)
  <2>1. UNCHANGED <<tables, main, stage, todo, loaded, garbled>>
    BY <1>9 DEF Next, IpcStep, CacheLookup, StageLookup, AliasLookup, CacheStore,
         FlushCache, ReceiveQuery, AddRule, ParseRule, CheckRuleRoom, Respond, Ipc, EditFiles,
         RequestReload,
         vars, mainVars, envVars, NoReply
  <2>2. HalfRead(s)' <=> HalfRead(s)
    BY <2>1, SameTable DEF HalfRead
  <2> QED
    BY <1>0, <2>1, <2>2, SameTable DEF Progress
<1> QED
  BY <1>1, <1>2, <1>3, <1>4, <1>5, <1>6, <1>7, <1>8, <1>9 DEF ReloadStep

-------------------------------------------------------------------------------
(* The size of the tables.                                                    *)

\* At the start every table fits.
LEMMA OneTooManyInit == Init => OneTooMany
<1> SUFFICES ASSUME Init, NEW s \in Stages PROVE Len(tables[s]) + Pending(s) <= MaxRules + 1
  BY DEF OneTooMany
<1>1. Pending(s) = 0
  BY DEF Init, Pending
<1>2. tables[s] \in Seq(Rule(s, Sources)) /\ Len(tables[s]) <= MaxRules
  BY InitTables
<1>3. Len(tables[s]) \in Nat /\ MaxRules \in Nat
  BY <1>2, RuleEngineAssumption
<1> QED
  BY <1>1, <1>2, <1>3

\* An append that has passed the check makes the table longer by one; only the
\* other thread's can come on top.
LEMMA OneTooManyStep == RulesTypeOK /\ OneTooMany /\ [Next]_vars => OneTooMany'
<1> SUFFICES ASSUME RulesTypeOK, OneTooMany, [Next]_vars, NEW s \in Stages
             PROVE  Len(tables'[s]) + Pending(s)' <= MaxRules + 1
  BY DEF OneTooMany
<1> DEFINE f == IF main = "append" /\ LoadOrder[stage] = s THEN 1 ELSE 0
           g == IF ipc = "append" /\ adding[1] = s THEN 1 ELSE 0
<1> DEFINE a == Len(tables[s])
<1>0. tables[s] \in Seq(Rule(s, Sources))
  BY DEF RulesTypeOK
<1>1. a \in Nat /\ MaxRules \in Nat /\ a + (f + g) <= MaxRules + 1
  <2>1. a \in Nat /\ MaxRules \in Nat
    BY <1>0, RuleEngineAssumption
  <2>2. a + (f + g) <= MaxRules + 1
    BY DEF OneTooMany, Pending
  <2> QED
    BY <2>1, <2>2
<1>2. f \in {0, 1} /\ g \in {0, 1} /\ f' \in {0, 1} /\ g' \in {0, 1} /\ Pending(s)' = f' + g'
  BY DEF Pending
<1> SUFFICES a' + (f' + g') <= MaxRules + 1
  BY <1>2
<1>3. CASE ClearTable
  <2>1. f = 0 /\ f' = 0 /\ g' = g
    BY <1>3 DEF ClearTable, Main, ipcVars
  <2>2. tables'[s] = tables[s] \/ tables'[s] = Keep(tables[s], {"builtin", "runtime"})
    BY <1>3 DEF ClearTable, RulesTypeOK
  <2>3. a' \in Nat /\ a' <= a
    BY <1>0, <1>1, <2>2, KeepIsSeq
  <2> HIDE DEF f, g, a
  <2>4. f' + g' = f + g /\ f + g \in Nat
    BY <1>2, <2>1
  <2>5. a + (f + g) <= MaxRules + 1 /\ a \in Nat /\ MaxRules + 1 \in Nat
    BY <1>1
  <2> QED
    BY <2>3, <2>4, <2>5
<1>4. CASE CheckRoom
  <2>1. a' = a /\ f = 0 /\ g' = g
    BY <1>4 DEF CheckRoom, Main, ipcVars
  <2>2. f' = 1 => a < MaxRules
    BY <1>0, <1>1, <1>4 DEF CheckRoom, Main
  <2> HIDE DEF f, g, a
  <2>3. CASE f' = 0
    <3>1. f' + g' = f + g
      BY <1>2, <2>1, <2>3
    <3> QED
      BY <1>1, <2>1, <3>1
  <2>4. CASE f' = 1
    <3>1. a < MaxRules /\ f' + g' \in {1, 2}
      BY <1>2, <2>1, <2>2, <2>4
    <3>2. a \in Nat /\ MaxRules \in Nat
      BY <1>1
    <3> QED
      BY <2>1, <3>1, <3>2
  <2> QED
    BY <1>2, <2>3, <2>4
<1>5. CASE CheckRuleRoom
  <2>1. a' = a /\ g = 0 /\ f' = f
    BY <1>5 DEF CheckRuleRoom, Ipc, mainVars
  <2>2. g' = 1 => a < MaxRules
    BY <1>0, <1>1, <1>5 DEF CheckRuleRoom, Ipc
  <2> HIDE DEF f, g, a
  <2>3. CASE g' = 0
    <3>1. f' + g' = f + g
      BY <1>2, <2>1, <2>3
    <3> QED
      BY <1>1, <2>1, <3>1
  <2>4. CASE g' = 1
    <3>1. a < MaxRules /\ f' + g' \in {1, 2}
      BY <1>2, <2>1, <2>2, <2>4
    <3>2. a \in Nat /\ MaxRules \in Nat
      BY <1>1
    <3> QED
      BY <2>1, <3>1, <3>2
  <2> QED
    BY <1>2, <2>3, <2>4
<1>6. CASE AppendFileRule
  <2>1. f' = 0 /\ g' = g /\ main = "append"
    BY <1>6 DEF AppendFileRule, Main, ipcVars
  <2>2. tables'[s] = IF f = 1 THEN Append(tables[s], Head(todo)) ELSE tables[s]
    BY <1>6, <2>1 DEF AppendFileRule, RulesTypeOK
  <2>3. a' = a + f
    <3> HIDE DEF f
    <3>1. CASE f = 1
      BY <1>0, <1>1, <2>2, <3>1
    <3>2. CASE f = 0
      BY <1>0, <1>1, <2>2, <3>2
    <3> QED
      BY <1>2, <3>1, <3>2
  <2> HIDE DEF f, g, a
  <2> QED
    BY <1>1, <1>2, <2>1, <2>3
<1>7. CASE AppendRuntimeRule
  <2>1. g' = 0 /\ f' = f /\ ipc = "append"
    BY <1>7 DEF AppendRuntimeRule, Ipc, mainVars
  <2>2. tables'[s] = IF g = 1 THEN Append(tables[s], adding[2]) ELSE tables[s]
    BY <1>7, <2>1 DEF AppendRuntimeRule, RulesTypeOK
  <2>3. a' = a + g
    <3> HIDE DEF g
    <3>1. CASE g = 1
      BY <1>0, <1>1, <2>2, <3>1
    <3>2. CASE g = 0
      BY <1>0, <1>1, <2>2, <3>2
    <3> QED
      BY <1>2, <3>1, <3>2
  <2> HIDE DEF f, g, a
  <2> QED
    BY <1>1, <1>2, <2>1, <2>3
<1>8. CASE \/ ReloadStart \/ OpenFile \/ ReadLine \/ ParseLine \/ NextFile
           \/ ReloadDone \/ CacheCleanup
  <2>1. a' = a /\ f' = 0 /\ g' = g
    BY <1>8 DEF ReloadStart, OpenFile, ReadLine, ParseLine, NextFile, ReloadDone, CacheCleanup,
                Main, ipcVars
  <2> HIDE DEF f, g, a
  <2> QED
    BY <1>1, <1>2, <2>1
<1>9. CASE \/ CacheLookup \/ StageLookup \/ AliasLookup \/ CacheStore \/ FlushCache
           \/ (\E q \in Queries : ReceiveQuery(q)) \/ ParseRule
           \/ \E sr \in RuntimeRules : AddRule(sr[1], sr[2])
  <2>1. a' = a /\ f' = f /\ g' = 0
    <3>1. UNCHANGED <<tables, main, stage>>
      BY <1>9 DEF CacheLookup, StageLookup, AliasLookup, CacheStore, FlushCache, ReceiveQuery,
           AddRule, ParseRule, Respond, Ipc, mainVars
    <3>2. ipc' # "append"
      <4>1. CASE StageLookup
        <5>1. ipc \in {"intent", "regex", "token"} /\ ipc' \in {"store", NextStage[ipc]}
          BY <4>1 DEF StageLookup, Ipc
        <5> QED
          BY <5>1 DEF NextStage
      <4>2. CASE CacheLookup \/ AliasLookup \/ CacheStore \/ FlushCache
        BY <4>2 DEF CacheLookup, AliasLookup, CacheStore, FlushCache, Respond, Ipc, NextStage
      <4>3. CASE (\E q \in Queries : ReceiveQuery(q)) \/ ParseRule
                 \/ \E sr \in RuntimeRules : AddRule(sr[1], sr[2])
        BY <4>3 DEF ReceiveQuery, ParseRule, AddRule, Ipc
      <4> QED
        BY <1>9, <4>1, <4>2, <4>3
    <3> QED
      BY <3>1, <3>2
  <2> HIDE DEF f, g, a
  <2> QED
    BY <1>1, <1>2, <2>1
<1>10. CASE (\E content \in Contents : EditFiles(content)) \/ RequestReload \/ UNCHANGED vars
  <2>1. a' = a /\ f' = f /\ g' = g
    BY <1>10 DEF EditFiles, RequestReload, vars, mainVars, ipcVars
  <2> HIDE DEF f, g, a
  <2> QED
    BY <1>1, <1>2, <2>1
<1> QED
  BY <1>3, <1>4, <1>5, <1>6, <1>7, <1>8, <1>9, <1>10 DEF Next, ReloadStep, IpcStep

-------------------------------------------------------------------------------
(* Built-in intents.                                                          *)

\* Where all rules have the same rank the first that matches wins.
LEMMA FirstIsBest ==
  ASSUME NEW R, NEW t \in Seq(R), \A r \in R : r.rank = 0, NEW q, NEW i \in Matching(t, q),
         \A k \in Matching(t, q) : i <= k
  PROVE  Best(t, q) = t[i]
<1> DEFINE P(j) == j \in Matching(t, q) /\ \A k \in Matching(t, q) :
                      t[k].rank < t[j].rank \/ (t[k].rank = t[j].rank /\ j <= k)
<1>1. \A k \in Matching(t, q) : k \in Nat /\ t[k].rank = 0
  BY DEF Matching
<1>2. P(i)
  BY <1>1
<1>3. ASSUME NEW j, P(j) PROVE j = i
  <2>1. j \in Nat /\ i \in Nat /\ t[i].rank = 0 /\ t[j].rank = 0
    BY <1>1, <1>3
  <2>2. i <= j /\ j <= i
    BY <1>3, <2>1
  <2> QED
    BY <2>1, <2>2
<1>4. Best(t, q) = t[CHOOSE j : P(j)]
  BY DEF Best
<1> HIDE DEF P
<1>5. P(CHOOSE j : P(j))
  BY <1>2
<1>6. (CHOOSE j : P(j)) = i
  BY <1>3, <1>5
<1> QED
  BY <1>4, <1>6

\* So what comes behind does not matter.
LEMMA BestIsStable ==
  ASSUME NEW R, NEW t \in Seq(R), NEW u \in Seq(R), \A r \in R : r.rank = 0, NEW q,
         Matching(t, q) # {}
  PROVE  Matching(t \o u, q) # {} /\ Best(t \o u, q) = Best(t, q) /\ Best(t, q) \in R
<1>1. Matching(t, q) \subseteq Nat
  BY DEF Matching
<1>2. PICK i \in Matching(t, q) : \A k \in Matching(t, q) : i <= k
  BY <1>1, LeastNumber
<1>3. /\ DOMAIN t = 1..Len(t) /\ DOMAIN (t \o u) = 1..Len(t \o u) /\ t \o u \in Seq(R)
      /\ \A k \in 1..Len(t) : (t \o u)[k] = t[k] /\ k \in 1..Len(t \o u)
      /\ Len(t) \in Nat /\ Len(t \o u) \in Nat
  OBVIOUS
<1>4. i \in 1..Len(t) /\ t[i].query = q
  BY <1>3 DEF Matching
<1>5. i \in Matching(t \o u, q) /\ (t \o u)[i] = t[i]
  BY <1>3, <1>4 DEF Matching
<1>6. ASSUME NEW k \in Matching(t \o u, q) PROVE i <= k
  <2>1. k \in 1..Len(t \o u) /\ (t \o u)[k].query = q
    BY <1>3, <1>6 DEF Matching
  <2>2. CASE k <= Len(t)
    <3>1. k \in 1..Len(t)
      BY <1>3, <2>1, <2>2
    <3>2. k \in Matching(t, q)
      BY <1>3, <2>1, <3>1 DEF Matching
    <3> QED
      BY <1>2, <3>2
  <2> QED
    BY <1>3, <1>4, <2>1, <2>2
<1>7. Best(t, q) = t[i]
  BY <1>2, FirstIsBest
<1>8. Best(t \o u, q) = (t \o u)[i]
  <2> DEFINE v == t \o u
  <2>1. v \in Seq(R) /\ i \in Matching(v, q) /\ \A k \in Matching(v, q) : i <= k
    BY <1>3, <1>5, <1>6
  <2> HIDE DEF v
  <2>2. Best(v, q) = v[i]
    BY <2>1, FirstIsBest
  <2> QED
    BY <2>2 DEF v
<1>9. t[i] \in R
  BY <1>3, <1>4
<1> QED
  BY <1>5, <1>7, <1>8, <1>9

\* The built-in rules are loaded first...
LEMMA IntentsFirstInit == Init => BuiltinIntentsFirst
<1> SUFFICES ASSUME Init PROVE BuiltinIntentsFirst
  OBVIOUS
<1>1. "intent" \in Stages
  BY DEF Stages
<1>2. PICK part \in Seq(Rule("intent", {"file"})) : tables["intent"] = Builtin["intent"] \o part
  BY <1>1, InitTables
<1>3. part \in Seq(Rule("intent", Sources))
  BY MoreSources DEF Sources
<1> QED
  BY <1>2, <1>3 DEF BuiltinIntentsFirst

\* ... and stay in front: rules are appended, and the compaction keeps them.
LEMMA IntentsFirstStep == RulesTypeOK /\ BuiltinIntentsFirst /\ [Next]_vars => BuiltinIntentsFirst'
<1> SUFFICES ASSUME RulesTypeOK, BuiltinIntentsFirst, [Next]_vars PROVE BuiltinIntentsFirst'
  OBVIOUS
<1> DEFINE s == "intent"
           R == Rule(s, Sources)
           b == Builtin[s]
<1>1. s \in Stages
  BY DEF Stages
<1>2. b \in Seq(Rule(s, {"builtin"}))
  BY <1>1, RuleEngineAssumption
<1>3. b \in Seq(R) /\ tables[s] \in Seq(R)
  <2>1. {"builtin"} \subseteq Sources
    BY DEF Sources
  <2>2. b \in Seq(R)
    BY <1>2, <2>1, MoreSources
  <2> QED
    BY <1>1, <2>2 DEF RulesTypeOK
<1>4. PICK t \in Seq(R) : tables[s] = b \o t
  BY DEF BuiltinIntentsFirst
<1> SUFFICES \E u \in Seq(R) : tables'[s] = b \o u
  BY DEF BuiltinIntentsFirst
<1>5. CASE tables'[s] = tables[s]
  BY <1>4, <1>5
<1>6. CASE tables'[s] = Keep(tables[s], {"builtin", "runtime"})
  <2> DEFINE kept == {"builtin", "runtime"}
             B == Rule(s, {"builtin"})
  <2>1. \A r \in B : r.src \in kept
    BY RuleSource
  <2>2. b \in Seq(B)
    BY <1>2
  <2> HIDE DEF kept, B
  <2>3. Keep(b, kept) = b
    BY <2>1, <2>2, KeepAll
  <2> HIDE DEF R, b
  <2>4. Keep(b \o t, kept) = Keep(b, kept) \o Keep(t, kept)
    BY <1>3, <1>4, KeepOfConcat
  <2>5. Keep(t, kept) \in Seq(R)
    BY <1>4, KeepIsSeq
  <2>6. tables'[s] = Keep(b \o t, kept)
    BY <1>4, <1>6 DEF kept
  <2> QED
    BY <2>3, <2>4, <2>5, <2>6
<1>7. ASSUME NEW r \in R, tables'[s] = Append(tables[s], r) PROVE \E u \in Seq(R) : tables'[s] = b \o u
  <2> HIDE DEF R, b
  <2>1. Append(b \o t, r) = b \o Append(t, r) /\ Append(t, r) \in Seq(R)
    BY <1>3, <1>4
  <2> QED
    BY <1>4, <1>7, <2>1
<1>8. \A src \in Sources : Rule(s, {src}) \subseteq R
  BY MoreSources
<1> HIDE DEF R, b
<1>9. \/ tables'[s] = tables[s]
      \/ tables'[s] = Keep(tables[s], {"builtin", "runtime"})
      \/ \E r \in R : tables'[s] = Append(tables[s], r)
  <2>1. ASSUME NEW x \in Stages, NEW src \in Sources, NEW r \in Rule(x, {src}),
               \A y \in Stages : tables'[y] = IF y = x THEN Append(tables[y], r) ELSE tables[y]
        PROVE  tables'[s] = tables[s] \/ \E q \in R : tables'[s] = Append(tables[s], q)
    BY <1>1, <1>8, <2>1
  <2> QED
    BY <1>1, <2>1, TablesStep DEF Sources
<1> QED
  BY <1>5, <1>6, <1>7, <1>9

\* A query the built-in intents know: the intent table recognises it, with
\* the built-in answer.
LEMMA KnownIsRecognised ==
  ASSUME BuiltinIntentsFirst, NEW q, Known(q)
  PROVE  Recognises("intent", q) /\ Best(tables["intent"], q).answer = Meaning(q)
<1> DEFINE R == Rule("intent", Sources)
           b == Builtin["intent"]
<1>1. PICK t \in Seq(R) : tables["intent"] = b \o t
  BY DEF BuiltinIntentsFirst
<1>2. b \in Seq(R)
  <2>1. b \in Seq(Rule("intent", {"builtin"}))
    BY RuleEngineAssumption DEF Stages
  <2> QED
    BY <2>1, MoreSources DEF Sources
<1>3. \A r \in R : r.rank = 0
  BY DEF Rule
<1>4. Matching(b, q) # {} /\ Meaning(q) = Best(b, q).answer
  BY DEF Known, Meaning
<1> HIDE DEF R, b
<1>5. Matching(b \o t, q) # {} /\ Best(b \o t, q) = Best(b, q)
  BY <1>1, <1>2, <1>3, <1>4, BestIsStable
<1> QED
  BY <1>1, <1>4, <1>5 DEF Recognises

\* No rule is about no query.
LEMMA NoneIsUnknown == ~ Known(None)
<1> SUFFICES ASSUME NEW i \in DOMAIN Builtin["intent"] PROVE Builtin["intent"][i].query # None
  BY DEF Known, Matching
<1>1. Builtin["intent"] \in Seq(Rule("intent", {"builtin"}))
  BY RuleEngineAssumption DEF Stages
<1>2. Builtin["intent"][i] \in Rule("intent", {"builtin"})
  BY <1>1
<1> QED
  BY <1>2, RuleEngineAssumption DEF Rule

\* At the start nothing has been answered.
LEMMA IntentsHoldInit == Init => BuiltinIntentsHold
<1> SUFFICES ASSUME Init PROVE BuiltinIntentsHold
  OBVIOUS
<1>1. cache = [q \in Queries |-> None] /\ ipc = "idle" /\ reply.query = None
  BY DEF Init, EmptyCache, NoReply
<1>2. BuiltinIntentsAreStable
  BY <1>1, NoneIsUnknown DEF BuiltinIntentsAreStable, Known
<1> QED
  BY <1>1, <1>2 DEF BuiltinIntentsHold

\* The store answers, and is the only one to bring an answer into the cache.
LEMMA StoreAnswers ==
  ASSUME ServerTypeOK, CacheStore
  PROVE  /\ ipc = "store" /\ ipc' = "idle" /\ query \in Queries /\ tables' = tables
         /\ reply' = [query |-> query, answer |-> answer]
         /\ DOMAIN cache' = Queries /\ cache' = [q \in Queries |-> cache'[q]]
         /\ \A q \in Queries : \/ cache'[q] = cache[q] \/ cache'[q] = None
                               \/ q = query /\ cache'[q] = answer
<1>1. /\ ipc = "store" /\ ipc' = "idle" /\ query \in Queries /\ tables' = tables
      /\ reply' = [query |-> query, answer |-> answer] /\ Cache!Store(query, answer)
  BY DEF CacheStore, Respond, Ipc, ServerTypeOK, Pipeline
<1>2. DOMAIN cache = Queries /\ cache = [q \in Queries |-> cache[q]]
  BY DEF ServerTypeOK
<1>3. CASE cache' = cache
  BY <1>1, <1>2, <1>3
<1>4. CASE \E p \in Queries : cache' = [cache EXCEPT ![p] = None, ![query] = answer]
  <2>1. PICK p \in Queries : cache' = [cache EXCEPT ![p] = None, ![query] = answer]
    BY <1>4
  <2> QED
    BY <1>1, <1>2, <2>1
<1> QED
  BY <1>1, <1>3, <1>4 DEF Cache!Store

\* From the intent table to the reply, and through the cache to later replies,
\* the answer to a query the built-in intents know stays theirs.
LEMMA IntentsHoldStep ==
  ServerTypeOK /\ BuiltinIntentsFirst /\ BuiltinIntentsHold /\ [Next]_vars => BuiltinIntentsHold'
<1> SUFFICES ASSUME ServerTypeOK, BuiltinIntentsFirst, BuiltinIntentsHold, [Next]_vars
             PROVE  BuiltinIntentsHold'
  OBVIOUS
<1>a. BuiltinIntentsAreStable <=> (Known(reply.query) => reply.answer = Meaning(reply.query))
  BY DEF BuiltinIntentsAreStable, Known, Meaning
<1>b. BuiltinIntentsAreStable' <=> (Known(reply'.query) => reply'.answer = Meaning(reply'.query))
  BY DEF BuiltinIntentsAreStable, Known, Meaning
<1>c. \A q : (Known(q)' <=> Known(q)) /\ Meaning(q)' = Meaning(q)
  BY DEF Known, Meaning
<1>1. CASE ReloadStep \/ CacheCleanup
  <2>1. /\ UNCHANGED <<ipc, query, answer, reply>>
        /\ cache' = cache \/ cache' = [q \in Queries |-> None]
    BY <1>1 DEF ReloadStep, ReloadStart, ClearTable, OpenFile, ReadLine, ParseLine, CheckRoom,
                AppendFileRule,
         NextFile, ReloadDone, CacheCleanup, Main, ipcVars, EmptyCache
  <2> QED
    BY <1>a, <1>b, <1>c, <2>1 DEF BuiltinIntentsHold
<1>2. CASE (\E content \in Contents : EditFiles(content)) \/ RequestReload \/ UNCHANGED vars
  <2>1. UNCHANGED <<ipc, query, answer, reply, cache>>
    BY <1>2 DEF EditFiles, RequestReload, vars, ipcVars
  <2> QED
    BY <1>a, <1>b, <1>c, <2>1 DEF BuiltinIntentsHold
<1>3. CASE (\E q \in Queries : ReceiveQuery(q)) \/ ParseRule \/ CheckRuleRoom
           \/ AppendRuntimeRule \/ FlushCache
           \/ (\E sr \in RuntimeRules : AddRule(sr[1], sr[2]))
  <2>1. /\ ipc' \in {"cache", "flush", "idle"} \cup Adding
        /\ reply' = reply \/ reply'.query = None
        /\ cache' = cache \/ cache' = [q \in Queries |-> None]
    <3>1. CASE \E q \in Queries : ReceiveQuery(q)
      BY <3>1 DEF ReceiveQuery, NoReply, Ipc
    <3>2. CASE \E sr \in RuntimeRules : AddRule(sr[1], sr[2])
      BY <3>2 DEF AddRule, Adding
    <3>3. CASE ParseRule \/ CheckRuleRoom \/ AppendRuntimeRule \/ FlushCache
      BY <3>3 DEF ParseRule, CheckRuleRoom, AppendRuntimeRule, FlushCache, Ipc, EmptyCache, Adding
    <3> QED
      BY <1>3, <3>1, <3>2, <3>3
  <2> QED
    BY <1>a, <1>b, <1>c, <2>1, NoneIsUnknown DEF BuiltinIntentsHold, Adding
<1>4. CASE CacheLookup
  <2>1. /\ ipc = "cache" /\ cache' = cache /\ query \in Queries
        /\ \/ /\ ipc' = "idle" /\ cache[query] # None
              /\ reply' = [query |-> query, answer |-> cache[query]]
           \/ ipc' = "intent" /\ reply' = reply
    BY <1>4 DEF CacheLookup, Respond, Ipc, NextStage, ServerTypeOK, Pipeline
  <2> QED
    BY <1>a, <1>b, <1>c, <2>1 DEF BuiltinIntentsHold
<1>5. CASE StageLookup
  <2>1. /\ ipc \in {"intent", "regex", "token"} /\ query' = query /\ reply' = reply
        /\ cache' = cache
        /\ \/ /\ Recognises(ipc, query) /\ ipc' = "store"
              /\ answer' = Best(tables[ipc], query).answer
           \/ ~Recognises(ipc, query) /\ ipc' \in {"regex", "token", "alias"}
    BY <1>5 DEF StageLookup, Ipc, NextStage
  <2>2. CASE Known(query)
    <3>1. ipc = "intent"
      BY <2>1, <2>2 DEF BuiltinIntentsHold
    <3>2. ipc' = "store" /\ answer' = Meaning(query)
      BY <2>1, <2>2, <3>1, KnownIsRecognised
    <3> QED
      BY <1>a, <1>b, <1>c, <2>1, <3>2 DEF BuiltinIntentsHold
  <2>3. CASE ~ Known(query)
    BY <1>a, <1>b, <1>c, <2>1, <2>3 DEF BuiltinIntentsHold
  <2> QED
    BY <2>2, <2>3
<1>6. CASE AliasLookup
  <2>1. /\ ipc = "alias" /\ cache' = cache /\ ipc' = "idle"
        /\ reply' = [query |-> query, answer |-> None]
    BY <1>6 DEF AliasLookup, Respond, Ipc
  <2> QED
    BY <1>a, <1>b, <1>c, <2>1 DEF BuiltinIntentsHold
<1>7. CASE CacheStore
  <2>1. Known(query) => answer = Meaning(query)
    BY <1>7, StoreAnswers DEF BuiltinIntentsHold
  <2> QED
    BY <1>7, <1>b, <1>c, <2>1, StoreAnswers DEF BuiltinIntentsHold
<1> QED
  BY <1>1, <1>2, <1>3, <1>4, <1>5, <1>6, <1>7 DEF Next, IpcStep

-------------------------------------------------------------------------------
(* The cache.                                                                 *)

\* What the tables say depends on the tables alone.
LEMMA SameTablesSameAnswers ==
  ASSUME tables' = tables
  PROVE  /\ \A s, q : Recognises(s, q)' <=> Recognises(s, q)
         /\ \A q : Answer(q)' = Answer(q)
<1>1. \A s, q : Recognises(s, q)' <=> Recognises(s, q)
  BY DEF Recognises
<1>2. \A q : Answer(q)' = Answer(q)
  BY DEF Answer, Recognises
<1> QED
  BY <1>1, <1>2

LEMMA EmptyCacheAgrees ==
  cache' = EmptyCache => DOMAIN cache' = Queries /\ cache' = [q \in Queries |-> cache'[q]] /\ CacheAgrees'
BY DEF EmptyCache, CacheAgrees

\* Steps of the main thread, while nobody has asked for a reload: only the
\* cleanup is possible.
LEMMA MainStep ==
  ASSUME CacheIInv, ReloadStep \/ CacheCleanup
  PROVE  CacheIInv'
<1>1. /\ ipc' = ipc /\ query' = query /\ answer' = answer /\ reloads' = reloads
      /\ cache' = cache \/ cache' = EmptyCache
  BY DEF ReloadStep, ReloadStart, ClearTable, OpenFile, ReadLine, ParseLine, CheckRoom,
         AppendFileRule,
         NextFile, ReloadDone, CacheCleanup, Main, ipcVars, envVars
<1>2. ServerTypeOK'
  BY <1>1, EmptyCacheAgrees DEF CacheIInv, ServerTypeOK
<1>3. ASSUME reloads = 0 PROVE CacheInvariant'
  <2>1. reload = FALSE /\ main = "sleep"
    BY <1>3 DEF CacheIInv, CacheInvariant
  <2>2. /\ tables' = tables /\ reload' = reload /\ main' = "sleep"
        /\ cache' = EmptyCache
    BY <2>1 DEF ReloadStep, ReloadStart, ClearTable, OpenFile, ReadLine, ParseLine, CheckRoom,
                AppendFileRule,
                NextFile, ReloadDone, CacheCleanup, Main
  <2>3. PassedOver'
    BY <1>1, <1>3, <2>2, SameTablesSameAnswers DEF CacheIInv, CacheInvariant, PassedOver
  <2> QED
    BY <2>1, <2>2, <2>3, EmptyCacheAgrees DEF CacheInvariant
<1> QED
  BY <1>1, <1>2, <1>3 DEF CacheIInv, CacheInvariant

\* The environment touches neither the cache nor the tables; asking for a
\* reload ends the promise.
LEMMA EnvironmentStep ==
  ASSUME CacheIInv,
         (\E content \in Contents : EditFiles(content)) \/ RequestReload \/ UNCHANGED vars
  PROVE  CacheIInv'
<1>1. /\ tables' = tables /\ cache' = cache /\ main' = main
      /\ ipc' = ipc /\ query' = query /\ answer' = answer
      /\ (reloads' = reloads /\ reload' = reload) \/ reloads' = reloads + 1
  BY DEF EditFiles, RequestReload, vars, mainVars, ipcVars, envVars
<1>2. ServerTypeOK' /\ (reloads' = 0 => reloads = 0 /\ reload' = reload)
  BY <1>1 DEF CacheIInv, ServerTypeOK
<1>3. ASSUME reloads' = 0 PROVE CacheAgrees' <=> CacheAgrees
  BY <1>1, SameTablesSameAnswers DEF CacheAgrees
<1>4. ASSUME reloads' = 0 PROVE PassedOver' <=> PassedOver
  BY <1>1, SameTablesSameAnswers DEF PassedOver
<1> QED
  BY <1>1, <1>2, <1>3, <1>4 DEF CacheIInv, CacheInvariant

\* Steps of the server thread.
LEMMA ServerStep ==
  ASSUME CacheIInv,
         \/ IpcStep
         \/ \E q \in Queries : ReceiveQuery(q)
         \/ \E sr \in RuntimeRules : AddRule(sr[1], sr[2])
  PROVE  CacheIInv'
<1>1. main' = main /\ reload' = reload /\ reloads' = reloads
  BY DEF IpcStep, CacheLookup, StageLookup, AliasLookup, CacheStore, AppendRuntimeRule,
         FlushCache, ReceiveQuery, AddRule, ParseRule, CheckRuleRoom, Respond, Ipc, mainVars,
         envVars
<1>2. ASSUME NEW q \in Queries, ReceiveQuery(q) PROVE CacheIInv'
  <2>1. /\ ipc = "idle" /\ ipc' = "cache" /\ query' \in Queries
        /\ tables' = tables /\ cache' = cache
    BY <1>2 DEF ReceiveQuery, Ipc
  <2>2. ServerTypeOK' /\ PassedOver'
    BY <1>1, <2>1 DEF CacheIInv, ServerTypeOK, PassedOver, Pipeline, Adding
  <2>3. CacheAgrees => CacheAgrees'
    BY <2>1, SameTablesSameAnswers DEF CacheAgrees
  <2> QED
    BY <1>1, <2>1, <2>2, <2>3 DEF CacheIInv, CacheInvariant, Adding
<1>3. CASE \/ ParseRule \/ CheckRuleRoom
           \/ \E sr \in RuntimeRules : AddRule(sr[1], sr[2])
  <2>1. /\ ipc \in {"idle"} \cup Adding /\ ipc' \in {"idle"} \cup Adding
        /\ tables' = tables /\ cache' = cache
    BY <1>3 DEF AddRule, ParseRule, CheckRuleRoom, Ipc, Adding
  <2>2. ServerTypeOK' /\ PassedOver'
    BY <1>1, <2>1 DEF CacheIInv, ServerTypeOK, PassedOver, Pipeline, Adding
  <2>3. CacheAgrees => CacheAgrees'
    BY <2>1, SameTablesSameAnswers DEF CacheAgrees
  <2> QED
    BY <1>1, <2>1, <2>2, <2>3 DEF CacheIInv, CacheInvariant, Adding
<1>4. CASE CacheLookup \/ AliasLookup
  <2>1. /\ ipc \in {"cache", "alias"} /\ tables' = tables /\ cache' = cache
        /\ ipc' = "idle" \/ (ipc' = "intent" /\ query' = query)
    BY <1>4 DEF CacheLookup, AliasLookup, Respond, Ipc, NextStage
  <2>2. ServerTypeOK' /\ PassedOver'
    BY <1>1, <2>1 DEF CacheIInv, ServerTypeOK, PassedOver, Pipeline, Adding
  <2>3. CacheAgrees => CacheAgrees'
    BY <2>1, SameTablesSameAnswers DEF CacheAgrees
  <2> QED
    BY <1>1, <2>1, <2>2, <2>3 DEF CacheIInv, CacheInvariant, Adding
<1>5. CASE StageLookup
  <2>1. /\ ipc \in {"intent", "regex", "token"} /\ query \in Queries
        /\ tables' = tables /\ cache' = cache /\ query' = query
    BY <1>5 DEF StageLookup, CacheIInv, ServerTypeOK, Pipeline
  <2>2. \/ /\ Recognises(ipc, query) /\ ipc' = "store"
           /\ answer' = Best(tables[ipc], query).answer
        \/ /\ ~Recognises(ipc, query) /\ ipc' = NextStage[ipc]
    BY <1>5 DEF StageLookup, Ipc
  <2>3. ServerTypeOK'
    BY <1>1, <2>1, <2>2 DEF CacheIInv, ServerTypeOK, NextStage, Pipeline, Adding
  <2>4. ASSUME reloads = 0 PROVE PassedOver'
    <3>1. PassedOver
      BY <2>4 DEF CacheIInv, CacheInvariant
    <3>2. CASE Recognises(ipc, query) /\ ipc' = "store"
      <4>1. Answer(query) = Best(tables[ipc], query).answer
        BY <2>1, <3>1, <3>2 DEF PassedOver, Answer
      <4> QED
        BY <2>1, <2>2, <3>2, <4>1, SameTablesSameAnswers DEF PassedOver, NextStage
    <3>3. CASE ~Recognises(ipc, query) /\ ipc' = NextStage[ipc]
      <4>1. \/ ipc = "intent" /\ ipc' = "regex"
            \/ ipc = "regex" /\ ipc' = "token"
            \/ ipc = "token" /\ ipc' = "alias"
        BY <2>1, <3>3 DEF NextStage
      <4> QED
        BY <2>1, <3>1, <3>3, <4>1, SameTablesSameAnswers DEF PassedOver
    <3> QED
      BY <2>2, <3>2, <3>3
  <2>5. CacheAgrees => CacheAgrees'
    BY <2>1, SameTablesSameAnswers DEF CacheAgrees
  <2> QED
    BY <1>1, <2>1, <2>2, <2>3, <2>4, <2>5 DEF CacheIInv, CacheInvariant
<1>6. CASE CacheStore
  <2>1. /\ ipc = "store" /\ ipc' = "idle" /\ query \in Queries /\ tables' = tables
    BY <1>6, StoreAnswers DEF CacheIInv
  <2>2. /\ DOMAIN cache' = Queries /\ cache' = [q \in Queries |-> cache'[q]]
        /\ \A q \in Queries : \/ cache'[q] = cache[q] \/ cache'[q] = None
                              \/ q = query /\ cache'[q] = answer
    BY <1>6, StoreAnswers DEF CacheIInv
  <2>3. ServerTypeOK' /\ PassedOver'
    BY <1>1, <2>1, <2>2 DEF CacheIInv, ServerTypeOK, PassedOver, Pipeline, Adding
  <2>4. ASSUME reloads = 0 PROVE CacheAgrees'
    <3>1. CacheAgrees /\ answer = Answer(query)
      BY <2>1, <2>4 DEF CacheIInv, CacheInvariant, PassedOver
    <3> QED
      BY <2>1, <2>2, <3>1, SameTablesSameAnswers DEF CacheAgrees
  <2> QED
    BY <1>1, <2>1, <2>3, <2>4 DEF CacheIInv, CacheInvariant
<1>7. CASE AppendRuntimeRule
  <2>1. ipc = "append" /\ ipc' = "flush" /\ cache' = cache
    BY <1>7 DEF AppendRuntimeRule, Ipc
  <2> QED
    BY <1>1, <2>1 DEF CacheIInv, ServerTypeOK, CacheInvariant, PassedOver, Pipeline, Adding
<1>8. CASE FlushCache
  <2>1. ipc = "flush" /\ ipc' = "idle" /\ cache' = EmptyCache
    BY <1>8 DEF FlushCache, Ipc
  <2> QED
    BY <1>1, <2>1, EmptyCacheAgrees
       DEF CacheIInv, ServerTypeOK, CacheInvariant, PassedOver, Pipeline, Adding
<1> QED
  BY <1>2, <1>3, <1>4, <1>5, <1>6, <1>7, <1>8 DEF IpcStep

-------------------------------------------------------------------------------
(* The theorems.                                                              *)

\* Whatever the threads do between each other's steps, every table holds rules
\* of its own and the reload's place is one of the code's.
THEOREM RulesAreTyped == Spec => []RulesTypeOK
BY TypeInit, TypeStep, PTL DEF Spec

\* No reload, however it is interleaved with the clients, loses a runtime rule
\* or changes the order of two of them.
THEOREM RuntimeRulesAreNotLost == Spec => []RuntimeRulesSurvive
BY RulesAreTyped, SurviveInit, SurviveStep, PTL DEF Spec

LEMMA ReadWhenAsleep == ReloadProgress => FileRulesAsLoaded
<1> SUFFICES ASSUME ReloadProgress, main = "sleep", NEW s \in Stages
             PROVE  ReadIn(s)
  BY DEF FileRulesAsLoaded, ReadIn, FileRules
<1>1. PICK i \in 1..4 : LoadOrder[i] = s
  BY LoadOrderFacts
<1>2. Progress(s, i)
  BY <1>1 DEF ReloadProgress
<1> QED
  BY <1>2 DEF Progress, Reading

\* Between reloads every table that is not full holds the file rules last read,
\* each once and in the file's order, unless a line was torn by a client's rule
\* that was cut up at the same time; no table holds more of them than were read.
THEOREM FileRulesAreReadOnce == Spec => []FileRulesAsLoaded
BY ReadWhenAsleep, RulesAreTyped, ProgressInit, ProgressStep, PTL DEF Spec

\* The check of the room and the append are two steps, and two threads add
\* rules: a table can be overrun, but never by more than one rule.
THEOREM OverrunByOneAtMost == Spec => [](\A s \in Stages : Len(tables[s]) <= MaxRules + 1)
<1>1. RulesTypeOK /\ OneTooMany => \A s \in Stages : Len(tables[s]) <= MaxRules + 1
  <2> SUFFICES ASSUME RulesTypeOK, OneTooMany, NEW s \in Stages
               PROVE  Len(tables[s]) <= MaxRules + 1
    OBVIOUS
  <2>1. tables[s] \in Seq(Rule(s, Sources)) /\ MaxRules \in Nat
    BY RuleEngineAssumption DEF RulesTypeOK
  <2>2. Len(tables[s]) \in Nat /\ Pending(s) \in {0, 1, 2}
    BY <2>1 DEF Pending
  <2>3. Len(tables[s]) + Pending(s) <= MaxRules + 1
    BY DEF OneTooMany
  <2> QED
    BY <2>1, <2>2, <2>3
<1> QED
  BY <1>1, RulesAreTyped, OneTooManyInit, OneTooManyStep, PTL DEF Spec

\* What the server thread and the cache hold, at every moment.
LEMMA CacheInit == Init => CacheIInv
<1> SUFFICES ASSUME Init PROVE CacheIInv
  OBVIOUS
<1>1. /\ cache = EmptyCache /\ ipc = "idle" /\ reloads = 0 /\ reload = FALSE
      /\ main = "sleep"
  BY DEF Init
<1> QED
  BY <1>1 DEF CacheIInv, ServerTypeOK, CacheInvariant, PassedOver, CacheAgrees,
              EmptyCache, Pipeline, Adding

LEMMA CacheStep == CacheIInv /\ [Next]_vars => CacheIInv'
BY MainStep, ServerStep, EnvironmentStep DEF Next

LEMMA CacheIInvHolds == Spec => []CacheIInv
BY CacheInit, CacheStep, PTL DEF Spec

\* Until somebody asks for a reload, the cache never contradicts the tables
\* between two messages, whatever is asked and added and whenever the cleanup
\* comes.
THEOREM CacheIsCurrent == Spec => []CacheAgreesWithoutReload
<1>1. CacheIInv => CacheAgreesWithoutReload
  BY DEF CacheIInv, CacheInvariant, CacheAgreesWithoutReload
<1> QED
  BY <1>1, CacheIInvHolds, PTL

\* A query the built-in intents know is answered as they say, in every reply:
\* during reloads, behind runtime rules, and out of the cache.
THEOREM BuiltinIntentsWin == Spec => []BuiltinIntentsAreStable
<1>1. CacheIInv => ServerTypeOK
  BY DEF CacheIInv
<1>2. BuiltinIntentsHold => BuiltinIntentsAreStable
  BY DEF BuiltinIntentsHold
<1> QED
  BY <1>1, <1>2, RulesAreTyped, CacheIInvHolds, IntentsFirstInit, IntentsFirstStep,
     IntentsHoldInit, IntentsHoldStep, PTL DEF Spec

-------------------------------------------------------------------------------
(* Compound queries.                                                          *)

\* Among numbers with ranks there is a first of the highest rank.
LEMMA FirstOfBestExists ==
  ASSUME NEW n \in Nat, NEW M \in SUBSET (1..n), M # {}, NEW rank,
         \A k \in 1..n : rank[k] \in Nat
  PROVE  \E i \in M : \A k \in M : rank[k] < rank[i] \/ (rank[k] = rank[i] /\ i <= k)
<1> DEFINE Wins(i, L) == \A k \in L : rank[k] < rank[i] \/ (rank[k] = rank[i] /\ i <= k)
           G == {m \in Nat : \A L \in SUBSET M : L \subseteq 1..m /\ L # {} => \E i \in L : Wins(i, L)}
<1>1. 0 \in G
  <2>1. 1..0 = {}
    OBVIOUS
  <2> QED
    BY <2>1
<1>2. ASSUME NEW m \in Nat, m \in G PROVE m + 1 \in G
  <2> SUFFICES ASSUME NEW L \in SUBSET M, L \subseteq 1..(m + 1), L # {}
               PROVE  \E i \in L : Wins(i, L)
    OBVIOUS
  <2>1. \A k \in L : k \in Nat /\ k <= m + 1 /\ rank[k] \in Nat
    OBVIOUS
  <2>2. CASE L \ {m + 1} = {}
    <3>1. L = {m + 1}
      BY <2>2
    <3>2. Wins(m + 1, L)
      BY <2>1, <3>1
    <3> QED
      BY <3>1, <3>2
  <2>3. CASE L \ {m + 1} # {}
    <3>1. PICK i \in L \ {m + 1} : Wins(i, L \ {m + 1})
      <4>1. L \ {m + 1} \subseteq 1..m /\ L \ {m + 1} \in SUBSET M
        OBVIOUS
      <4> QED
        BY <1>2, <2>3, <4>1
    <3>2. CASE m + 1 \in L /\ rank[m + 1] > rank[i]
      <4>1. Wins(m + 1, L)
        BY <2>1, <3>1, <3>2
      <4> QED
        BY <3>2, <4>1
    <3>3. CASE m + 1 \notin L \/ rank[m + 1] <= rank[i]
      <4>1. Wins(i, L)
        BY <2>1, <3>1, <3>3
      <4> QED
        BY <3>1, <4>1
    <3> QED
      BY <2>1, <3>1, <3>2, <3>3
  <2> QED
    BY <2>2, <2>3
<1>3. n \in G
  <2> HIDE DEF G
  <2> QED
    BY <1>1, <1>2, NatSetInduction
<1> QED
  BY <1>3

\* A table in which a query has a match has a best match for it.
LEMMA BestMatches ==
  ASSUME NEW R, NEW t \in Seq(R), \A r \in R : r.rank \in Nat, NEW q, Matching(t, q) # {}
  PROVE  Best(t, q) \in R /\ Best(t, q).query = q
<1> DEFINE M == Matching(t, q)
           rank == [k \in 1..Len(t) |-> t[k].rank]
           P(i) == \A k \in M : t[k].rank < t[i].rank \/ (t[k].rank = t[i].rank /\ i <= k)
<1>1. M \in SUBSET (1..Len(t)) /\ Len(t) \in Nat /\ \A k \in 1..Len(t) : t[k] \in R
  BY DEF Matching
<1>2. \A k \in 1..Len(t) : rank[k] = t[k].rank /\ rank[k] \in Nat
  BY <1>1
<1>3. \E i \in M : \A k \in M : rank[k] < rank[i] \/ (rank[k] = rank[i] /\ i <= k)
  <2> HIDE DEF M, rank
  <2> QED
    BY <1>1, <1>2, FirstOfBestExists DEF M
<1>4. \E i \in M : P(i)
  <2> HIDE DEF rank, M
  <2> QED
    BY <1>1, <1>2, <1>3
<1>5. Best(t, q) = t[CHOOSE i \in M : P(i)]
  BY DEF Best
<1>6. \A i \in M : t[i].query = q
  BY DEF Matching
<1> HIDE DEF M, P
<1>7. (CHOOSE i \in M : P(i)) \in M
  BY <1>4
<1> QED
  BY <1>1, <1>5, <1>6, <1>7

Results == Answers \cup Queries

\* So what a stage finds is the answer of a rule.
LEMMA BestAnswers ==
  ASSUME RulesTypeOK, NEW s \in Stages, NEW q, Recognises(s, q)
  PROVE  Best(tables[s], q).answer \in Results
<1>1. tables[s] \in Seq(Rule(s, Sources)) /\ Matching(tables[s], q) # {}
  BY DEF RulesTypeOK, Recognises
<1>2. \A r \in Rule(s, Sources) : r.rank \in Nat /\ r.answer \in Results
  BY DEF Rule, Results
<1> HIDE DEF Results
<1>3. Best(tables[s], q) \in Rule(s, Sources)
  BY <1>1, <1>2, BestMatches
<1> QED
  BY <1>2, <1>3

\* What the cache and the server thread hold are answers.
AnswersTyped ==
  /\ \A q \in Queries : cache[q] \in Results \cup {None}
  /\ ipc = "store" => answer \in Results

LEMMA NoneIsNoResult == None \notin Results
BY RuleEngineAssumption DEF Results

\* One step of the pipeline: on to another stage, or back with a result.
LEMMA PipelineReturns ==
  ASSUME RulesTypeOK, ServerTypeOK, AnswersTyped,
         CacheLookup \/ StageLookup \/ AliasLookup \/ CacheStore
  PROVE  /\ ipc \in Pipeline /\ query \in Queries
         /\ tables' = tables /\ reloads' = reloads
         /\ \/ ipc' \in Pipeline /\ query' = query /\ reply' = reply
            \/ /\ ipc' = "idle"
               /\ \E a \in Results \cup {None} : reply' = [query |-> query, answer |-> a]
         /\ AnswersTyped'
<1>1. tables' = tables /\ reloads' = reloads
  BY DEF CacheLookup, StageLookup, AliasLookup, CacheStore, Respond, Ipc, envVars
<1>2. CASE CacheLookup
  <2>1. /\ ipc = "cache" /\ query \in Queries /\ cache' = cache
        /\ \/ ipc' = "idle" /\ reply' = [query |-> query, answer |-> cache[query]]
           \/ ipc' = "intent" /\ query' = query /\ reply' = reply
    BY <1>2 DEF CacheLookup, Respond, Ipc, NextStage, ServerTypeOK, Pipeline
  <2> QED
    BY <1>1, <2>1 DEF AnswersTyped, Pipeline
<1>3. CASE StageLookup
  <2>1. /\ ipc \in {"intent", "regex", "token"} /\ query \in Queries /\ cache' = cache
        /\ query' = query /\ reply' = reply
        /\ \/ /\ Recognises(ipc, query) /\ ipc' = "store"
              /\ answer' = Best(tables[ipc], query).answer
           \/ ipc' \in {"regex", "token", "alias"}
    BY <1>3 DEF StageLookup, Ipc, NextStage, ServerTypeOK, Pipeline
  <2>2. Recognises(ipc, query) => Best(tables[ipc], query).answer \in Results
    BY <2>1, BestAnswers DEF Stages
  <2> QED
    BY <1>1, <2>1, <2>2 DEF AnswersTyped, Pipeline
<1>4. CASE AliasLookup
  <2>1. /\ ipc = "alias" /\ query \in Queries /\ cache' = cache /\ ipc' = "idle"
        /\ reply' = [query |-> query, answer |-> None]
    BY <1>4 DEF AliasLookup, Respond, Ipc, ServerTypeOK, Pipeline
  <2> QED
    BY <1>1, <2>1 DEF AnswersTyped, Pipeline
<1>5. CASE CacheStore
  <2>1. AnswersTyped'
    BY <1>5, StoreAnswers DEF AnswersTyped
  <2> QED
    BY <1>1, <1>5, <2>1, StoreAnswers DEF AnswersTyped, Pipeline
<1> QED
  BY <1>2, <1>3, <1>4, <1>5

LEMMA AnswersTypedStep ==
  RulesTypeOK /\ ServerTypeOK /\ AnswersTyped /\ [Next]_vars => AnswersTyped'
<1> SUFFICES ASSUME RulesTypeOK, ServerTypeOK, AnswersTyped, [Next]_vars
             PROVE  AnswersTyped'
  OBVIOUS
<1>1. CASE CacheLookup \/ StageLookup \/ AliasLookup \/ CacheStore
  BY <1>1, PipelineReturns
<1>2. CASE ReloadStep \/ CacheCleanup
  <2>1. /\ ipc' = ipc /\ answer' = answer
        /\ cache' = cache \/ cache' = [q \in Queries |-> None]
    BY <1>2 DEF ReloadStep, ReloadStart, ClearTable, OpenFile, ReadLine, ParseLine, CheckRoom,
                AppendFileRule,
         NextFile, ReloadDone, CacheCleanup, Main, ipcVars, EmptyCache
  <2> QED
    BY <2>1 DEF AnswersTyped
<1>3. CASE (\E content \in Contents : EditFiles(content)) \/ RequestReload \/ UNCHANGED vars
  <2>1. UNCHANGED <<ipc, answer, cache>>
    BY <1>3 DEF EditFiles, RequestReload, vars, ipcVars
  <2> QED
    BY <2>1 DEF AnswersTyped
<1>4. CASE (\E q \in Queries : ReceiveQuery(q)) \/ ParseRule \/ CheckRuleRoom
           \/ AppendRuntimeRule \/ FlushCache
           \/ (\E sr \in RuntimeRules : AddRule(sr[1], sr[2]))
  <2>1. /\ ipc' \in {"cache", "flush", "idle"} \cup Adding
        /\ cache' = cache \/ cache' = [q \in Queries |-> None]
    BY <1>4 DEF ReceiveQuery, AppendRuntimeRule, FlushCache, AddRule, ParseRule, CheckRuleRoom,
                Ipc, EmptyCache,
                Adding
  <2> QED
    BY <2>1 DEF AnswersTyped, Adding
<1> QED
  BY <1>1, <1>2, <1>3, <1>4 DEF Next, IpcStep

LEMMA AnswersTypedInit == Init => AnswersTyped
BY DEF Init, EmptyCache, AnswersTyped

\* All that is known of the engine holds whatever specification its steps are
\* taken by.
EngineKnown ==
  /\ RulesTypeOK /\ RuntimeRulesSurvive /\ ReloadProgress
  /\ CacheIInv /\ ServerTypeOK
  /\ BuiltinIntentsFirst /\ BuiltinIntentsHold /\ AnswersTyped

LEMMA EngineInit == Init => EngineKnown
<1>1. CacheIInv => ServerTypeOK
  BY DEF CacheIInv
<1> QED
  BY <1>1, TypeInit, SurviveInit, ProgressInit, CacheInit, IntentsFirstInit, IntentsHoldInit,
     AnswersTypedInit DEF EngineKnown

LEMMA EngineStep == EngineKnown /\ [Next]_vars => EngineKnown'
<1> SUFFICES ASSUME EngineKnown, [Next]_vars PROVE EngineKnown'
  OBVIOUS
<1>1. RulesTypeOK' /\ RuntimeRulesSurvive' /\ ReloadProgress'
  BY TypeStep, SurviveStep, ProgressStep DEF EngineKnown
<1>2. CacheIInv' /\ ServerTypeOK'
  BY CacheStep DEF EngineKnown, CacheIInv
<1>3. BuiltinIntentsFirst' /\ BuiltinIntentsHold' /\ AnswersTyped'
  BY IntentsFirstStep, IntentsHoldStep, AnswersTypedStep DEF EngineKnown
<1> QED
  BY <1>1, <1>2, <1>3 DEF EngineKnown

\* The engine uses its cache as CacheMap has it: what it stores is an answer, for
\* a query, at the end of the pipeline only; whatever else it does to the cache
\* empties it.
THEOREM CacheIsUsedAsMap == Spec => Cache!MapSpec
<1>1. Init => Cache!MapInit
  BY DEF Init, EmptyCache, Cache!MapInit
<1>2. EngineKnown /\ [Next]_vars => [Cache!MapNext]_cache
  <2> SUFFICES ASSUME EngineKnown, [Next]_vars PROVE Cache!MapNext \/ cache' = cache
    OBVIOUS
  <2>1. cache' = EmptyCache => Cache!MapNext
    BY DEF EmptyCache, Cache!MapNext, Cache!Clear
  <2>2. CASE CacheStore
    <3>1. query \in Queries /\ answer \in Answers \cup Queries
      BY <2>2, StoreAnswers DEF EngineKnown, AnswersTyped, Results
    <3>2. Cache!Store(query, answer)
      BY <2>2 DEF CacheStore
    <3> QED
      BY <3>1, <3>2 DEF Cache!MapNext
  <2>3. CASE ReloadStep \/ CacheCleanup
    <3>1. cache' = cache \/ cache' = EmptyCache
      BY <2>3 DEF ReloadStep, ReloadStart, ClearTable, OpenFile, ReadLine, ParseLine, CheckRoom,
                  AppendFileRule,
           NextFile, ReloadDone, CacheCleanup, Main, ipcVars
    <3> QED
      BY <2>1, <3>1
  <2>4. CASE \/ CacheLookup \/ StageLookup \/ AliasLookup
             \/ ParseRule \/ CheckRuleRoom \/ AppendRuntimeRule \/ FlushCache
             \/ \E q \in Queries : ReceiveQuery(q)
             \/ \E sr \in RuntimeRules : AddRule(sr[1], sr[2])
    <3>1. cache' = cache \/ cache' = EmptyCache
      BY <2>4 DEF CacheLookup, StageLookup, AliasLookup, AppendRuntimeRule, FlushCache,
           ReceiveQuery, AddRule, ParseRule, CheckRuleRoom
    <3> QED
      BY <2>1, <3>1
  <2>5. CASE (\E content \in Contents : EditFiles(content)) \/ RequestReload \/ UNCHANGED vars
    BY <2>5 DEF EditFiles, RequestReload, vars
  <2> QED
    BY <2>2, <2>3, <2>4, <2>5 DEF Next, IpcStep
<1> QED
  BY <1>1, <1>2, EngineInit, EngineStep, PTL DEF Spec, Cache!MapSpec

\* Between requests, during one, and of the last response: the results so far
\* are those of the first parts, in their order, and counted; the engine works
\* on the part that comes next.
Answered(rs, ps) ==
  /\ rs \in Seq(PartResult) /\ ps \in Seq(Queries) /\ Len(ps) <= 2
  /\ \A i \in DOMAIN rs : /\ rs[i].query = ps[i]
                          /\ Known(ps[i]) => rs[i].answer = Meaning(ps[i])
CountOf(rs) == (IF 1 \in DOMAIN rs /\ rs[1].answer # None THEN 1 ELSE 0)
               + (IF 2 \in DOMAIN rs /\ rs[2].answer # None THEN 1 ELSE 0)
RequestInHand ==
  /\ Answered(results, parts) /\ Len(results) <= Len(parts)
  /\ found = CountOf(results)
  /\ ipc \in Pipeline => Len(results) < Len(parts) /\ query = parts[Len(results) + 1]
  /\ ipc \in Adding \cup {"flush"} => parts = <<>>
LastResponse ==
  /\ Answered(response.computed, response.parts)
  /\ Len(response.computed) = Len(response.parts)
  /\ response.results = Sent(response.computed, CountOf(response.computed))

\* A text is cut into one or two queries.
LEMMA SplitIs ==
  ASSUME NEW t \in Texts
  PROVE  SplitQuery(t) \in Seq(Queries) /\ (Len(SplitQuery(t)) = 1 \/ Len(SplitQuery(t)) = 2)
<1>1. \E a, b : SplitQuery(t) = <<a>> \/ SplitQuery(t) = <<a, b>>
  BY DEF SplitQuery
<1>2. \A i \in DOMAIN SplitQuery(t) : SplitQuery(t)[i] \in Queries
  BY CompoundAssumption
<1> DEFINE s == SplitQuery(t)
<1> HIDE DEF s
<1>3. PICK a, b : s = <<a>> \/ s = <<a, b>>
  BY <1>1 DEF s
<1>4. CASE s = <<a>>
  <2>1. 1 \in DOMAIN s /\ s[1] = a
    BY <1>4
  <2>2. a \in Queries
    BY <1>2, <2>1 DEF s
  <2> QED
    BY <1>4, <2>2 DEF s
<1>5. CASE s = <<a, b>>
  <2>1. 1 \in DOMAIN s /\ s[1] = a /\ 2 \in DOMAIN s /\ s[2] = b
    BY <1>5
  <2>2. a \in Queries /\ b \in Queries
    BY <1>2, <2>1 DEF s
  <2> QED
    BY <1>5, <2>2 DEF s
<1> QED
  BY <1>3, <1>4, <1>5

\* Every step is one of the engine, or one of which it knows nothing.
LEMMA StepOfTheEngine == RequestInHand /\ [CompoundNext]_compoundVars => [Next]_vars
<1> SUFFICES ASSUME RequestInHand, [CompoundNext]_compoundVars PROVE [Next]_vars
  OBVIOUS
<1>1. CASE UNCHANGED compoundVars
  BY <1>1 DEF compoundVars
<1>2. CASE (\E t \in Texts : ReceiveText(t)) \/ SendResponse
  <2>1. UNCHANGED vars
    BY <1>2 DEF ReceiveText, SendResponse
  <2> QED
    BY <2>1
<1>3. CASE RunPart
  <2>1. /\ parts \in Seq(Queries) /\ Len(results) \in Nat /\ Len(results) < Len(parts)
        /\ ReceiveQuery(parts[Len(results) + 1])
    BY <1>3 DEF RunPart, RequestInHand, Answered
  <2>2. parts[Len(results) + 1] \in Queries
    BY <2>1
  <2> QED
    BY <2>1, <2>2 DEF Next
<1>4. CASE PipelineStep
  BY <1>4 DEF PipelineStep, Next, IpcStep
<1>5. ASSUME NEW sr \in RuntimeRules, AddRuleBetween(sr[1], sr[2]) PROVE Next
  BY <1>5 DEF AddRuleBetween, Next
<1>6. CASE OtherStep
  BY <1>6 DEF OtherStep, Next, IpcStep
<1> QED
  BY <1>1, <1>2, <1>3, <1>4, <1>5, <1>6 DEF CompoundNext

\* One more result, of the part that comes next.
LEMMA OneMoreResult ==
  ASSUME NEW rs, NEW ps, Answered(rs, ps), Len(rs) < Len(ps),
         NEW r \in PartResult, r.query = ps[Len(rs) + 1],
         Known(r.query) => r.answer = Meaning(r.query)
  PROVE  /\ Answered(Append(rs, r), ps) /\ Len(Append(rs, r)) <= Len(ps)
         /\ CountOf(Append(rs, r)) = IF r.answer # None THEN CountOf(rs) + 1 ELSE CountOf(rs)
<1> DEFINE n == Len(rs)
           more == Append(rs, r)
<1>1. /\ rs \in Seq(PartResult) /\ ps \in Seq(Queries) /\ n \in Nat /\ n < Len(ps) /\ Len(ps) \in Nat
      /\ Len(ps) <= 2 /\ DOMAIN rs = 1..n
  BY DEF Answered
<1>2. /\ more \in Seq(PartResult) /\ Len(more) = n + 1 /\ DOMAIN more = 1..(n + 1)
      /\ more[n + 1] = r /\ \A i \in 1..n : more[i] = rs[i]
  <2> HIDE DEF n
  <2>1. Len(rs) = n /\ r \in PartResult
    BY DEF n
  <2> QED
    BY <1>1, <2>1
<1> HIDE DEF more, n
<1>3. \A i \in DOMAIN rs : rs[i].query = ps[i] /\ (Known(ps[i]) => rs[i].answer = Meaning(ps[i]))
  BY DEF Answered
<1>4. Answered(more, ps)
  <2>1. ASSUME NEW i \in DOMAIN more
        PROVE  more[i].query = ps[i] /\ (Known(ps[i]) => more[i].answer = Meaning(ps[i]))
    <3>1. i = n + 1 \/ i \in 1..n
      BY <1>1, <1>2
    <3> QED
      BY <1>1, <1>2, <1>3, <3>1 DEF n
  <2> QED
    BY <1>1, <1>2, <2>1 DEF Answered
<1>5. CountOf(more) = IF r.answer # None THEN CountOf(rs) + 1 ELSE CountOf(rs)
  <2>1. n = 0 \/ n = 1
    BY <1>1
  <2>2. CASE n = 0
    <3>1. DOMAIN rs = {} /\ DOMAIN more = {1} /\ more[1] = r
      BY <1>1, <1>2, <2>2
    <3> QED
      BY <3>1 DEF CountOf
  <2>3. CASE n = 1
    <3>1. DOMAIN rs = {1} /\ DOMAIN more = {1, 2} /\ more[2] = r /\ more[1] = rs[1]
      BY <1>1, <1>2, <2>3
    <3> QED
      BY <3>1 DEF CountOf
  <2> QED
    BY <2>1, <2>2, <2>3
<1> QED
  BY <1>1, <1>2, <1>4, <1>5 DEF more, n

LEMMA NothingAnswered ==
  ASSUME NEW ps \in Seq(Queries), Len(ps) <= 2
  PROVE  Answered(<<>>, ps) /\ CountOf(<<>>) = 0 /\ Len(<<>>) = 0
BY DEF Answered, CountOf

LEMMA NoneAnswered == Answered(<<>>, <<>>) /\ CountOf(<<>>) = 0 /\ Len(<<>>) = 0
<1>1. <<>> \in Seq(Queries)
  OBVIOUS
<1>2. Len(<<>>) <= 2
  OBVIOUS
<1> QED
  BY <1>1, <1>2, NothingAnswered, Zenon

LEMMA NothingSent == Sent(<<>>, 0) = <<>>
<1>1. SubSeq(<<>>, 1, 0) = <<>> /\ Len(<<>>) = 0
  BY SubSeqEmpty
<1> QED
  BY <1>1 DEF Sent

LEMMA RequestInit == CompoundInit => RequestInHand /\ LastResponse
<1> SUFFICES ASSUME CompoundInit PROVE RequestInHand /\ LastResponse
  OBVIOUS
<1>1. ipc = "idle" /\ parts = <<>> /\ results = <<>> /\ found = 0 /\ response = NoResponse
  BY DEF CompoundInit, Init
<1>2. response.parts = <<>> /\ response.computed = <<>> /\ response.results = <<>>
  BY <1>1 DEF NoResponse
<1>3. RequestInHand
  BY <1>1, NoneAnswered DEF RequestInHand, Pipeline, Adding
<1> QED
  BY <1>2, <1>3, NoneAnswered, NothingSent DEF LastResponse

\* Everything the engine does outside the pipeline leaves the server thread's
\* place between two parts as it is, or is part of adding a rule.
LEMMA OtherStepPlace ==
  ASSUME OtherStep
  PROVE  /\ UNCHANGED <<parts, results, found, response>>
         /\ \/ ipc' = ipc /\ query' = query
            \/ ipc \in Adding /\ ipc' \in Adding \cup {"flush", "idle"}
            \/ ipc = "flush" /\ ipc' = "idle"
BY DEF OtherStep, ParseRule, CheckRuleRoom, Adding, partVars, AppendRuntimeRule, FlushCache, Ipc,
       ReloadStep, ReloadStart, ClearTable,
       OpenFile, ReadLine, ParseLine, CheckRoom, AppendFileRule, NextFile, ReloadDone,
       CacheCleanup, Main, ipcVars,
       EditFiles, RequestReload

\* The result of the pipeline, for the part in hand.
LEMMA PipelineResult ==
  ASSUME EngineKnown, EngineKnown', CacheLookup \/ StageLookup \/ AliasLookup \/ CacheStore,
  ipc' = "idle"
  PROVE  /\ reply' \in PartResult /\ reply'.query = query
         /\ Known(query) => reply'.answer = Meaning(query)
<1>1. query \in Queries
  BY PipelineReturns DEF EngineKnown
<1>2. PICK a \in Results \cup {None} : reply' = [query |-> query, answer |-> a]
  BY PipelineReturns DEF EngineKnown, Pipeline
<1>3. BuiltinIntentsAreStable'
  BY DEF EngineKnown, BuiltinIntentsHold
<1>4. Known(reply'.query) => reply'.answer = Meaning(reply'.query)
  BY <1>3 DEF BuiltinIntentsAreStable, Known, Meaning
<1> QED
  BY <1>1, <1>2, <1>4 DEF PartResult, Results

LEMMA RequestStep ==
  EngineKnown /\ EngineKnown' /\ RequestInHand /\ LastResponse /\ [CompoundNext]_compoundVars =>
    RequestInHand' /\ LastResponse'
<1> SUFFICES ASSUME EngineKnown, EngineKnown', RequestInHand, LastResponse,
                    [CompoundNext]_compoundVars
             PROVE  RequestInHand' /\ LastResponse'
  OBVIOUS
<1>a. /\ parts \in Seq(Queries) /\ Len(parts) \in Nat /\ Len(parts) <= 2
      /\ results \in Seq(PartResult) /\ Len(results) \in Nat /\ Len(results) <= Len(parts)
  BY DEF RequestInHand, Answered
<1>1. CASE UNCHANGED compoundVars
  BY <1>1 DEF compoundVars, vars, ipcVars, partVars, RequestInHand, LastResponse, Answered, CountOf,
              Sent, Known, Meaning
<1>2. ASSUME NEW t \in Texts, ReceiveText(t) PROVE RequestInHand' /\ LastResponse'
  <2>1. /\ ipc = "idle" /\ parts = <<>> /\ parts' = SplitQuery(t)
        /\ response' = NoResponse /\ UNCHANGED <<ipc, query, results, found>>
    BY <1>2 DEF ReceiveText, Idle, vars, ipcVars
  <2>2. parts' \in Seq(Queries) /\ (Len(parts') = 1 \/ Len(parts') = 2)
    BY <2>1, SplitIs
  <2>3. results = <<>> /\ Len(<<>>) = 0
    <3>1. Len(results) = 0
      BY <1>a, <2>1, EmptySeq
    <3> QED
      BY <1>a, <3>1, EmptySeq
  <2>4. Answered(<<>>, parts')
    <3>1. 1 <= 2 /\ 2 <= 2
      OBVIOUS
    <3>2. Len(parts') <= 2
      BY <2>2, <3>1, Zenon
    <3> QED
      BY <2>2, <3>2, NothingAnswered, Zenon
  <2>5. RequestInHand'
    BY <2>1, <2>2, <2>3, <2>4 DEF RequestInHand, Pipeline, Adding
  <2>6. LastResponse'
    BY <2>1, NoneAnswered, NothingSent DEF LastResponse, NoResponse
  <2> QED
    BY <2>5, <2>6
<1>3. CASE RunPart
  <2>1. /\ UNCHANGED <<parts, results, found, response>> /\ Len(results) < Len(parts)
        /\ ipc' = "cache" /\ query' = parts[Len(results) + 1]
    BY <1>3 DEF RunPart, ReceiveQuery, Ipc, partVars
  <2> QED
    BY <2>1 DEF RequestInHand, LastResponse, Pipeline, Adding
<1>4. CASE PipelineStep
  <2>1. /\ CacheLookup \/ StageLookup \/ AliasLookup \/ CacheStore
        /\ parts' = parts /\ response' = response
    BY <1>4 DEF PipelineStep
  <2>2. /\ ipc \in Pipeline
        /\ ipc' = "idle" \/ (ipc' \in Pipeline /\ query' = query)
    BY <2>1, PipelineReturns DEF EngineKnown
  <2>3. Len(results) < Len(parts) /\ query = parts[Len(results) + 1]
    BY <2>2 DEF RequestInHand
  <2>4. CASE ipc' = "idle"
    <3>1. /\ results' = Append(results, reply')
          /\ found' = IF reply'.answer # None THEN found + 1 ELSE found
      BY <1>4, <2>4 DEF PipelineStep
    <3>2. /\ reply' \in PartResult /\ reply'.query = query
          /\ Known(query) => reply'.answer = Meaning(query)
      BY <2>1, <2>4, PipelineResult
    <3> DEFINE r == reply'
    <3>3. r \in PartResult /\ r.query = query /\ (Known(r.query) => r.answer = Meaning(r.query))
      BY <3>2
    <3> HIDE DEF r
    <3>4. /\ Answered(Append(results, r), parts) /\ Len(Append(results, r)) <= Len(parts)
          /\ CountOf(Append(results, r))
               = IF r.answer # None THEN CountOf(results) + 1 ELSE CountOf(results)
      BY <2>3, <3>3, OneMoreResult DEF RequestInHand
    <3> QED
      BY <2>1, <2>4, <3>1, <3>4 DEF RequestInHand, LastResponse, Pipeline, Adding, r
  <2>5. CASE ipc' \in Pipeline /\ query' = query
    <3>1. results' = results /\ found' = found
      BY <1>4, <2>5 DEF PipelineStep, Pipeline
    <3> QED
      BY <2>1, <2>3, <2>5, <3>1 DEF RequestInHand, LastResponse, Pipeline, Adding
  <2> QED
    BY <2>2, <2>4, <2>5
<1>5. CASE SendResponse
  <2>1. /\ ipc' = "idle" /\ parts # <<>> /\ Len(results) = Len(parts)
        /\ response'.parts = parts /\ response'.computed = results
        /\ response'.results = Sent(results, found)
        /\ parts' = <<>> /\ results' = <<>> /\ found' = 0
    BY <1>5 DEF SendResponse, vars, ipcVars
  <2>2. Answered(<<>>, <<>>) /\ CountOf(<<>>) = 0 /\ Len(<<>>) = 0
    BY NoneAnswered
  <2>3. RequestInHand'
    BY <2>1, <2>2 DEF RequestInHand, Pipeline, Adding
  <2>4. LastResponse'
    BY <2>1 DEF RequestInHand, LastResponse
  <2> QED
    BY <2>3, <2>4
<1>6. ASSUME NEW sr \in RuntimeRules, AddRuleBetween(sr[1], sr[2]) PROVE RequestInHand' /\ LastResponse'
  <2>1. /\ UNCHANGED <<parts, results, found, response>> /\ parts = <<>> /\ ipc' = "parse"
    BY <1>6 DEF AddRuleBetween, Idle, AddRule, partVars
  <2> QED
    BY <2>1 DEF RequestInHand, LastResponse, Pipeline, Adding
<1>7. CASE OtherStep
  <2>1. /\ UNCHANGED <<parts, results, found, response>>
        /\ \/ ipc' = ipc /\ query' = query
           \/ ipc \in Adding /\ ipc' \in Adding \cup {"flush", "idle"}
           \/ ipc = "flush" /\ ipc' = "idle"
    BY <1>7, OtherStepPlace
  <2> QED
    BY <2>1 DEF RequestInHand, LastResponse, Pipeline, Adding
<1> QED
  BY <1>1, <1>2, <1>3, <1>4, <1>5, <1>6, <1>7 DEF CompoundNext

\* A pipeline that nobody reloads under returns what the tables say.
LEMMA PipelineAnswers ==
  ASSUME CacheIInv, reloads = 0, ipc' = "idle",
         CacheLookup \/ StageLookup \/ AliasLookup \/ CacheStore
  PROVE  reply'.answer = Answer(query)
<1>1. /\ PassedOver
      /\ ipc # "flush" => CacheAgrees
      /\ ipc \in Pipeline => query \in Queries
  BY DEF CacheIInv, CacheInvariant, ServerTypeOK
<1>2. CASE CacheLookup
  <2>1. /\ ipc = "cache" /\ cache[query] # None
        /\ reply' = [query |-> query, answer |-> cache[query]]
    BY <1>2 DEF CacheLookup, Respond, Ipc, NextStage
  <2> QED
    BY <1>1, <2>1 DEF CacheAgrees, Pipeline
<1>3. CASE StageLookup
  BY <1>3 DEF StageLookup, Ipc, NextStage
<1>4. CASE AliasLookup
  <2>1. ipc = "alias" /\ reply' = [query |-> query, answer |-> None]
    BY <1>4 DEF AliasLookup, Respond
  <2>2. Answer(query) = None
    BY <1>1, <2>1 DEF PassedOver, Answer
  <2> QED
    BY <2>1, <2>2
<1>5. CASE CacheStore
  <2>1. ipc = "store" /\ reply' = [query |-> query, answer |-> answer]
    BY <1>5 DEF CacheStore, Respond
  <2> QED
    BY <1>1, <2>1 DEF PassedOver
<1> QED
  BY <1>2, <1>3, <1>4, <1>5

\* No step between the first part and the response touches a table, unless
\* somebody has asked for a reload.
LEMMA TablesRest ==
  ASSUME EngineKnown, RequestInHand, [CompoundNext]_compoundVars, parts # <<>>, reloads' = 0
  PROVE  tables' = tables /\ reloads = 0
<1>1. reloads \in Nat
  BY DEF EngineKnown, ServerTypeOK
<1>2. CASE UNCHANGED compoundVars
  BY <1>2 DEF compoundVars, vars, envVars
<1>3. CASE OtherStep
  <2>1. ~ RequestReload
    BY <1>1 DEF RequestReload
  <2>2. ~ AppendRuntimeRule
    BY DEF AppendRuntimeRule, RequestInHand, Adding
  <2>3. reloads' = reloads
    BY <1>3, <2>1 DEF OtherStep, ParseRule, CheckRuleRoom, AppendRuntimeRule, FlushCache, Ipc,
                      ReloadStep, ReloadStart,
         ClearTable, OpenFile, ReadLine, ParseLine, CheckRoom, AppendFileRule, NextFile,
         ReloadDone, CacheCleanup, Main,
         EditFiles, envVars
  <2>4. main = "sleep"
    BY <2>3 DEF EngineKnown, CacheIInv, CacheInvariant
  <2>5. tables' = tables
    BY <1>3, <2>1, <2>2, <2>4 DEF OtherStep, ParseRule, CheckRuleRoom, FlushCache, Ipc,
                                  ReloadStep, ReloadStart, ClearTable,
         OpenFile, ReadLine, ParseLine, CheckRoom, AppendFileRule, NextFile, ReloadDone,
         CacheCleanup, Main, EditFiles
  <2> QED
    BY <2>3, <2>5
<1>4. CASE PipelineStep
  BY <1>4, PipelineReturns DEF PipelineStep, EngineKnown
<1>5. CASE ~OtherStep /\ ~PipelineStep /\ CompoundNext
  BY <1>5 DEF CompoundNext, ReceiveText, RunPart, ReceiveQuery, Ipc, SendResponse, AddRuleBetween,
       AddRule, vars, envVars
<1> QED
  BY <1>2, <1>3, <1>4, <1>5

LEMMA SameRulesStep ==
  EngineKnown /\ RequestInHand /\ PartsSeeTheSameRules /\ [CompoundNext]_compoundVars =>
    PartsSeeTheSameRules'
<1> SUFFICES ASSUME EngineKnown, RequestInHand, PartsSeeTheSameRules, [CompoundNext]_compoundVars,
                    reloads' = 0, NEW i \in DOMAIN results'
             PROVE  (results[i].answer = Answer(results[i].query))'
  BY DEF PartsSeeTheSameRules
<1>1. /\ results \in Seq(PartResult) /\ parts \in Seq(Queries) /\ Len(results) <= Len(parts)
  BY DEF RequestInHand, Answered
<1>2. CASE parts = <<>>
  <2>1. results = <<>>
    <3>1. Len(parts) = 0 /\ Len(results) \in Nat
      BY <1>1, <1>2, EmptySeq
    <3>2. Len(results) = 0
      BY <1>1, <3>1
    <3> QED
      BY <1>1, <3>2, EmptySeq
  <2>2. ~ PipelineStep /\ ~ SendResponse
    <3>1. ipc \notin Pipeline
      BY <1>1, <1>2, <2>1 DEF RequestInHand
    <3> QED
      BY <1>2, <3>1 DEF PipelineStep, SendResponse, CacheLookup, StageLookup, AliasLookup,
           CacheStore, Pipeline
  <2>3. results' = results
    BY <2>2 DEF CompoundNext, compoundVars, partVars, ReceiveText, RunPart, AddRuleBetween,
                OtherStep
  <2> QED
    BY <2>1, <2>3
<1>3. CASE parts # <<>>
  <2>1. tables' = tables /\ reloads = 0
    BY <1>3, TablesRest
  <2>2. SUFFICES results'[i].answer = Answer(results'[i].query)
    BY <2>1 DEF Answer, Recognises
  <2>3. \A k \in DOMAIN results : results[k].answer = Answer(results[k].query)
    BY <2>1 DEF PartsSeeTheSameRules
  <2>4. CASE results' = results
    BY <2>3, <2>4
  <2>5. CASE PipelineStep /\ ipc' = "idle"
    <3>1. results' = Append(results, reply')
      BY <2>5 DEF PipelineStep
    <3>2. reply'.answer = Answer(query)
      BY <2>1, <2>5, PipelineAnswers DEF EngineKnown, PipelineStep
    <3>3. reply'.query = query
      BY <2>5, PipelineReturns DEF EngineKnown, PipelineStep, Pipeline
    <3>4. (i \in DOMAIN results /\ results'[i] = results[i]) \/ results'[i] = reply'
      <4> DEFINE r == reply'
      <4>1. DOMAIN Append(results, r) = 1..(Len(results) + 1) /\ Len(results) \in Nat
        BY <1>1
      <4>2. /\ Append(results, r)[Len(results) + 1] = r
            /\ \A k \in 1..Len(results) : Append(results, r)[k] = results[k]
        BY <1>1
      <4> HIDE DEF r
      <4>3. i \in 1..Len(results) \/ i = Len(results) + 1
        BY <3>1, <4>1 DEF r
      <4> QED
        BY <1>1, <3>1, <4>2, <4>3 DEF r
    <3> QED
      BY <2>3, <3>2, <3>3, <3>4
  <2>6. CASE SendResponse
    BY <2>6 DEF SendResponse
  <2>7. results' = results \/ (PipelineStep /\ ipc' = "idle") \/ SendResponse
    BY DEF CompoundNext, compoundVars, partVars, ReceiveText, RunPart, AddRuleBetween, OtherStep,
         PipelineStep
  <2> QED
    BY <2>4, <2>5, <2>6, <2>7
<1> QED
  BY <1>2, <1>3

\* What is sent of at most two results.
LEMMA SentResults ==
  ASSUME NEW rs \in Seq(PartResult), Len(rs) <= 2
  PROVE  LET sent == Sent(rs, CountOf(rs)) IN
         /\ sent \in Seq(PartResult)
         /\ Recognised(rs) = DOMAIN rs => sent = rs
         /\ rs # <<>> /\ rs[1].answer # None => sent # <<>> /\ RuleClientReads(sent) = rs[1].answer
         /\ rs # <<>> /\ rs[1].answer = None => RuleClientReads(sent) \in {"unknown", "no_intent"}
<1> DEFINE sent == Sent(rs, CountOf(rs))
<1>1. Len(rs) \in Nat /\ DOMAIN rs = 1..Len(rs) /\ (Len(rs) = 0 \/ Len(rs) = 1 \/ Len(rs) = 2)
  <2>1. \A n \in Nat : n <= 2 => n = 0 \/ n = 1 \/ n = 2
    OBVIOUS
  <2>2. Len(rs) \in Nat /\ DOMAIN rs = 1..Len(rs)
    OBVIOUS
  <2> QED
    BY <2>1, <2>2
<1>2. CASE Len(rs) = 0
  <2>1. rs = <<>>
    BY <1>2, EmptySeq
  <2>2. CountOf(rs) = 0 /\ sent = SubSeq(<<>>, 1, 0)
    BY <1>1, <1>2, <2>1 DEF CountOf, Sent
  <2>3. sent = <<>>
    BY <2>2, SubSeqEmpty
  <2>4. Recognised(rs) = DOMAIN rs => sent = rs
    BY <2>1, <2>3
  <2> QED
    BY <2>1, <2>3, <2>4
<1>3. CASE Len(rs) = 1
  <2>1. sent = rs /\ DOMAIN rs = {1} /\ rs # <<>>
    BY <1>1, <1>3, EmptySeq DEF Sent
  <2>2. Recognised(rs) = IF rs[1].answer # None THEN {1} ELSE {}
    BY <2>1 DEF Recognised
  <2> QED
    BY <2>1, <2>2 DEF RuleClientReads
<1>4. CASE Len(rs) = 2
  <2>1. DOMAIN rs = {1, 2} /\ rs # <<>> /\ sent = SubSeq(rs, 1, CountOf(rs))
    BY <1>1, <1>4, EmptySeq DEF Sent
  <2>2. CASE rs[1].answer # None /\ rs[2].answer # None
    <3>1. CountOf(rs) = 2
      BY <2>1, <2>2 DEF CountOf
    <3>2. sent = rs
      <4>1. SubSeq(rs, 1, 2) = rs
        BY <1>4
      <4> QED
        BY <2>1, <3>1, <4>1
    <3>3. Recognised(rs) = DOMAIN rs
      BY <2>1, <2>2 DEF Recognised
    <3> QED
      BY <2>1, <2>2, <3>2, <3>3 DEF RuleClientReads
  <2>3. CASE rs[1].answer = None /\ rs[2].answer = None
    <3>1. CountOf(rs) = 0
      BY <2>3 DEF CountOf
    <3>2. sent = <<>>
      BY <2>1, <3>1, SubSeqEmpty
    <3>3. Recognised(rs) # DOMAIN rs
      BY <2>1, <2>3 DEF Recognised
    <3>4. RuleClientReads(<<>>) = "no_intent"
      <4>1. Recognised(<<>>) = DOMAIN <<>>
        BY DEF Recognised
      <4> QED
        BY <4>1 DEF RuleClientReads
    <3> QED
      BY <2>3, <3>2, <3>3, <3>4
  <2>4. CASE (rs[1].answer # None) # (rs[2].answer # None)
    <3>1. CountOf(rs) = 1
      BY <2>1, <2>4 DEF CountOf
    <3>2. sent \in Seq(PartResult) /\ Len(sent) = 1 /\ sent[1] = rs[1] /\ DOMAIN sent = {1} /\ sent # <<>>
      <4>1. SubSeq(rs, 1, 1) \in Seq(PartResult) /\ Len(SubSeq(rs, 1, 1)) = 1 /\ SubSeq(rs, 1, 1)[1] = rs[1]
        BY <1>4
      <4> QED
        BY <2>1, <3>1, <4>1, EmptySeq
    <3>3. Recognised(rs) # DOMAIN rs
      BY <2>1, <2>4 DEF Recognised
    <3> HIDE DEF sent
    <3>4. Recognised(sent) = IF rs[1].answer # None THEN {1} ELSE {}
      BY <3>2 DEF Recognised
    <3>5. rs[1].answer # None => RuleClientReads(sent) = rs[1].answer
      BY <3>2, <3>4 DEF RuleClientReads
    <3>6. rs[1].answer = None => RuleClientReads(sent) = "unknown"
      BY <3>2, <3>4 DEF RuleClientReads
    <3> QED
      BY <3>2, <3>3, <3>5, <3>6 DEF sent
  <2> QED
    BY <2>2, <2>3, <2>4
<1> QED
  BY <1>1, <1>2, <1>3, <1>4

LEMMA TypeOfCompound == RequestInHand /\ LastResponse => CompoundTypeOK
<1> SUFFICES ASSUME RequestInHand, LastResponse PROVE CompoundTypeOK
  OBVIOUS
<1>1. CountOf(results) \in Nat
  BY DEF CountOf
<1>2. Len(response.computed) <= 2
  BY DEF LastResponse, Answered
<1>3. Sent(response.computed, CountOf(response.computed)) \in Seq(PartResult)
  BY <1>2, SentResults DEF LastResponse, Answered
<1> QED
  BY <1>1, <1>3 DEF RequestInHand, LastResponse, Answered, CompoundTypeOK

LEMMA FirstOfResponse == LastResponse => FirstPartDecides
<1> SUFFICES ASSUME LastResponse, response.parts # <<>> PROVE FirstPartDecides
  BY DEF FirstPartDecides
<1> DEFINE rs == response.computed
<1>1. /\ rs \in Seq(PartResult) /\ response.parts \in Seq(Queries) /\ Len(rs) = Len(response.parts)
      /\ Len(response.parts) <= 2 /\ response.results = Sent(rs, CountOf(rs))
  BY DEF LastResponse, Answered
<1>2. rs # <<>> /\ 1 \in DOMAIN rs
  <2>1. Len(response.parts) \in Nat /\ Len(response.parts) # 0
    BY <1>1, EmptySeq
  <2> HIDE DEF rs
  <2> QED
    BY <1>1, <2>1, EmptySeq
<1>3. rs[1].query = response.parts[1]
  BY <1>2 DEF LastResponse, Answered
<1> HIDE DEF rs
<1>4. Len(rs) <= 2
  BY <1>1
<1>5. /\ rs[1].answer # None => RuleClientReads(Sent(rs, CountOf(rs))) = rs[1].answer
      /\ rs[1].answer = None => RuleClientReads(Sent(rs, CountOf(rs))) \in {"unknown", "no_intent"}
  BY <1>1, <1>2, <1>4, SentResults
<1> QED
  BY <1>1, <1>3, <1>5 DEF FirstPartDecides, rs

\* A built-in meaning is an answer.
LEMMA MeaningIsResult == \A q : Known(q) => Meaning(q) # None
<1> SUFFICES ASSUME NEW q, Known(q) PROVE Meaning(q) # None
  OBVIOUS
<1> DEFINE R == Rule("intent", {"builtin"})
           b == Builtin["intent"]
<1>1. b \in Seq(R)
  BY RuleEngineAssumption DEF Stages
<1>2. \A r \in R : r.rank \in Nat /\ r.answer \in Results
  BY DEF Rule, Results
<1>3. Matching(b, q) # {} /\ Meaning(q) = Best(b, q).answer
  BY DEF Known, Meaning
<1> HIDE DEF R, b
<1>4. Best(b, q) \in R
  BY <1>1, <1>2, <1>3, BestMatches
<1> QED
  BY <1>2, <1>3, <1>4, NoneIsNoResult

LEMMA BuiltinOfResponse == LastResponse => BuiltinPartsAnswered
<1> SUFFICES ASSUME LastResponse, \A i \in DOMAIN response.parts : Known(response.parts[i])
             PROVE  /\ Len(response.results) = Len(response.parts)
                    /\ \A i \in DOMAIN response.parts :
                         response.results[i] = [query |-> response.parts[i],
                                                answer |-> Meaning(response.parts[i])]
  BY DEF BuiltinPartsAnswered, Known, Meaning
<1> DEFINE rs == response.computed
           ps == response.parts
<1>1. /\ rs \in Seq(PartResult) /\ ps \in Seq(Queries) /\ Len(rs) = Len(ps)
      /\ Len(ps) <= 2 /\ response.results = Sent(rs, CountOf(rs))
      /\ \A i \in DOMAIN rs : rs[i].query = ps[i] /\ (Known(ps[i]) => rs[i].answer = Meaning(ps[i]))
  BY DEF LastResponse, Answered
<1>2. \A i \in DOMAIN ps : Known(ps[i])
  OBVIOUS
<1> HIDE DEF rs, ps
<1>3. DOMAIN rs = DOMAIN ps /\ \A i \in DOMAIN rs : rs[i] \in PartResult
  BY <1>1
<1>4. \A i \in DOMAIN rs : rs[i].answer = Meaning(ps[i]) /\ rs[i].answer # None
  BY <1>1, <1>2, <1>3, MeaningIsResult
<1>5. Recognised(rs) = DOMAIN rs
  BY <1>4 DEF Recognised
<1>6. Sent(rs, CountOf(rs)) = rs
  <2>1. Len(rs) <= 2
    BY <1>1
  <2> QED
    BY <1>1, <1>5, <2>1, SentResults
<1>7. \A i \in DOMAIN rs : rs[i] = [query |-> ps[i], answer |-> Meaning(ps[i])]
  BY <1>1, <1>3, <1>4 DEF PartResult
<1> QED
  BY <1>1, <1>3, <1>6, <1>7 DEF rs, ps

\* The invariant of compound queries.
LEMMA CompoundIInv == CompoundSpec => [](EngineKnown /\ RequestInHand /\ LastResponse)
<1>1. CompoundInit => EngineKnown /\ RequestInHand /\ LastResponse
  BY EngineInit, RequestInit DEF CompoundInit
<1>2. EngineKnown /\ RequestInHand /\ LastResponse /\ [CompoundNext]_compoundVars =>
        EngineKnown' /\ RequestInHand' /\ LastResponse'
  BY EngineStep, StepOfTheEngine, RequestStep
<1> QED
  BY <1>1, <1>2, PTL DEF CompoundSpec

\* Requests of one or two parts, cut by whatever separators, are to the engine
\* queries one after the other: compound queries implement RuleEngine, fairness
\* included.
THEOREM CompoundImplementsEngine == CompoundSpec => ImplementsEngine
<1>1. CompoundInit => Init
  BY DEF CompoundInit
<1> QED
  BY <1>1, CompoundIInv, StepOfTheEngine, PTL DEF CompoundSpec, ImplementsEngine, Spec

\* So what is proved of the engine holds for compound queries too.
THEOREM EngineOfCompoundQueries ==
  CompoundSpec => [](RuntimeRulesSurvive /\ FileRulesAsLoaded /\ BuiltinIntentsAreStable
                     /\ CacheAgreesWithoutReload)
<1>2. CacheIInv => CacheAgreesWithoutReload
  BY DEF CacheIInv, CacheInvariant, CacheAgreesWithoutReload
<1>3. EngineKnown => RuntimeRulesSurvive /\ FileRulesAsLoaded /\ BuiltinIntentsAreStable
                     /\ CacheAgreesWithoutReload
  BY <1>2, ReadWhenAsleep DEF EngineKnown, BuiltinIntentsHold
<1> QED
  BY <1>3, CompoundIInv, PTL

\* What is kept and sent of a request's parts is typed: in particular there is
\* never a result sent that was not computed.
THEOREM CompoundIsTyped == CompoundSpec => []CompoundTypeOK
BY TypeOfCompound, CompoundIInv, PTL

\* Without a reload the parts of a request are answered from the same rules,
\* whatever clients add and whenever the cache is emptied.
THEOREM PartsShareTheirRules == CompoundSpec => []PartsSeeTheSameRules
<1>1. CompoundInit => PartsSeeTheSameRules
  BY DEF CompoundInit, PartsSeeTheSameRules
<1> QED
  BY <1>1, CompoundIInv, SameRulesStep, PTL DEF CompoundSpec

\* A request all of whose parts the built-in intents know is answered by them,
\* in full and in the order of the text, during reloads as at any other time.
THEOREM BuiltinPartsWin == CompoundSpec => []BuiltinPartsAnswered
BY BuiltinOfResponse, CompoundIInv, PTL

\* What the orchestrator makes of a reply is the first part's result, or
\* nothing.
THEOREM FirstPartCounts == CompoundSpec => []FirstPartDecides
BY FirstOfResponse, CompoundIInv, PTL
===============================================================================
