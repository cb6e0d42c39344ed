--------------------------- MODULE PolicyStoreProofs ---------------------------
(***************************************************************************)
(* The policy store keeps what was read and decides by the rule of highest *)
(* priority, for stores, files and rules of any number.                    *)
(***************************************************************************)
EXTENDS PolicyStore, SequenceTheorems, TLAPS

USE DEF policyVars, loadVars, checkVars

-------------------------------------------------------------------------------
(* Types.                                                                     *)

\* A section read from a file, and a rule sent by a client, become rules with
\* an action the engine knows (policy_action_from_str).
LEMMA RulesAreTyped ==
  /\ \A s \in Section : FileRule(s) \in PolicyRule
  /\ \A m \in WireMessages : WireRule(m) \in PolicyRule
<1>1. ASSUME NEW t \in Texts PROVE ActionOf(t) \in Actions
  BY PolicyAssumption DEF ActionOf, Actions
<1>2. ASSUME NEW s \in Section PROVE FileRule(s) \in PolicyRule
  BY <1>1 DEF Section, FileRule, PolicyRule
<1>3. ASSUME NEW m \in WireMessages PROVE WireRule(m) \in PolicyRule
  <2>1. m \in Message
    BY PolicyAssumption
  <2> QED
    BY <1>1, <2>1 DEF Message, WireRule, PolicyRule, DefaultPriority
<1> QED
  BY <1>2, <1>3

\* Storing keeps a store of rules one, within the array.
LEMMA StoredIsTyped ==
  ASSUME NEW t \in Seq(PolicyRule), Len(t) <= MaxPolicies, NEW r \in PolicyRule
  PROVE  /\ Stored(t, r) \in Seq(PolicyRule)
         /\ Len(Stored(t, r)) <= MaxPolicies
  BY PolicyAssumption DEF Stored

LEMMA TypeInit == PolicyInit => PolicyTypeOK
<1> SUFFICES ASSUME PolicyInit PROVE PolicyTypeOK
  OBVIOUS
<1>1. Listing \in Seq(Nat)
  <2>1. policyDir \in Seq(Seq(Section))
    BY PolicyAssumption DEF PolicyInit
  <2> QED
    BY <2>1 DEF Listing
<1> QED
  BY <1>1, PolicyAssumption DEF PolicyInit, PolicyTypeOK, Actions

LEMMA TypeStep == PolicyTypeOK /\ ScannedSoFar /\ [PolicyNext]_policyVars => PolicyTypeOK'
<1> SUFFICES ASSUME PolicyTypeOK, ScannedSoFar, [PolicyNext]_policyVars PROVE PolicyTypeOK'
  OBVIOUS
<1> USE DEF PolicyTypeOK
<1>0. policyDir \in Seq(Seq(Section))
  BY PolicyAssumption
<1>1. CASE OpenFile
  <2> DEFINE sections == IF Head(files) \in DOMAIN policyDir THEN policyDir[Head(files)] ELSE <<>>
  <2>1. sections \in Seq(Section)
    BY <1>0
  <2>2. [k \in DOMAIN sections |-> FileRule(sections[k])] \in Seq(PolicyRule)
    <3>1. \A k \in DOMAIN sections : FileRule(sections[k]) \in PolicyRule
      BY <2>1, RulesAreTyped
    <3>2. DOMAIN sections = 1..Len(sections) /\ Len(sections) \in Nat
      BY <2>1
    <3> HIDE DEF sections
    <3> QED
      BY <3>1, <3>2
  <2>3. Tail(files) \in Seq(Nat)
    BY <1>1 DEF OpenFile
  <2>4. /\ body' = sections
        /\ seen' = seen \o [k \in DOMAIN sections |-> FileRule(sections[k])]
    BY <1>1 DEF OpenFile
  <2>5. seen' \in Seq(PolicyRule)
    BY <2>2, <2>4
  <2> HIDE DEF sections
  <2> QED
    BY <1>1, <2>1, <2>3, <2>4, <2>5 DEF OpenFile
<1>2. CASE ReadSection
  <2>1. Head(body) \in Section /\ Tail(body) \in Seq(Section)
    BY <1>2 DEF ReadSection
  <2>2. <<FileRule(Head(body))>> \in Seq(PolicyRule) /\ Len(<<FileRule(Head(body))>>) = 1
    BY <2>1, RulesAreTyped
  <2>3. held # <<>> => held[1] \in PolicyRule
    OBVIOUS
  <2>4. rules' \in Seq(PolicyRule) /\ Len(rules') <= MaxPolicies
    BY <1>2, <2>3, StoredIsTyped DEF ReadSection
  <2> QED
    BY <1>2, <2>1, <2>2, <2>4 DEF ReadSection
<1>3. CASE EndOfFile
  <2>1. held[1] \in PolicyRule
    BY <1>3 DEF EndOfFile
  <2>2. rules' \in Seq(PolicyRule) /\ Len(rules') <= MaxPolicies
    BY <1>3, <2>1, StoredIsTyped DEF EndOfFile
  <2> QED
    BY <1>3, <2>2 DEF EndOfFile
<1>4. CASE LoadDone
  BY <1>4 DEF LoadDone
<1>5. CASE ReloadPolicies
  <2>1. Listing \in Seq(Nat)
    BY <1>0 DEF Listing
  <2> QED
    BY <1>5, <2>1, PolicyAssumption DEF ReloadPolicies
<1>6. ASSUME NEW m \in WireMessages, AddPolicy(m) PROVE PolicyTypeOK'
  <2>1. WireRule(m) \in PolicyRule
    BY RulesAreTyped
  <2>2. rules' \in Seq(PolicyRule) /\ Len(rules') <= MaxPolicies
    BY <1>6, <2>1, StoredIsTyped DEF AddPolicy
  <2> QED
    BY <1>6, <2>1, <2>2 DEF AddPolicy
<1>7. ASSUME NEW q \in PolicyRequest, StartCheck(q) PROVE PolicyTypeOK'
  BY <1>7 DEF StartCheck, Actions
<1>8. CASE CheckRule
  <2>1. rules[index] \in PolicyRule
    BY <1>8 DEF CheckRule
  <2> QED
    BY <1>8, <2>1 DEF CheckRule, Better, PolicyRule
<1>9. CASE CheckDone
  <2>0. index <= Len(rules) + 1 /\ best < index
    BY <1>9 DEF CheckDone, ScannedSoFar
  <2>1. best # 0 => rules[best].action \in Actions
    <3> SUFFICES ASSUME best # 0 PROVE rules[best].action \in Actions
      OBVIOUS
    <3>1. best \in 1..Len(rules)
      BY <2>0
    <3>2. rules[best] \in PolicyRule
      BY <3>1
    <3> QED
      BY <3>2 DEF PolicyRule
  <2> QED
    BY <1>9, <2>1 DEF CheckDone
<1>10. CASE SendDecision
  BY <1>10 DEF SendDecision, Actions
<1>11. ASSUME NEW d \in Directories, EditPolicies(d) PROVE PolicyTypeOK'
  BY <1>11 DEF EditPolicies
<1>12. CASE UNCHANGED policyVars
  BY <1>12
<1> QED
  BY <1>1, <1>2, <1>3, <1>4, <1>5, <1>6, <1>7, <1>8, <1>9, <1>10, <1>11, <1>12
     DEF PolicyNext
-------------------------------------------------------------------------------
(* Reading.                                                                   *)

\* What is stored is the next of what was seen.
LEMMA StoredNext ==
  ASSUME NEW t \in Seq(PolicyRule), NEW z \in Seq(PolicyRule), NEW n \in Nat,
         n < Len(z),
         Len(t) = (IF n < MaxPolicies THEN n ELSE MaxPolicies),
         \A k \in DOMAIN t : t[k] = z[k]
  PROVE  /\ Len(Stored(t, z[n + 1])) = (IF n + 1 < MaxPolicies THEN n + 1 ELSE MaxPolicies)
         /\ \A k \in DOMAIN Stored(t, z[n + 1]) : Stored(t, z[n + 1])[k] = z[k]
<1> DEFINE r == z[n + 1]
<1>1. r \in PolicyRule /\ MaxPolicies \in Nat
  BY PolicyAssumption
<1>2. CASE Len(t) < MaxPolicies
  <2>1. Len(t) = n /\ n < MaxPolicies
    BY <1>1, <1>2
  <2>2. Stored(t, r) = Append(t, r)
    BY <1>2 DEF Stored
  <2>3. /\ Len(Append(t, r)) = n + 1 /\ DOMAIN Append(t, r) = 1..(n + 1)
        /\ \A k \in 1..n : Append(t, r)[k] = t[k]
        /\ Append(t, r)[n + 1] = r
    BY <1>1, <2>1
  <2> QED
    BY <1>1, <2>1, <2>2, <2>3
<1>3. CASE ~(Len(t) < MaxPolicies)
  <2>1. Stored(t, r) = t
    BY <1>3 DEF Stored
  <2> QED
    BY <1>1, <1>3, <2>1
<1> QED
  BY <1>2, <1>3

LEMMA Concatenation ==
  ASSUME NEW t \in Seq(PolicyRule), NEW z \in Seq(PolicyRule)
  PROVE  /\ Len(t \o z) = Len(t) + Len(z)
         /\ \A k \in 1..Len(t) : (t \o z)[k] = t[k]
         /\ \A k \in 1..Len(z) : (t \o z)[Len(t) + k] = z[k]
  OBVIOUS

LEMMA AtMostOne ==
  ASSUME NEW t \in Seq(PolicyRule), t # <<>>, Len(t) <= 1 PROVE Len(t) = 1
<1>1. Len(t) \in Nat \ {0}
  BY EmptySeq
<1>2. \A n \in Nat \ {0} : n <= 1 => n = 1
  OBVIOUS
<1> QED
  BY <1>1, <1>2, Zenon

LEMMA LoadInit == PolicyInit => LoadedSoFar
<1> SUFFICES ASSUME PolicyInit PROVE LoadedSoFar
  OBVIOUS
<1>1. rules = <<>> /\ seen = <<>> /\ held = <<>> /\ body = <<>> /\ op = "load"
  BY DEF PolicyInit
<1>2. Len(rules) = 0 /\ Len(seen) = 0 /\ Len(held) = 0 /\ Len(body) = 0
  BY <1>1
<1>3. Done = 0 /\ Len(rules) = (IF Done < MaxPolicies THEN Done ELSE MaxPolicies)
  BY <1>2, PolicyAssumption DEF Done
<1>4. /\ \A k \in DOMAIN rules : rules[k] = seen[k]
      /\ \A k \in DOMAIN body : FileRule(body[k]) = seen[Done + Len(held) + k]
  BY <1>1
<1> QED
  BY <1>1, <1>3, <1>4 DEF LoadedSoFar

LEMMA LoadStep ==
  PolicyTypeOK /\ LoadedSoFar /\ [PolicyNext]_policyVars => LoadedSoFar'
<1> SUFFICES ASSUME PolicyTypeOK, LoadedSoFar, [PolicyNext]_policyVars PROVE LoadedSoFar'
  OBVIOUS
<1>0. /\ rules \in Seq(PolicyRule) /\ seen \in Seq(PolicyRule) /\ body \in Seq(Section)
      /\ held \in Seq(PolicyRule) /\ Len(held) <= 1 /\ MaxPolicies \in Nat
      /\ policyDir \in Seq(Seq(Section))
  BY PolicyAssumption DEF PolicyTypeOK
<1>l. Len(held) \in Nat /\ Len(body) \in Nat /\ Len(seen) \in Nat
  BY <1>0
<1>a. /\ Done = Len(seen) - Len(held) - Len(body) /\ Done \in Nat
      /\ Len(held) \in Nat /\ Len(body) \in Nat /\ Len(seen) \in Nat
  <2>1. Done \in Int /\ Done = Len(seen) - Len(held) - Len(body)
    BY <1>l DEF Done
  <2>2. Done >= 0
    BY DEF LoadedSoFar
  <2> QED
    BY <1>l, <2>1, <2>2
<1>b. /\ Len(rules) = (IF Done < MaxPolicies THEN Done ELSE MaxPolicies)
      /\ \A k \in DOMAIN rules : rules[k] = seen[k]
  BY DEF LoadedSoFar
<1>c. ASSUME UNCHANGED <<rules, seen, body, held>>, op' # "load" => held = <<>> /\ body = <<>>
      PROVE  LoadedSoFar'
  BY <1>c DEF LoadedSoFar, Done
<1>1. CASE OpenFile
  <2> DEFINE sections == IF Head(files) \in DOMAIN policyDir THEN policyDir[Head(files)] ELSE <<>>
             read == [k \in DOMAIN sections |-> FileRule(sections[k])]
  <2>1. sections \in Seq(Section)
    BY <1>0
  <2>2. body' = sections /\ seen' = seen \o read
    BY <1>1 DEF OpenFile
  <2>3. /\ held = <<>> /\ body = <<>> /\ held' = held /\ rules' = rules /\ op = "load" /\ op' = op
    BY <1>1 DEF OpenFile
  <2>4. read \in Seq(PolicyRule) /\ Len(read) = Len(sections) /\ Len(sections) \in Nat
    <3>1. \A k \in DOMAIN sections : FileRule(sections[k]) \in PolicyRule
      BY <2>1, RulesAreTyped
    <3>2. DOMAIN sections = 1..Len(sections) /\ Len(sections) \in Nat
      BY <2>1
    <3> HIDE DEF sections
    <3> QED
      BY <3>1, <3>2
  <2>5. \A k \in DOMAIN sections : k \in 1..Len(sections) /\ read[k] = FileRule(sections[k])
    BY <2>1
  <2> HIDE DEF sections, read
  <2>6. /\ Len(seen') = Len(seen) + Len(sections)
        /\ \A k \in 1..Len(seen) : seen'[k] = seen[k]
        /\ \A k \in 1..Len(sections) : seen'[Len(seen) + k] = read[k]
    <3>1. /\ Len(seen \o read) = Len(seen) + Len(read)
          /\ \A k \in 1..Len(seen) : (seen \o read)[k] = seen[k]
          /\ \A k \in 1..Len(read) : (seen \o read)[Len(seen) + k] = read[k]
      BY <1>0, <2>4, Concatenation, Zenon
    <3>2. seen' = seen \o read /\ Len(read) = Len(sections)
      BY <2>2, <2>4
    <3> QED
      BY <3>1, <3>2, Zenon
  <2>7. Len(held) = 0 /\ Len(body) = 0 /\ Done = Len(seen)
    BY <1>a, <2>3
  <2>8. Done' = Done /\ Len(held') = 0
    <3>1. Len(held') = 0 /\ Len(body') = Len(sections)
      BY <2>2, <2>3, <2>7
    <3> QED
      BY <1>a, <2>4, <2>6, <2>7, <3>1 DEF Done
  <2>9. \A k \in DOMAIN rules : rules[k] = seen'[k]
    BY <1>0, <1>a, <1>b, <2>6, <2>7
  <2>10. \A k \in DOMAIN body' : FileRule(body'[k]) = seen'[Done' + Len(held') + k]
    BY <1>a, <2>2, <2>5, <2>6, <2>7, <2>8
  <2> QED
    BY <1>a, <1>b, <2>3, <2>8, <2>9, <2>10 DEF LoadedSoFar
<1>2. CASE ReadSection
  <2>1. /\ op = "load" /\ op' = op /\ body # <<>> /\ seen' = seen
        /\ held' = <<FileRule(Head(body))>> /\ body' = Tail(body)
        /\ rules' = IF held = <<>> THEN rules ELSE Stored(rules, held[1])
    BY <1>2 DEF ReadSection
  <2>2. /\ Len(body) >= 1 /\ Len(Tail(body)) = Len(body) - 1 /\ Head(body) = body[1]
        /\ DOMAIN Tail(body) = 1..(Len(body) - 1) /\ DOMAIN body = 1..Len(body)
        /\ \A k \in 1..(Len(body) - 1) : Tail(body)[k] = body[k + 1]
    BY <1>0, <2>1
  <2>3. Len(held') = 1 /\ held'[1] = FileRule(body[1])
    BY <2>1, <2>2
  <2>4. Done' = Done + Len(held)
    <3>1. Len(body') = Len(body) - 1 /\ Len(seen') = Len(seen)
      BY <2>1, <2>2
    <3> QED
      BY <1>a, <2>3, <3>1 DEF Done
  <2>5. \A k \in DOMAIN body : FileRule(body[k]) = seen[Done + Len(held) + k]
    BY DEF LoadedSoFar
  <2>6. held'[1] = seen'[Done' + 1]
    <3>1. 1 \in DOMAIN body
      BY <1>a, <2>2
    <3>2. FileRule(body[1]) = seen[Done + Len(held) + 1]
      BY <2>5, <3>1
    <3> QED
      BY <2>1, <2>3, <2>4, <3>2
  <2>7. \A k \in DOMAIN body' : FileRule(body'[k]) = seen'[Done' + Len(held') + k]
    <3> SUFFICES ASSUME NEW k \in 1..(Len(body) - 1)
                 PROVE FileRule(body[k + 1]) = seen[Done + Len(held) + 1 + k]
      BY <2>1, <2>2, <2>3, <2>4
    <3>1. k + 1 \in DOMAIN body
      BY <1>a, <2>2
    <3>2. FileRule(body[k + 1]) = seen[Done + Len(held) + (k + 1)]
      BY <2>5, <3>1
    <3>3. Done + Len(held) + (k + 1) = Done + Len(held) + 1 + k
      BY <1>a
    <3> QED
      BY <3>2, <3>3
  <2>8. /\ Len(rules') = (IF Done' < MaxPolicies THEN Done' ELSE MaxPolicies)
        /\ \A k \in DOMAIN rules' : rules'[k] = seen'[k]
    <3>1. CASE held = <<>>
      <4>1. rules' = rules /\ Done' = Done
        BY <1>a, <2>1, <2>4, <3>1
      <4> QED
        BY <1>b, <2>1, <4>1
    <3>2. CASE held # <<>>
      <4>0. Len(held) = 1
        BY <1>0, <3>2, AtMostOne
      <4>1. Len(held) = 1 /\ Done' = Done + 1 /\ rules' = Stored(rules, held[1])
        BY <2>1, <2>4, <3>2, <4>0
      <4>2. Done < Len(seen) /\ held[1] = seen[Done + 1]
        BY <1>a, <3>2, <4>1 DEF LoadedSoFar
      <4>3. rules' = Stored(rules, seen[Done + 1])
        BY <4>1, <4>2
      <4>4. /\ Len(Stored(rules, seen[Done + 1])) = (IF Done + 1 < MaxPolicies THEN Done + 1 ELSE MaxPolicies)
            /\ \A k \in DOMAIN Stored(rules, seen[Done + 1]) : Stored(rules, seen[Done + 1])[k] = seen[k]
        BY <1>0, <1>a, <1>b, <4>2, StoredNext
      <4> QED
        BY <2>1, <4>1, <4>3, <4>4
    <3> QED
      BY <3>1, <3>2
  <2>9. Done' >= 0
    BY <1>a, <2>4
  <2> QED
    BY <2>1, <2>6, <2>7, <2>8, <2>9 DEF LoadedSoFar
<1>3. CASE EndOfFile
  <2>1. /\ op = "load" /\ op' = op /\ body = <<>> /\ body' = <<>> /\ seen' = seen
        /\ held # <<>> /\ held' = <<>> /\ rules' = Stored(rules, held[1])
    BY <1>3 DEF EndOfFile
  <2>2. Len(held) = 1 /\ Len(body) = 0
    BY <1>0, <2>1, AtMostOne
  <2>3. Done < Len(seen) /\ held[1] = seen[Done + 1]
    BY <1>a, <2>1, <2>2 DEF LoadedSoFar
  <2>4. Done' = Done + 1
    <3>1. Len(held') = 0 /\ Len(body') = 0 /\ Len(seen') = Len(seen)
      BY <2>1
    <3> QED
      BY <1>a, <2>2, <3>1 DEF Done
  <2>5. rules' = Stored(rules, seen[Done + 1])
    BY <2>1, <2>3
  <2>6. /\ Len(rules') = (IF Done' < MaxPolicies THEN Done' ELSE MaxPolicies)
        /\ \A k \in DOMAIN rules' : rules'[k] = seen'[k]
    <3>1. /\ Len(Stored(rules, seen[Done + 1])) = (IF Done + 1 < MaxPolicies THEN Done + 1 ELSE MaxPolicies)
          /\ \A k \in DOMAIN Stored(rules, seen[Done + 1]) : Stored(rules, seen[Done + 1])[k] = seen[k]
      BY <1>0, <1>a, <1>b, <2>3, StoredNext
    <3> QED
      BY <2>1, <2>4, <2>5, <3>1
  <2>7. \A k \in DOMAIN body' : FileRule(body'[k]) = seen'[Done' + Len(held') + k]
    BY <2>1
  <2> QED
    BY <1>a, <2>1, <2>4, <2>6, <2>7 DEF LoadedSoFar
<1>4. CASE LoadDone
  BY <1>4, <1>c DEF LoadDone
<1>5. CASE ReloadPolicies
  <2>1. /\ held' = <<>> /\ body' = <<>> /\ rules' = <<>> /\ seen' = <<>>
    BY <1>5 DEF ReloadPolicies, LoadedSoFar
  <2>2. Len(rules') = 0 /\ Done' = 0
    <3>1. Len(rules') = 0 /\ Len(seen') = 0 /\ Len(held') = 0 /\ Len(body') = 0
      BY <2>1
    <3> QED
      BY <3>1 DEF Done
  <2>3. /\ \A k \in DOMAIN rules' : rules'[k] = seen'[k]
        /\ \A k \in DOMAIN body' : FileRule(body'[k]) = seen'[Done' + Len(held') + k]
    BY <2>1
  <2> QED
    BY <1>0, <2>1, <2>2, <2>3 DEF LoadedSoFar
<1>6. ASSUME NEW m \in WireMessages, AddPolicy(m) PROVE LoadedSoFar'
  <2> DEFINE z == Append(seen, WireRule(m))
  <2>1. /\ op = "idle" /\ op' = op /\ body' = body /\ held' = held
        /\ rules' = Stored(rules, WireRule(m)) /\ seen' = z
    BY <1>6 DEF AddPolicy
  <2>2. held = <<>> /\ body = <<>>
    BY <2>1 DEF LoadedSoFar
  <2>3. WireRule(m) \in PolicyRule
    BY RulesAreTyped
  <2>4. /\ z \in Seq(PolicyRule) /\ Len(z) = Len(seen) + 1 /\ z[Len(seen) + 1] = WireRule(m)
        /\ \A k \in 1..Len(seen) : z[k] = seen[k]
    BY <1>0, <2>3
  <2> HIDE DEF z
  <2>5. Done = Len(seen) /\ Done' = Done + 1
    BY <1>a, <2>1, <2>2, <2>4 DEF Done
  <2>6. \A k \in DOMAIN rules : rules[k] = z[k]
    <3>1. DOMAIN rules = 1..Len(rules) /\ Len(rules) \in Nat
      BY <1>0
    <3>2. Len(rules) <= Len(seen)
      BY <1>0, <1>a, <1>b, <2>5
    <3> QED
      BY <1>a, <1>b, <2>4, <3>1, <3>2
  <2>7. Done < Len(z) /\ rules' = Stored(rules, z[Done + 1])
    BY <1>a, <2>1, <2>4, <2>5
  <2>8. /\ Len(rules') = (IF Done' < MaxPolicies THEN Done' ELSE MaxPolicies)
        /\ \A k \in DOMAIN rules' : rules'[k] = seen'[k]
    <3>1. /\ Len(Stored(rules, z[Done + 1])) = (IF Done + 1 < MaxPolicies THEN Done + 1 ELSE MaxPolicies)
          /\ \A k \in DOMAIN Stored(rules, z[Done + 1]) : Stored(rules, z[Done + 1])[k] = z[k]
      <4>1. Len(rules) = (IF Done < MaxPolicies THEN Done ELSE MaxPolicies)
        BY <1>b
      <4>2. /\ z \in Seq(PolicyRule) /\ rules \in Seq(PolicyRule)
            /\ Done \in Nat /\ Done < Len(z)
        BY <1>0, <1>a, <2>4, <2>7
      <4> QED
        BY <2>6, <4>1, <4>2, StoredNext
    <3> QED
      BY <2>1, <2>5, <2>7, <3>1
  <2>9. \A k \in DOMAIN body' : FileRule(body'[k]) = seen'[Done' + Len(held') + k]
    BY <2>1, <2>2
  <2> QED
    BY <1>a, <2>1, <2>2, <2>5, <2>8, <2>9 DEF LoadedSoFar
<1>7. ASSUME NEW q \in PolicyRequest, StartCheck(q) PROVE LoadedSoFar'
  BY <1>7, <1>c DEF StartCheck, LoadedSoFar
<1>8. CASE CheckRule
  BY <1>8, <1>c DEF CheckRule, LoadedSoFar
<1>9. CASE CheckDone
  BY <1>9, <1>c DEF CheckDone, LoadedSoFar
<1>10. CASE SendDecision
  BY <1>10, <1>c DEF SendDecision, LoadedSoFar
<1>11. ASSUME NEW d \in Directories, EditPolicies(d) PROVE LoadedSoFar'
  BY <1>11, <1>c DEF EditPolicies, LoadedSoFar
<1>12. CASE UNCHANGED policyVars
  BY <1>12, <1>c DEF LoadedSoFar
<1> QED
  BY <1>1, <1>2, <1>3, <1>4, <1>5, <1>6, <1>7, <1>8, <1>9, <1>10, <1>11, <1>12
     DEF PolicyNext
-------------------------------------------------------------------------------
(* Deciding.                                                                  *)

LEMMA PrioritiesAreIntegers ==
  ASSUME PolicyTypeOK PROVE \A k \in DOMAIN rules : rules[k].prio \in Int
<1> SUFFICES ASSUME NEW k \in DOMAIN rules PROVE rules[k].prio \in Int
  OBVIOUS
<1>1. rules[k] \in PolicyRule
  BY DEF PolicyTypeOK
<1> QED
  BY <1>1 DEF PolicyRule

LEMMA ScanInit == PolicyInit => ScannedSoFar /\ DecisionIsBest
  BY DEF PolicyInit, ScannedSoFar, DecisionIsBest

\* One turn of the loop keeps the winner among the rules passed.
LEMMA ScanTurn ==
  ASSUME PolicyTypeOK, ScannedSoFar, CheckRule
  PROVE  ScannedSoFar'
<1> DEFINE App == Applicable(rules, request)
<1>1. /\ op = "check" /\ op' = op /\ index <= Len(rules) /\ index' = index + 1
      /\ rules' = rules /\ request' = request /\ decision' = decision
      /\ IF Better(rules[index]) THEN best' = index /\ bestPrio' = rules[index].prio
                                 ELSE best' = best /\ bestPrio' = bestPrio
  BY DEF CheckRule
<1>2. /\ index \in Nat \ {0} /\ best \in Nat /\ bestPrio \in Int /\ bestPrio >= -1
      /\ Len(rules) \in Nat /\ DOMAIN rules = 1..Len(rules)
  BY DEF PolicyTypeOK
<1>3. \A k \in DOMAIN rules : rules[k].prio \in Int
  BY PrioritiesAreIntegers
<1>4. /\ best < index /\ decision = "deny"
      /\ best = 0 => (bestPrio = -1 /\ \A k \in App : k >= index)
      /\ best # 0 => (/\ best \in App /\ bestPrio = rules[best].prio
                      /\ \A k \in App : k < index => Outranks(rules, best, k))
  BY <1>1 DEF ScannedSoFar
<1>5. Applicable(rules', request') = App
  BY <1>1
<1>6. \A k : k \in App <=> k \in DOMAIN rules /\ Matches(rules[k], request) /\ rules[k].prio >= 0
  BY DEF Applicable
<1>7. index \in DOMAIN rules
  BY <1>1, <1>2
<1> HIDE DEF App
<1>8. CASE Better(rules[index])
  <2>1. best' = index /\ bestPrio' = rules[index].prio
    BY <1>1, <1>8
  <2>2. Matches(rules[index], request) /\ rules[index].prio > bestPrio
    BY <1>8 DEF Better
  <2>3. index \in App
    BY <1>2, <1>3, <1>6, <1>7, <2>2
  <2>4. ASSUME NEW k \in App, k < index + 1 PROVE Outranks(rules, index, k)
    <3>1. k \in 1..Len(rules) /\ rules[k].prio \in Int /\ rules[index].prio \in Int
      BY <1>2, <1>3, <1>6, <1>7
    <3>2. CASE k = index
      BY <1>2, <3>2 DEF Outranks
    <3>3. CASE k # index
      <4>1. k < index
        BY <1>2, <2>4, <3>1, <3>3
      <4>2. best # 0
        BY <1>2, <1>4, <3>1, <4>1
      <4>3. Outranks(rules, best, k) /\ bestPrio = rules[best].prio
        BY <1>4, <4>1, <4>2
      <4>4. bestPrio >= rules[k].prio
        BY <1>2, <3>1, <4>3 DEF Outranks
      <4> QED
        BY <1>2, <2>2, <3>1, <4>4 DEF Outranks
    <3> QED
      BY <3>2, <3>3
  <2>5. index # 0 /\ index + 1 <= Len(rules) + 1 /\ index < index + 1
    BY <1>1, <1>2
  <2> QED
    BY <1>1, <1>4, <1>5, <2>1, <2>3, <2>4, <2>5 DEF ScannedSoFar
<1>9. CASE ~Better(rules[index])
  <2>1. best' = best /\ bestPrio' = bestPrio
    BY <1>1, <1>9
  <2>2. index \in App => rules[index].prio <= bestPrio
    BY <1>2, <1>3, <1>6, <1>7, <1>9 DEF Better
  <2>3. ASSUME best = 0, NEW k \in App PROVE k >= index + 1
    <3>1. k >= index /\ bestPrio = -1 /\ k \in 1..Len(rules)
      BY <1>2, <1>4, <1>6, <2>3
    <3>2. k # index
      BY <1>3, <1>6, <1>7, <2>2, <2>3, <3>1
    <3> QED
      BY <1>2, <3>1, <3>2
  <2>4. ASSUME best # 0, NEW k \in App, k < index + 1 PROVE Outranks(rules, best, k)
    <3>1. k \in 1..Len(rules) /\ rules[k].prio \in Int /\ rules[best].prio \in Int
          /\ bestPrio = rules[best].prio
      BY <1>2, <1>3, <1>4, <1>6, <2>4
    <3>2. CASE k = index
      BY <1>2, <1>4, <2>2, <3>1, <3>2 DEF Outranks
    <3>3. CASE k # index
      <4>1. k < index
        BY <1>2, <2>4, <3>1, <3>3
      <4> QED
        BY <1>4, <2>4, <4>1
    <3> QED
      BY <3>2, <3>3
  <2>5. index + 1 <= Len(rules) + 1 /\ best < index + 1
    BY <1>1, <1>2, <1>4
  <2>6. best = 0 => bestPrio = -1 /\ \A k \in App : k >= index + 1
    BY <1>4, <2>3
  <2>7. best # 0 => /\ best \in App /\ bestPrio = rules[best].prio
                    /\ \A k \in App : k < index + 1 => Outranks(rules, best, k)
    BY <1>4, <2>4
  <2> QED
    BY <1>1, <1>4, <1>5, <2>1, <2>5, <2>6, <2>7 DEF ScannedSoFar
<1> QED
  BY <1>8, <1>9

\* The end of the loop: the winner among all.
LEMMA ScanEnd ==
  ASSUME PolicyTypeOK, ScannedSoFar, CheckDone
  PROVE  DecisionIsBest'
<1> DEFINE App == Applicable(rules, request)
<1>1. /\ op = "check" /\ index > Len(rules) /\ rules' = rules /\ request' = request
      /\ decision' = IF best # 0 THEN rules[best].action ELSE decision
  BY DEF CheckDone
<1>2. /\ index \in Nat /\ Len(rules) \in Nat /\ App \subseteq 1..Len(rules)
  BY DEF PolicyTypeOK, Applicable
<1>3. /\ decision = "deny"
      /\ best = 0 => \A k \in App : k >= index
      /\ best # 0 => /\ best \in App
                     /\ \A k \in App : k < index => Outranks(rules, best, k)
  BY <1>1 DEF ScannedSoFar
<1>4. \A k \in App : k < index
  BY <1>1, <1>2
<1>5. CASE best = 0
  <2>1. App = {}
    <3> SUFFICES ASSUME NEW k \in App PROVE FALSE
      OBVIOUS
    <3>1. k \in Nat /\ k < index /\ k >= index
      BY <1>2, <1>3, <1>4, <1>5
    <3> QED
      BY <1>2, <3>1
  <2> QED
    BY <1>1, <1>3, <1>5, <2>1 DEF DecisionIsBest, IsDecision
<1>6. CASE best # 0
  BY <1>1, <1>3, <1>4, <1>6 DEF DecisionIsBest, IsDecision
<1> QED
  BY <1>5, <1>6

LEMMA ScanStep ==
  PolicyTypeOK /\ ScannedSoFar /\ DecisionIsBest /\ [PolicyNext]_policyVars
    => ScannedSoFar' /\ DecisionIsBest'
<1> SUFFICES ASSUME PolicyTypeOK, ScannedSoFar, DecisionIsBest, [PolicyNext]_policyVars
             PROVE ScannedSoFar' /\ DecisionIsBest'
  OBVIOUS
<1>0. ASSUME op' \notin {"check", "answer"} PROVE ScannedSoFar' /\ DecisionIsBest'
  BY <1>0 DEF ScannedSoFar, DecisionIsBest
<1>1. CASE OpenFile
  BY <1>0, <1>1 DEF OpenFile
<1>2. CASE ReadSection
  BY <1>0, <1>2 DEF ReadSection
<1>3. CASE EndOfFile
  BY <1>0, <1>3 DEF EndOfFile
<1>4. CASE LoadDone
  BY <1>0, <1>4 DEF LoadDone
<1>5. CASE ReloadPolicies
  BY <1>0, <1>5 DEF ReloadPolicies
<1>6. ASSUME NEW m \in WireMessages, AddPolicy(m) PROVE ScannedSoFar' /\ DecisionIsBest'
  BY <1>0, <1>6 DEF AddPolicy
<1>7. ASSUME NEW q \in PolicyRequest, StartCheck(q) PROVE ScannedSoFar' /\ DecisionIsBest'
  <2>1. /\ op' = "check" /\ index' = 1 /\ best' = 0 /\ bestPrio' = -1 /\ decision' = "deny"
        /\ rules' = rules /\ request' = q
    BY <1>7 DEF StartCheck
  <2>2. Len(rules) \in Nat /\ \A k \in Applicable(rules, q) : k >= 1
    BY DEF PolicyTypeOK, Applicable
  <2> QED
    BY <2>1, <2>2 DEF ScannedSoFar, DecisionIsBest
<1>8. CASE CheckRule
  BY <1>8, ScanTurn DEF CheckRule, DecisionIsBest
<1>9. CASE CheckDone
  BY <1>9, ScanEnd DEF CheckDone, ScannedSoFar
<1>10. CASE SendDecision
  BY <1>0, <1>10 DEF SendDecision
<1>11. ASSUME NEW d \in Directories, EditPolicies(d) PROVE ScannedSoFar' /\ DecisionIsBest'
  BY <1>11 DEF EditPolicies, ScannedSoFar, DecisionIsBest
<1>12. CASE UNCHANGED policyVars
  BY <1>12 DEF ScannedSoFar, DecisionIsBest
<1> QED
  BY <1>1, <1>2, <1>3, <1>4, <1>5, <1>6, <1>7, <1>8, <1>9, <1>10, <1>11, <1>12
     DEF PolicyNext

-------------------------------------------------------------------------------
(* The theorems.                                                              *)

\* The inductive invariant: types, the store against what was read
\* (policy_load_file) and the loop of policy_check against the rules it passed.
THEOREM PolicyInvariant == PolicySpec => []PolicyIInv
<1>1. PolicyInit => PolicyIInv
  BY TypeInit, LoadInit, ScanInit DEF PolicyIInv
<1>2. PolicyIInv /\ [PolicyNext]_policyVars => PolicyIInv'
  BY TypeStep, LoadStep, ScanStep DEF PolicyIInv
<1> QED
  BY <1>1, <1>2, PTL DEF PolicySpec

\* The store stays a list of rules within its array (MAX_POLICIES).
THEOREM PolicyTypeCorrect == PolicySpec => []PolicyTypeOK
<1>1. PolicyIInv => PolicyTypeOK
  BY DEF PolicyIInv
<1> QED
  BY <1>1, PolicyInvariant, PTL

\* policy_check answers with the action of the best rule.
THEOREM DecisionsAreBest == PolicySpec => []DecisionIsBest
<1>1. PolicyIInv => DecisionIsBest
  BY DEF PolicyIInv
<1> QED
  BY <1>1, PolicyInvariant, PTL

\* policy_load_dir stores every section of every file, in order, once.
THEOREM StoreIsAsRead == PolicySpec => []StoreAsRead
<1>1. PolicyIInv => StoreAsRead
  <2> SUFFICES ASSUME PolicyIInv, op # "load" PROVE StoreAsRead
    BY DEF StoreAsRead
  <2>1. PolicyTypeOK /\ LoadedSoFar /\ held = <<>> /\ body = <<>>
    BY DEF PolicyIInv, LoadedSoFar
  <2>2. Len(held) = 0 /\ Len(body) = 0 /\ Len(seen) \in Nat
    BY <2>1 DEF PolicyTypeOK
  <2>3. Done = Len(seen)
    BY <2>2 DEF Done
  <2> QED
    BY <2>1, <2>3 DEF LoadedSoFar, StoreAsRead
<1> QED
  BY <1>1, PolicyInvariant, PTL

\* A rule added over the socket (client_handler) comes last with the default
\* priority, so it loses against every rule of that priority or a higher one.
LEMMA AddedComesLast ==
  ASSUME PolicyTypeOK, NEW m \in WireMessages, AddPolicy(m),
         NEW q \in PolicyRequest, NEW a \in Actions, IsDecision(rules, q, a),
         NEW k0 \in Applicable(rules, q), rules[k0].prio >= DefaultPriority
  PROVE  IsDecision(rules', q, a)
<1> DEFINE r == WireRule(m)
           n == Len(rules)
<1>1. rules \in Seq(PolicyRule) /\ n \in Nat /\ DOMAIN rules = 1..n
  BY DEF PolicyTypeOK
<1>2. r \in PolicyRule /\ r.prio = 10
  BY RulesAreTyped DEF WireRule, DefaultPriority
<1>3. rules' = Stored(rules, r)
  BY DEF AddPolicy
<1>4. \A k \in DOMAIN rules : rules[k].prio \in Int
  BY PrioritiesAreIntegers
<1>5. PICK k \in Applicable(rules, q) :
        (\A l \in Applicable(rules, q) : Outranks(rules, k, l)) /\ a = rules[k].action
  BY DEF IsDecision
<1>6. k0 \in 1..n /\ k \in 1..n
  BY <1>1 DEF Applicable
<1>7. rules[k].prio >= 10
  <2>1. Outranks(rules, k, k0) /\ rules[k0].prio >= 10
    BY <1>5 DEF DefaultPriority
  <2> QED
    BY <1>1, <1>4, <1>6, <2>1 DEF Outranks
<1> HIDE DEF r
<1>8. CASE Len(rules) < MaxPolicies
  <2>1. /\ rules' = Append(rules, r) /\ DOMAIN rules' = 1..(n + 1)
        /\ \A l \in 1..n : rules'[l] = rules[l]
        /\ rules'[n + 1] = r
    BY <1>1, <1>2, <1>3, <1>8 DEF Stored
  <2> HIDE DEF n
  <2>2. k \in Applicable(rules', q) /\ rules'[k] = rules[k] /\ k <= n
    <3>1. Matches(rules[k], q) /\ rules[k].prio >= 0
      BY DEF Applicable
    <3>2. rules'[k] = rules[k] /\ k \in DOMAIN rules' /\ k <= n
      BY <1>1, <1>6, <2>1
    <3> QED
      BY <3>1, <3>2 DEF Applicable
  <2>3. ASSUME NEW l \in Applicable(rules', q) PROVE Outranks(rules', k, l)
    <3>1. l \in 1..(n + 1) /\ Matches(rules'[l], q) /\ rules'[l].prio >= 0
      BY <2>1 DEF Applicable
    <3>2. CASE l \in 1..n
      <4>1. rules'[l] = rules[l] /\ l \in Applicable(rules, q)
        BY <1>1, <2>1, <3>1, <3>2 DEF Applicable
      <4> QED
        BY <1>5, <2>2, <4>1 DEF Outranks
    <3>3. CASE l = n + 1
      <4>1. rules'[l].prio = 10 /\ rules'[k].prio = rules[k].prio /\ rules[k].prio \in Int
        BY <1>1, <1>2, <1>4, <1>6, <2>1, <2>2, <3>3
      <4> QED
        BY <1>1, <1>6, <1>7, <3>3, <4>1 DEF Outranks
    <3> QED
      BY <1>1, <3>1, <3>2, <3>3
  <2> QED
    BY <1>5, <2>2, <2>3 DEF IsDecision
<1>9. CASE ~(Len(rules) < MaxPolicies)
  BY <1>3, <1>9 DEF Stored
<1> QED
  BY <1>8, <1>9

\* No client overturns a policy of the default priority or a higher one.
THEOREM AddedRulesAlwaysYield == PolicySpec => AddedRulesYield
<1>1. PolicyTypeOK /\ [PolicyNext]_policyVars => [AddedRuleYields]_policyVars
  <2> SUFFICES ASSUME PolicyTypeOK, [PolicyNext]_policyVars, op = "idle", op' = "idle",
                      NEW q \in PolicyRequest, NEW a \in Actions,
                      NEW k \in Applicable(rules, q), rules[k].prio >= DefaultPriority,
                      IsDecision(rules, q, a)
               PROVE  IsDecision(rules', q, a)
    BY DEF AddedRuleYields
  <2>1. ASSUME NEW m \in WireMessages, AddPolicy(m) PROVE IsDecision(rules', q, a)
    BY <2>1, AddedComesLast
  <2>2. ASSUME NEW d \in Directories, EditPolicies(d) PROVE IsDecision(rules', q, a)
    BY <2>2 DEF EditPolicies
  <2>3. CASE UNCHANGED policyVars
    BY <2>3
  <2> QED
    BY <2>1, <2>2, <2>3 DEF PolicyNext, OpenFile, ReadSection, EndOfFile, LoadDone,
       ReloadPolicies, StartCheck, CheckRule, CheckDone, SendDecision
<1> QED
  BY <1>1, PolicyTypeCorrect, PTL DEF PolicySpec, AddedRulesYield
===============================================================================
