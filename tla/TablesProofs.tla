----------------------------- MODULE TablesProofs ------------------------------
(***************************************************************************)
(* Theorems about the event bus, the result cache and the session table,   *)
(* for any number of subscribers, event types, entries, queries, clients   *)
(* and slots.                                                              *)
(***************************************************************************)
EXTENDS EventBus, ResultCache, SessionManager, TLAPS, WellFoundedInduction

-------------------------------------------------------------------------------
(* The event bus.  What is counted is who lies ahead of the walk: Next is the *)
(* slot that the walk looks at next.                                          *)

AheadFrom == IF inHandler THEN position + 1 ELSE position

\* What CalledOncePerPublication rests on: a subscriber that lies ahead has not
\* used up the call that it is due.
WalkCounts ==
  /\ inHandler \/ draining => publishing # NoEvent
  /\ publishing = NoEvent =>
       calls = NoCalls /\ again = NoCalls /\ ~disturbed /\ atStart = {}
  /\ publishing # NoEvent =>
       /\ \A s \in Subscriber : calls[s] <= 1 + again[s]
       /\ \A k \in DOMAIN subscribers :
            k >= AheadFrom => calls[subscribers[k]] <= again[subscribers[k]]

\* What UndisturbedReachesAll rests on: as long as no one unsubscribes or
\* replaces the event, the walk has called exactly those that it has passed.
WalkReaches ==
  publishing # NoEvent /\ ~disturbed =>
    /\ EventType = publishing
    /\ AheadFrom <= Len(subscribers) + 1
    /\ \A h \in atStart : \E k \in DOMAIN subscribers :
         subscribers[k] = [type |-> publishing, handler |-> h]
    /\ \A k \in DOMAIN subscribers :
         calls[subscribers[k]] =
           IF k < AheadFrom /\ subscribers[k].type = publishing THEN 1 ELSE 0
    /\ \A s \in Subscriber : calls[s] # 0 =>
         s.type = publishing /\ \E k \in DOMAIN subscribers : subscribers[k] = s

EventIInv == EventTypeOK /\ SubscribersUnique /\ WalkCounts /\ WalkReaches

\* A subscriber is its two fields.
LEMMA SubscriberIs ==
  ASSUME NEW s \in Subscriber
  PROVE  /\ s.type \in EventTypes /\ s.handler \in Handlers
         /\ s = [type |-> s.type, handler |-> s.handler]
BY DEF Subscriber

\* What moving the last subscriber into a slot makes of the array.
LEMMA RemovedIs ==
  ASSUME NEW s \in Seq(Subscriber), NEW i \in DOMAIN s
  PROVE  /\ Removed(s, i) \in Seq(Subscriber)
         /\ Len(Removed(s, i)) = Len(s) - 1
         /\ DOMAIN Removed(s, i) = 1..(Len(s) - 1)
         /\ \A k \in 1..(Len(s) - 1) :
              Removed(s, i)[k] = IF k = i THEN s[Len(s)] ELSE s[k]
<1>1. DOMAIN s = 1..Len(s) /\ Len(s) \in Nat /\ Len(s) >= 1
  OBVIOUS
<1>2. \A k \in 1..(Len(s) - 1) : (IF k = i THEN s[Len(s)] ELSE s[k]) \in Subscriber
  BY <1>1
<1>3. Len(s) - 1 \in Nat
  BY <1>1
<1> QED
  BY <1>2, <1>3 DEF Removed

\* Init establishes the invariant.
LEMMA EventInitially == EventInit => EventIInv
<1> SUFFICES ASSUME EventInit PROVE EventIInv
  OBVIOUS
<1>1. EventTypeOK
  <2>1. subscribers \in Seq(Subscriber) /\ Len(subscribers) <= MaxSubscribers
    BY EventAssumption DEF EventInit
  <2>2. inHandler \in BOOLEAN /\ draining \in BOOLEAN /\ disturbed \in BOOLEAN
    BY DEF EventInit
  <2>3. calls \in [Subscriber -> Nat] /\ again \in [Subscriber -> Nat] /\ atStart \subseteq Handlers
    BY DEF EventInit, NoCalls
  <2>4. /\ publishing \in EventTypes \cup {NoEvent} /\ pending \in EventTypes \cup {NoEvent}
        /\ position \in Nat \ {0} /\ changes \in 0..MaxChanges
    BY EventAssumption DEF EventInit
  <2> QED BY <2>1, <2>2, <2>3, <2>4 DEF EventTypeOK
<1>2. SubscribersUnique /\ WalkCounts /\ WalkReaches
  BY EventAssumption DEF EventInit, SubscribersUnique, WalkCounts, WalkReaches
<1> QED
  BY <1>1, <1>2 DEF EventIInv

\* Every operation of the bus and of the code it calls keeps it.
LEMMA EventStep ==
  ASSUME EventIInv, [EventNext]_eventVars
  PROVE  EventIInv'
<1> USE EventAssumption
<1>a. /\ subscribers \in Seq(Subscriber) /\ Len(subscribers) \in Nat
      /\ Len(subscribers) <= MaxSubscribers
      /\ DOMAIN subscribers = 1..Len(subscribers)
      /\ position \in Nat \ {0} /\ AheadFrom \in Nat
      /\ inHandler \in BOOLEAN
      /\ calls \in [Subscriber -> Nat] /\ again \in [Subscriber -> Nat]
  BY DEF EventIInv, EventTypeOK, AheadFrom
<1>b. \A k \in DOMAIN subscribers :
        /\ subscribers[k] \in Subscriber
        /\ subscribers[k].type \in EventTypes /\ subscribers[k].handler \in Handlers
        /\ subscribers[k] = [type |-> subscribers[k].type, handler |-> subscribers[k].handler]
  BY <1>a, SubscriberIs
<1>1. ASSUME NEW t \in EventTypes, NEW h \in Handlers, Subscribe(t, h)
      PROVE  EventIInv'
  <2>1. CASE HasSlot /\ Slots(t, h) = {}
    <3> DEFINE new == [type |-> t, handler |-> h]
    <3>1. /\ new \in Subscriber /\ new.type = t /\ new.handler = h
      BY DEF Subscriber
    <3>2. /\ subscribers' = Append(subscribers, new)
          /\ UNCHANGED <<pending, disturbed, publishing, position, inHandler, draining, calls, atStart>>
          /\ again' = IF publishing = NoEvent THEN again ELSE [again EXCEPT ![new] = @ + 1]
          /\ changes' \in 0..MaxChanges
      BY <1>1, <2>1 DEF Subscribe, walkVars, EventIInv, EventTypeOK
    <3>3. /\ subscribers' \in Seq(Subscriber) /\ Len(subscribers') = Len(subscribers) + 1
          /\ DOMAIN subscribers' = 1..(Len(subscribers) + 1)
          /\ \A k \in 1..Len(subscribers) : subscribers'[k] = subscribers[k]
          /\ subscribers'[Len(subscribers) + 1] = new
      BY <3>1, <3>2, <1>a
    <3>4. again' \in [Subscriber -> Nat] /\ \A g \in Subscriber : again'[g] >= again[g]
      BY <3>1, <3>2, <1>a
    <3>5. \A k \in DOMAIN subscribers : subscribers[k] # new
      BY <2>1, <1>a, <1>b, <3>1 DEF Slots
    <3>6. AheadFrom' = AheadFrom /\ EventType' = EventType
      BY <3>2 DEF AheadFrom, EventType
    <3> HIDE DEF new
    <3>7. EventTypeOK'
      BY <3>2, <3>3, <3>4, <2>1, <1>a DEF EventIInv, EventTypeOK, HasSlot
    <3>8. SubscribersUnique'
      <4>1. \A i, j \in 1..Len(subscribers) : subscribers[i] = subscribers[j] => i = j
        BY <1>a DEF EventIInv, SubscribersUnique
      <4>2. \A i \in 1..Len(subscribers) : subscribers'[i] # new
        BY <3>3, <3>5, <1>a
      <4>3. SUFFICES ASSUME NEW i \in 1..(Len(subscribers) + 1),
                            NEW j \in 1..(Len(subscribers) + 1),
                            subscribers'[i] = subscribers'[j]
                     PROVE  i = j
        BY <3>3 DEF SubscribersUnique
      <4>4. /\ i \in 1..Len(subscribers) \/ i = Len(subscribers) + 1
            /\ j \in 1..Len(subscribers) \/ j = Len(subscribers) + 1
        BY <1>a
      <4> QED BY <4>1, <4>2, <4>3, <4>4, <3>3
    <3>9. WalkCounts'
      <4>1. publishing = NoEvent => again' = NoCalls /\ calls' = NoCalls /\ ~disturbed' /\ atStart' = {}
        BY <3>2 DEF EventIInv, WalkCounts
      <4>2. inHandler' \/ draining' => publishing' # NoEvent
        BY <3>2 DEF EventIInv, WalkCounts
      <4>3. ASSUME publishing # NoEvent, NEW g \in Subscriber PROVE calls'[g] <= 1 + again'[g]
        <5>1. calls[g] <= 1 + again[g]
          BY <4>3 DEF EventIInv, WalkCounts
        <5> QED BY <5>1, <3>2, <3>4, <1>a
      <4>4. ASSUME publishing # NoEvent, NEW k \in DOMAIN subscribers', k >= AheadFrom
            PROVE  calls'[subscribers'[k]] <= again'[subscribers'[k]]
        <5>1. CASE k \in 1..Len(subscribers)
          <6>1. subscribers'[k] = subscribers[k] /\ k \in DOMAIN subscribers
            BY <5>1, <3>3, <1>a
          <6>2. calls[subscribers[k]] <= again[subscribers[k]]
            BY <6>1, <4>4 DEF EventIInv, WalkCounts
          <6> QED BY <6>1, <6>2, <3>2, <3>4, <1>a, <1>b
        <5>2. CASE k = Len(subscribers) + 1
          <6>1. subscribers'[k] = new
            BY <5>2, <3>3
          <6>2. again'[new] = again[new] + 1
            BY <4>4, <3>1, <3>2, <1>a
          <6>3. calls[new] <= 1 + again[new]
            BY <3>1, <4>4 DEF EventIInv, WalkCounts
          <6> QED BY <6>1, <6>2, <6>3, <3>1, <3>2, <1>a
        <5> QED BY <5>1, <5>2, <4>4, <3>3, <1>a
      <4> QED BY <4>1, <4>2, <4>3, <4>4, <3>2, <3>6 DEF WalkCounts
    <3>10. WalkReaches'
      <4> SUFFICES ASSUME publishing # NoEvent, ~disturbed
                   PROVE  /\ EventType = publishing
                          /\ AheadFrom <= Len(subscribers') + 1
                          /\ \A g \in atStart : \E k \in DOMAIN subscribers' :
                               subscribers'[k] = [type |-> publishing, handler |-> g]
                          /\ \A k \in DOMAIN subscribers' : calls[subscribers'[k]] =
                               IF k < AheadFrom /\ subscribers'[k].type = publishing THEN 1 ELSE 0
                          /\ \A x \in Subscriber : calls[x] # 0 =>
                               x.type = publishing /\ \E k \in DOMAIN subscribers' : subscribers'[k] = x
        BY <3>2, <3>6 DEF WalkReaches
      <4>0. /\ EventType = publishing
            /\ AheadFrom <= Len(subscribers) + 1
            /\ \A g \in atStart : \E k \in DOMAIN subscribers :
                 subscribers[k] = [type |-> publishing, handler |-> g]
            /\ \A k \in DOMAIN subscribers : calls[subscribers[k]] =
                 IF k < AheadFrom /\ subscribers[k].type = publishing THEN 1 ELSE 0
            /\ \A x \in Subscriber : calls[x] # 0 =>
                 x.type = publishing /\ \E k \in DOMAIN subscribers : subscribers[k] = x
        BY DEF EventIInv, WalkReaches
      <4>1. AheadFrom <= Len(subscribers') + 1
        BY <4>0, <3>3, <1>a
      <4>2. \A x : (\E k \in DOMAIN subscribers : subscribers[k] = x)
                   => \E k \in DOMAIN subscribers' : subscribers'[k] = x
        BY <3>3, <1>a
      <4>3. ASSUME NEW k \in DOMAIN subscribers'
            PROVE  calls[subscribers'[k]] =
                     IF k < AheadFrom /\ subscribers'[k].type = publishing THEN 1 ELSE 0
        <5>1. CASE k \in 1..Len(subscribers)
          BY <5>1, <4>0, <4>3, <3>3, <1>a
        <5>2. CASE k = Len(subscribers) + 1
          <6>1. subscribers'[k] = new
            BY <5>2, <3>3
          <6>2. calls[new] = 0
            BY <3>1, <4>0, <3>5
          <6>3. ~(k < AheadFrom)
            BY <5>2, <4>0, <1>a
          <6> QED BY <6>1, <6>2, <6>3
        <5> QED BY <5>1, <5>2, <4>3, <3>3, <1>a
      <4> QED BY <4>0, <4>1, <4>2, <4>3
    <3> QED BY <3>7, <3>8, <3>9, <3>10 DEF EventIInv
  <2>2. CASE ~(HasSlot /\ Slots(t, h) = {})
    <3>1. /\ UNCHANGED <<subscribers, again, pending, disturbed, publishing, position,
                         inHandler, draining, calls, atStart>>
          /\ changes' \in 0..MaxChanges
      BY <1>1, <2>2 DEF Subscribe, walkVars, EventIInv, EventTypeOK
    <3>2. EventTypeOK'
      BY <3>1 DEF EventIInv, EventTypeOK
    <3> QED BY <3>1, <3>2 DEF EventIInv, SubscribersUnique, WalkCounts, WalkReaches, AheadFrom,
                                     EventType
  <2> QED BY <2>1, <2>2
<1>2. ASSUME NEW t \in EventTypes, NEW h \in Handlers, Unsubscribe(t, h)
      PROVE  EventIInv'
  <2>1. PICK i \in Slots(t, h) : subscribers' = Removed(subscribers, i)
    BY <1>2 DEF Unsubscribe
  <2>2. /\ UNCHANGED <<pending, again, publishing, position, inHandler, draining, calls, atStart>>
        /\ changes' \in 0..MaxChanges
        /\ disturbed' = (disturbed \/ publishing # NoEvent)
    BY <1>2 DEF Unsubscribe, walkVars, EventIInv, EventTypeOK
  <2>3. i \in DOMAIN subscribers /\ i \in 1..Len(subscribers)
    BY <1>a DEF Slots
  <2>4. /\ subscribers' \in Seq(Subscriber) /\ Len(subscribers') = Len(subscribers) - 1
        /\ DOMAIN subscribers' = 1..(Len(subscribers) - 1)
        /\ \A k \in 1..(Len(subscribers) - 1) :
             subscribers'[k] = IF k = i THEN subscribers[Len(subscribers)] ELSE subscribers[k]
    BY <2>1, <2>3, <1>a, RemovedIs
  <2>5. AheadFrom' = AheadFrom
    BY <2>2 DEF AheadFrom
  <2>6. EventTypeOK'
    <3>1. inHandler' \in BOOLEAN /\ draining' \in BOOLEAN /\ disturbed' \in BOOLEAN
      BY <2>2 DEF EventIInv, EventTypeOK
    <3>2. Len(subscribers') <= MaxSubscribers
      BY <2>4, <1>a
    <3> QED BY <3>1, <3>2, <2>2, <2>4 DEF EventIInv, EventTypeOK
  <2>7. SubscribersUnique'
    <3> SUFFICES ASSUME NEW j \in 1..(Len(subscribers) - 1), NEW k \in 1..(Len(subscribers) - 1),
                        subscribers'[j] = subscribers'[k], j # k
                 PROVE  FALSE
      BY <2>4 DEF SubscribersUnique
    <3>1. \A m, n \in 1..Len(subscribers) : subscribers[m] = subscribers[n] => m = n
      <4>1. SubscribersUnique
        BY DEF EventIInv
      <4>2. DOMAIN subscribers = 1..Len(subscribers)
        BY <1>a
      <4> QED BY <4>1, <4>2 DEF SubscribersUnique
    <3>2. /\ j \in 1..Len(subscribers) /\ k \in 1..Len(subscribers)
          /\ Len(subscribers) \in 1..Len(subscribers)
          /\ j # Len(subscribers) /\ k # Len(subscribers)
      <4>1. Len(subscribers) \in Nat
        BY <1>a
      <4>2. \A n \in Nat : j \in 1..(n - 1) /\ k \in 1..(n - 1) =>
              j \in 1..n /\ k \in 1..n /\ n \in 1..n /\ j # n /\ k # n
        OBVIOUS
      <4> QED BY <4>1, <4>2
    <3>3. CASE j = i
      <4>1. subscribers[Len(subscribers)] = subscribers[k]
        BY <3>3, <2>4
      <4> QED BY <4>1, <3>1, <3>2
    <3>4. CASE k = i
      <4>1. subscribers[j] = subscribers[Len(subscribers)]
        BY <3>4, <2>4
      <4> QED BY <4>1, <3>1, <3>2
    <3>5. CASE j # i /\ k # i
      <4>1. subscribers[j] = subscribers[k]
        BY <3>5, <2>4
      <4> QED BY <4>1, <3>1, <3>2
    <3> QED BY <3>3, <3>4, <3>5
  <2>8. WalkCounts'
    <3>1. publishing = NoEvent => again' = NoCalls /\ calls' = NoCalls /\ ~disturbed' /\ atStart' = {}
      BY <2>2 DEF EventIInv, WalkCounts
    <3>2. inHandler' \/ draining' => publishing' # NoEvent
      BY <2>2 DEF EventIInv, WalkCounts
    <3>3. ASSUME publishing # NoEvent, NEW g \in Subscriber PROVE calls'[g] <= 1 + again'[g]
      BY <2>2, <3>3 DEF EventIInv, WalkCounts
    <3>4. ASSUME publishing # NoEvent, NEW k \in DOMAIN subscribers', k >= AheadFrom
          PROVE  calls'[subscribers'[k]] <= again'[subscribers'[k]]
      <4>0. k \in 1..(Len(subscribers) - 1) /\ k \in Nat /\ Len(subscribers) \in DOMAIN subscribers
            /\ k \in DOMAIN subscribers /\ k <= Len(subscribers)
        <5>1. k \in 1..(Len(subscribers) - 1)
          BY <2>4, <3>4, Zenon
        <5>2. Len(subscribers) \in Nat /\ DOMAIN subscribers = 1..Len(subscribers)
          BY <1>a
        <5>3. \A n \in Nat : k \in 1..(n - 1) => k \in Nat /\ k \in 1..n /\ n \in 1..n /\ k <= n
          OBVIOUS
        <5> QED BY <5>1, <5>2, <5>3, Zenon
      <4>1. PICK j \in DOMAIN subscribers : subscribers'[k] = subscribers[j] /\ j >= k
        <5>1. CASE k = i
          <6>1. subscribers'[k] = subscribers[Len(subscribers)] /\ Len(subscribers) >= k
            BY <5>1, <4>0, <2>4, <1>a
          <6> QED BY <6>1, <4>0
        <5>2. CASE k # i
          <6>1. subscribers'[k] = subscribers[k] /\ k >= k
            BY <5>2, <4>0, <2>4
          <6> QED BY <6>1, <4>0
        <5> QED BY <5>1, <5>2
      <4>2. j >= AheadFrom
        <5>1. j \in Nat /\ k \in Nat /\ AheadFrom \in Nat /\ j >= k /\ k >= AheadFrom
          BY <4>0, <4>1, <3>4, <1>a
        <5> QED BY <5>1
      <4>3. calls[subscribers[j]] <= again[subscribers[j]]
        BY <4>1, <4>2, <3>4 DEF EventIInv, WalkCounts
      <4>4. calls' = calls /\ again' = again
        BY <2>2
      <4> QED BY <4>1, <4>3, <4>4
    <3> QED BY <3>1, <3>2, <3>3, <3>4, <2>2, <2>5 DEF WalkCounts
  <2>9. WalkReaches'
    BY <2>2 DEF WalkReaches
  <2> QED BY <2>6, <2>7, <2>8, <2>9 DEF EventIInv
<1>3. ASSUME NEW t \in EventTypes, PostPending(t)
      PROVE  EventIInv'
  <2>1. /\ pending' = t
        /\ disturbed' = (disturbed \/ (draining /\ t # publishing))
        /\ UNCHANGED <<subscribers, changes, again, publishing, position,
                       inHandler, draining, calls, atStart>>
    BY <1>3 DEF PostPending, walkVars
  <2>2. EventTypeOK'
    <3>1. disturbed' \in BOOLEAN
      BY <2>1 DEF EventIInv, EventTypeOK
    <3> QED BY <3>1, <2>1 DEF EventIInv, EventTypeOK
  <2>3. AheadFrom' = AheadFrom
    BY <2>1 DEF AheadFrom
  <2>4. WalkCounts'
    BY <2>1, <2>3 DEF EventIInv, WalkCounts
  <2>5. ~disturbed' => ~disturbed /\ (EventType = publishing => EventType' = publishing)
    BY <2>1 DEF EventType
  <2>6. WalkReaches'
    BY <2>1, <2>3, <2>5 DEF EventIInv, WalkReaches
  <2> QED BY <2>1, <2>2, <2>4, <2>6 DEF EventIInv, SubscribersUnique
<1>4. ASSUME NEW t \in EventTypes, NEW d \in BOOLEAN, StartWalk(t, d), d => t = pending
      PROVE  EventIInv'
  <2>1. /\ publishing = NoEvent /\ publishing' = t /\ position' = 1 /\ draining' = d
        /\ atStart' = Subscribed(t)
        /\ UNCHANGED <<subscribers, inHandler, pending, changes, calls, again, disturbed>>
    BY <1>4 DEF StartWalk
  <2>2. ~inHandler /\ calls = NoCalls /\ again = NoCalls
    BY <2>1 DEF EventIInv, WalkCounts
  <2>3. /\ t # NoEvent /\ AheadFrom' = 1 /\ EventType' = t
        /\ \A x \in Subscriber : calls[x] = 0 /\ again[x] = 0
    BY <1>4, <2>1, <2>2 DEF AheadFrom, EventType, NoCalls
  <2>4. EventTypeOK'
    BY <2>1 DEF EventIInv, EventTypeOK, Subscribed
  <2>5. SubscribersUnique'
    BY <2>1 DEF EventIInv, SubscribersUnique
  <2>6. WalkCounts'
    BY <2>1, <2>2, <2>3, <1>b DEF WalkCounts
  <2>7. \A h \in Subscribed(t) : \E k \in DOMAIN subscribers :
          subscribers[k] = [type |-> t, handler |-> h]
    BY <1>b DEF Subscribed, Slots
  <2>8. WalkReaches'
    BY <2>1, <2>3, <2>7, <1>a, <1>b DEF WalkReaches
  <2> QED BY <2>4, <2>5, <2>6, <2>8 DEF EventIInv
<1>5. CASE SkipSubscriber \/ HandlerReturns
  <2>1. /\ UNCHANGED <<subscribers, publishing, pending, draining, changes, calls, again,
                       disturbed, atStart>>
        /\ position' = position + 1 /\ inHandler' = FALSE
        /\ publishing # NoEvent
        /\ inHandler \/ ( /\ position \in DOMAIN subscribers
                          /\ subscribers[position].type # EventType )
    BY <1>5, <1>a DEF SkipSubscriber, HandlerReturns, EventIInv, WalkCounts
  <2>2. AheadFrom' = position + 1
    BY <2>1 DEF AheadFrom
  <2>3. EventTypeOK'
    <3>1. inHandler' \in BOOLEAN /\ draining' \in BOOLEAN /\ disturbed' \in BOOLEAN
      BY <2>1 DEF EventIInv, EventTypeOK
    <3>2. position' \in Nat \ {0}
      BY <2>1, <1>a
    <3> QED BY <3>1, <3>2, <2>1 DEF EventIInv, EventTypeOK
  <2>4. SubscribersUnique'
    BY <2>1 DEF EventIInv, SubscribersUnique
  <2>5. CASE inHandler
    <3>1. AheadFrom' = AheadFrom /\ EventType' = EventType
      BY <2>1, <2>2, <2>5 DEF AheadFrom, EventType
    <3>2. WalkCounts'
      BY <2>1, <3>1 DEF EventIInv, WalkCounts
    <3>3. WalkReaches'
      BY <2>1, <3>1 DEF EventIInv, WalkReaches
    <3> QED BY <2>3, <2>4, <3>2, <3>3 DEF EventIInv
  <2>6. CASE ~inHandler
    <3>1. AheadFrom = position /\ AheadFrom' = AheadFrom + 1 /\ EventType' = EventType
      BY <2>1, <2>2, <2>6 DEF AheadFrom, EventType
    <3>2. WalkCounts'
      BY <2>1, <3>1, <1>a DEF EventIInv, WalkCounts
    <3>3. EventType = publishing =>
            \A k \in DOMAIN subscribers : subscribers[k].type = publishing =>
              (k < AheadFrom' <=> k < AheadFrom)
      BY <2>1, <2>6, <3>1, <1>a
    <3>4. AheadFrom' <= Len(subscribers) + 1
      BY <2>1, <2>6, <3>1, <1>a
    <3>5. WalkReaches'
      <4> SUFFICES ASSUME ~disturbed
                   PROVE  /\ EventType' = publishing
                          /\ \A k \in DOMAIN subscribers : calls[subscribers[k]] =
                               IF k < AheadFrom' /\ subscribers[k].type = publishing THEN 1 ELSE 0
        BY <2>1, <3>4 DEF EventIInv, WalkReaches
      <4>1. /\ EventType = publishing
            /\ \A k \in DOMAIN subscribers : calls[subscribers[k]] =
                 IF k < AheadFrom /\ subscribers[k].type = publishing THEN 1 ELSE 0
        BY <2>1 DEF EventIInv, WalkReaches
      <4> QED BY <3>1, <3>3, <4>1
    <3> QED BY <2>3, <2>4, <3>2, <3>5 DEF EventIInv
  <2> QED BY <2>5, <2>6
<1>6. CASE CallHandler
  <2> DEFINE g == subscribers[position]
  <2>1. /\ UNCHANGED <<subscribers, publishing, position, pending, draining, changes, again,
                       disturbed, atStart>>
        /\ publishing # NoEvent /\ ~inHandler /\ inHandler' = TRUE
        /\ position \in DOMAIN subscribers
        /\ g.type = EventType
        /\ calls' = [calls EXCEPT ![g] = @ + 1]
    BY <1>6, <1>a DEF CallHandler
  <2>2. g \in Subscriber
    BY <2>1, <1>b
  <2>3. AheadFrom = position /\ AheadFrom' = position + 1 /\ EventType' = EventType
    BY <2>1 DEF AheadFrom, EventType
  <2>4. /\ calls' \in [Subscriber -> Nat] /\ calls'[g] = calls[g] + 1
        /\ \A x \in Subscriber : x # g => calls'[x] = calls[x]
    BY <2>1, <2>2, <1>a
  <2>5. \A k \in DOMAIN subscribers : subscribers[k] = g => k = position
    BY <2>1 DEF EventIInv, SubscribersUnique
  <2>6. calls[g] <= again[g]
    BY <2>1, <2>3, <1>a DEF EventIInv, WalkCounts
  <2> HIDE DEF g
  <2>7. EventTypeOK'
    <3>1. inHandler' \in BOOLEAN /\ draining' \in BOOLEAN /\ disturbed' \in BOOLEAN
      BY <2>1 DEF EventIInv, EventTypeOK
    <3> QED BY <2>1, <2>4, <3>1 DEF EventIInv, EventTypeOK
  <2>8. SubscribersUnique'
    BY <2>1 DEF EventIInv, SubscribersUnique
  <2>9. WalkCounts'
    <3>1. ASSUME NEW x \in Subscriber PROVE calls'[x] <= 1 + again'[x]
      <4>1. calls[x] <= 1 + again[x]
        BY <2>1 DEF EventIInv, WalkCounts
      <4> QED BY <4>1, <2>1, <2>2, <2>4, <2>6, <1>a
    <3>2. ASSUME NEW k \in DOMAIN subscribers, k >= position + 1
          PROVE  calls'[subscribers[k]] <= again[subscribers[k]]
      <4>1. subscribers[k] # g
        BY <3>2, <2>5, <1>a
      <4>2. calls[subscribers[k]] <= again[subscribers[k]]
        BY <3>2, <2>1, <2>3, <1>a DEF EventIInv, WalkCounts
      <4> QED BY <4>1, <4>2, <2>4, <1>b
    <3> QED BY <3>1, <3>2, <2>1, <2>3 DEF WalkCounts
  <2>10. WalkReaches'
    <3> SUFFICES ASSUME ~disturbed
                 PROVE  /\ EventType = publishing
                        /\ position + 1 <= Len(subscribers) + 1
                        /\ \A h \in atStart : \E k \in DOMAIN subscribers :
                             subscribers[k] = [type |-> publishing, handler |-> h]
                        /\ \A k \in DOMAIN subscribers : calls'[subscribers[k]] =
                             IF k < position + 1 /\ subscribers[k].type = publishing THEN 1 ELSE 0
                        /\ \A x \in Subscriber : calls'[x] # 0 =>
                             x.type = publishing /\ \E k \in DOMAIN subscribers : subscribers[k] = x
      BY <2>1, <2>3 DEF WalkReaches
    <3>0. /\ EventType = publishing
          /\ \A h \in atStart : \E k \in DOMAIN subscribers :
               subscribers[k] = [type |-> publishing, handler |-> h]
          /\ \A k \in DOMAIN subscribers : calls[subscribers[k]] =
               IF k < position /\ subscribers[k].type = publishing THEN 1 ELSE 0
          /\ \A x \in Subscriber : calls[x] # 0 =>
               x.type = publishing /\ \E k \in DOMAIN subscribers : subscribers[k] = x
      BY <2>1, <2>3 DEF EventIInv, WalkReaches
    <3>1. ASSUME NEW k \in DOMAIN subscribers
          PROVE  calls'[subscribers[k]] =
                   IF k < position + 1 /\ subscribers[k].type = publishing THEN 1 ELSE 0
      <4>1. CASE k = position
        <5>1. subscribers[k] = g /\ g.type = publishing /\ calls[g] = 0
          BY <4>1, <3>0, <3>1, <2>1, <1>a DEF g
        <5>2. calls'[g] = 1
          BY <5>1, <2>4
        <5> QED BY <5>1, <5>2, <4>1, <1>a
      <4>2. CASE k # position
        <5>1. subscribers[k] # g /\ subscribers[k] \in Subscriber
          BY <4>2, <3>1, <2>5, <1>b
        <5>2. calls'[subscribers[k]] = calls[subscribers[k]]
          BY <5>1, <2>4
        <5>3. k < position + 1 <=> k < position
          BY <4>2, <3>1, <1>a
        <5> QED BY <5>2, <5>3, <3>0, <3>1
      <4> QED BY <4>1, <4>2
    <3>2. ASSUME NEW x \in Subscriber, calls'[x] # 0
          PROVE  x.type = publishing /\ \E k \in DOMAIN subscribers : subscribers[k] = x
      <4>1. CASE x = g
        BY <4>1, <3>0, <2>1 DEF g
      <4>2. CASE x # g
        BY <4>2, <3>0, <3>2, <2>4
      <4> QED BY <4>1, <4>2
    <3> QED BY <3>0, <3>1, <3>2, <2>1, <1>a
  <2> QED BY <2>7, <2>8, <2>9, <2>10 DEF EventIInv
<1>7. CASE WalkDone
  <2>1. /\ publishing' = NoEvent /\ pending' \in EventTypes \cup {NoEvent}
        /\ position' = 1 /\ draining' = FALSE /\ disturbed' = FALSE
        /\ calls' = NoCalls /\ again' = NoCalls /\ atStart' = {}
        /\ UNCHANGED <<subscribers, inHandler, changes>> /\ ~inHandler
    BY <1>7 DEF WalkDone, EventIInv, EventTypeOK
  <2>2. EventTypeOK'
    <3>1. inHandler' \in BOOLEAN /\ draining' \in BOOLEAN /\ disturbed' \in BOOLEAN
      BY <2>1 DEF EventIInv, EventTypeOK
    <3>2. calls' \in [Subscriber -> Nat] /\ again' \in [Subscriber -> Nat]
      BY <2>1 DEF NoCalls
    <3> QED BY <3>1, <3>2, <2>1 DEF EventIInv, EventTypeOK
  <2> QED BY <2>1, <2>2 DEF EventIInv, SubscribersUnique, WalkCounts, WalkReaches
<1>8. CASE UNCHANGED eventVars
  BY <1>8 DEF EventIInv, EventTypeOK, SubscribersUnique, WalkCounts, WalkReaches, AheadFrom,
              EventType, eventVars, walkVars
<1>9. CASE EventNext
  <2>1. ASSUME ProcessPending PROVE EventIInv'
    <3>1. pending \in EventTypes /\ StartWalk(pending, TRUE)
      BY <2>1 DEF ProcessPending, EventIInv, EventTypeOK
    <3> QED BY <3>1, <1>4
  <2>2. ASSUME NEW t \in EventTypes, Publish(t) PROVE EventIInv'
    BY <2>2, <1>4 DEF Publish
  <2> QED BY <1>9, <2>1, <2>2, <1>1, <1>2, <1>3, <1>5, <1>6, <1>7 DEF EventNext
<1> QED BY <1>8, <1>9

\* The invariant holds of every reachable state of the bus.
THEOREM EventInvariant == EventSpec => []EventIInv
<1>1. EventIInv /\ [EventNext]_eventVars => EventIInv'
  BY EventStep
<1> QED BY EventInitially, <1>1, PTL DEF EventSpec

\* The subscribers stay within their array (event_subscribe).
THEOREM EventTypeCorrect == EventSpec => []EventTypeOK
<1>1. EventIInv => EventTypeOK
  BY DEF EventIInv
<1> QED BY <1>1, EventInvariant, PTL

\* No handler is in the array twice for one event, wherever event_unsubscribe
\* moves the last subscriber to.
THEOREM SubscribersStayUnique == EventSpec => []SubscribersUnique
<1>1. EventIInv => SubscribersUnique
  BY DEF EventIInv
<1> QED BY <1>1, EventInvariant, PTL

\* event_publish uses a subscription once, and once more for each time that it
\* was made anew while it ran, whatever the handlers post meanwhile.
THEOREM CalledOnce == EventSpec => []CalledOncePerPublication
<1>1. EventIInv => CalledOncePerPublication
  BY DEF EventIInv, WalkCounts, CalledOncePerPublication
<1> QED BY <1>1, EventInvariant, PTL

\* event_publish reaches everyone and no one else, unless a handler unsubscribes
\* or replaces the pending event meanwhile.
THEOREM EveryoneReached == EventSpec => UndisturbedReachesAll
<1> DEFINE Due(x) == x.type = publishing /\ x.handler \in atStart \cup Subscribed(publishing)
<1>1. ASSUME EventIInv, [EventNext]_eventVars, publishing # NoEvent, publishing' = NoEvent,
             ~disturbed, NEW x \in Subscriber
      PROVE  calls[x] = IF Due(x) THEN 1 ELSE 0
  <2>1. WalkDone
    BY <1>1, EventAssumption
       DEF EventNext, Subscribe, Unsubscribe, PostPending, Publish, ProcessPending, StartWalk,
           SkipSubscriber, CallHandler, HandlerReturns, eventVars, walkVars
  <2>2. /\ ~inHandler /\ position > Len(subscribers)
        /\ subscribers \in Seq(Subscriber) /\ position \in Nat
        /\ calls \in [Subscriber -> Nat]
    BY <2>1, <1>1 DEF WalkDone, EventIInv, EventTypeOK
  <2>3. \A k \in DOMAIN subscribers : k < AheadFrom
    BY <2>2 DEF AheadFrom
  <2>4. CASE \E k \in DOMAIN subscribers : subscribers[k] = x /\ x.type = publishing
    <3>1. calls[x] = 1
      BY <1>1, <2>3, <2>4 DEF EventIInv, WalkReaches
    <3>2. x.handler \in Subscribed(publishing)
      BY <2>4, SubscriberIs DEF Subscribed, Slots
    <3> QED BY <3>1, <3>2, <2>4
  <2>5. CASE ~ \E k \in DOMAIN subscribers : subscribers[k] = x /\ x.type = publishing
    <3>1. calls[x] = 0
      BY <1>1, <2>5 DEF EventIInv, WalkReaches
    <3>2. ASSUME Due(x) PROVE FALSE
      <4>1. x = [type |-> publishing, handler |-> x.handler]
        BY <3>2, SubscriberIs
      <4>2. CASE x.handler \in atStart
        BY <4>1, <4>2, <1>1, <2>5 DEF EventIInv, WalkReaches
      <4>3. CASE x.handler \in Subscribed(publishing)
        <5>1. PICK k \in DOMAIN subscribers :
                subscribers[k].type = publishing /\ subscribers[k].handler = x.handler
          BY <4>3 DEF Subscribed, Slots
        <5>2. subscribers[k] \in Subscriber
          BY <5>1, <2>2
        <5>3. subscribers[k] = [type |-> publishing, handler |-> x.handler]
          BY <5>1, <5>2, SubscriberIs
        <5> QED BY <4>1, <5>3, <2>5, <3>2
      <4> QED BY <3>2, <4>2, <4>3
    <3> QED BY <3>1, <3>2
  <2> QED BY <2>4, <2>5
<1>2. EventIInv /\ [EventNext]_eventVars =>
        [publishing # NoEvent /\ publishing' = NoEvent /\ ~disturbed =>
           \A s \in Subscriber :
             calls[s] = IF s.type = publishing /\ s.handler \in atStart \cup Subscribed(publishing)
                          THEN 1 ELSE 0]_eventVars
  BY <1>1
<1> QED BY <1>2, EventInvariant, PTL DEF EventSpec, UndisturbedReachesAll

-------------------------------------------------------------------------------
(* The result cache.                                                          *)

\* What OneEntryPerQuery rests on: no entry is empty that the probe sequence of
\* a query meets before the query's own entry.
ProbesReach ==
  \A f \in Entries : cached[f].query # NoQuery =>
    \A e \in Entries :
      ProbeDistance(cached[f].query, e) < ProbeDistance(cached[f].query, f) =>
        cached[e].query # NoQuery

CacheIInv == CacheTypeOK /\ OneEntryPerQuery /\ AnswersAsStored /\ ProbesReach

\* A set of numbers has a least one.
LEMMA LeastOf ==
  ASSUME NEW T \in SUBSET Nat, T # {}
  PROVE  \E x \in T : \A y \in T : x <= y
<1>1. PICK x \in T : \A y \in T : ~ (<<y, x>> \in OpToRel(<, Nat))
  BY WFMin, NatLessThanWellFounded
<1>2. ASSUME NEW y \in T, y < x PROVE <<y, x>> \in {ss \in Nat \X Nat : ss[1] < ss[2]}
  <2>1. <<y, x>> \in Nat \X Nat /\ <<y, x>>[1] = y /\ <<y, x>>[2] = x
    OBVIOUS
  <2> QED BY <1>2, <2>1
<1>3. ASSUME NEW y \in T PROVE ~(y < x)
  BY <1>1, <1>2 DEF OpToRel
<1> QED BY <1>3

LEMMA LeastAt ==
  ASSUME NEW S, S # {}, NEW f \in [S -> Nat]
  PROVE  \E x \in S : \A y \in S : f[x] <= f[y]
<1> DEFINE T == {f[x] : x \in S}
<1>1. T \in SUBSET Nat /\ T # {}
  OBVIOUS
<1>2. \A x \in S : f[x] \in T
  OBVIOUS
<1> HIDE DEF T
<1>3. PICK t \in T : \A u \in T : t <= u
  BY <1>1, LeastOf
<1>4. PICK x \in S : t = f[x]
  BY <1>3 DEF T
<1> QED BY <1>2, <1>3, <1>4

LEMMA RemainderIs ==
  ASSUME NEW n \in Nat \ {0}, NEW x \in 0..(2 * n - 1)
  PROVE  x % n = IF x < n THEN x ELSE x - n
OBVIOUS

\* A probe sequence meets every entry once.
LEMMA ProbeDistances ==
  ASSUME NEW q \in CacheQueries
  PROVE  /\ \A e \in Entries : ProbeDistance(q, e) \in Nat
         /\ \A e, f \in Entries : ProbeDistance(q, e) = ProbeDistance(q, f) => e = f
<1>1. Size \in Nat \ {0} /\ Hash[q] \in 0..(Size - 1)
  BY CacheAssumption
<1>2. ASSUME NEW e \in Entries
      PROVE  ProbeDistance(q, e) = IF e >= Hash[q] THEN e - Hash[q] ELSE e - Hash[q] + Size
  <2>1. e \in 0..(Size - 1) /\ e - Hash[q] + Size \in 0..(2 * Size - 1)
    BY <1>1 DEF Entries
  <2>2. (e - Hash[q] + Size) % Size =
          IF e - Hash[q] + Size < Size THEN e - Hash[q] + Size ELSE e - Hash[q] + Size - Size
    BY <1>1, <2>1, RemainderIs
  <2> QED BY <1>1, <2>1, <2>2 DEF ProbeDistance
<1>3. \A e \in Entries : ProbeDistance(q, e) \in Nat
  BY <1>1, <1>2 DEF Entries
<1>4. \A e, f \in Entries : ProbeDistance(q, e) = ProbeDistance(q, f) => e = f
  BY <1>1, <1>2 DEF Entries
<1> QED BY <1>3, <1>4

LEMMA FirstProbedIs ==
  ASSUME NEW q \in CacheQueries, NEW S \in SUBSET Entries, S # {}
  PROVE  /\ FirstProbed(q, S) \in S
         /\ \A f \in S : ProbeDistance(q, FirstProbed(q, S)) <= ProbeDistance(q, f)
<1>1. [e \in S |-> ProbeDistance(q, e)] \in [S -> Nat]
  BY ProbeDistances
<1>2. \E e \in S : \A f \in S : ProbeDistance(q, e) <= ProbeDistance(q, f)
  <2>1. PICK e \in S : \A f \in S : [x \in S |-> ProbeDistance(q, x)][e] <=
                                    [x \in S |-> ProbeDistance(q, x)][f]
    BY <1>1, LeastAt
  <2> QED BY <2>1
<1> QED BY <1>2 DEF FirstProbed

\* The entry that is evicted is the oldest of all when there is one whose
\* timestamp is not yet to come.
LEMMA VictimIs ==
  ASSUME CacheTypeOK
  PROVE  /\ Victim \in Entries
         /\ \/ \A f \in Entries : cached[Victim].time <= cached[f].time
            \/ \A f \in Entries : cached[f].time > clock
<1> DEFINE past == {e \in Entries : cached[e].time < clock + 1}
<1>1. Entries \in SUBSET Nat /\ 0 \in Entries
  BY CacheAssumption DEF Entries
<1>2. clock \in Nat /\ \A e \in Entries : cached[e].time \in Nat
  BY CacheAssumption DEF CacheTypeOK, Entry
<1>3. CASE past = {}
  BY <1>1, <1>2, <1>3 DEF Victim
<1>4. CASE past # {}
  <2>1. [e \in past |-> cached[e].time] \in [past -> Nat]
    BY <1>2
  <2>2. PICK g \in past : \A f \in past : cached[g].time <= cached[f].time
    <3>1. PICK g \in past : \A f \in past : [e \in past |-> cached[e].time][g] <=
                                            [e \in past |-> cached[e].time][f]
      BY <2>1, <1>4, LeastAt
    <3> QED BY <3>1
  <2>3. /\ {e \in past : cached[e].time = cached[g].time} \in SUBSET Nat
        /\ {e \in past : cached[e].time = cached[g].time} # {}
    BY <1>1, <2>2
  <2>4. PICK e \in past : /\ cached[e].time = cached[g].time
                          /\ \A f \in past : cached[f].time = cached[g].time => e <= f
    BY <2>3, LeastOf
  <2>5. \A f \in past :
          cached[e].time < cached[f].time \/ (cached[e].time = cached[f].time /\ e <= f)
    BY <1>2, <2>2, <2>4
  <2> HIDE DEF past
  <2> DEFINE Oldest(x) ==
        \A f \in past :
          cached[x].time < cached[f].time \/ (cached[x].time = cached[f].time /\ x <= f)
  <2>6. Victim = CHOOSE x \in past : Oldest(x)
    BY <1>4 DEF Victim, past
  <2>7. Victim \in past /\ Oldest(Victim)
    <3>1. \E x \in past : Oldest(x)
      BY <2>5
    <3> HIDE DEF Oldest
    <3> QED BY <2>6, <3>1
  <2>8. Victim \in Entries /\ cached[Victim].time < clock + 1
    BY <2>7 DEF past
  <2>9. \A f \in Entries : cached[Victim].time <= cached[f].time
    <3>1. ASSUME NEW f \in Entries, f \notin past PROVE cached[Victim].time <= cached[f].time
      BY <1>2, <2>8, <3>1 DEF past
    <3>2. ASSUME NEW f \in Entries, f \in past PROVE cached[Victim].time <= cached[f].time
      BY <1>2, <2>7, <2>8, <3>2
    <3> QED BY <3>1, <3>2
  <2> QED BY <2>8, <2>9
<1> QED BY <1>3, <1>4

LEMMA StampIsNat == ASSUME CacheTypeOK PROVE Timestamp \in Nat
<1>1. clock \in Nat /\ stores \in Nat /\ DriftStep \in Nat \ {0}
  BY CacheAssumption DEF CacheTypeOK
<1>2. stores \div DriftStep \in Nat
  BY <1>1
<1> QED BY <1>1, <1>2 DEF Timestamp

\* A use of an entry changes its timestamp only.
LEMMA TouchKeeps ==
  ASSUME CacheIInv, NEW e \in Entries,
         cached' = [cached EXCEPT ![e].time = Timestamp],
         lastUsed' = [lastUsed EXCEPT ![e] = clock],
         clock' = clock, stores' \in 0..MaxStores, given' = given
  PROVE  CacheIInv'
<1>1. /\ Timestamp \in Nat /\ cached \in [Entries -> Entry] /\ clock \in Nat
      /\ clock \in 0..LastSecond /\ lastUsed \in [Entries -> Nat]
      /\ given \in [CacheQueries -> CacheAnswers]
  BY StampIsNat, CacheAssumption DEF CacheIInv, CacheTypeOK
<1>2. cached' \in [Entries -> Entry]
  <2>1. [cached[e] EXCEPT !.time = Timestamp] \in Entry
    BY <1>1 DEF Entry
  <2> QED BY <1>1, <2>1
<1>3. \A f \in Entries : /\ cached'[f].query = cached[f].query
                         /\ cached'[f].answer = cached[f].answer
  BY <1>1 DEF Entry
<1>4. CacheTypeOK'
  BY <1>1, <1>2 DEF CacheTypeOK
<1>5. OneEntryPerQuery' /\ AnswersAsStored'
  BY <1>3 DEF CacheIInv, OneEntryPerQuery, AnswersAsStored
<1>6. ProbesReach'
  BY <1>3 DEF CacheIInv, ProbesReach, ProbeDistance
<1> QED BY <1>4, <1>5, <1>6 DEF CacheIInv

\* A query that is not in the table gets an entry, with no empty one before it.
LEMMA FillKeeps ==
  ASSUME CacheIInv, NEW e \in Entries, NEW q \in CacheQueries, NEW a \in CacheAnswers,
         Holding(cached, q) = {},
         \A f \in Entries : ProbeDistance(q, f) < ProbeDistance(q, e) => cached[f].query # NoQuery,
         cached' = [cached EXCEPT ![e] = NewEntry(q, a)],
         lastUsed' = [lastUsed EXCEPT ![e] = clock],
         clock' = clock, stores' \in 0..MaxStores,
         given' = [given EXCEPT ![q] = a]
  PROVE  CacheIInv'
<1>1. /\ Timestamp \in Nat /\ cached \in [Entries -> Entry] /\ clock \in Nat
      /\ clock \in 0..LastSecond /\ lastUsed \in [Entries -> Nat]
      /\ given \in [CacheQueries -> CacheAnswers] /\ NoQuery \notin CacheQueries
  BY StampIsNat, CacheAssumption DEF CacheIInv, CacheTypeOK
<1>2. NewEntry(q, a) \in Entry /\ NewEntry(q, a).query = q /\ NewEntry(q, a).answer = a
  BY <1>1 DEF NewEntry, Entry
<1>3. /\ cached' \in [Entries -> Entry] /\ cached'[e] = NewEntry(q, a)
      /\ \A f \in Entries : f # e => cached'[f] = cached[f]
  BY <1>1, <1>2
<1>4. \A f \in Entries : cached[f].query # q
  BY <1>1 DEF Holding
<1>5. CacheTypeOK'
  BY <1>1, <1>3 DEF CacheTypeOK
<1>6. OneEntryPerQuery'
  BY <1>2, <1>3, <1>4 DEF CacheIInv, OneEntryPerQuery
<1>7. AnswersAsStored'
  <2> SUFFICES ASSUME NEW f \in Entries, cached'[f].query # NoQuery
               PROVE  cached'[f].answer = given'[cached'[f].query]
    BY DEF AnswersAsStored
  <2>1. CASE f = e
    BY <2>1, <1>1, <1>2, <1>3
  <2>2. CASE f # e
    <3>1. cached[f].query \in CacheQueries /\ cached[f].query # q
      BY <2>2, <1>1, <1>3, <1>4 DEF Entry
    <3>2. cached[f].answer = given[cached[f].query]
      BY <2>2, <1>3 DEF CacheIInv, AnswersAsStored
    <3> QED BY <2>2, <3>1, <3>2, <1>1, <1>3
  <2> QED BY <2>1, <2>2
<1>8. ProbesReach'
  <2> SUFFICES ASSUME NEW f \in Entries, cached'[f].query # NoQuery, NEW g \in Entries,
                      ProbeDistance(cached'[f].query, g) < ProbeDistance(cached'[f].query, f)
               PROVE  cached'[g].query # NoQuery
    BY DEF ProbesReach, ProbeDistance
  <2>1. CASE g = e
    BY <2>1, <1>1, <1>2, <1>3
  <2>2. CASE g # e /\ f = e
    <3>1. cached'[f].query = q
      BY <2>2, <1>2, <1>3
    <3> QED BY <2>2, <3>1, <1>3
  <2>3. CASE g # e /\ f # e
    BY <2>3, <1>3 DEF CacheIInv, ProbesReach
  <2> QED BY <2>1, <2>2, <2>3
<1> QED BY <1>5, <1>6, <1>7, <1>8 DEF CacheIInv

\* When a store stops at an unused entry the query has none behind it.
LEMMA EmptyIsFirst ==
  ASSUME CacheIInv, NEW q \in CacheQueries, NEW a \in CacheAnswers, StoreInEmpty(q, a)
  PROVE  /\ Holding(cached, q) = {}
         /\ \E e \in Entries :
              /\ cached' = [cached EXCEPT ![e] = NewEntry(q, a)]
              /\ lastUsed' = [lastUsed EXCEPT ![e] = clock]
              /\ \A f \in Entries :
                   ProbeDistance(q, f) < ProbeDistance(q, e) => cached[f].query # NoQuery
<1>1. cached \in [Entries -> Entry] /\ DOMAIN cached = Entries /\ NoQuery \notin CacheQueries
  BY CacheAssumption DEF CacheIInv, CacheTypeOK
<1>3. Target(q) \in SUBSET Entries
  BY <1>1 DEF Target, Empty, Holding
<1>4. PICK e : /\ e = FirstProbed(q, Target(q)) /\ cached[e].query = NoQuery
               /\ cached' = [cached EXCEPT ![e] = NewEntry(q, a)]
               /\ lastUsed' = [lastUsed EXCEPT ![e] = clock]
               /\ Target(q) # {}
  BY DEF StoreInEmpty
<1>5. e \in Target(q) /\ \A f \in Target(q) : ProbeDistance(q, e) <= ProbeDistance(q, f)
  BY <1>3, <1>4, FirstProbedIs
<1>6. e \in Entries
  BY <1>3, <1>5
<1>7. \A f \in Entries : ProbeDistance(q, f) < ProbeDistance(q, e) => cached[f].query # NoQuery
  <2> SUFFICES ASSUME NEW f \in Entries, ProbeDistance(q, f) < ProbeDistance(q, e),
                      cached[f].query = NoQuery
               PROVE  FALSE
    OBVIOUS
  <2>1. f \in Target(q)
    BY <1>1 DEF Target, Empty
  <2>2. ProbeDistance(q, e) \in Nat /\ ProbeDistance(q, f) \in Nat
    BY <1>6, ProbeDistances
  <2> QED BY <1>5, <2>1, <2>2
<1>8. Holding(cached, q) = {}
  <2> SUFFICES ASSUME NEW f \in Holding(cached, q) PROVE FALSE
    OBVIOUS
  <2>1. f \in Entries /\ cached[f].query = q /\ q # NoQuery /\ f # e /\ f \in Target(q)
    BY <1>1, <1>4 DEF Holding, Target
  <2>2. ProbeDistance(q, e) < ProbeDistance(q, f)
    BY <1>5, <1>6, <2>1, ProbeDistances
  <2> QED BY <1>4, <1>6, <2>1, <2>2 DEF CacheIInv, ProbesReach
<1> QED BY <1>4, <1>6, <1>7, <1>8

\* cache_store keeps the invariant, in each of its three ways.
LEMMA StoreKeeps ==
  ASSUME CacheIInv, NEW q \in CacheQueries, NEW a \in CacheAnswers, CacheStored(q, a)
  PROVE  CacheIInv'
<1>1. cached \in [Entries -> Entry] /\ DOMAIN cached = Entries /\ NoQuery \notin CacheQueries
  BY CacheAssumption DEF CacheIInv, CacheTypeOK
<1>2. /\ stores' \in 0..MaxStores /\ clock' = clock
      /\ given' = IF Holding(cached, q) = {} THEN [given EXCEPT ![q] = a] ELSE given
  BY CacheAssumption DEF CacheStored, CacheIInv, CacheTypeOK
<1>3. Target(q) \in SUBSET Entries
  BY <1>1 DEF Target, Empty, Holding
<1>4. CASE StoreInEmpty(q, a)
  <2>1. given' = [given EXCEPT ![q] = a]
    BY <1>2, <1>4, EmptyIsFirst
  <2>2. PICK e \in Entries :
          /\ cached' = [cached EXCEPT ![e] = NewEntry(q, a)]
          /\ lastUsed' = [lastUsed EXCEPT ![e] = clock]
          /\ \A f \in Entries :
               ProbeDistance(q, f) < ProbeDistance(q, e) => cached[f].query # NoQuery
    BY <1>4, EmptyIsFirst
  <2>3. Holding(cached, q) = {}
    BY <1>4, EmptyIsFirst
  <2> QED BY <1>2, <2>1, <2>2, <2>3, FillKeeps
<1>5. CASE StoreOnHolder(q)
  <2>1. PICK e : /\ e = FirstProbed(q, Target(q)) /\ cached[e].query = q
                 /\ cached' = [cached EXCEPT ![e].time = Timestamp]
                 /\ lastUsed' = [lastUsed EXCEPT ![e] = clock]
                 /\ Target(q) # {}
    BY <1>5 DEF StoreOnHolder
  <2>2. e \in Entries
    BY <2>1, <1>3, FirstProbedIs
  <2>3. given' = given
    BY <2>1, <2>2, <1>1, <1>2 DEF Holding
  <2> QED BY <2>1, <2>2, <2>3, <1>2, TouchKeeps
<1>6. CASE StoreEvicting(q, a)
  <2>1. /\ Target(q) = {} /\ Victim \in Entries
        /\ cached' = [cached EXCEPT ![Victim] = NewEntry(q, a)]
        /\ lastUsed' = [lastUsed EXCEPT ![Victim] = clock]
    BY <1>6, VictimIs DEF StoreEvicting, CacheIInv
  <2>2. Holding(cached, q) = {} /\ \A f \in Entries : cached[f].query # NoQuery
    BY <2>1, <1>1 DEF Target, Empty
  <2>3. given' = [given EXCEPT ![q] = a]
    BY <2>2, <1>2
  <2> QED BY <2>1, <2>2, <2>3, <1>2, FillKeeps
<1> QED BY <1>4, <1>5, <1>6 DEF CacheStored

\* A table without entries satisfies the invariant.
LEMMA UnusedIsFine ==
  ASSUME cached = [e \in Entries |-> Unused]
  PROVE  cached \in [Entries -> Entry] /\ OneEntryPerQuery /\ AnswersAsStored /\ ProbesReach
<1>1. Unused \in Entry /\ Unused.query = NoQuery
  BY CacheAssumption DEF Unused, Entry
<1>2. \A e \in Entries : cached[e].query = NoQuery
  BY <1>1
<1>3. cached \in [Entries -> Entry]
  BY <1>1
<1> QED BY <1>2, <1>3 DEF OneEntryPerQuery, AnswersAsStored, ProbesReach

\* The invariant holds of every reachable table.
THEOREM CacheInvariant == CacheSpec => []CacheIInv
<1>1. CacheInit => CacheIInv
  <2> SUFFICES ASSUME CacheInit PROVE CacheIInv
    OBVIOUS
  <2>1. clock \in 0..LastSecond /\ stores \in 0..MaxStores
    BY CacheAssumption DEF CacheInit
  <2>2. lastUsed \in [Entries -> Nat] /\ given \in [CacheQueries -> CacheAnswers]
    BY CacheAssumption DEF CacheInit
  <2> QED BY <2>1, <2>2, UnusedIsFine DEF CacheInit, CacheIInv, CacheTypeOK
<1>2. CacheIInv /\ [CacheNext]_cacheVars => CacheIInv'
  <2> SUFFICES ASSUME CacheIInv, [CacheNext]_cacheVars PROVE CacheIInv'
    OBVIOUS
  <2>1. ASSUME NEW q \in CacheQueries, CacheHit(q) PROVE CacheIInv'
    <3>1. PICK e : /\ e = FirstProbed(q, Holding(cached, q)) /\ Holding(cached, q) # {}
                   /\ cached' = [cached EXCEPT ![e].time = Timestamp]
                   /\ lastUsed' = [lastUsed EXCEPT ![e] = clock]
                   /\ clock' = clock /\ stores' = stores /\ given' = given
      BY <2>1 DEF CacheHit
    <3>2. e \in Entries /\ stores' \in 0..MaxStores
      <4>1. Holding(cached, q) \in SUBSET Entries
        BY DEF Holding, CacheIInv, CacheTypeOK
      <4> QED BY <3>1, <4>1, FirstProbedIs DEF CacheIInv, CacheTypeOK
    <3> QED BY <3>1, <3>2, TouchKeeps
  <2>2. CASE CacheClear
    <3>1. /\ cached' = [e \in Entries |-> Unused] /\ lastUsed' = [e \in Entries |-> 0]
          /\ stores' = 0 /\ clock' = clock /\ given' = given
      BY <2>2 DEF CacheClear
    <3>2. cached' \in [Entries -> Entry] /\ OneEntryPerQuery' /\ AnswersAsStored' /\ ProbesReach'
      <4>1. Unused \in Entry /\ Unused.query = NoQuery
        BY CacheAssumption DEF Unused, Entry
      <4>2. cached' \in [Entries -> Entry] /\ \A e \in Entries : cached'[e].query = NoQuery
        BY <3>1, <4>1
      <4> QED BY <4>2 DEF OneEntryPerQuery, AnswersAsStored, ProbesReach
    <3>3. CacheTypeOK'
      BY <3>1, <3>2, CacheAssumption DEF CacheIInv, CacheTypeOK
    <3> QED BY <3>2, <3>3 DEF CacheIInv
  <2>3. CASE ClockTick
    BY <2>3, CacheAssumption
       DEF ClockTick, CacheIInv, CacheTypeOK, OneEntryPerQuery, AnswersAsStored, ProbesReach,
           ProbeDistance
  <2>4. CASE UNCHANGED cacheVars
    BY <2>4 DEF cacheVars, CacheIInv, CacheTypeOK, OneEntryPerQuery, AnswersAsStored,
                ProbesReach, ProbeDistance
  <2> QED BY <2>1, <2>2, <2>3, <2>4, StoreKeeps DEF CacheNext
<1> QED BY <1>1, <1>2, PTL DEF CacheSpec

\* The table's fields stay in their ranges.
THEOREM CacheTypeCorrect == CacheSpec => []CacheTypeOK
<1>1. CacheIInv => CacheTypeOK
  BY DEF CacheIInv
<1> QED BY <1>1, CacheInvariant, PTL

\* cache_store never gives a query a second entry.
THEOREM OneEntryOnly == CacheSpec => []OneEntryPerQuery
<1>1. CacheIInv => OneEntryPerQuery
  BY DEF CacheIInv
<1> QED BY <1>1, CacheInvariant, PTL

\* cache_lookup finds for a query what cache_store put there for that query.
THEOREM CachedAsStored == CacheSpec => []AnswersAsStored
<1>1. CacheIInv => AnswersAsStored
  BY DEF CacheIInv
<1> QED BY <1>1, CacheInvariant, PTL

-------------------------------------------------------------------------------
(* The table is a cache.                                                      *)

\* A table in which no query has two entries.
Unique(t) ==
  /\ t \in [Entries -> Entry]
  /\ \A e, f \in Entries : t[e].query = t[f].query /\ e # f => t[e].query = NoQuery

\* A lookup finds the answer of the query's entry, if there is one.
LEMMA FoundIs ==
  ASSUME NEW t, Unique(t), NEW q \in CacheQueries
  PROVE  /\ Holding(t, q) = {} <=> \A e \in Entries : t[e].query # q
         /\ Holding(t, q) = {} <=> Found(t, q) = NoAnswer
         /\ \A e \in Entries : t[e].query = q => Found(t, q) = t[e].answer
<1>1. q # NoQuery /\ NoAnswer \notin CacheAnswers
  BY CacheAssumption
<1>2. t \in [Entries -> Entry] /\ DOMAIN t = Entries
  BY DEF Unique
<1>3. Holding(t, q) = {} <=> \A e \in Entries : t[e].query # q
  BY <1>2 DEF Holding
<1>4. ASSUME NEW e \in Entries, t[e].query = q PROVE Found(t, q) = t[e].answer
  <2>1. e \in Holding(t, q) /\ Holding(t, q) \in SUBSET Entries
    BY <1>2, <1>4 DEF Holding
  <2>2. \A f \in Holding(t, q) : f = e
    BY <1>1, <1>2, <1>4 DEF Holding, Unique
  <2>3. FirstProbed(q, Holding(t, q)) = e
    BY <2>1, <2>2, FirstProbedIs
  <2> QED BY <2>1, <2>3 DEF Found
<1>5. ASSUME Holding(t, q) # {} PROVE Found(t, q) # NoAnswer
  <2>1. PICK e \in Entries : t[e].query = q
    BY <1>3, <1>5
  <2>2. t[e].answer \in CacheAnswers
    BY <1>2 DEF Entry
  <2> QED BY <1>1, <1>4, <2>1, <2>2
<1> QED BY <1>3, <1>4, <1>5 DEF Found

\* Timestamps are nothing to a lookup.
LEMMA TouchFinds ==
  ASSUME NEW t, Unique(t), NEW u, Unique(u), NEW q \in CacheQueries,
         \A e \in Entries : u[e].query = t[e].query /\ u[e].answer = t[e].answer
  PROVE  Found(u, q) = Found(t, q)
<1>1. CASE Holding(t, q) = {}
  <2>1. Found(t, q) = NoAnswer /\ \A e \in Entries : u[e].query # q
    BY <1>1, FoundIs
  <2>2. Holding(u, q) = {}
    BY <2>1, FoundIs
  <2> QED BY <2>1, <2>2, FoundIs
<1>2. CASE Holding(t, q) # {}
  <2>1. PICK e \in Entries : t[e].query = q
    BY <1>2, FoundIs
  <2>2. Found(t, q) = t[e].answer
    BY <2>1, FoundIs
  <2>3. u[e].query = q
    BY <2>1
  <2>4. Found(u, q) = u[e].answer
    BY <2>3, FoundIs
  <2> QED BY <2>2, <2>4
<1> QED BY <1>1, <1>2

\* What fills an entry takes the answer of the query that had it, and leaves
\* all others.
LEMMA FillFinds ==
  ASSUME NEW t, Unique(t), NEW e \in Entries, NEW q \in CacheQueries, NEW new,
         new.query = q, Holding(t, q) = {},
         NEW u, Unique(u), u[e] = new, \A f \in Entries : f # e => u[f] = t[f],
         NEW p \in CacheQueries
  PROVE  Found(u, p) = IF p = q THEN new.answer
                       ELSE IF p = t[e].query THEN NoAnswer ELSE Found(t, p)
<1>1. u[e] = new /\ \A f \in Entries : f # e => u[f] = t[f]
  OBVIOUS
<1>a. \A v : Unique(v) => \A f \in Entries : v[f].query = p => Found(v, p) = v[f].answer
  BY FoundIs, Zenon
<1>2. CASE p = q
  <2>1. u[e].query = p
    BY <1>1, <1>2
  <2>2. Found(u, p) = u[e].answer
    BY <1>a, <2>1, Zenon
  <2> QED BY <1>1, <1>2, <2>2
<1>3. CASE p # q /\ p = t[e].query
  <2>1. p # NoQuery
    BY CacheAssumption
  <2>2. \A f \in Entries : u[f].query # p
    BY <1>1, <1>3, <2>1 DEF Unique
  <2>3. Holding(u, p) = {}
    BY <2>2, FoundIs
  <2>4. Found(u, p) = NoAnswer
    BY <2>3, FoundIs
  <2> QED BY <1>3, <2>4
<1>4. CASE p # q /\ p # t[e].query
  <2>1. CASE Holding(t, p) = {}
    <3>1. \A f \in Entries : t[f].query # p
      BY <2>1, FoundIs
    <3>2. \A f \in Entries : u[f].query # p
      BY <1>1, <1>4, <3>1
    <3>3. Holding(u, p) = {}
      BY <3>2, FoundIs
    <3> QED BY <1>4, <2>1, <3>3 DEF Found
  <2>2. CASE Holding(t, p) # {}
    <3>1. PICK f \in Entries : t[f].query = p
      BY <2>2, FoundIs
    <3>2. u[f] = t[f]
      BY <1>1, <1>4, <3>1
    <3>3. Found(t, p) = t[f].answer
      BY <3>1, FoundIs
    <3>4. u[f].query = p
      BY <3>1, <3>2
    <3>5. Found(u, p) = u[f].answer
      BY <1>a, <3>4, Zenon
    <3> QED BY <1>4, <3>2, <3>3, <3>5
  <2> QED BY <2>1, <2>2
<1> QED BY <1>2, <1>3, <1>4

\* What users of the cache see of the table.
Held == [x \in CacheQueries |-> Found(cached, x)]

LEMMA TableIsUnique == CacheIInv => Unique(cached)
BY DEF CacheIInv, CacheTypeOK, OneEntryPerQuery, Unique

\* A use of an entry is seen by nobody.
LEMMA TouchIsStutter ==
  ASSUME CacheIInv, CacheIInv', NEW e \in Entries, cached' = [cached EXCEPT ![e].time = Timestamp]
  PROVE  Held' = Held
<1>1. Unique(cached) /\ Unique(cached')
  BY DEF CacheIInv, CacheTypeOK, OneEntryPerQuery, Unique
<1>2. \A f \in Entries : cached'[f].query = cached[f].query /\ cached'[f].answer = cached[f].answer
  BY DEF CacheIInv, CacheTypeOK, Entry
<1>3. \A x \in CacheQueries : Found(cached', x) = Found(cached, x)
  BY <1>1, <1>2, TouchFinds
<1> QED BY <1>3 DEF Held

Filled(e, q, a) == cached' = [cached EXCEPT ![e] = NewEntry(q, a)]

\* A query without an entry gets one: it has the answer, and only the query
\* whose entry it was has lost its own.
LEMMA FillIsStore ==
  ASSUME CacheIInv, CacheIInv', NEW e \in Entries, NEW q \in CacheQueries, NEW a \in CacheAnswers,
         Holding(cached, q) = {}, Filled(e, q, a)
  PROVE  Map!Store(q, a)
<1>1. Unique(cached) /\ Unique(cached')
  BY DEF CacheIInv, CacheTypeOK, OneEntryPerQuery, Unique
<1> DEFINE new == NewEntry(q, a)
           p == IF cached[e].query \in CacheQueries THEN cached[e].query ELSE q
<1>2. new.query = q /\ new.answer = a
  BY DEF NewEntry
<1> HIDE DEF new
<1>3. ASSUME NEW x \in CacheQueries
      PROVE  Found(cached', x) = IF x = q THEN a
                                 ELSE IF x = cached[e].query THEN NoAnswer ELSE Found(cached, x)
  <2>1. cached'[e] = new /\ \A f \in Entries : f # e => cached'[f] = cached[f]
    BY <1>1 DEF new, Filled, Unique
  <2> QED BY <1>1, <1>2, <2>1, FillFinds
<1>4. p \in CacheQueries
  OBVIOUS
<1>5. \A x \in CacheQueries : Held'[x] = [Held EXCEPT ![p] = NoAnswer, ![q] = a][x]
  <2> SUFFICES ASSUME NEW x \in CacheQueries
               PROVE  Held'[x] = [Held EXCEPT ![p] = NoAnswer, ![q] = a][x]
    OBVIOUS
  <2>1. Held'[x] = Found(cached', x) /\ Held[x] = Found(cached, x)
    BY DEF Held
  <2>2. [Held EXCEPT ![p] = NoAnswer, ![q] = a][x] =
          IF x = q THEN a ELSE IF x = p THEN NoAnswer ELSE Held[x]
    BY DEF Held
  <2> QED BY <1>3, <2>1, <2>2
<1>6. Held' = [Held EXCEPT ![p] = NoAnswer, ![q] = a]
  BY <1>5 DEF Held
<1>7. Held[q] = NoAnswer
  BY <1>1, FoundIs DEF Held
<1> QED BY <1>4, <1>6, <1>7 DEF Map!Store, Held

\* cache_store is the store of the abstract cache, with the same query and the
\* same answer.
LEMMA StoreIsStore ==
  ASSUME CacheIInv, CacheIInv', NEW q \in CacheQueries, NEW a \in CacheAnswers, CacheStored(q, a)
  PROVE  Map!Store(q, a)
<1>1. cached \in [Entries -> Entry] /\ DOMAIN cached = Entries /\ Unique(cached)
  BY TableIsUnique DEF CacheIInv, CacheTypeOK
<1>2. Held[q] = Found(cached, q)
  BY DEF Held
<1>3. Target(q) \in SUBSET Entries
  BY <1>1 DEF Target, Empty, Holding
<1>4. CASE StoreInEmpty(q, a)
  <2>1. PICK e \in Entries : Filled(e, q, a)
    BY <1>4, EmptyIsFirst DEF Filled
  <2>2. Holding(cached, q) = {}
    BY <1>4, EmptyIsFirst
  <2> QED BY <2>1, <2>2, FillIsStore
<1>5. CASE StoreOnHolder(q)
  <2>1. PICK e : /\ e = FirstProbed(q, Target(q)) /\ cached[e].query = q /\ Target(q) # {}
                 /\ cached' = [cached EXCEPT ![e].time = Timestamp]
    BY <1>5 DEF StoreOnHolder
  <2>2. e \in Entries
    BY <1>3, <2>1, FirstProbedIs
  <2>3. Held[q] # NoAnswer
    BY <1>1, <1>2, <2>1, <2>2, FoundIs
  <2>4. Held' = Held
    BY <2>1, <2>2, TouchIsStutter
  <2> QED BY <2>3, <2>4 DEF Map!Store, Held
<1>6. CASE StoreEvicting(q, a)
  <2>1. /\ Target(q) = {} /\ Victim \in Entries
        /\ Filled(Victim, q, a)
    BY <1>6, VictimIs DEF StoreEvicting, CacheIInv, Filled
  <2>2. Holding(cached, q) = {}
    BY <2>1 DEF Target
  <2> QED BY <2>1, <2>2, FillIsStore
<1> QED BY <1>4, <1>5, <1>6 DEF CacheStored

\* No entry, no answer.
LEMMA UnusedIsEmpty ==
  ASSUME NEW t, t = [e \in Entries |-> Unused], NEW q \in CacheQueries
  PROVE  Found(t, q) = NoAnswer
<1>1. \A e \in Entries : t[e].query # q
  BY CacheAssumption DEF Unused
<1>2. Holding(t, q) = {}
  BY <1>1 DEF Holding
<1> QED BY <1>2 DEF Found

\* The hash table, with its collisions and evictions, is the cache that the
\* pipeline uses: an answer stays until its query makes room or all is cleared,
\* a store disturbs one other query at most, and lookups disturb none.
THEOREM TableIsCache == CacheSpec => ImplementsCacheMap
<1>1. CacheInit => Map!MapInit
  <2> SUFFICES ASSUME CacheInit PROVE Map!MapInit
    OBVIOUS
  <2>1. \A x \in CacheQueries : Found(cached, x) = NoAnswer
    BY UnusedIsEmpty DEF CacheInit
  <2> QED BY <2>1 DEF Map!MapInit
<1>2. CacheIInv /\ CacheIInv' /\ [CacheNext]_cacheVars => [Map!MapNext]_Held
  <2> SUFFICES ASSUME CacheIInv, CacheIInv', [CacheNext]_cacheVars PROVE Map!MapNext \/ Held' = Held
    OBVIOUS
  <2>1. ASSUME NEW q \in CacheQueries, CacheHit(q) PROVE Held' = Held
    <3>1. PICK e : /\ e = FirstProbed(q, Holding(cached, q)) /\ Holding(cached, q) # {}
                   /\ cached' = [cached EXCEPT ![e].time = Timestamp]
      BY <2>1 DEF CacheHit
    <3>2. Holding(cached, q) \in SUBSET Entries
      BY DEF Holding, CacheIInv, CacheTypeOK
    <3>3. e \in Entries
      BY <3>1, <3>2, FirstProbedIs
    <3> QED BY <3>1, <3>3, TouchIsStutter
  <2>2. ASSUME NEW q \in CacheQueries, NEW a \in CacheAnswers, CacheStored(q, a) PROVE Map!MapNext
    BY <2>2, StoreIsStore DEF Map!MapNext
  <2>3. CASE CacheClear
    <3>1. cached' = [e \in Entries |-> Unused]
      BY <2>3 DEF CacheClear
    <3>2. \A x \in CacheQueries : Found(cached', x) = NoAnswer
      BY <3>1, UnusedIsEmpty
    <3>3. Map!Clear
      BY <3>2 DEF Map!Clear
    <3> QED BY <3>3 DEF Map!MapNext
  <2>4. CASE ClockTick \/ UNCHANGED cacheVars
    <3>1. cached' = cached
      BY <2>4 DEF ClockTick, cacheVars
    <3> QED BY <3>1 DEF Held
  <2> QED BY <2>1, <2>2, <2>3, <2>4 DEF CacheNext
<1>3. [Map!MapNext]_Held => [Map!MapNext]_([q \in CacheQueries |-> Found(cached, q)])
  BY DEF Held
<1> QED BY <1>1, <1>2, <1>3, CacheInvariant, PTL DEF CacheSpec, ImplementsCacheMap, Map!MapSpec

-------------------------------------------------------------------------------
(* Evictions.                                                                 *)

Drift == stores \div DriftStep

\* What EvictionSparesRecent rests on: a timestamp is ahead of the last use by
\* no more than the drift has grown to, and by the less the longer ago the use.
DriftKnown ==
  \A e \in Entries :
    /\ lastUsed[e] <= clock
    /\ lastUsed[e] <= cached[e].time /\ cached[e].time <= lastUsed[e] + Drift
    /\ \A f \in Entries : lastUsed[f] < lastUsed[e] =>
         cached[f].time - lastUsed[f] <= cached[e].time - lastUsed[e]

LEMMA DriftIsNat ==
  ASSUME CacheTypeOK
  PROVE  Drift \in Nat /\ (stores + 1) \div DriftStep \in Nat /\ Drift <= (stores + 1) \div DriftStep
<1>1. stores \in Nat /\ DriftStep \in Nat \ {0}
  BY CacheAssumption DEF CacheTypeOK
<1> QED BY <1>1 DEF Drift

\* An entry that is used or filled is as far ahead as any.
LEMMA UseKeepsDrift ==
  ASSUME CacheTypeOK, DriftKnown, NEW e \in Entries,
         cached'[e].time = Timestamp,
         \A f \in Entries \ {e} : cached'[f] = cached[f],
         lastUsed' = [lastUsed EXCEPT ![e] = clock],
         clock' = clock, stores' \in {stores, stores + 1}
  PROVE  DriftKnown'
<1> DEFINE later == stores' \div DriftStep
<1>1. /\ Drift \in Nat /\ later \in Nat /\ Drift <= later /\ Drift' = later
      /\ Timestamp = clock + Drift
  BY DriftIsNat DEF Drift, Timestamp
<1>2. /\ clock \in Nat
      /\ \A f \in Entries : cached[f].time \in Nat /\ lastUsed[f] \in Nat
  BY CacheAssumption DEF CacheTypeOK, Entry
<1>3. lastUsed'[e] = clock /\ \A f \in Entries \ {e} : lastUsed'[f] = lastUsed[f]
  BY DEF CacheTypeOK
<1> HIDE DEF later
<1>4. ASSUME NEW f \in Entries
      PROVE  /\ lastUsed'[f] <= clock
             /\ lastUsed'[f] <= cached'[f].time /\ cached'[f].time <= lastUsed'[f] + later
  <2>1. CASE f = e
    BY <1>1, <1>2, <1>3, <2>1
  <2>2. CASE f # e
    <3>1. lastUsed[f] <= clock /\ lastUsed[f] <= cached[f].time /\ cached[f].time <= lastUsed[f] + Drift
      BY DEF DriftKnown
    <3>2. lastUsed'[f] = lastUsed[f] /\ cached'[f].time = cached[f].time
      BY <1>3, <2>2
    <3> QED BY <1>1, <1>2, <3>1, <3>2
  <2> QED BY <2>1, <2>2
<1>5. ASSUME NEW f \in Entries, NEW g \in Entries, lastUsed'[g] < lastUsed'[f]
      PROVE  cached'[g].time - lastUsed'[g] <= cached'[f].time - lastUsed'[f]
  <2>1. g # e
    <3> SUFFICES ASSUME g = e PROVE FALSE
      OBVIOUS
    <3>1. lastUsed'[f] <= clock /\ lastUsed'[f] \in Nat
      BY <1>2, <1>3, <1>4
    <3> QED BY <1>2, <1>3, <1>5, <3>1
  <2>2. /\ lastUsed'[g] = lastUsed[g] /\ cached'[g].time = cached[g].time
        /\ cached[g].time <= lastUsed[g] + Drift
    BY <1>3, <2>1 DEF DriftKnown
  <2>3. CASE f = e
    BY <1>1, <1>2, <1>3, <2>2, <2>3
  <2>4. CASE f # e
    <3>1. lastUsed'[f] = lastUsed[f] /\ cached'[f].time = cached[f].time
      BY <1>3, <2>4
    <3> QED BY <1>5, <2>2, <3>1 DEF DriftKnown
  <2> QED BY <2>3, <2>4
<1> QED BY <1>1, <1>4, <1>5 DEF DriftKnown

\* The three ways of cache_store, and a hit, use one entry.
LEMMA EntryUsed ==
  ASSUME CacheIInv, NEW q \in CacheQueries,
         CacheHit(q) \/ \E a \in CacheAnswers : CacheStored(q, a)
  PROVE  \E e \in Entries :
           /\ cached'[e].time = Timestamp /\ \A f \in Entries \ {e} : cached'[f] = cached[f]
           /\ lastUsed' = [lastUsed EXCEPT ![e] = clock]
           /\ clock' = clock /\ stores' \in {stores, stores + 1}
           /\ \/ cached[e].query = NoQuery
              \/ cached'[e].query = cached[e].query
              \/ e = Victim
<1>1. cached \in [Entries -> Entry] /\ DOMAIN cached = Entries
  BY DEF CacheIInv, CacheTypeOK
<1>2. Target(q) \in SUBSET Entries /\ Holding(cached, q) \in SUBSET Entries
  BY <1>1 DEF Target, Empty, Holding
<1>3. ASSUME NEW e \in Entries, cached' = [cached EXCEPT ![e].time = Timestamp]
      PROVE  /\ cached'[e].time = Timestamp /\ cached'[e].query = cached[e].query
             /\ \A f \in Entries \ {e} : cached'[f] = cached[f]
  BY <1>1, <1>3 DEF Entry
<1>4. ASSUME NEW e \in Entries, NEW a, cached' = [cached EXCEPT ![e] = NewEntry(q, a)]
      PROVE  /\ cached'[e].time = Timestamp
             /\ \A f \in Entries \ {e} : cached'[f] = cached[f]
  BY <1>1, <1>4 DEF NewEntry
<1>5. CASE CacheHit(q)
  <2>1. PICK e : /\ e = FirstProbed(q, Holding(cached, q)) /\ Holding(cached, q) # {}
                 /\ cached' = [cached EXCEPT ![e].time = Timestamp]
                 /\ lastUsed' = [lastUsed EXCEPT ![e] = clock]
                 /\ clock' = clock /\ stores' = stores
    BY <1>5 DEF CacheHit
  <2>2. e \in Entries
    BY <1>2, <2>1, FirstProbedIs
  <2> QED BY <1>3, <2>1, <2>2
<1>6. ASSUME NEW a \in CacheAnswers, CacheStored(q, a)
      PROVE  clock' = clock /\ stores' = stores + 1
  BY <1>6 DEF CacheStored
<1>7. ASSUME NEW a \in CacheAnswers, CacheStored(q, a), StoreInEmpty(q, a)
      PROVE  \E e \in Entries : /\ cached' = [cached EXCEPT ![e] = NewEntry(q, a)]
                                /\ lastUsed' = [lastUsed EXCEPT ![e] = clock]
                               /\ cached[e].query = NoQuery
  BY <1>2, <1>7, FirstProbedIs DEF StoreInEmpty
<1>8. ASSUME NEW a \in CacheAnswers, CacheStored(q, a), StoreOnHolder(q)
      PROVE  \E e \in Entries : /\ cached' = [cached EXCEPT ![e].time = Timestamp]
                                /\ lastUsed' = [lastUsed EXCEPT ![e] = clock]
  BY <1>2, <1>8, FirstProbedIs DEF StoreOnHolder
<1>9. ASSUME NEW a \in CacheAnswers, CacheStored(q, a), StoreEvicting(q, a)
      PROVE  /\ Victim \in Entries /\ cached' = [cached EXCEPT ![Victim] = NewEntry(q, a)]
             /\ lastUsed' = [lastUsed EXCEPT ![Victim] = clock]
  BY <1>9, VictimIs DEF StoreEvicting, CacheIInv
<1>10. ASSUME NEW a \in CacheAnswers, CacheStored(q, a)
       PROVE  StoreInEmpty(q, a) \/ StoreOnHolder(q) \/ StoreEvicting(q, a)
  BY <1>10 DEF CacheStored
<1> QED BY <1>3, <1>4, <1>5, <1>6, <1>7, <1>8, <1>9, <1>10

LEMMA DriftInductive ==
  ASSUME CacheIInv, DriftKnown, [CacheNext]_cacheVars
  PROVE  DriftKnown'
<1>1. CacheTypeOK
  BY DEF CacheIInv
<1>2. ASSUME NEW q \in CacheQueries,
             CacheHit(q) \/ \E a \in CacheAnswers : CacheStored(q, a)
      PROVE  DriftKnown'
  BY <1>1, <1>2, EntryUsed, UseKeepsDrift
<1>3. CASE CacheClear
  <2>1. /\ \A e \in Entries : lastUsed'[e] = 0 /\ cached'[e].time = 0
        /\ clock' \in Nat /\ Drift' = 0 \div DriftStep
    BY <1>1, <1>3, CacheAssumption DEF CacheClear, Unused, CacheTypeOK, Drift
  <2>2. 0 \div DriftStep = 0
    BY CacheAssumption
  <2> QED BY <2>1, <2>2 DEF DriftKnown
<1>4. CASE ClockTick
  <2>1. /\ UNCHANGED <<cached, lastUsed>> /\ clock' = clock + 1 /\ clock \in Nat /\ Drift' = Drift
        /\ \A e \in Entries : lastUsed[e] \in Nat
    BY <1>1, <1>4, CacheAssumption DEF ClockTick, CacheTypeOK, Drift
  <2> QED BY <2>1 DEF DriftKnown
<1>5. CASE UNCHANGED cacheVars
  BY <1>5 DEF cacheVars, DriftKnown, Drift
<1> QED BY <1>2, <1>3, <1>4, <1>5 DEF CacheNext

\* cache_store does not replace an entry that was used after another one was,
\* unless all of them were used within the seconds of the drift.
THEOREM RecentIsSpared == CacheSpec => EvictionSparesRecent
<1> DEFINE Spares ==
      \A e \in Entries :
        cached[e].query # NoQuery /\ cached'[e].query \notin {NoQuery, cached[e].query} =>
          \/ \A f \in Entries : lastUsed[e] <= lastUsed[f]
          \/ \A f \in Entries : lastUsed[f] + stores \div DriftStep > clock
<1>1. CacheInit => DriftKnown
  <2> SUFFICES ASSUME CacheInit PROVE DriftKnown
    OBVIOUS
  <2>1. 0 \div DriftStep = 0
    BY CacheAssumption
  <2>2. \A e \in Entries : lastUsed[e] = 0 /\ cached[e].time = 0
    BY DEF CacheInit, Unused
  <2> QED BY <2>1, <2>2 DEF DriftKnown, Drift, CacheInit
<1>2. CacheIInv /\ DriftKnown /\ [CacheNext]_cacheVars => DriftKnown'
  BY DriftInductive
<1>3. ASSUME CacheIInv, DriftKnown
      PROVE  \/ \A f \in Entries : lastUsed[Victim] <= lastUsed[f]
             \/ \A f \in Entries : lastUsed[f] + stores \div DriftStep > clock
  <2>1. /\ clock \in Nat /\ Drift \in Nat
        /\ \A f \in Entries : cached[f].time \in Nat /\ lastUsed[f] \in Nat
    BY <1>3, DriftIsNat, CacheAssumption DEF CacheIInv, CacheTypeOK, Entry
  <2>2. CASE \A f \in Entries : cached[f].time > clock
    <3>1. \A f \in Entries : lastUsed[f] + Drift > clock
      BY <1>3, <2>1, <2>2 DEF DriftKnown
    <3> QED BY <3>1 DEF Drift
  <2>3. CASE \A f \in Entries : cached[Victim].time <= cached[f].time
    <3>1. Victim \in Entries
      BY <1>3, VictimIs DEF CacheIInv
    <3>2. ASSUME NEW f \in Entries, lastUsed[f] < lastUsed[Victim] PROVE FALSE
      <4>1. cached[f].time - lastUsed[f] <= cached[Victim].time - lastUsed[Victim]
        BY <1>3, <3>1, <3>2 DEF DriftKnown
      <4> QED BY <2>1, <2>3, <3>1, <3>2, <4>1
    <3> QED BY <2>1, <3>1, <3>2
  <2> QED BY <1>3, <2>2, <2>3, VictimIs DEF CacheIInv
<1>4. ASSUME CacheIInv, DriftKnown, CacheNext PROVE Spares
  <2>1. ASSUME NEW q \in CacheQueries,
               CacheHit(q) \/ \E a \in CacheAnswers : CacheStored(q, a)
        PROVE  Spares
    <3>1. PICK e \in Entries :
            /\ \A f \in Entries \ {e} : cached'[f] = cached[f]
            /\ \/ cached[e].query = NoQuery
               \/ cached'[e].query = cached[e].query
               \/ e = Victim
      BY <1>4, <2>1, EntryUsed
    <3> QED BY <1>3, <1>4, <3>1
  <2>2. CASE CacheClear
    BY <2>2, CacheAssumption DEF CacheClear, Unused
  <2>3. CASE ClockTick
    BY <2>3 DEF ClockTick
  <2> QED BY <1>4, <2>1, <2>2, <2>3 DEF CacheNext
<1>5. CacheIInv /\ DriftKnown /\ [CacheNext]_cacheVars => [Spares]_cacheVars
  BY <1>4
<1> QED BY <1>1, <1>2, <1>5, CacheInvariant, PTL DEF CacheSpec, EvictionSparesRecent

-------------------------------------------------------------------------------
(* The session table.  No operation changes the client of a slot: a call      *)
(* replaces a slot of its own client, appends one, or leaves all alone.  The  *)
(* invariants rest on each other, so they are proved together.                *)

USE DEF sessionVars

SessionIInv ==
  SessionTypeOK /\ OneSlotPerClient /\ HandedSlotIsOwn /\ HistoryIsOwn /\ RefusedOnlyWhenFull

-------------------------------------------------------------------------------
(* What a call for a session finds.                                          *)

LEMMA LeastOfOne == ASSUME NEW i \in Nat PROVE Least({i}) = i
<1>1. \A j : (j \in {i} /\ \A k \in {i} : j <= k) <=> j = i
  OBVIOUS
<1> QED
  BY <1>1 DEF Least

LEMMA SlotsAreSessions ==
  ASSUME SessionTypeOK
  PROVE  /\ DOMAIN sessions = 1..Len(sessions) /\ Len(sessions) \in Nat
         /\ \A i \in DOMAIN sessions : sessions[i] \in Session /\ i \in Nat
  BY DEF SessionTypeOK

\* The scan leaves a slot that it does not pass as it is.
LEMMA ScanLeaves ==
  ASSUME SessionTypeOK, NEW c \in Clients, NEW i \in DOMAIN sessions, ~Passed(c, i)
  PROVE  AfterScan(c)[i] = sessions[i]
<1>1. sessions[i] \in Session
  BY SlotsAreSessions
<1>2. (sessions[i].active /\ ~Passed(c, i)) = sessions[i].active
  <2>1. sessions[i].active \in BOOLEAN
    BY <1>1 DEF Session
  <2> QED
    BY <2>1
<1>3. AfterScan(c)[i] = [sessions[i] EXCEPT !.active = sessions[i].active /\ ~Passed(c, i)]
  BY DEF AfterScan
<1>4. [sessions[i] EXCEPT !.active = sessions[i].active] = sessions[i]
  BY <1>1 DEF Session
<1> QED
  BY <1>2, <1>3, <1>4

\* A passed slot is inactive after the scan.
LEMMA ScanMarks ==
  ASSUME SessionTypeOK, NEW c \in Clients, NEW i \in DOMAIN sessions, Passed(c, i)
  PROVE  ~AfterScan(c)[i].active
<1>1. sessions[i] \in Session
  BY SlotsAreSessions
<1>2. AfterScan(c)[i] = [sessions[i] EXCEPT !.active = sessions[i].active /\ ~Passed(c, i)]
  BY DEF AfterScan
<1>3. \A b : [sessions[i] EXCEPT !.active = b].active = b
  BY <1>1 DEF Session
<1> QED
  BY <1>2, <1>3

LEMMA ScanDomain ==
  ASSUME NEW c \in Clients
  PROVE  DOMAIN AfterScan(c) = DOMAIN sessions
         /\ AfterScan(c) = [i \in DOMAIN sessions |-> AfterScan(c)[i]]
  BY DEF AfterScan

\* A client with a slot that has not expired: that is its only slot, and the
\* scan marks nothing.
LEMMA LiveCase ==
  ASSUME SessionIInv, NEW c \in Clients, LiveSlots(c) # {}
  PROVE  \E i \in DOMAIN sessions : /\ sessions[i].client = c
                                    /\ Least(LiveSlots(c)) = i
                                    /\ AfterScan(c) = sessions
<1> USE DEF SessionIInv
<1>1. PICK i \in LiveSlots(c) : TRUE
  OBVIOUS
<1>2. i \in DOMAIN sessions /\ sessions[i].client = c /\ Live(sessions[i]) /\ i \in Nat
  BY <1>1, SlotsAreSessions DEF LiveSlots
<1>3. LiveSlots(c) = {i}
  BY <1>1, <1>2 DEF LiveSlots, OneSlotPerClient
<1>4. \A k \in DOMAIN sessions : ~Passed(c, k)
  BY <1>2 DEF Passed, OneSlotPerClient
<1>5. \A k \in DOMAIN sessions : AfterScan(c)[k] = sessions[k]
  BY <1>4, ScanLeaves
<1>6. sessions = [k \in DOMAIN sessions |-> sessions[k]]
  BY DEF SessionTypeOK
<1>7. AfterScan(c) = sessions
  BY <1>5, <1>6, ScanDomain
<1> QED
  BY <1>2, <1>3, <1>7, LeastOfOne

\* A client whose slot has expired: the scan marks that slot and no other, so
\* the inactive slot found is its own.
LEMMA ExpiredCase ==
  ASSUME SessionIInv, NEW c \in Clients, LiveSlots(c) = {},
         NEW i \in DOMAIN sessions, sessions[i].client = c
  PROVE  /\ Inactive(AfterScan(c)) = {i}
         /\ \A k \in DOMAIN sessions : k # i => AfterScan(c)[k] = sessions[k]
<1> USE DEF SessionIInv
<1>1. Passed(c, i)
  BY DEF Passed, LiveSlots
<1>2. \A k \in DOMAIN sessions : k # i => ~Passed(c, k)
  BY DEF Passed, OneSlotPerClient
<1>3. \A k \in DOMAIN sessions : k # i => AfterScan(c)[k] = sessions[k]
  BY <1>2, ScanLeaves
<1>4. \A k \in DOMAIN sessions : k # i => AfterScan(c)[k].active
  BY <1>3 DEF OneSlotPerClient
<1>5. ~AfterScan(c)[i].active
  BY <1>1, ScanMarks
<1> QED
  BY <1>3, <1>4, <1>5, ScanDomain DEF Inactive

\* A client without a slot finds none inactive, and the scan marks nothing.
LEMMA NewcomerCase ==
  ASSUME SessionIInv, NEW c \in Clients, \A i \in DOMAIN sessions : sessions[i].client # c
  PROVE  LiveSlots(c) = {} /\ Inactive(AfterScan(c)) = {} /\ AfterScan(c) = sessions
<1> USE DEF SessionIInv
<1>1. \A k \in DOMAIN sessions : ~Passed(c, k)
  BY DEF Passed
<1>2. \A k \in DOMAIN sessions : AfterScan(c)[k] = sessions[k]
  BY <1>1, ScanLeaves
<1>3. sessions = [k \in DOMAIN sessions |-> sessions[k]]
  BY DEF SessionTypeOK
<1>4. AfterScan(c) = sessions
  BY <1>2, <1>3, ScanDomain
<1> QED
  BY <1>4 DEF LiveSlots, Inactive, OneSlotPerClient

-------------------------------------------------------------------------------
(* What a step changes.                                                       *)

\* A slot is replaced by another of the same client.
LEMMA ReplaceOne ==
  ASSUME SessionIInv, NEW i \in DOMAIN sessions, NEW s \in Session,
         s.client = sessions[i].client, s.active = TRUE,
         Len(s.history) <= MaxHistory,
         \A h \in DOMAIN s.history : s.history[h] = s.id,
         sessions' = [sessions EXCEPT ![i] = s],
         handed' = handed \/ handed' = [handed EXCEPT ![s.client] = i],
         now' = now
  PROVE  SessionIInv'
<1> USE DEF SessionIInv
<1>1. /\ DOMAIN sessions = 1..Len(sessions) /\ Len(sessions) \in Nat /\ i \in Nat
      /\ s.client \in Clients /\ NoSession \notin Nat
  BY SlotsAreSessions, SessionAssumption DEF Session
<1>2. /\ sessions' \in Seq(Session) /\ Len(sessions') = Len(sessions)
      /\ DOMAIN sessions' = DOMAIN sessions
      /\ sessions'[i] = s
      /\ \A k \in DOMAIN sessions : k # i => sessions'[k] = sessions[k]
  BY <1>1 DEF SessionTypeOK
<1>3. \A k \in DOMAIN sessions : sessions'[k].client = sessions[k].client
  BY <1>2
<1>4. \A c \in Clients : \/ handed'[c] = handed[c]
                         \/ handed'[c] = i /\ c = s.client
  BY <1>1 DEF SessionTypeOK
<1>5. SessionTypeOK'
  <2>1. handed' \in [Clients -> Nat \cup {NoSession, NotAsked}]
    BY <1>1 DEF SessionTypeOK
  <2>2. \A k \in DOMAIN sessions : Len(sessions'[k].history) <= MaxHistory
    BY <1>2 DEF SessionTypeOK
  <2> QED
    BY <1>2, <2>1, <2>2 DEF SessionTypeOK
<1>6. \A k \in DOMAIN sessions' : sessions'[k].active
  BY <1>2 DEF OneSlotPerClient
<1>7. OneSlotPerClient'
  BY <1>2, <1>3, <1>6 DEF OneSlotPerClient
<1>8. HandedSlotIsOwn'
  BY <1>2, <1>3, <1>4 DEF HandedSlotIsOwn
<1>9. HistoryIsOwn'
  <2> SUFFICES ASSUME NEW k \in DOMAIN sessions', NEW h \in DOMAIN sessions'[k].history
               PROVE sessions'[k].history[h] = sessions'[k].id
    BY DEF HistoryIsOwn
  <2>1. CASE k = i
    BY <1>2, <2>1
  <2>2. CASE k # i
    BY <1>2, <2>2 DEF HistoryIsOwn
  <2> QED
    BY <2>1, <2>2
<1>10. RefusedOnlyWhenFull'
  BY <1>1, <1>2, <1>3, <1>4 DEF RefusedOnlyWhenFull
<1> QED
  BY <1>5, <1>6, <1>7, <1>8, <1>9, <1>10

LEMMA NewSessionIsTyped ==
  ASSUME SessionTypeOK, NEW c \in Clients
  PROVE  /\ NewSession(c) \in Session
         /\ NewSession(c).client = c /\ NewSession(c).active = TRUE
         /\ NewSession(c).history = <<>>
  BY DEF SessionTypeOK, NewSession, Session, SessionId

LEMMA TouchStep ==
  ASSUME SessionIInv, NEW c \in Clients, TouchSession(c) PROVE SessionIInv'
<1>1. LiveSlots(c) # {}
  BY DEF TouchSession
<1>2. PICK i \in DOMAIN sessions : /\ sessions[i].client = c /\ Least(LiveSlots(c)) = i
                                   /\ AfterScan(c) = sessions
  BY <1>1, LiveCase
<1> DEFINE s == [sessions[i] EXCEPT !.last = now]
<1>3. /\ sessions' = [sessions EXCEPT ![i] = s] /\ now' = now
      /\ handed' = [handed EXCEPT ![c] = i]
  BY <1>2 DEF TouchSession
<1>4. sessions[i] \in Session /\ now \in Nat
  BY SlotsAreSessions DEF SessionIInv, SessionTypeOK
<1>5. /\ s \in Session /\ s.client = sessions[i].client /\ s.active = sessions[i].active
      /\ s.history = sessions[i].history /\ s.id = sessions[i].id
  BY <1>4 DEF Session
<1>6. /\ s.active = TRUE /\ Len(s.history) <= MaxHistory
      /\ \A h \in DOMAIN s.history : s.history[h] = s.id
  <2>1. sessions[i].active = TRUE
    BY <1>4 DEF SessionIInv, OneSlotPerClient, Session
  <2>2. /\ Len(sessions[i].history) <= MaxHistory
        /\ \A h \in DOMAIN sessions[i].history : sessions[i].history[h] = sessions[i].id
    BY DEF SessionIInv, SessionTypeOK, HistoryIsOwn
  <2> QED
    BY <1>5, <2>1, <2>2
<1> HIDE DEF s
<1> QED
  BY <1>2, <1>3, <1>5, <1>6, ReplaceOne

LEMMA RenewStep ==
  ASSUME SessionIInv, NEW c \in Clients, RenewSession(c) PROVE SessionIInv'
<1>1. LiveSlots(c) = {} /\ Inactive(AfterScan(c)) # {}
  BY DEF RenewSession
<1>2. PICK i \in DOMAIN sessions : sessions[i].client = c
  BY <1>1, NewcomerCase
<1>3. /\ Inactive(AfterScan(c)) = {i} /\ i \in Nat
      /\ \A k \in DOMAIN sessions : k # i => AfterScan(c)[k] = sessions[k]
  BY <1>1, <1>2, ExpiredCase, SlotsAreSessions DEF SessionIInv
<1>4. Least(Inactive(AfterScan(c))) = i
  BY <1>3, LeastOfOne
<1>5. [AfterScan(c) EXCEPT ![i] = NewSession(c)] = [sessions EXCEPT ![i] = NewSession(c)]
  BY <1>3, ScanDomain
<1>6. /\ sessions' = [sessions EXCEPT ![i] = NewSession(c)] /\ now' = now
      /\ handed' = [handed EXCEPT ![c] = i]
  BY <1>4, <1>5 DEF RenewSession
<1>7. /\ NewSession(c) \in Session /\ NewSession(c).client = c
      /\ NewSession(c).active = TRUE /\ NewSession(c).history = <<>>
  BY NewSessionIsTyped DEF SessionIInv
<1>8. /\ Len(NewSession(c).history) <= MaxHistory
      /\ \A h \in DOMAIN NewSession(c).history : NewSession(c).history[h] = NewSession(c).id
  <2>1. Len(<<>>) <= MaxHistory /\ DOMAIN <<>> = {}
    BY SessionAssumption
  <2> QED
    BY <1>7, <2>1
<1> QED
  BY <1>2, <1>6, <1>7, <1>8, ReplaceOne

LEMMA AddStep ==
  ASSUME SessionIInv, NEW c \in Clients, AddSession(c) PROVE SessionIInv'
<1> DEFINE s == NewSession(c)
           n == Len(sessions)
<1> USE DEF SessionIInv
<1>1. \A i \in DOMAIN sessions : sessions[i].client # c
  <2> SUFFICES ASSUME NEW i \in DOMAIN sessions, sessions[i].client = c PROVE FALSE
    OBVIOUS
  <2>1. LiveSlots(c) = {} /\ Inactive(AfterScan(c)) = {}
    BY DEF AddSession
  <2> QED
    BY <2>1, ExpiredCase
<1>2. AfterScan(c) = sessions
  BY <1>1, NewcomerCase
<1>3. /\ sessions' = Append(sessions, s) /\ now' = now /\ n < MaxSessions
      /\ handed' = [handed EXCEPT ![c] = n + 1]
  BY <1>2 DEF AddSession, HasRoom
<1>4. s \in Session /\ s.client = c /\ s.active = TRUE /\ s.history = <<>>
  BY NewSessionIsTyped
<1>5. /\ n \in Nat /\ DOMAIN sessions = 1..n /\ MaxSessions \in Nat /\ NoSession \notin Nat
      /\ sessions \in Seq(Session)
  BY SessionAssumption DEF SessionTypeOK
<1> HIDE DEF s
<1>6. /\ sessions' \in Seq(Session) /\ Len(sessions') = n + 1
      /\ DOMAIN sessions' = 1..(n + 1)
      /\ sessions'[n + 1] = s
      /\ \A k \in 1..n : sessions'[k] = sessions[k]
  BY <1>3, <1>4, <1>5
<1> HIDE DEF n
<1>7. \A k \in DOMAIN sessions' : k = n + 1 \/ (k \in DOMAIN sessions /\ k # n + 1)
  BY <1>5, <1>6
<1>8. /\ handed' \in [Clients -> Nat \cup {NoSession, NotAsked}]
      /\ handed'[c] = n + 1 /\ \A d \in Clients : d # c => handed'[d] = handed[d]
  BY <1>3, <1>5 DEF SessionTypeOK
<1>9. SessionTypeOK'
  <2>1. Len(s.history) <= MaxHistory
    <3>1. Len(<<>>) <= MaxHistory
      BY SessionAssumption
    <3> QED
      BY <1>4, <3>1
  <2>2. \A k \in DOMAIN sessions' : Len(sessions'[k].history) <= MaxHistory
    BY <1>5, <1>6, <1>7, <2>1 DEF SessionTypeOK
  <2>3. n + 1 <= MaxSessions
    BY <1>3, <1>5
  <2> QED
    BY <1>3, <1>6, <1>8, <2>2, <2>3 DEF SessionTypeOK
<1>10. \A k \in DOMAIN sessions' : sessions'[k].active
  BY <1>4, <1>5, <1>6, <1>7 DEF OneSlotPerClient
<1>11. OneSlotPerClient'
  <2> SUFFICES ASSUME NEW i \in DOMAIN sessions', NEW k \in DOMAIN sessions',
                      sessions'[i].client = sessions'[k].client
               PROVE i = k
    BY <1>10 DEF OneSlotPerClient
  <2>1. CASE i = n + 1 \/ k = n + 1
    BY <1>1, <1>4, <1>5, <1>6, <1>7, <2>1
  <2>2. CASE i # n + 1 /\ k # n + 1
    BY <1>5, <1>6, <1>7, <2>2 DEF OneSlotPerClient
  <2> QED
    BY <2>1, <2>2
<1>12. HandedSlotIsOwn'
  <2> SUFFICES ASSUME NEW d \in Clients, handed'[d] \in Nat
               PROVE handed'[d] \in DOMAIN sessions' /\ sessions'[handed'[d]].client = d
    BY DEF HandedSlotIsOwn
  <2>1. CASE d = c
    BY <1>4, <1>5, <1>6, <1>8, <2>1
  <2>2. CASE d # c
    <3>1. handed[d] \in 1..n /\ sessions[handed[d]].client = d /\ handed'[d] = handed[d]
      BY <1>5, <1>8, <2>2 DEF HandedSlotIsOwn
    <3> QED
      BY <1>5, <1>6, <3>1
  <2> QED
    BY <2>1, <2>2
<1>13. HistoryIsOwn'
  <2> SUFFICES ASSUME NEW k \in DOMAIN sessions', NEW h \in DOMAIN sessions'[k].history
               PROVE sessions'[k].history[h] = sessions'[k].id
    BY DEF HistoryIsOwn
  <2>1. CASE k = n + 1
    <3>1. sessions'[k].history = <<>>
      BY <1>4, <1>6, <2>1
    <3> QED
      BY <3>1
  <2>2. CASE k \in DOMAIN sessions
    BY <1>5, <1>6, <2>2 DEF HistoryIsOwn
  <2> QED
    BY <1>7, <2>1, <2>2
<1>14. RefusedOnlyWhenFull'
  <2> SUFFICES ASSUME NEW d \in Clients, handed'[d] = NoSession PROVE FALSE
    BY DEF RefusedOnlyWhenFull
  <2>1. d # c
    BY <1>5, <1>8
  <2>2. n = MaxSessions
    BY <1>8, <2>1 DEF RefusedOnlyWhenFull, n
  <2> QED
    BY <1>3, <1>5, <2>2
<1> QED
  BY <1>9, <1>10, <1>11, <1>12, <1>13, <1>14

LEMMA RefuseStep ==
  ASSUME SessionIInv, NEW c \in Clients, RefuseSession(c) PROVE SessionIInv'
<1> USE DEF SessionIInv
<1>1. \A i \in DOMAIN sessions : sessions[i].client # c
  <2> SUFFICES ASSUME NEW i \in DOMAIN sessions, sessions[i].client = c PROVE FALSE
    OBVIOUS
  <2>1. LiveSlots(c) = {} /\ Inactive(AfterScan(c)) = {}
    BY DEF RefuseSession
  <2> QED
    BY <2>1, ExpiredCase
<1>2. AfterScan(c) = sessions
  BY <1>1, NewcomerCase
<1>3. /\ sessions' = sessions /\ now' = now /\ ~(Len(sessions) < MaxSessions)
      /\ handed' = [handed EXCEPT ![c] = NoSession]
  BY <1>2 DEF RefuseSession, HasRoom
<1>4. Len(sessions) = MaxSessions
  BY <1>3, SessionAssumption DEF SessionTypeOK
<1>5. /\ handed' \in [Clients -> Nat \cup {NoSession, NotAsked}]
      /\ handed'[c] = NoSession /\ \A d \in Clients : d # c => handed'[d] = handed[d]
      /\ NoSession \notin Nat
  BY <1>3, SessionAssumption DEF SessionTypeOK
<1>6. SessionTypeOK'
  BY <1>3, <1>5 DEF SessionTypeOK
<1>7. OneSlotPerClient' /\ HistoryIsOwn'
  BY <1>3 DEF OneSlotPerClient, HistoryIsOwn
<1>8. HandedSlotIsOwn'
  BY <1>3, <1>5 DEF HandedSlotIsOwn
<1>9. RefusedOnlyWhenFull'
  BY <1>1, <1>3, <1>4, <1>5 DEF RefusedOnlyWhenFull
<1> QED
  BY <1>6, <1>7, <1>8, <1>9

LEMMA HistoryStep ==
  ASSUME SessionIInv, NEW id, AddHistory(id) PROVE SessionIInv'
<1>1. PICK i \in DOMAIN sessions :
        /\ sessions[i].id = id
        /\ sessions' = [sessions EXCEPT
             ![i].history = IF Len(@) < MaxHistory THEN Append(@, id) ELSE @,
             ![i].last = now]
  BY DEF AddHistory
<1> DEFINE old == sessions[i].history
           h == IF Len(old) < MaxHistory THEN Append(old, id) ELSE old
           s == [sessions[i] EXCEPT !.history = h, !.last = now]
<1>2. sessions[i] \in Session /\ now \in Nat /\ MaxHistory \in Nat
  BY SlotsAreSessions, SessionAssumption DEF SessionIInv, SessionTypeOK
<1>3. old \in Seq(SessionId) /\ id \in SessionId /\ Len(old) <= MaxHistory
  BY <1>1, <1>2 DEF Session, SessionIInv, SessionTypeOK
<1>4. \A k \in DOMAIN old : old[k] = id
  BY <1>1 DEF SessionIInv, HistoryIsOwn
<1> HIDE DEF old
<1>5. h \in Seq(SessionId) /\ Len(h) <= MaxHistory /\ \A k \in DOMAIN h : h[k] = id
  BY <1>2, <1>3, <1>4
<1>6. sessions' = [sessions EXCEPT ![i] = s]
  BY <1>1 DEF old
<1> HIDE DEF h
<1>7. /\ s \in Session /\ s.client = sessions[i].client /\ s.active = sessions[i].active
      /\ s.history = h /\ s.id = id
  BY <1>1, <1>2, <1>5 DEF Session
<1>8. sessions[i].active = TRUE
  BY <1>2 DEF SessionIInv, OneSlotPerClient, Session
<1>9. handed' = handed /\ now' = now
  BY DEF AddHistory
<1> HIDE DEF s
<1> QED
  BY <1>5, <1>6, <1>7, <1>8, <1>9, ReplaceOne

-------------------------------------------------------------------------------
(* The theorems.                                                              *)

\* The five promises of session.c together with the types.
THEOREM SessionInvariant == SessionSpec => []SessionIInv
<1>1. SessionInit => SessionIInv
  <2> SUFFICES ASSUME SessionInit PROVE SessionIInv
    OBVIOUS
  <2>1. /\ sessions = <<>> /\ now = 0 /\ handed = [c \in Clients |-> NotAsked]
        /\ Len(<<>>) = 0 /\ DOMAIN <<>> = {}
    BY DEF SessionInit
  <2>2. SessionTypeOK
    BY <2>1, SessionAssumption DEF SessionTypeOK
  <2>3. OneSlotPerClient /\ HistoryIsOwn
    BY <2>1 DEF OneSlotPerClient, HistoryIsOwn
  <2>4. HandedSlotIsOwn /\ RefusedOnlyWhenFull
    BY <2>1, SessionAssumption DEF HandedSlotIsOwn, RefusedOnlyWhenFull
  <2> QED
    BY <2>2, <2>3, <2>4 DEF SessionIInv
<1>2. SessionIInv /\ [SessionNext]_sessionVars => SessionIInv'
  <2> SUFFICES ASSUME SessionIInv, [SessionNext]_sessionVars PROVE SessionIInv'
    OBVIOUS
  <2>1. CASE SecondPasses
    <3>1. sessions' = sessions /\ handed' = handed /\ now' \in Nat
      BY <2>1 DEF SecondPasses, SessionIInv, SessionTypeOK
    <3> QED
      BY <3>1 DEF SessionIInv, SessionTypeOK, OneSlotPerClient,
         HandedSlotIsOwn, HistoryIsOwn, RefusedOnlyWhenFull
  <2>2. CASE UNCHANGED sessionVars
    BY <2>2 DEF SessionIInv, SessionTypeOK, OneSlotPerClient,
       HandedSlotIsOwn, HistoryIsOwn, RefusedOnlyWhenFull
  <2> QED
    BY <2>1, <2>2, TouchStep, RenewStep, AddStep, RefuseStep, HistoryStep DEF SessionNext
<1> QED
  BY <1>1, <1>2, PTL DEF SessionSpec

\* The array of slots and the histories stay within their sizes.
THEOREM SessionTypeCorrect == SessionSpec => []SessionTypeOK
  BY SessionInvariant, PTL DEF SessionIInv

\* session_get_or_create never gives a client a second slot, and never one
\* that another client's expiry made free.
THEOREM SlotsBelongToTheirClients == SessionSpec => []OneSlotPerClient
  BY SessionInvariant, PTL DEF SessionIInv

\* The pointer handed out stays one to the client's own session.
THEOREM HandedSlotsAreOwn == SessionSpec => []HandedSlotIsOwn
  BY SessionInvariant, PTL DEF SessionIInv

\* session_add_history never mixes the histories of two sessions.
THEOREM HistoriesAreOwn == SessionSpec => []HistoryIsOwn
  BY SessionInvariant, PTL DEF SessionIInv

\* A client is refused only while all slots belong to others.
THEOREM RefusalsMeanFull == SessionSpec => []RefusedOnlyWhenFull
  BY SessionInvariant, PTL DEF SessionIInv
===============================================================================
