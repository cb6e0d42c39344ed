-------------------------------- MODULE EventBus -------------------------------
(***************************************************************************)
(* The SDK's event bus (sdk/events/events.c): a bounded array of           *)
(* subscribers that event_publish walks with a live index and a live       *)
(* count, calling handlers that may subscribe and unsubscribe meanwhile.   *)
(* There is one thread; what is interleaved is the walk and the handlers.  *)
(*                                                                         *)
(* A handler's context and the event's data are left out: they are passed  *)
(* through.  Handlers that publish in turn are left out as well.           *)
(***************************************************************************)
EXTENDS Naturals, Sequences, FiniteSets

CONSTANTS
  EventTypes, Handlers,
  NoEvent,
  MaxSubscribers,   \* size of the array
  MaxChanges        \* bound: calls of event_subscribe and event_unsubscribe

ASSUME EventAssumption ==
  /\ NoEvent \notin EventTypes
  /\ MaxSubscribers \in Nat /\ MaxChanges \in Nat

Subscriber == [type : EventTypes, handler : Handlers]

VARIABLES
  subscribers,
  publishing,     \* the event published when the walk began, NoEvent outside of
                  \* event_publish
  position,       \* the walk's index, 1 for the first subscriber
  inHandler,      \* a handler is running
  pending,        \* pending_type, NoEvent when has_pending is false
  draining,       \* the publication is event_process_pending's
  changes,        \* counter of the bound
  calls,          \* how often this publication used a subscription
  again,          \* how often one was added to the array meanwhile
  disturbed,      \* a subscriber was removed, or the event replaced, meanwhile
  atStart         \* the handlers subscribed to the event when it began

walkVars == <<publishing, position, inHandler, draining, calls, atStart>>
eventVars == <<subscribers, pending, changes, again, disturbed, walkVars>>

Slots(t, h) == {i \in DOMAIN subscribers :
                  subscribers[i].type = t /\ subscribers[i].handler = h}
Subscribed(t) == {h \in Handlers : Slots(t, h) # {}}
NoCalls == [s \in Subscriber |-> 0]

\* event_type of event_publish.  event_process_pending passes pending_type
\* itself, so what is compared changes when a handler posts an event.
EventType == IF draining THEN pending ELSE publishing

\* User code, handlers included, runs unless the bus is between two handlers.
UserCodeRuns == publishing = NoEvent \/ inHandler

-------------------------------------------------------------------------------
HasSlot == Len(subscribers) < MaxSubscribers

\* event_subscribe: a full array refuses; a handler subscribed to the event
\* already only gets its new context.
Subscribe(t, h) ==
  /\ UserCodeRuns /\ changes < MaxChanges
  /\ changes' = changes + 1
  /\ IF HasSlot /\ Slots(t, h) = {}
       THEN /\ subscribers' = Append(subscribers, [type |-> t, handler |-> h])
            /\ again' = IF publishing = NoEvent THEN again
                        ELSE [again EXCEPT ![[type |-> t, handler |-> h]] = @ + 1]
       ELSE UNCHANGED <<subscribers, again>>
  /\ UNCHANGED <<pending, disturbed, walkVars>>

\* The last subscriber takes the place of the removed one.
Removed(s, i) == [k \in 1..(Len(s) - 1) |-> IF k = i THEN s[Len(s)] ELSE s[k]]

\* event_unsubscribe, of a handler that is subscribed.
Unsubscribe(t, h) ==
  /\ UserCodeRuns /\ changes < MaxChanges
  /\ changes' = changes + 1
  /\ \E i \in Slots(t, h) :
       /\ \A k \in Slots(t, h) : i <= k
       /\ subscribers' = Removed(subscribers, i)
  /\ disturbed' = (disturbed \/ publishing # NoEvent)
  /\ UNCHANGED <<pending, again, walkVars>>

\* The SDK's user sets pending_type and has_pending.  From a handler of the
\* pending event this is undone when the publication ends, and until then it
\* is the new event's subscribers that the walk looks for.
PostPending(t) ==
  /\ UserCodeRuns
  /\ pending' = t
  /\ disturbed' = (disturbed \/ (draining /\ t # publishing))
  /\ UNCHANGED <<subscribers, changes, again, walkVars>>

StartWalk(t, fromPending) ==
  /\ publishing = NoEvent
  /\ publishing' = t /\ position' = 1
  /\ draining' = fromPending
  /\ atStart' = Subscribed(t)
  /\ UNCHANGED <<subscribers, inHandler, pending, changes, calls, again, disturbed>>

Publish(t) == StartWalk(t, FALSE)
ProcessPending == pending # NoEvent /\ StartWalk(pending, TRUE)

\* Mutant of SkipSubscriber: the walk ends at the first other event.
SkipSubscriberToEnd ==
  /\ publishing # NoEvent /\ ~inHandler /\ position <= Len(subscribers)
  /\ subscribers[position].type # EventType
  /\ position' = Len(subscribers) + 1
  /\ UNCHANGED <<subscribers, publishing, inHandler, pending, draining, changes,
                 calls, again, disturbed, atStart>>

SkipSubscriber ==
  /\ publishing # NoEvent /\ ~inHandler /\ position <= Len(subscribers)
  /\ subscribers[position].type # EventType
  /\ position' = position + 1
  /\ UNCHANGED <<subscribers, publishing, inHandler, pending, draining, changes,
                 calls, again, disturbed, atStart>>

CallHandler ==
  /\ publishing # NoEvent /\ ~inHandler /\ position <= Len(subscribers)
  /\ subscribers[position].type = EventType
  /\ inHandler' = TRUE
  /\ calls' = [calls EXCEPT ![subscribers[position]] = @ + 1]
  /\ UNCHANGED <<subscribers, publishing, position, pending, draining, changes,
                 again, disturbed, atStart>>

\* Mutant of HandlerReturns: the walk starts anew.
HandlerReturnsToStart ==
  /\ inHandler
  /\ inHandler' = FALSE
  /\ position' = IF disturbed THEN 1 ELSE position + 1
  /\ UNCHANGED <<subscribers, publishing, pending, draining, changes, calls, again,
                 disturbed, atStart>>

HandlerReturns ==
  /\ inHandler
  /\ inHandler' = FALSE
  /\ position' = position + 1
  /\ UNCHANGED <<subscribers, publishing, pending, draining, changes, calls, again,
                 disturbed, atStart>>

\* The pending event is taken off after its handlers have run.
WalkDone ==
  /\ publishing # NoEvent /\ ~inHandler /\ position > Len(subscribers)
  /\ publishing' = NoEvent
  /\ pending' = IF draining THEN NoEvent ELSE pending
  /\ position' = 1 /\ draining' = FALSE /\ disturbed' = FALSE
  /\ calls' = NoCalls /\ again' = NoCalls /\ atStart' = {}
  /\ UNCHANGED <<subscribers, inHandler, changes>>

EventInit ==
  /\ subscribers = <<>> /\ pending = NoEvent
  /\ publishing = NoEvent /\ position = 1
  /\ inHandler = FALSE /\ draining = FALSE
  /\ changes = 0 /\ calls = NoCalls /\ again = NoCalls
  /\ disturbed = FALSE /\ atStart = {}

EventNext ==
  \/ \E t \in EventTypes, h \in Handlers : Subscribe(t, h) \/ Unsubscribe(t, h)
  \/ \E t \in EventTypes : PostPending(t) \/ Publish(t)
  \/ ProcessPending
  \/ SkipSubscriber \/ CallHandler \/ HandlerReturns \/ WalkDone

EventSpec == EventInit /\ [][EventNext]_eventVars

-------------------------------------------------------------------------------
\* Types; the subscribers stay within the array.
EventTypeOK ==
  /\ subscribers \in Seq(Subscriber) /\ Len(subscribers) <= MaxSubscribers
  /\ publishing \in EventTypes \cup {NoEvent} /\ pending \in EventTypes \cup {NoEvent}
  /\ position \in Nat \ {0} /\ changes \in 0..MaxChanges
  /\ inHandler \in BOOLEAN /\ draining \in BOOLEAN /\ disturbed \in BOOLEAN
  /\ calls \in [Subscriber -> Nat] /\ again \in [Subscriber -> Nat]
  /\ atStart \subseteq Handlers

\* A handler is subscribed to an event once, however often it asks and
\* wherever the last subscriber is moved to.
SubscribersUnique ==
  \A i, k \in DOMAIN subscribers : subscribers[i] = subscribers[k] => i = k

\* One publication uses a subscription once, and once more for each time that
\* it was made anew meanwhile: neither moving the last subscriber to a slot the
\* walk has yet to reach nor replacing the event under the walk makes it come
\* by twice.  (A handler with subscriptions to both events is called for each.)
CalledOncePerPublication ==
  publishing # NoEvent =>
    \A s \in Subscriber : calls[s] <= 1 + again[s]

\* A publication during which no one unsubscribes, nor posts another event from
\* a handler of the pending one, reaches everyone who was subscribed when it
\* began or subscribed meanwhile, and no subscriber of another event.
UndisturbedReachesAll ==
  [][publishing # NoEvent /\ publishing' = NoEvent /\ ~disturbed =>
       \A s \in Subscriber :
         calls[s] = IF s.type = publishing /\ s.handler \in atStart \cup Subscribed(publishing)
                      THEN 1 ELSE 0]_eventVars
===============================================================================
