----------------------------- MODULE SessionManager ----------------------------
(***************************************************************************)
(* The sessions of the orchestrator (orchestrator/session/session.c): one  *)
(* slot of a bounded array per client, taken again by that client when it  *)
(* has expired, and a bounded history per session.  Both operations run    *)
(* under the mutex, so each is one step; what can go wrong lies between    *)
(* them, because session_get_or_create hands out a pointer to the slot.    *)
(*                                                                         *)
(* A session identifier is the client and the second of its creation.      *)
(***************************************************************************)
EXTENDS Naturals, Sequences

CONSTANTS
  Clients,
  NoSession,      \* the null pointer
  NotAsked,       \* what a client holds that has not asked for a session
  MaxSessions,    \* max_sessions
  Timeout,        \* timeout_secs
  MaxHistory,     \* MAX_HISTORY_ENTRIES
  MaxTime         \* bound: seconds that pass

ASSUME SessionAssumption ==
  /\ MaxSessions \in Nat \ {0} /\ Timeout \in Nat \ {0}
  /\ MaxHistory \in Nat /\ MaxTime \in Nat
  /\ NoSession \notin Nat /\ NotAsked \notin Nat /\ NoSession # NotAsked

SessionId == [client : Clients, time : Nat]

\* A history entry is told by the identifier it was added under.
Session == [client : Clients, id : SessionId, active : BOOLEAN,
            last : Nat, history : Seq(SessionId)]

VARIABLES
  sessions,       \* the slots in use
  now,            \* time(NULL)
  handed          \* what session_get_or_create last returned to a client
sessionVars == <<sessions, now, handed>>

NewSession(c) == [client |-> c, id |-> [client |-> c, time |-> now],
                  active |-> TRUE, last |-> now, history |-> <<>>]

Live(s) == now - s.last < Timeout

\* The first loop stops at the client's first slot that has not expired; the
\* expired ones before it, or all of them, are marked inactive on the way.
LiveSlots(c) == {i \in DOMAIN sessions : sessions[i].client = c /\ Live(sessions[i])}

\* Mutant of Passed: the client is not compared.
PassedOfAnyone(c, i) == ~Live(sessions[i])
\* Mutant of Passed: an expired slot is not marked.
PassedByNobody(c, i) == FALSE

Passed(c, i) == /\ sessions[i].client = c
                /\ ~Live(sessions[i])
                /\ \A k \in LiveSlots(c) : i < k
AfterScan(c) == [i \in DOMAIN sessions |->
                   [sessions[i] EXCEPT !.active = @ /\ ~Passed(c, i)]]

\* The second loop's hits: the inactive slots.
Inactive(t) == {i \in DOMAIN t : ~t[i].active}
Least(S) == CHOOSE i \in S : \A k \in S : i <= k

\* A slot of the client that has not expired.
TouchSession(c) ==
  /\ LiveSlots(c) # {}
  /\ LET i == Least(LiveSlots(c)) IN
       /\ sessions' = [AfterScan(c) EXCEPT ![i].last = now]
       /\ handed' = [handed EXCEPT ![c] = i]
  /\ UNCHANGED now

\* Mutant of RenewSession: the slot is not zeroed, the history stays.
RenewSessionKeeping(c) ==
  /\ LiveSlots(c) = {}
  /\ Inactive(AfterScan(c)) # {}
  /\ LET i == Least(Inactive(AfterScan(c))) IN
       /\ sessions' = [AfterScan(c) EXCEPT
            ![i] = [NewSession(c) EXCEPT !.history = sessions[i].history]]
       /\ handed' = [handed EXCEPT ![c] = i]
  /\ UNCHANGED now

\* The first inactive slot is zeroed and becomes the client's.
RenewSession(c) ==
  /\ LiveSlots(c) = {}
  /\ Inactive(AfterScan(c)) # {}
  /\ LET i == Least(Inactive(AfterScan(c))) IN
       /\ sessions' = [AfterScan(c) EXCEPT ![i] = NewSession(c)]
       /\ handed' = [handed EXCEPT ![c] = i]
  /\ UNCHANGED now

HasRoom == Len(sessions) < MaxSessions

\* No slot to reuse: a new one, while there is room.
AddSession(c) ==
  /\ LiveSlots(c) = {}
  /\ Inactive(AfterScan(c)) = {}
  /\ HasRoom
  /\ sessions' = Append(AfterScan(c), NewSession(c))
  /\ handed' = [handed EXCEPT ![c] = Len(sessions) + 1]
  /\ UNCHANGED now

RefuseSession(c) ==
  /\ LiveSlots(c) = {}
  /\ Inactive(AfterScan(c)) = {}
  /\ ~HasRoom
  /\ sessions' = AfterScan(c)
  /\ handed' = [handed EXCEPT ![c] = NoSession]
  /\ UNCHANGED now

\* session_add_history: the first slot of that identifier, active or not; a
\* full history still counts as activity.
AddHistory(id) ==
  /\ \E i \in DOMAIN sessions :
       /\ sessions[i].id = id
       /\ \A k \in DOMAIN sessions : sessions[k].id = id => i <= k
       /\ sessions' = [sessions EXCEPT
            ![i].history = IF Len(@) < MaxHistory THEN Append(@, id) ELSE @,
            ![i].last = now]
  /\ UNCHANGED <<now, handed>>

SecondPasses ==
  /\ now < MaxTime
  /\ now' = now + 1
  /\ UNCHANGED <<sessions, handed>>

SessionInit == /\ sessions = <<>>
               /\ now = 0
               /\ handed = [c \in Clients |-> NotAsked]

SessionNext ==
  \/ \E c \in Clients : \/ TouchSession(c) \/ RenewSession(c)
                        \/ AddSession(c) \/ RefuseSession(c)
  \/ \E i \in DOMAIN sessions : AddHistory(sessions[i].id)
  \/ SecondPasses

SessionSpec == SessionInit /\ [][SessionNext]_sessionVars

-------------------------------------------------------------------------------
\* Types; the slots stay within the array and the histories within theirs.
SessionTypeOK ==
  /\ sessions \in Seq(Session) /\ Len(sessions) <= MaxSessions
  /\ \A i \in DOMAIN sessions : Len(sessions[i].history) <= MaxHistory
  /\ now \in Nat
  /\ handed \in [Clients -> Nat \cup {NoSession, NotAsked}]

\* No client has two slots, and between operations no slot is inactive: the
\* only slot that a call finds inactive is the one it has just expired, and it
\* takes that one.
OneSlotPerClient ==
  /\ \A i, k \in DOMAIN sessions : sessions[i].client = sessions[k].client => i = k
  /\ \A i \in DOMAIN sessions : sessions[i].active

\* The pointer that session_get_or_create handed out never comes to point to
\* another client's session, however many sessions expire meanwhile.
HandedSlotIsOwn ==
  \A c \in Clients : handed[c] \in Nat =>
    /\ handed[c] \in DOMAIN sessions
    /\ sessions[handed[c]].client = c

\* What is in the history of a session was added under its identifier, not
\* under that of the session that had the slot before.
HistoryIsOwn ==
  \A i \in DOMAIN sessions : \A h \in DOMAIN sessions[i].history :
    sessions[i].history[h] = sessions[i].id

\* Only a client that has no slot, not even an expired one, is refused, and
\* only when every slot is another client's.
RefusedOnlyWhenFull ==
  \A c \in Clients : handed[c] = NoSession =>
    /\ Len(sessions) = MaxSessions
    /\ \A i \in DOMAIN sessions : sessions[i].client # c
===============================================================================
