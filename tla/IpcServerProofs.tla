---------------------------- MODULE IpcServerProofs ----------------------------
(***************************************************************************)
(* The safety of the socket server for any number of connections,          *)
(* descriptors and messages: its invariant, and what follows from it.      *)
(***************************************************************************)
EXTENDS IpcServer, WellFoundedInduction, TLAPS

LEMMA LeastExists ==
  ASSUME NEW S \in SUBSET Nat, S # {}
  PROVE  \E x \in S : \A y \in S : x <= y
<1>1. PICK x \in S : \A y \in S : ~ (<<y, x>> \in OpToRel(<, Nat))
  BY NatLessThanWellFounded, WFMin
<1>2. \A y \in S : ~ (y < x)
  BY <1>1 DEF OpToRel
<1>3. \A y \in S : x <= y
  <2> TAKE y \in S
  <2>1. x \in Nat /\ y \in Nat
    OBVIOUS
  <2>2. QED
    BY <1>2, <2>1
<1>4. QED
  BY <1>3

\* accept4 returns the lowest number that is free.
LEMMA LowestIsFree == ASSUME Free # {} PROVE Lowest(Free) \in Free
<1>1. Free \in SUBSET Nat
  BY IpcAssumption DEF Free, Fds
<1>2. \E f \in Free : \A g \in Free : f <= g
  BY <1>1, LeastExists
<1>3. QED
  BY <1>2 DEF Lowest

\* The message that protocol_parse finds is one of the text.
LEMMA ParseIsInText ==
  ASSUME NEW text \in Seq(Message), text # <<>>
  PROVE  \E i \in DOMAIN text : Parse(text) = text[i]
<1> DEFINE ranks == {Rank[text[i].kind] : i \in DOMAIN text}
<1>1. \A i \in DOMAIN text : text[i] \in Message
  OBVIOUS
<1>2. \A k \in Kinds : Rank[k] \in Nat
  BY IpcAssumption DEF Rank
<1>3. ranks \in SUBSET Nat /\ ranks # {}
  BY <1>1, <1>2 DEF Message
<1>4. PICK r \in ranks : \A q \in ranks : r <= q
  BY <1>3, LeastExists
<1> DEFINE numbers == {text[i].n : i \in {i \in DOMAIN text : Rank[text[i].kind] = r}}
<1>5. numbers \in SUBSET Nat /\ numbers # {}
  BY <1>1, <1>4, IpcAssumption DEF Message
<1>6. PICK n \in numbers : \A m \in numbers : n <= m
  BY <1>5, LeastExists
<1>7. PICK i \in DOMAIN text : Rank[text[i].kind] = r /\ text[i].n = n
  BY <1>6
<1>8. \A k \in DOMAIN text :
        \/ Rank[text[i].kind] < Rank[text[k].kind]
        \/ Rank[text[i].kind] = Rank[text[k].kind] /\ text[i].n <= text[k].n
  <2> TAKE k \in DOMAIN text
  <2>1. Rank[text[k].kind] \in ranks /\ r <= Rank[text[k].kind]
    BY <1>4
  <2>2. Rank[text[k].kind] = r => n <= text[k].n
    BY <1>6
  <2>3. r \in Nat /\ Rank[text[k].kind] \in Nat
    BY <1>3, <1>4, <2>1
  <2>4. QED
    BY <1>7, <2>1, <2>2, <2>3
<1>9. \E m \in Range(text) : \A k \in Range(text) :
        \/ Rank[m.kind] < Rank[k.kind]
        \/ Rank[m.kind] = Rank[k.kind] /\ m.n <= k.n
  BY <1>8 DEF Range
<1>10. Parse(text) \in Range(text)
  BY <1>9 DEF Parse
<1>11. QED
  BY <1>10 DEF Range

\* The connection behind an event of the batch is the one it was reported for.
LEMMA EventConnection ==
  ASSUME TypeOK, IInv, NEW e \in batch, e.fd # Listener
  PROVE  /\ e.fd \in Fds /\ fds[e.fd] = e.conn /\ e.conn \in Conns
         /\ \A f \in Fds : fds[f] = e.conn => f = e.fd
<1>1. e \in Event
  BY DEF TypeOK
<1>2. e.fd \in Fds /\ e.conn \in Conns \cup {NoConn}
  BY <1>1 DEF Event
<1>3. fds[e.fd] = e.conn /\ e.conn # NoConn
  BY DEF IInv, DescriptorsAreCurrent
<1>4. QED
  BY <1>2, <1>3 DEF IInv, DescriptorsAreCurrent

\* What HandleMessages takes up: a message of that connection, later than all
\* its answers.
LEMMA MessageTaken ==
  ASSUME TypeOK, IInv, NEW e \in batch, e.fd # Listener, ~e.hup
  PROVE  LET n == Parse(inbox[fds[e.fd]]).n IN
         /\ n \in Nat /\ n \in 1..written[e.conn]
         /\ \A k \in DOMAIN answered[e.conn] : answered[e.conn][k] < n
<1>1. fds[e.fd] = e.conn /\ e.conn \in Conns
  BY EventConnection
<1>2. inbox[e.conn] \in Seq(Message) /\ inbox[e.conn] # <<>>
  BY <1>1 DEF TypeOK, IInv, EventsStayTrue
<1>3. PICK i \in DOMAIN inbox[e.conn] : Parse(inbox[e.conn]) = inbox[e.conn][i]
  BY <1>2, ParseIsInText
<1>4. inbox[e.conn][i].n \in 1..MaxWrites
  <2>1. inbox[e.conn][i] \in Message
    BY <1>2, <1>3
  <2>2. QED
    BY <2>1 DEF Message
<1>5. /\ inbox[e.conn][i].n <= written[e.conn]
      /\ \A k \in DOMAIN answered[e.conn] : answered[e.conn][k] < inbox[e.conn][i].n
  BY <1>1 DEF IInv, NumbersAscend
<1>6. written[e.conn] \in Nat
  BY <1>1 DEF TypeOK
<1>7. /\ inbox[e.conn][i].n \in Nat
      /\ inbox[e.conn][i].n \in 1..written[e.conn]
  BY <1>4, <1>5, <1>6, IpcAssumption
<1>8. QED
  BY <1>1, <1>3, <1>5, <1>7

-------------------------------------------------------------------------------
LEMMA StepKeepsType ==
  ASSUME TypeOK, IInv, [Next]_vars
  PROVE  TypeOK'
<1>1. CASE Setup
  BY <1>1 DEF TypeOK, Setup, clientVars
<1>2. CASE EpollWait
  <2>1. \A f \in Fds : [fd |-> f, conn |-> fds[f], hup |-> HungUp(fds[f])] \in Event
    BY DEF TypeOK, Event, HungUp
  <2>2. [fd |-> Listener, conn |-> NoConn, hup |-> FALSE] \in Event
    BY DEF Event
  <2>3. Ready \in SUBSET Event
    BY <2>1, <2>2 DEF Ready
  <2>4. QED
    BY <1>2, <2>3 DEF TypeOK, EpollWait, clientVars
<1>3. ASSUME NEW e \in batch, HandleAccept(e)
      PROVE  TypeOK'
  <2>1. CASE Free = {}
    BY <1>3, <2>1 DEF TypeOK, HandleAccept, clientVars
  <2>2. CASE Free # {}
    <3>1. backlog # <<>>
      BY <1>3 DEF IInv, EventsStayTrue, HandleAccept
    <3>2. Head(backlog) \in Conns /\ Tail(backlog) \in Seq(Conns)
      BY <3>1 DEF TypeOK
    <3>3. fds' \in [Fds -> Conns \cup {NoConn}] /\ backlog' \in Seq(Conns)
      BY <1>3, <2>2, <3>2 DEF TypeOK, HandleAccept
    <3>4. QED
      BY <1>3, <3>3 DEF TypeOK, HandleAccept, clientVars
  <2>3. QED
    BY <2>1, <2>2
<1>4. ASSUME NEW e \in batch, HandleHangup(e)
      PROVE  TypeOK'
  <2>1. e.fd \in Fds /\ fds[e.fd] \in Conns
    BY <1>4, EventConnection DEF HandleHangup
  <2>2. inbox' \in [Conns -> Seq(Message)]
    BY <1>4, <2>1 DEF TypeOK, HandleHangup
  <2>3. fds' \in [Fds -> Conns \cup {NoConn}] /\ batch' \in SUBSET Event
    BY <1>4, <2>1 DEF TypeOK, HandleHangup
  <2>4. QED
    BY <1>4, <2>2, <2>3 DEF TypeOK, HandleHangup, clientVars
<1>5. ASSUME NEW e \in batch, HandleMessages(e)
      PROVE  TypeOK'
  <2>1. Parse(inbox[fds[e.fd]]).n \in Nat
    BY <1>5, MessageTaken DEF HandleMessages
  <2>2. e \in Event
    BY DEF TypeOK
  <2>3. sending' \in [fd : Fds \cup {Listener}, conn : Conns \cup {NoConn}, n : Nat]
    BY <1>5, <2>1, <2>2 DEF HandleMessages, Event
  <2>4. fds[e.fd] \in Conns
    BY <1>5, EventConnection DEF HandleMessages
  <2>5. inbox' \in [Conns -> Seq(Message)]
    BY <1>5, <2>4 DEF TypeOK, HandleMessages
  <2>6. QED
    BY <1>5, <2>3, <2>5 DEF TypeOK, HandleMessages, clientVars
<1>6. CASE SendReply
  <2>1. NoReply \in [fd : Fds \cup {Listener}, conn : Conns \cup {NoConn}, n : Nat]
    BY DEF NoReply
  <2>2. sending.n \in Nat
    BY DEF TypeOK
  <2>3. fds[sending.fd] \in Conns
    BY <1>6 DEF SendReply, IInv, NumbersAscend, DescriptorsAreCurrent
  <2> DEFINE c == fds[sending.fd]
  <2> HIDE DEF c
  <2>4. unread' \in [Conns -> 0..SockBuf]
    <3>1. CASE unread' = unread
      BY <3>1 DEF TypeOK
    <3>2. CASE unread[c] < SockBuf /\ unread' = [unread EXCEPT ![c] = @ + 1]
      <4>1. unread[c] + 1 \in 0..SockBuf
        BY <2>3, <3>2, IpcAssumption DEF TypeOK, c
      <4>2. QED
        BY <3>2, <4>1 DEF TypeOK
    <3>3. QED
      BY <1>6, <3>1, <3>2 DEF SendReply, c
  <2>5. answered' \in [Conns -> Seq(Nat)]
    <3>1. CASE answered' = answered
      BY <3>1 DEF TypeOK
    <3>2. CASE answered' = [answered EXCEPT ![c] = Append(@, sending.n)]
      <4>1. Append(answered[c], sending.n) \in Seq(Nat)
        BY <2>2, <2>3 DEF TypeOK, c
      <4>2. QED
        BY <3>2, <4>1 DEF TypeOK
    <3>3. QED
      BY <1>6, <3>1, <3>2 DEF SendReply, c
  <2>6. QED
    BY <1>6, <2>1, <2>4, <2>5 DEF TypeOK, SendReply, clientVars
<1>7. CASE Leave
  BY <1>7 DEF TypeOK, Leave, clientVars
<1>8. CASE Stop
  BY <1>8 DEF TypeOK, Stop, clientVars
<1>9. ASSUME NEW c \in Conns, Connect(c)
      PROVE  TypeOK'
  BY <1>9 DEF TypeOK, Connect
<1>10. ASSUME NEW c \in Conns, NEW kind \in Kinds, Write(c, kind)
       PROVE  TypeOK'
  <2>1. [n |-> written[c] + 1, kind |-> kind] \in Message
    BY <1>10, IpcAssumption DEF TypeOK, Write, Message
  <2>2. written' \in [Conns -> Nat]
    BY <1>10 DEF TypeOK, Write
  <2>3. inbox' \in [Conns -> Seq(Message)]
    BY <1>10, <2>1 DEF TypeOK, Write
  <2>4. QED
    BY <1>10, <2>2, <2>3 DEF TypeOK, Write
<1>11. ASSUME NEW c \in Conns, Read(c)
       PROVE  TypeOK'
  BY <1>11, IpcAssumption DEF TypeOK, Read, clientVars
<1>12. ASSUME NEW c \in Conns, ShutdownWrite(c) \/ Close(c)
       PROVE  TypeOK'
  <2>1. peer' \in [Conns -> {"new", "open", "half", "closed"}]
    BY <1>12 DEF TypeOK, ShutdownWrite, Close
  <2>2. CASE ShutdownWrite(c)
    BY <2>1, <2>2 DEF TypeOK, ShutdownWrite
  <2>3. CASE Close(c)
    <3>1. 0 \in 0..SockBuf
      BY IpcAssumption
    <3>2. unread' \in [Conns -> 0..SockBuf]
      BY <2>3, <3>1 DEF TypeOK, Close
    <3>3. QED
      BY <2>1, <2>3, <3>2 DEF TypeOK, Close
  <2>4. QED
    BY <1>12, <2>2, <2>3
<1>13. CASE UNCHANGED vars
  BY <1>13 DEF TypeOK, vars
<1>14. QED
  BY <1>1, <1>2, <1>3, <1>4, <1>5, <1>6, <1>7, <1>8, <1>9, <1>10, <1>11, <1>12, <1>13
     DEF Next, ServerStep, ClientStep
-------------------------------------------------------------------------------
LEMMA StepKeepsInvariant ==
  ASSUME TypeOK, TypeOK', IInv, [Next]_vars
  PROVE  IInv'
<1> USE DEF IInv
<1>1. CASE Setup
  BY <1>1 DEF Setup, clientVars, DescriptorsAreCurrent, AnsweredInOrder,
     EventsStayTrue, AcceptedOnce, NumbersAscend, HungUp
<1>2. CASE EpollWait
  <2>1. DescriptorsAreCurrent'
    BY <1>2 DEF EpollWait, clientVars, DescriptorsAreCurrent, Ready
  <2>2. EventsStayTrue'
    <3>1. \A f \in Fds : f # Listener
      BY IpcAssumption DEF Fds, Listener
    <3>2. \A e \in Ready :
            \/ e.fd = Listener /\ backlog # <<>> /\ e = [fd |-> Listener, conn |-> NoConn, hup |-> FALSE]
            \/ /\ e.fd \in Fds /\ e = [fd |-> e.fd, conn |-> fds[e.fd], hup |-> HungUp(fds[e.fd])]
               /\ inbox[fds[e.fd]] # <<>> \/ HungUp(fds[e.fd])
      BY DEF Ready
    <3>3. \A e, f \in Ready : e.fd = f.fd => e = f
      BY <3>1, <3>2
    <3>4. \A e \in Ready :
            IF e.fd = Listener THEN backlog # <<>>
            ELSE IF e.hup THEN HungUp(e.conn) ELSE inbox[e.conn] # <<>>
      BY <3>1, <3>2
    <3>5. QED
      BY <1>2, <3>3, <3>4 DEF EpollWait, clientVars, EventsStayTrue, HungUp
  <2>3. QED
    BY <1>2, <2>1, <2>2 DEF EpollWait, clientVars, AnsweredInOrder, AcceptedOnce,
       NumbersAscend
<1>3. ASSUME NEW e \in batch, HandleAccept(e)
      PROVE  IInv'
  <2>1. CASE Free = {}
    BY <1>3, <2>1 DEF HandleAccept, clientVars, DescriptorsAreCurrent, AnsweredInOrder,
       EventsStayTrue, AcceptedOnce, NumbersAscend, HungUp
  <2>2. CASE Free # {}
    <3> DEFINE g == Lowest(Free)
               c == Head(backlog)
    <3>1. g \in Fds /\ fds[g] = NoConn
      BY <2>2, LowestIsFree DEF Free
    <3>2. backlog # <<>> /\ backlog \in Seq(Conns)
      BY <1>3 DEF EventsStayTrue, HandleAccept, TypeOK
    <3>3. c = backlog[1] /\ 1 \in DOMAIN backlog /\ c \in Conns
      BY <3>2
    <3>4. peer[c] # "new" /\ \A f \in Fds : fds[f] # c
      BY <3>3 DEF AcceptedOnce
    <3>5. \A i \in DOMAIN Tail(backlog) :
            /\ i + 1 \in DOMAIN backlog /\ Tail(backlog)[i] = backlog[i + 1]
            /\ i \in Nat /\ i + 1 # 1
      BY <3>2
    <3>6. \A i \in DOMAIN Tail(backlog) : Tail(backlog)[i] # c
      BY <3>3, <3>5 DEF AcceptedOnce
    <3>7. fds' = [fds EXCEPT ![g] = c] /\ backlog' = Tail(backlog)
      BY <1>3, <2>2 DEF HandleAccept
    <3> HIDE DEF g, c
    <3>8. \A f \in Fds : fds'[f] = IF f = g THEN c ELSE fds[f]
      BY <3>1, <3>7 DEF TypeOK
    <3>9. DescriptorsAreCurrent'
      <4>1. \A d \in batch' : d.fd # Listener => fds'[d.fd] = d.conn /\ d.conn # NoConn
        <5> TAKE d \in batch'
        <5>1. d \in batch /\ (d.fd # Listener => d.fd \in Fds)
          BY <1>3 DEF HandleAccept, TypeOK, Event
        <5>2. QED
          BY <3>1, <3>8, <5>1 DEF DescriptorsAreCurrent
      <4>2. \A f, h \in Fds : fds'[f] = fds'[h] /\ fds'[f] # NoConn => f = h
        BY <3>4, <3>8 DEF DescriptorsAreCurrent
      <4>3. QED
        BY <1>3, <4>1, <4>2 DEF HandleAccept, DescriptorsAreCurrent
    <3>10. EventsStayTrue'
      BY <1>3 DEF HandleAccept, clientVars, EventsStayTrue, HungUp
    <3>11. AcceptedOnce'
      <4>1. peer' = peer
        BY <1>3 DEF HandleAccept, clientVars
      <4>2. \A i, k \in DOMAIN backlog' : backlog'[i] = backlog'[k] => i = k
        BY <3>5, <3>7 DEF AcceptedOnce
      <4>3. \A i \in DOMAIN backlog' :
              peer[backlog'[i]] # "new" /\ \A f \in Fds : fds'[f] # backlog'[i]
        BY <3>5, <3>6, <3>7, <3>8 DEF AcceptedOnce
      <4>4. \A f \in Fds : fds'[f] # NoConn => peer[fds'[f]] # "new"
        BY <3>4, <3>8 DEF AcceptedOnce
      <4>5. QED
        BY <4>1, <4>2, <4>3, <4>4 DEF AcceptedOnce
    <3>12. AnsweredInOrder' /\ NumbersAscend'
      BY <1>3 DEF HandleAccept, clientVars, AnsweredInOrder, NumbersAscend
    <3>13. QED
      BY <3>9, <3>10, <3>11, <3>12
  <2>3. QED
    BY <2>1, <2>2
<1>4. ASSUME NEW e \in batch, HandleHangup(e)
      PROVE  IInv'
  <2>1. /\ e.fd # Listener /\ e.fd \in Fds /\ fds[e.fd] = e.conn /\ e.conn \in Conns
        /\ \A f \in Fds : fds[f] = e.conn => f = e.fd
    BY <1>4, EventConnection DEF HandleHangup
  <2>2. \A f \in Fds : fds'[f] = IF f = e.fd THEN NoConn ELSE fds[f]
    BY <1>4, <2>1 DEF HandleHangup, TypeOK
  <2>3. \A d \in Conns : inbox'[d] = IF d = e.conn THEN <<>> ELSE inbox[d]
    BY <1>4, <2>1 DEF HandleHangup, TypeOK
  <2>4. \A d \in batch' : d \in batch /\ d.fd # e.fd
    BY <1>4 DEF HandleHangup, EventsStayTrue
  <2>5. \A d \in batch' : d.fd # Listener =>
          d.fd \in Fds /\ fds[d.fd] = d.conn /\ d.conn \in Conns /\ d.conn # e.conn
    BY <2>1, <2>4, EventConnection
  <2>6. DescriptorsAreCurrent'
    <3>1. pc' = "loop"
      BY <1>4 DEF HandleHangup
    <3>2. \A d \in batch' : d.fd # Listener => fds'[d.fd] = d.conn /\ d.conn # NoConn
      BY <2>2, <2>4, <2>5, IpcAssumption
    <3>3. \A f, h \in Fds : fds'[f] = fds'[h] /\ fds'[f] # NoConn => f = h
      BY <2>2 DEF DescriptorsAreCurrent
    <3>4. QED
      BY <3>1, <3>2, <3>3 DEF DescriptorsAreCurrent
  <2>7. EventsStayTrue'
    BY <1>4, <2>3, <2>4, <2>5 DEF HandleHangup, clientVars, EventsStayTrue, HungUp
  <2>8. AcceptedOnce'
    <3>1. backlog' = backlog /\ peer' = peer
      BY <1>4 DEF HandleHangup, clientVars
    <3>2. \A i \in DOMAIN backlog : backlog[i] \in Conns
      BY DEF TypeOK
    <3>3. QED
      BY <2>2, <3>1, <3>2, IpcAssumption DEF AcceptedOnce
  <2>9. AnsweredInOrder'
    BY <1>4 DEF HandleHangup, clientVars, AnsweredInOrder
  <2>10. NumbersAscend'
    BY <1>4, <2>3 DEF HandleHangup, clientVars, NumbersAscend
  <2>11. QED
    BY <2>6, <2>7, <2>8, <2>9, <2>10
<1>5. ASSUME NEW e \in batch, HandleMessages(e)
      PROVE  IInv'
  <2>1. /\ e.fd # Listener /\ e.fd \in Fds /\ fds[e.fd] = e.conn /\ e.conn \in Conns
        /\ \A f \in Fds : fds[f] = e.conn => f = e.fd
    BY <1>5, EventConnection DEF HandleMessages
  <2>2. \A d \in Conns : inbox'[d] = IF d = e.conn THEN <<>> ELSE inbox[d]
    BY <1>5, <2>1 DEF HandleMessages, TypeOK
  <2>3. \A d \in batch' : d \in batch /\ d.fd # e.fd
    BY <1>5 DEF HandleMessages, EventsStayTrue
  <2>4. \A d \in batch' : d.fd # Listener =>
          d.fd \in Fds /\ fds[d.fd] = d.conn /\ d.conn \in Conns /\ d.conn # e.conn
    BY <2>1, <2>3, EventConnection
  <2>5. DescriptorsAreCurrent'
    BY <1>5, <2>1, <2>3 DEF HandleMessages, DescriptorsAreCurrent
  <2>6. EventsStayTrue'
    BY <1>5, <2>2, <2>3, <2>4 DEF HandleMessages, clientVars, EventsStayTrue, HungUp
  <2>7. AcceptedOnce' /\ AnsweredInOrder'
    BY <1>5 DEF HandleMessages, clientVars, AcceptedOnce, AnsweredInOrder
  <2>8. NumbersAscend'
    <3> DEFINE n == Parse(inbox[fds[e.fd]]).n
    <3>1. /\ n \in 1..written[e.conn]
          /\ \A k \in DOMAIN answered[e.conn] : answered[e.conn][k] < n
      BY <1>5, MessageTaken DEF HandleMessages
    <3>2. sending' = [fd |-> e.fd, conn |-> e.conn, n |-> n]
      BY <1>5 DEF HandleMessages
    <3>3. written' = written /\ answered' = answered
      BY <1>5 DEF HandleMessages, clientVars
    <3> HIDE DEF n
    <3>4. \A d \in Conns : \A i \in DOMAIN inbox'[d] :
            /\ inbox'[d][i].n <= written[d]
            /\ \A k \in DOMAIN answered[d] : answered[d][k] < inbox'[d][i].n
      BY <2>2 DEF NumbersAscend
    <3>5. QED
      BY <2>1, <2>2, <3>1, <3>2, <3>3, <3>4 DEF NumbersAscend
  <2>9. QED
    BY <2>5, <2>6, <2>7, <2>8
<1>6. CASE SendReply
  <2> DEFINE c == sending.conn
             n == sending.n
  <2>1. sending.fd \in Fds /\ fds[sending.fd] = c /\ c \in Conns
    BY <1>6 DEF SendReply, DescriptorsAreCurrent, NumbersAscend
  <2>2. /\ n \in Nat /\ n \in 1..written[c] /\ written[c] \in Nat
        /\ answered[c] \in Seq(Nat)
        /\ \A k \in DOMAIN answered[c] : answered[c][k] < n
        /\ \A i \in DOMAIN inbox[c] : n < inbox[c][i].n
    BY <1>6, <2>1 DEF SendReply, NumbersAscend, TypeOK
  <2>3. answered' = answered \/ answered' = [answered EXCEPT ![c] = Append(@, n)]
    BY <1>6, <2>1 DEF SendReply
  <2>4. /\ pc' = "loop" /\ UNCHANGED <<fds, batch, backlog, inbox, peer, written>>
    BY <1>6 DEF SendReply, clientVars
  <2>5. DescriptorsAreCurrent' /\ EventsStayTrue' /\ AcceptedOnce'
    BY <1>6, <2>4 DEF SendReply, DescriptorsAreCurrent, EventsStayTrue, AcceptedOnce, HungUp
  <2> HIDE DEF c, n
  <2>6. AnsweredInOrder' /\ NumbersAscend'
    <3>1. CASE answered' = answered
      BY <2>4, <3>1 DEF AnsweredInOrder, NumbersAscend
    <3>2. CASE answered' = [answered EXCEPT ![c] = Append(@, n)]
      <4>1. \A d \in Conns : d # c => answered'[d] = answered[d]
        BY <3>2 DEF TypeOK
      <4>2. answered'[c] = Append(answered[c], n)
        BY <2>1, <3>2 DEF TypeOK
      <4>3. /\ DOMAIN answered'[c] = 1..(Len(answered[c]) + 1)
            /\ DOMAIN answered[c] = 1..Len(answered[c]) /\ Len(answered[c]) \in Nat
            /\ answered'[c][Len(answered[c]) + 1] = n
            /\ \A i \in DOMAIN answered[c] : answered'[c][i] = answered[c][i]
        BY <2>2, <4>2
      <4>4. \A i \in DOMAIN answered[c] :
              /\ answered[c][i] \in 1..written[c]
              /\ \A k \in 1..(i - 1) : answered[c][k] < answered[c][i]
        BY <2>1 DEF AnsweredInOrder
      <4>5. \A i \in DOMAIN answered'[c] :
              /\ answered'[c][i] \in 1..written[c]
              /\ \A k \in 1..(i - 1) : answered'[c][k] < answered'[c][i]
        <5> TAKE i \in DOMAIN answered'[c]
        <5>1. CASE i \in DOMAIN answered[c]
          <6>1. \A k \in 1..(i - 1) : k \in DOMAIN answered[c]
            BY <4>3, <5>1
          <6>2. QED
            BY <4>3, <4>4, <5>1, <6>1
        <5>2. CASE i = Len(answered[c]) + 1
          <6>1. \A k \in 1..(i - 1) : k \in DOMAIN answered[c]
            BY <4>3, <5>2
          <6>2. QED
            BY <2>2, <4>3, <5>2, <6>1
        <5>3. QED
          BY <4>3, <5>1, <5>2
      <4>6. AnsweredInOrder'
        BY <2>4, <4>1, <4>5 DEF AnsweredInOrder
      <4>7. \A d \in Conns : \A i \in DOMAIN inbox[d] :
              /\ inbox[d][i].n <= written[d]
              /\ \A k \in DOMAIN answered'[d] : answered'[d][k] < inbox[d][i].n
        <5> TAKE d \in Conns
        <5>1. CASE d # c
          BY <4>1, <5>1 DEF NumbersAscend
        <5>2. CASE d = c
          <6> TAKE i \in DOMAIN inbox[d]
          <6>1. /\ inbox[c][i].n <= written[c]
                /\ \A k \in DOMAIN answered[c] : answered[c][k] < inbox[c][i].n
            BY <2>1, <5>2 DEF NumbersAscend
          <6>2. n < inbox[c][i].n
            BY <2>2, <5>2
          <6>3. \A k \in DOMAIN answered'[c] : answered'[c][k] < inbox[c][i].n
            <7> TAKE k \in DOMAIN answered'[c]
            <7>1. k \in DOMAIN answered[c] \/ k = Len(answered[c]) + 1
              BY <4>3
            <7>2. QED
              BY <4>3, <6>1, <6>2, <7>1
          <6>4. QED
            BY <5>2, <6>1, <6>3
        <5>3. QED
          BY <5>1, <5>2
      <4>8. NumbersAscend'
        BY <2>4, <4>7 DEF NumbersAscend
      <4>9. QED
        BY <4>6, <4>8
    <3>3. QED
      BY <2>3, <3>1, <3>2
  <2>7. QED
    BY <2>5, <2>6
<1>7. CASE Leave
  <2>1. \A f \in Fds : fds'[f] = NoConn
    BY <1>7 DEF Leave
  <2>2. \A c \in Conns : inbox'[c] = <<>>
    BY <1>7 DEF Leave
  <2>3. batch' = {} /\ backlog' = <<>> /\ pc' = "exit"
    BY <1>7 DEF Leave
  <2>4. DescriptorsAreCurrent' /\ EventsStayTrue' /\ AcceptedOnce'
    BY <2>1, <2>3 DEF DescriptorsAreCurrent, EventsStayTrue, AcceptedOnce
  <2>5. AnsweredInOrder' /\ NumbersAscend'
    BY <1>7, <2>2, <2>3 DEF Leave, clientVars, AnsweredInOrder, NumbersAscend
  <2>6. QED
    BY <2>4, <2>5
<1>8. CASE Stop
  BY <1>8 DEF Stop, clientVars, DescriptorsAreCurrent, AnsweredInOrder,
     EventsStayTrue, AcceptedOnce, NumbersAscend, HungUp
<1>9. ASSUME NEW c \in Conns, Connect(c)
      PROVE  IInv'
  <2>1. peer[c] = "new" /\ \A d \in Conns : peer'[d] = IF d = c THEN "open" ELSE peer[d]
    BY <1>9 DEF Connect, TypeOK
  <2>2. backlog' = Append(backlog, c) /\ backlog \in Seq(Conns)
    BY <1>9 DEF Connect, TypeOK
  <2>3. /\ DOMAIN backlog' = DOMAIN backlog \cup {Len(backlog) + 1}
        /\ Len(backlog) + 1 \notin DOMAIN backlog
        /\ backlog'[Len(backlog) + 1] = c /\ backlog' # <<>>
        /\ \A i \in DOMAIN backlog : backlog'[i] = backlog[i] /\ backlog[i] \in Conns
    BY <2>2
  <2>4. EventsStayTrue'
    <3>1. \A d \in Conns : HungUp(d) => HungUp(d)'
      BY <2>1 DEF HungUp
    <3>2. \A e \in batch : e.fd # Listener => e.conn \in Conns
      BY EventConnection
    <3>3. pc' = pc /\ batch' = batch /\ inbox' = inbox
      BY <1>9 DEF Connect
    <3>4. QED
      BY <2>3, <3>1, <3>2, <3>3 DEF EventsStayTrue
  <2>5. AcceptedOnce'
    <3>1. fds' = fds
      BY <1>9 DEF Connect
    <3>2. \A f \in Fds : fds[f] # c
      BY <2>1, IpcAssumption DEF AcceptedOnce
    <3>3. \A i \in DOMAIN backlog : backlog[i] # c
      BY <2>1 DEF AcceptedOnce
    <3>4. \A i, k \in DOMAIN backlog' : backlog'[i] = backlog'[k] => i = k
      BY <2>3, <3>3 DEF AcceptedOnce
    <3>5. \A i \in DOMAIN backlog' :
            peer'[backlog'[i]] # "new" /\ \A f \in Fds : fds[f] # backlog'[i]
      BY <1>9, <2>1, <2>3, <3>2 DEF AcceptedOnce
    <3>6. \A f \in Fds : fds[f] # NoConn => peer'[fds[f]] # "new"
      BY <2>1 DEF AcceptedOnce, TypeOK
    <3>7. QED
      BY <3>1, <3>4, <3>5, <3>6 DEF AcceptedOnce
  <2>6. DescriptorsAreCurrent' /\ AnsweredInOrder' /\ NumbersAscend'
    BY <1>9 DEF Connect, DescriptorsAreCurrent, AnsweredInOrder, NumbersAscend
  <2>7. QED
    BY <2>4, <2>5, <2>6
<1>10. ASSUME NEW c \in Conns, NEW kind \in Kinds, Write(c, kind)
       PROVE  IInv'
  <2> DEFINE m == [n |-> written[c] + 1, kind |-> kind]
  <2>1. /\ UNCHANGED <<pc, fds, batch, sending, backlog, peer, answered>>
        /\ written' = [written EXCEPT ![c] = @ + 1]
        /\ inbox' = [inbox EXCEPT ![c] = Append(@, m)]
    BY <1>10 DEF Write
  <2>2. /\ \A d \in Conns : written'[d] = IF d = c THEN written[d] + 1 ELSE written[d]
        /\ \A d \in Conns : written[d] \in Nat /\ answered[d] \in Seq(Nat)
    BY <2>1 DEF TypeOK
  <2>3. /\ \A d \in Conns : inbox'[d] = IF d = c THEN Append(inbox[c], m) ELSE inbox[d]
        /\ inbox[c] \in Seq(Message) /\ m.n = written[c] + 1
    BY <2>1 DEF TypeOK
  <2> HIDE DEF m
  <2>4. /\ DOMAIN inbox'[c] = DOMAIN inbox[c] \cup {Len(inbox[c]) + 1}
        /\ inbox'[c][Len(inbox[c]) + 1] = m /\ inbox'[c] # <<>>
        /\ \A i \in DOMAIN inbox[c] :
             inbox'[c][i] = inbox[c][i] /\ inbox[c][i].n \in Nat
    <3>1. inbox'[c] = Append(inbox[c], m)
      BY <2>3
    <3>2. \A i \in DOMAIN inbox[c] : inbox[c][i].n \in Nat
      <4>1. \A i \in DOMAIN inbox[c] : inbox[c][i] \in Message
        BY <2>3
      <4>2. QED
        BY <4>1, IpcAssumption DEF Message
    <3>3. QED
      BY <2>3, <3>1, <3>2
  <2>5. DescriptorsAreCurrent' /\ AcceptedOnce'
    BY <2>1 DEF DescriptorsAreCurrent, AcceptedOnce
  <2>6. EventsStayTrue'
    <3>1. \A e \in batch : e.fd # Listener => e.conn \in Conns
      BY EventConnection
    <3>2. \A d \in Conns : inbox[d] # <<>> => inbox'[d] # <<>>
      BY <2>3, <2>4
    <3>3. QED
      BY <2>1, <3>1, <3>2 DEF EventsStayTrue, HungUp
  <2>7. AnsweredInOrder'
    <3>1. \A d \in Conns : \A i \in DOMAIN answered[d] : answered[d][i] \in 1..written'[d]
      BY <2>2 DEF AnsweredInOrder
    <3>2. QED
      BY <2>1, <3>1 DEF AnsweredInOrder
  <2>8. NumbersAscend'
    <3>1. \A k \in DOMAIN answered[c] : answered[c][k] < m.n /\ m.n \in Nat
      BY <2>2, <2>3 DEF AnsweredInOrder
    <3>2. \A d \in Conns : \A i \in DOMAIN inbox'[d] :
            /\ inbox'[d][i].n <= written'[d]
            /\ \A k \in DOMAIN answered[d] : answered[d][k] < inbox'[d][i].n
      <4> TAKE d \in Conns
      <4>1. CASE d # c
        BY <2>2, <2>3, <4>1 DEF NumbersAscend
      <4>2. CASE d = c
        <5> TAKE i \in DOMAIN inbox'[d]
        <5>1. CASE i \in DOMAIN inbox[c]
          <6>1. /\ inbox[c][i].n <= written[c]
                /\ \A k \in DOMAIN answered[c] : answered[c][k] < inbox[c][i].n
            BY <5>1 DEF NumbersAscend
          <6>2. QED
            BY <2>2, <2>4, <4>2, <5>1, <6>1
        <5>2. CASE i = Len(inbox[c]) + 1
          BY <2>2, <2>3, <2>4, <3>1, <4>2, <5>2
        <5>3. QED
          BY <2>4, <4>2, <5>1, <5>2
      <4>3. QED
        BY <4>1, <4>2
    <3>3. ASSUME pc = "send"
          PROVE  /\ sending.n \in 1..written'[sending.conn]
                 /\ \A i \in DOMAIN inbox'[sending.conn] :
                      sending.n < inbox'[sending.conn][i].n
      <4>1. /\ sending.conn \in Conns
            /\ sending.n \in 1..written[sending.conn]
            /\ \A i \in DOMAIN inbox[sending.conn] :
                 sending.n < inbox[sending.conn][i].n
        BY <3>3 DEF NumbersAscend
      <4>2. CASE sending.conn # c
        BY <2>2, <2>3, <4>1, <4>2
      <4>3. CASE sending.conn = c
        <5>1. sending.n < m.n
          BY <2>2, <2>3, <4>1, <4>3
        <5>2. QED
          BY <2>2, <2>4, <4>1, <4>3, <5>1
      <4>4. QED
        BY <4>2, <4>3
    <3>4. QED
      BY <2>1, <3>2, <3>3 DEF NumbersAscend
  <2>9. QED
    BY <2>5, <2>6, <2>7, <2>8
<1>11. ASSUME NEW c \in Conns, Read(c)
       PROVE  IInv'
  BY <1>11 DEF Read, clientVars, DescriptorsAreCurrent, AnsweredInOrder,
     EventsStayTrue, AcceptedOnce, NumbersAscend, HungUp
<1>12. ASSUME NEW c \in Conns, ShutdownWrite(c) \/ Close(c)
       PROVE  IInv'
  <2>1. /\ UNCHANGED <<pc, fds, batch, sending, backlog, inbox, written, answered>>
        /\ \A d \in Conns :
             peer'[d] = peer[d] \/ (d = c /\ peer'[d] \in {"half", "closed"})
    BY <1>12 DEF ShutdownWrite, Close, TypeOK
  <2>2. \A e \in batch : e.fd # Listener => e.conn \in Conns
    BY EventConnection
  <2>3. EventsStayTrue'
    BY <2>1, <2>2 DEF EventsStayTrue, HungUp
  <2>4. AcceptedOnce'
    <3>1. \A d \in Conns : peer[d] # "new" => peer'[d] # "new"
      BY <2>1
    <3>2. \A i \in DOMAIN backlog : backlog[i] \in Conns
      BY DEF TypeOK
    <3>3. \A f \in Fds : fds[f] # NoConn => fds[f] \in Conns
      BY DEF TypeOK
    <3>4. QED
      BY <2>1, <3>1, <3>2, <3>3 DEF AcceptedOnce
  <2>5. DescriptorsAreCurrent' /\ AnsweredInOrder' /\ NumbersAscend'
    BY <2>1 DEF DescriptorsAreCurrent, AnsweredInOrder, NumbersAscend
  <2>6. QED
    BY <2>3, <2>4, <2>5
<1>13. CASE UNCHANGED vars
  BY <1>13 DEF vars, DescriptorsAreCurrent, AnsweredInOrder, EventsStayTrue,
     AcceptedOnce, NumbersAscend, HungUp
<1>14. QED
  BY <1>1, <1>2, <1>3, <1>4, <1>5, <1>6, <1>7, <1>8, <1>9, <1>10, <1>11, <1>12, <1>13
     DEF Next, ServerStep, ClientStep

-------------------------------------------------------------------------------
\* Type correctness and the inductive invariant of the loop of ipc_event_loop,
\* for any number of connections, descriptors and messages.
THEOREM ServerInvariant == Spec => [](TypeOK /\ IInv)
<1>1. Init => TypeOK /\ IInv
  <2> SUFFICES ASSUME Init PROVE TypeOK /\ IInv
    OBVIOUS
  <2>1. TypeOK
    <3>1. 0 \in 0..SockBuf /\ NoReply \in [fd : Fds \cup {Listener}, conn : Conns \cup {NoConn}, n : Nat]
      BY IpcAssumption DEF NoReply
    <3>2. <<>> \in Seq(Conns) /\ <<>> \in Seq(Message) /\ <<>> \in Seq(Nat)
      OBVIOUS
    <3>3. unread \in [Conns -> 0..SockBuf]
      BY <3>1 DEF Init
    <3>4. /\ inbox \in [Conns -> Seq(Message)] /\ answered \in [Conns -> Seq(Nat)]
          /\ backlog \in Seq(Conns)
      BY <3>2 DEF Init
    <3>5. fds \in [Fds -> Conns \cup {NoConn}] /\ batch \in SUBSET Event
      BY DEF Init
    <3>6. QED
      BY <3>1, <3>3, <3>4, <3>5 DEF Init, TypeOK
  <2>2. DescriptorsAreCurrent /\ EventsStayTrue
    BY DEF Init, DescriptorsAreCurrent, EventsStayTrue
  <2>3. AcceptedOnce
    BY DEF Init, AcceptedOnce
  <2>4. AnsweredInOrder /\ NumbersAscend
    <3>1. pc = "boot" /\ \A c \in Conns : answered[c] = <<>> /\ inbox[c] = <<>>
      BY DEF Init
    <3>2. QED
      BY <3>1 DEF AnsweredInOrder, NumbersAscend
  <2>5. QED
    BY <2>1, <2>2, <2>3, <2>4 DEF IInv
<1>2. TypeOK /\ IInv /\ [Next]_vars => TypeOK' /\ IInv'
  BY StepKeepsType, StepKeepsInvariant
<1>3. QED
  BY <1>1, <1>2, PTL DEF Spec

\* The events of a batch, and the reply in the handler's hands, belong to the
\* connection that is behind their descriptor now, although accept4 reuses the
\* numbers that the hangups of the same batch free.
THEOREM BatchIsCurrent == Spec => []DescriptorsAreCurrent
<1>1. IInv => DescriptorsAreCurrent
  BY DEF IInv
<1>2. QED
  BY <1>1, ServerInvariant, PTL

\* Every connection reads answers to its own messages, in order and at most
\* once each, although one read() takes several messages.
THEOREM AnswersInOrder == Spec => []AnsweredInOrder
<1>1. IInv => AnsweredInOrder
  BY DEF IInv
<1>2. QED
  BY <1>1, ServerInvariant, PTL

\* ipc_event_loop closes a descriptor only after a hangup of the connection
\* that has it at that moment.
THEOREM ClosedAfterHangup == Spec => OnlyHungUpAreClosed
<1>1. TypeOK /\ IInv /\ [Next]_vars =>
        [\A f \in Fds : fds[f] # NoConn /\ fds'[f] = NoConn =>
           HungUp(fds[f]) \/ pc' = "exit"]_vars
  <2> SUFFICES ASSUME TypeOK, IInv, Next, NEW f \in Fds, fds[f] # NoConn, fds'[f] = NoConn
               PROVE  HungUp(fds[f]) \/ pc' = "exit"
    OBVIOUS
  <2>1. ASSUME NEW e \in batch, HandleAccept(e)
        PROVE  HungUp(fds[f])
    <3>1. CASE Free = {}
      BY <2>1, <3>1 DEF HandleAccept
    <3>2. CASE Free # {}
      <4>1. Lowest(Free) \in Fds /\ fds[Lowest(Free)] = NoConn
        BY <3>2, LowestIsFree DEF Free
      <4>2. fds'[f] = fds[f]
        BY <2>1, <3>2, <4>1 DEF HandleAccept, TypeOK
      <4>3. QED
        BY <4>2
    <3>3. QED
      BY <3>1, <3>2
  <2>2. ASSUME NEW e \in batch, HandleHangup(e)
        PROVE  HungUp(fds[f])
    <3>1. fds[e.fd] = e.conn /\ HungUp(e.conn)
      BY <2>2, EventConnection DEF HandleHangup, IInv, EventsStayTrue
    <3>2. e.fd = f
      BY <2>2 DEF HandleHangup, TypeOK
    <3>3. QED
      BY <3>1, <3>2
  <2>3. CASE Leave
    BY <2>3 DEF Leave
  <2>4. QED
    BY <2>1, <2>2, <2>3
       DEF Next, ServerStep, ClientStep, Setup, EpollWait, HandleMessages, SendReply,
           Stop, Connect, Write, Read, ShutdownWrite, Close
<1>2. QED
  BY <1>1, ServerInvariant, PTL DEF Spec, OnlyHungUpAreClosed
================================================================================
