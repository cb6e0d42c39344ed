------------------------------- MODULE IpcServer -------------------------------
(***************************************************************************)
(* The SDK's socket server (struct ipc_server in sdk/ipc/ipc.c), the loop  *)
(* of every daemon: one thread, level-triggered epoll, a batch of ready    *)
(* descriptors at a time, and a handler that writes its reply to a         *)
(* non-blocking socket by trying again until it fits.                      *)
(*                                                                         *)
(* Between two steps of the loop the clients connect, write, read, hang up *)
(* and the kernel reuses descriptors, so the state the batch was collected *)
(* in is not the state it is handled in.                                   *)
(*                                                                         *)
(* The handler is the orchestrator's: it looks for the message types in a  *)
(* fixed order in everything one read() returned and answers once          *)
(* (protocol_parse).  A message is its kind and its number on the          *)
(* connection; the answer is abstracted to the number it is for.           *)
(***************************************************************************)
EXTENDS Naturals, Sequences, FiniteSets, Functions

CONSTANTS
  Conns,          \* connections clients make, each once
  NoConn,         \* no connection
  MaxFds,         \* descriptors the process may have open
  SockBuf,        \* replies that fit a client's socket buffer
  MaxWrites,      \* messages a client writes on a connection
  Kinds,          \* the kinds of message they write
  Pipelining,     \* connections whose client writes on without waiting for replies
  HalfClosing,    \* connections whose client shuts down its sending side
  Deaf            \* connections whose client never reads

ASSUME IpcAssumption ==
  /\ NoConn \notin Conns
  /\ MaxFds \in Nat \ {0} /\ SockBuf \in Nat \ {0} /\ MaxWrites \in Nat
  /\ Kinds \subseteq {"ping", "request", "register", "heartbeat"}
  /\ Pipelining \subseteq Conns /\ HalfClosing \subseteq Conns /\ Deaf \subseteq Conns

VARIABLES
  pc,             \* "boot", "loop", "send" (in the handler), "exit"
  running,        \* srv->running
  fds,            \* the connection behind each client descriptor
  batch,          \* events epoll_wait returned that are not handled yet
  sending,        \* the reply in the handler's hands
  backlog,        \* connections waiting for accept
  peer,           \* the client's end: "new", "open", "half", "closed"
  inbox,          \* messages written and not yet read by the server
  written,        \* number of messages written on a connection
  unread,         \* replies in the client's socket buffer
  answered        \* numbers of the messages answered on a connection

clientVars == <<peer, written>>
vars == <<pc, running, fds, batch, sending, backlog, peer, inbox, written,
          unread, answered>>

Fds == 1..MaxFds
Listener == 0                     \* data.fd of the listening socket's event
Free == {f \in Fds : fds[f] = NoConn}
Lowest(S) == CHOOSE f \in S : \A g \in S : f <= g
HungUp(c) == peer[c] \in {"half", "closed"}
NoReply == [fd |-> Listener, conn |-> NoConn, n |-> 0]

Init ==
  /\ pc = "boot"
  /\ running = FALSE
  /\ fds = [f \in Fds |-> NoConn]
  /\ batch = {}
  /\ sending = NoReply
  /\ backlog = <<>>
  /\ peer = [c \in Conns |-> "new"]
  /\ inbox = [c \in Conns |-> <<>>]
  /\ written = [c \in Conns |-> 0]
  /\ unread = [c \in Conns |-> 0]
  /\ answered = [c \in Conns |-> <<>>]

-------------------------------------------------------------------------------
(* The server. *)

\* ipc_server_setup: socket, bind, listen, epoll, and only then "running",
\* which forgets a stop that came before.
Setup ==
  /\ pc = "boot"
  /\ pc' = "loop"
  /\ running' = TRUE
  /\ UNCHANGED <<fds, batch, sending, backlog, inbox, unread, answered, clientVars>>

\* What epoll_wait reports now: one event per ready descriptor, with its
\* flags.  (conn is not in the code: it remembers what fd stood for.)
Ready ==
  {[fd |-> f, conn |-> fds[f], hup |-> HungUp(fds[f])] :
     f \in {f \in Fds : fds[f] # NoConn /\ (inbox[fds[f]] # <<>> \/ HungUp(fds[f]))}}
  \cup IF backlog = <<>> THEN {}
       ELSE {[fd |-> Listener, conn |-> NoConn, hup |-> FALSE]}

\* Mutant of EpollWait: the next wait does not wait for the batch.
EpollWaitEarly ==
  /\ pc = "loop"
  /\ running
  /\ Ready # {}
  /\ batch' = batch \cup Ready
  /\ UNCHANGED <<pc, running, fds, sending, backlog, inbox, unread, answered, clientVars>>

EpollWait ==
  /\ pc = "loop" /\ batch = {}
  /\ running
  /\ Ready # {}
  /\ batch' = Ready
  /\ UNCHANGED <<pc, running, fds, sending, backlog, inbox, unread, answered, clientVars>>

\* One accept4 per report of the listening socket; it fails when the process
\* is out of descriptors, and the connection stays in the backlog.
HandleAccept(e) ==
  /\ pc = "loop"
  /\ e.fd = Listener
  /\ batch' = batch \ {e}
  /\ IF Free = {}
       THEN UNCHANGED <<fds, backlog>>
       ELSE /\ fds' = [fds EXCEPT ![Lowest(Free)] = Head(backlog)]
            /\ backlog' = Tail(backlog)
  /\ UNCHANGED <<pc, running, sending, inbox, unread, answered, clientVars>>

\* EPOLLRDHUP, EPOLLHUP and EPOLLERR come before reading: what the client
\* wrote before it hung up is dropped with the descriptor.
HandleHangup(e) ==
  /\ pc = "loop"
  /\ e.fd # Listener /\ e.hup
  /\ batch' = batch \ {e}
  /\ fds' = [fds EXCEPT ![e.fd] = NoConn]
  /\ inbox' = [inbox EXCEPT ![fds[e.fd]] = <<>>]
  /\ UNCHANGED <<pc, running, sending, backlog, unread, answered, clientVars>>

\* protocol_parse looks for the types in this order, anywhere in the text.
Rank == [ping |-> 1, request |-> 2, register |-> 3, heartbeat |-> 4]

\* The message of one read() that is answered.
Parse(text) ==
  CHOOSE m \in Range(text) : \A k \in Range(text) :
    \/ Rank[m.kind] < Rank[k.kind]
    \/ Rank[m.kind] = Rank[k.kind] /\ m.n <= k.n

\* Mutant of HandleMessages: the text stays in the buffer.
HandleMessagesPeeking(e) ==
  /\ pc = "loop"
  /\ e.fd # Listener /\ ~e.hup
  /\ batch' = batch \ {e}
  /\ sending' = [fd |-> e.fd, conn |-> e.conn, n |-> Parse(inbox[fds[e.fd]]).n]
  /\ pc' = "send"
  /\ UNCHANGED <<running, fds, backlog, inbox, unread, answered, clientVars>>

\* One read() takes all there is, and the handler answers one message of it.
HandleMessages(e) ==
  /\ pc = "loop"
  /\ e.fd # Listener /\ ~e.hup
  /\ batch' = batch \ {e}
  /\ sending' = [fd |-> e.fd, conn |-> e.conn, n |-> Parse(inbox[fds[e.fd]]).n]
  /\ inbox' = [inbox EXCEPT ![fds[e.fd]] = <<>>]
  /\ pc' = "send"
  /\ UNCHANGED <<running, fds, backlog, unread, answered, clientVars>>

\* Mutants of SendReply: the connection is closed behind the reply; EPIPE is
\* tried again like EAGAIN.
SendReplyThenClose ==
  LET c == fds[sending.fd] IN
  /\ pc = "send"
  /\ unread' = [unread EXCEPT ![c] = @ + 1]
  /\ answered' = [answered EXCEPT ![c] = Append(@, sending.n)]
  /\ pc' = "loop"
  /\ sending' = NoReply
  /\ fds' = [fds EXCEPT ![sending.fd] = NoConn]
  /\ UNCHANGED <<running, batch, backlog, inbox, clientVars>>
SendReplyRetryingEpipe ==
  LET c == fds[sending.fd] IN
  /\ pc = "send"
  /\ peer[c] # "closed" /\ unread[c] < SockBuf
  /\ unread' = [unread EXCEPT ![c] = @ + 1]
  /\ answered' = [answered EXCEPT ![c] = Append(@, sending.n)]
  /\ pc' = "loop"
  /\ sending' = NoReply
  /\ UNCHANGED <<running, fds, batch, backlog, inbox, clientVars>>

\* ipc_server_send.  On EAGAIN it tries again at once, so it ends when the
\* reply fits or, with EPIPE, when the client has gone.  "running" is not
\* looked at.
SendReply ==
  LET c == fds[sending.fd] IN
  /\ pc = "send"
  /\ \/ /\ peer[c] = "closed"
        /\ UNCHANGED <<unread, answered>>
     \/ /\ peer[c] # "closed" /\ unread[c] < SockBuf
        /\ unread' = [unread EXCEPT ![c] = @ + 1]
        /\ answered' = [answered EXCEPT ![c] = Append(@, sending.n)]
  /\ pc' = "loop"
  /\ sending' = NoReply
  /\ UNCHANGED <<running, fds, batch, backlog, inbox, clientVars>>

\* Mutant of Leave: the loop goes on until the last client has gone.
LeaveWhenDrained ==
  /\ pc = "loop" /\ batch = {}
  /\ ~running
  /\ Free = Fds
  /\ pc' = "exit"
  /\ backlog' = <<>>
  /\ UNCHANGED <<running, fds, batch, sending, inbox, unread, answered, clientVars>>

\* The loop ends, ipc_server_cleanup follows and the process exits, with all
\* its descriptors.
Leave ==
  /\ pc = "loop" /\ batch = {}
  /\ ~running
  /\ pc' = "exit"
  /\ fds' = [f \in Fds |-> NoConn]
  /\ backlog' = <<>>
  /\ inbox' = [c \in Conns |-> <<>>]
  /\ UNCHANGED <<running, batch, sending, unread, answered, clientVars>>

\* ipc_server_stop, from the signal handler: at any moment, also before setup.
Stop ==
  /\ pc # "exit"
  /\ running' = FALSE
  /\ UNCHANGED <<pc, fds, batch, sending, backlog, inbox, unread, answered, clientVars>>

-------------------------------------------------------------------------------
(* The clients. *)

\* connect to the listening socket.
Connect(c) ==
  /\ pc \notin {"boot", "exit"}
  /\ peer[c] = "new"
  /\ peer' = [peer EXCEPT ![c] = "open"]
  /\ backlog' = Append(backlog, c)
  /\ UNCHANGED <<pc, running, fds, batch, sending, inbox, written, unread, answered>>

\* A client that does not pipeline waits for the reply before it writes again.
Write(c, kind) ==
  /\ pc # "exit"
  /\ peer[c] = "open"
  /\ written[c] < MaxWrites
  /\ c \in Pipelining \/ (Len(answered[c]) = written[c] /\ unread[c] = 0)
  /\ written' = [written EXCEPT ![c] = @ + 1]
  /\ inbox' = [inbox EXCEPT ![c] = Append(@, [n |-> written[c] + 1, kind |-> kind])]
  /\ UNCHANGED <<pc, running, fds, batch, sending, backlog, peer, unread, answered>>

Read(c) ==
  /\ c \notin Deaf
  /\ peer[c] \in {"open", "half"}
  /\ unread[c] > 0
  /\ unread' = [unread EXCEPT ![c] = @ - 1]
  /\ UNCHANGED <<pc, running, fds, batch, sending, backlog, inbox, answered, clientVars>>

ShutdownWrite(c) ==
  /\ c \in HalfClosing
  /\ peer[c] = "open"
  /\ peer' = [peer EXCEPT ![c] = "half"]
  /\ UNCHANGED <<pc, running, fds, batch, sending, backlog, inbox, written, unread, answered>>

Close(c) ==
  /\ peer[c] \in {"open", "half"}
  /\ peer' = [peer EXCEPT ![c] = "closed"]
  /\ unread' = [unread EXCEPT ![c] = 0]
  /\ UNCHANGED <<pc, running, fds, batch, sending, backlog, inbox, written, answered>>

-------------------------------------------------------------------------------
ServerStep ==
  \/ Setup
  \/ EpollWait
  \/ \E e \in batch : HandleAccept(e) \/ HandleHangup(e) \/ HandleMessages(e)
  \/ SendReply
  \/ Leave

ClientStep ==
  \E c \in Conns :
    \/ Connect(c)
    \/ \E kind \in Kinds : Write(c, kind)
    \/ Read(c)
    \/ ShutdownWrite(c)
    \/ Close(c)

Next == ServerStep \/ Stop \/ ClientStep

\* The server's thread is scheduled, and a client that reads replies reads
\* them sooner or later; that it writes, hangs up or closes is not assumed.
Spec ==
  /\ Init /\ [][Next]_vars
  /\ WF_vars(ServerStep)
  /\ \A c \in Conns : WF_vars(Read(c))

-------------------------------------------------------------------------------
(* Properties. *)

Message == [n : 1..MaxWrites, kind : Kinds]
Event == [fd : Fds \cup {Listener}, conn : Conns \cup {NoConn}, hup : BOOLEAN]

TypeOK ==
  /\ pc \in {"boot", "loop", "send", "exit"}
  /\ running \in BOOLEAN
  /\ fds \in [Fds -> Conns \cup {NoConn}]
  /\ batch \in SUBSET Event
  /\ sending \in [fd : Fds \cup {Listener}, conn : Conns \cup {NoConn}, n : Nat]
  /\ backlog \in Seq(Conns)
  /\ peer \in [Conns -> {"new", "open", "half", "closed"}]
  /\ inbox \in [Conns -> Seq(Message)]
  /\ written \in [Conns -> Nat]
  /\ unread \in [Conns -> 0..SockBuf]
  /\ answered \in [Conns -> Seq(Nat)]

\* The events of a batch carry descriptor numbers only, and accepts in the
\* same batch reuse the numbers that hangups free: an event that is still to
\* be handled, and a reply that is still to be sent, nevertheless belong to
\* the connection they were meant for.
DescriptorsAreCurrent ==
  /\ \A e \in batch : e.fd # Listener => fds[e.fd] = e.conn /\ e.conn # NoConn
  /\ pc = "send" => fds[sending.fd] = sending.conn
  /\ \A f, g \in Fds : fds[f] = fds[g] /\ fds[f] # NoConn => f = g

\* A connection loses its descriptor only after its client hung up, or with
\* the process.
OnlyHungUpAreClosed ==
  [][\A f \in Fds : fds[f] # NoConn /\ fds'[f] = NoConn =>
       HungUp(fds[f]) \/ pc' = "exit"]_vars

\* What a client reads on its connection are answers to messages it wrote
\* there, each answered at most once and in the order of writing, however
\* many of them one read() swallowed.
AnsweredInOrder ==
  \A c \in Conns : \A i \in DOMAIN answered[c] :
    /\ answered[c][i] \in 1..written[c]
    /\ \A k \in 1..(i - 1) : answered[c][k] < answered[c][i]

\* What the three rest on.  The events of a batch stay true while it is
\* handled: there is one for each descriptor, a hangup is not undone, and
\* nobody else reads what an event reports.
EventsStayTrue ==
  /\ pc \in {"boot", "exit"} => batch = {}
  /\ \A e, f \in batch : e.fd = f.fd => e = f
  /\ \A e \in batch :
       IF e.fd = Listener THEN backlog # <<>>
       ELSE IF e.hup THEN HungUp(e.conn) ELSE inbox[e.conn] # <<>>

\* A connection waits in the backlog once, and then has a descriptor.
AcceptedOnce ==
  /\ \A i, k \in DOMAIN backlog : backlog[i] = backlog[k] => i = k
  /\ \A i \in DOMAIN backlog :
       peer[backlog[i]] # "new" /\ \A f \in Fds : fds[f] # backlog[i]
  /\ \A f \in Fds : fds[f] # NoConn => peer[fds[f]] # "new"

\* A message that waits to be read is later than every answer, and the reply
\* in the handler's hands lies between the two.
NumbersAscend ==
  /\ \A c \in Conns : \A i \in DOMAIN inbox[c] :
       /\ inbox[c][i].n <= written[c]
       /\ \A k \in DOMAIN answered[c] : answered[c][k] < inbox[c][i].n
  /\ pc = "send" =>
       /\ sending.fd \in Fds /\ sending.conn \in Conns
       /\ sending.n \in 1..written[sending.conn]
       /\ \A k \in DOMAIN answered[sending.conn] :
            answered[sending.conn][k] < sending.n
       /\ \A i \in DOMAIN inbox[sending.conn] :
            sending.n < inbox[sending.conn][i].n

\* The safety properties of the server and their strengthening, preserved by
\* every step of the loop and of the clients.
IInv ==
  /\ DescriptorsAreCurrent
  /\ AnsweredInOrder
  /\ EventsStayTrue
  /\ AcceptedOnce
  /\ NumbersAscend

\* A client that has closed does not keep its descriptor forever.
DeadConnectionsReaped ==
  \A c \in Conns : peer[c] = "closed" ~> \A f \in Fds : fds[f] # c

\* After setup, a stop ends the loop.
StopEndsLoop == ~running /\ pc # "boot" ~> pc = "exit"

\* A client that waits for each reply before it writes again, and reads them,
\* gets one for every message it wrote, whatever the other clients do, unless
\* it hangs up or the server is stopped.
WaitingClientAnswered ==
  \A c \in Conns \ (Pipelining \cup Deaf) :
    written[c] > Len(answered[c]) ~>
      written[c] = Len(answered[c]) \/ HungUp(c) \/ ~running
===============================================================================
