----------------------------- MODULE AgentLinkProofs -----------------------------
(***************************************************************************)
(* The safety of AgentLink.tla for any number of agents, runs of the       *)
(* orchestrator and ends of agents: no agent mistakes a connection for a   *)
(* registration, and no SDK agent is released under its heartbeat thread.  *)
(***************************************************************************)
EXTENDS AgentLink, TLAPS

USE DEF orchVars, daemonVars, threadVars, sdkVars, vars, sdkRest, NoRun

LEMMA LinkInit == Init => LinkIInv
<1> SUFFICES ASSUME Init PROVE LinkIInv
  OBVIOUS
<1>0. 0 \in 0..MaxRuns /\ 0 \in 0..MaxDeaths /\ MaxAgents \in 0..MaxAgents
  BY LinkAssumption
<1>1. LinkTypeOK
  BY <1>0 DEF Init, LinkTypeOK
<1>2. LinkMeansRegistered /\ NoUseAfterFree /\ Links /\ Threads
  BY DEF Init, LinkMeansRegistered, NoUseAfterFree, Links, Threads, Alive, AllAgents, Lives, Entered
<1> QED
  BY <1>1, <1>2 DEF LinkIInv

\* Numbers, and who is who.
LEMMA LinkFacts ==
  ASSUME LinkIInv
  PROVE  /\ run \in Nat /\ link \in [AllAgents -> Nat]
         /\ \A a \in AllAgents : link[a] <= run
         /\ \A d \in Daemons : d \in AllAgents /\ d \notin SdkAgents
         /\ \A s \in SdkAgents : s \in AllAgents /\ s \notin Daemons
<1>1. run \in Nat /\ link \in [AllAgents -> Nat]
  BY LinkAssumption DEF LinkIInv, LinkTypeOK
<1>2. \A a \in AllAgents : link[a] <= run
  BY DEF LinkIInv, Links
<1> QED
  BY <1>1, <1>2, LinkAssumption DEF AllAgents

-------------------------------------------------------------------------------
(* The orchestrator: registering adds to its registry, its end cuts every
   connection, and a new run makes none of the old ones alive. *)

LEMMA OrchStartStep ==
  ASSUME LinkIInv, OrchStart
  PROVE  LinkIInv'
<1>1. LinkTypeOK'
  BY LinkFacts, LinkAssumption DEF LinkIInv, LinkTypeOK, OrchStart
<1>2. LinkMeansRegistered' /\ Links'
  BY LinkFacts DEF LinkIInv, LinkMeansRegistered, Links, LinkTypeOK, Alive, Entered,
     OrchStart
<1>3. NoUseAfterFree' /\ Threads'
  BY DEF LinkIInv, NoUseAfterFree, Threads, OrchStart
<1> QED
  BY <1>1, <1>2, <1>3 DEF LinkIInv

LEMMA OrchEndStep ==
  ASSUME LinkIInv, OrchEnd
  PROVE  LinkIInv'
<1>0. MaxAgents \in 0..MaxAgents
  BY LinkAssumption
<1>1. LinkTypeOK'
  BY <1>0, LinkFacts DEF LinkIInv, LinkTypeOK, OrchEnd
<1>2. LinkMeansRegistered' /\ Links'
  BY LinkFacts DEF LinkIInv, LinkMeansRegistered, Links, LinkTypeOK, Alive, Entered,
     OrchEnd
<1>3. NoUseAfterFree' /\ Threads'
  BY DEF LinkIInv, NoUseAfterFree, Threads, OrchEnd
<1> QED
  BY <1>1, <1>2, <1>3 DEF LinkIInv

LEMMA OrchGivesUpStep ==
  ASSUME LinkIInv, OrchGivesUp
  PROVE  LinkIInv'
<1>1. LinkTypeOK'
  BY LinkFacts DEF LinkIInv, LinkTypeOK, OrchGivesUp
<1>2. LinkMeansRegistered' /\ Links'
  BY LinkFacts DEF LinkIInv, LinkMeansRegistered, Links, LinkTypeOK, Alive, Entered,
     OrchGivesUp
<1>3. NoUseAfterFree' /\ Threads'
  BY DEF LinkIInv, NoUseAfterFree, Threads, OrchGivesUp
<1> QED
  BY <1>1, <1>2, <1>3 DEF LinkIInv

LEMMA OrchRegisterStep ==
  ASSUME LinkIInv, NEW a \in AllAgents, OrchRegister(a)
  PROVE  LinkIInv'
<1>0. room \in 0..MaxAgents /\ room' \in 0..MaxAgents
  BY LinkAssumption DEF LinkIInv, LinkTypeOK, OrchRegister
<1>1. LinkTypeOK'
  BY <1>0, LinkFacts DEF LinkIInv, LinkTypeOK, OrchRegister
<1>2. LinkMeansRegistered' /\ Links'
  BY LinkFacts DEF LinkIInv, LinkMeansRegistered, Links, LinkTypeOK, Alive, Entered,
     OrchRegister
<1>3. NoUseAfterFree' /\ Threads'
  BY DEF LinkIInv, NoUseAfterFree, Threads, OrchRegister
<1> QED
  BY <1>1, <1>2, <1>3 DEF LinkIInv

LEMMA OthersRegisterStep ==
  ASSUME LinkIInv, OthersRegister
  PROVE  LinkIInv'
<1>1. LinkTypeOK'
  BY LinkFacts, LinkAssumption DEF LinkIInv, LinkTypeOK, OthersRegister
<1>2. LinkMeansRegistered' /\ Links'
  BY LinkFacts DEF LinkIInv, LinkMeansRegistered, Links, LinkTypeOK, Threads, Alive, Entered,
     OthersRegister
<1>3. NoUseAfterFree' /\ Threads'
  BY LinkFacts DEF LinkIInv, NoUseAfterFree, Threads, LinkTypeOK, Lives, OthersRegister
<1> QED
  BY <1>1, <1>2, <1>3 DEF LinkIInv

LEMMA OrchDispatchStep ==
  ASSUME LinkIInv, NEW d \in Daemons, OrchDispatch(d)
  PROVE  LinkIInv'
<1>1. LinkTypeOK'
  BY LinkFacts DEF LinkIInv, LinkTypeOK, OrchDispatch, Listening
<1>2. LinkMeansRegistered' /\ Links'
  BY LinkFacts DEF LinkIInv, LinkMeansRegistered, Links, LinkTypeOK, Alive, Entered,
     OrchDispatch, Listening
<1>3. NoUseAfterFree' /\ Threads'
  BY DEF LinkIInv, NoUseAfterFree, Threads, OrchDispatch
<1> QED
  BY <1>1, <1>2, <1>3 DEF LinkIInv

-------------------------------------------------------------------------------
(* The daemons: who reads a reply was registered, and a new connection begins
   with a registration. *)

LEMMA BootStep ==
  ASSUME LinkIInv, NEW d \in Daemons, Boot(d)
  PROVE  LinkIInv'
<1>1. LinkTypeOK'
  BY LinkFacts, LinkAssumption DEF LinkIInv, LinkTypeOK, Boot, Register
<1>2. LinkMeansRegistered' /\ Links'
  BY LinkFacts DEF LinkIInv, LinkMeansRegistered, Links, LinkTypeOK, Alive, Entered,
     Boot, Register
<1>3. NoUseAfterFree' /\ Threads'
  BY DEF LinkIInv, NoUseAfterFree, Threads, Boot
<1> QED
  BY <1>1, <1>2, <1>3 DEF LinkIInv

LEMMA ReadReplyStep ==
  ASSUME LinkIInv, NEW d \in Daemons, ReadReply(d)
  PROVE  LinkIInv'
<1>1. LinkTypeOK'
  BY LinkFacts DEF LinkIInv, LinkTypeOK, ReadReply, AfterWait
<1>2. LinkMeansRegistered' /\ Links'
  BY LinkFacts DEF LinkIInv, LinkMeansRegistered, Links, LinkTypeOK, Alive, Entered,
     ReadReply, AfterWait
<1>3. NoUseAfterFree' /\ Threads'
  BY DEF LinkIInv, NoUseAfterFree, Threads, ReadReply
<1> QED
  BY <1>1, <1>2, <1>3 DEF LinkIInv

LEMMA ReadEndStep ==
  ASSUME LinkIInv, NEW d \in Daemons, ReadEnd(d)
  PROVE  LinkIInv'
<1>1. LinkTypeOK'
  BY LinkFacts, LinkAssumption DEF LinkIInv, LinkTypeOK, ReadEnd, AfterWait
<1>2. LinkMeansRegistered' /\ Links'
  BY LinkFacts DEF LinkIInv, LinkMeansRegistered, Links, LinkTypeOK, Alive, Entered,
     ReadEnd, AfterWait
<1>3. NoUseAfterFree' /\ Threads'
  BY DEF LinkIInv, NoUseAfterFree, Threads, ReadEnd
<1> QED
  BY <1>1, <1>2, <1>3 DEF LinkIInv

LEMMA BindStep ==
  ASSUME LinkIInv, NEW d \in Daemons, Bind(d)
  PROVE  LinkIInv'
<1>1. LinkTypeOK'
  BY LinkFacts DEF LinkIInv, LinkTypeOK, Bind
<1>2. LinkMeansRegistered' /\ Links'
  BY LinkFacts DEF LinkIInv, LinkMeansRegistered, Links, LinkTypeOK, Alive, Entered,
     Bind
<1>3. NoUseAfterFree' /\ Threads'
  BY DEF LinkIInv, NoUseAfterFree, Threads, Bind
<1> QED
  BY <1>1, <1>2, <1>3 DEF LinkIInv

LEMMA ServeStep ==
  ASSUME LinkIInv, NEW d \in Daemons, Serve(d)
  PROVE  LinkIInv'
<1>1. LinkTypeOK'
  BY LinkFacts DEF LinkIInv, LinkTypeOK, Serve
<1>2. LinkMeansRegistered' /\ Links'
  BY LinkFacts DEF LinkIInv, LinkMeansRegistered, Links, LinkTypeOK, Alive, Entered,
     Serve
<1>3. NoUseAfterFree' /\ Threads'
  BY DEF LinkIInv, NoUseAfterFree, Threads, Serve
<1> QED
  BY <1>1, <1>2, <1>3 DEF LinkIInv

LEMMA HeartbeatStep ==
  ASSUME LinkIInv, NEW d \in Daemons, Heartbeat(d)
  PROVE  LinkIInv'
<1>1. LinkTypeOK'
  BY LinkFacts, LinkAssumption DEF LinkIInv, LinkTypeOK, Heartbeat, Register
<1>2. LinkMeansRegistered' /\ Links'
  BY LinkFacts DEF LinkIInv, LinkMeansRegistered, Links, LinkTypeOK, Alive, Entered,
     Heartbeat, Register
<1>3. NoUseAfterFree' /\ Threads'
  BY DEF LinkIInv, NoUseAfterFree, Threads, Heartbeat
<1> QED
  BY <1>1, <1>2, <1>3 DEF LinkIInv

LEMMA DaemonEndStep ==
  ASSUME LinkIInv, NEW d \in Daemons, DaemonEnd(d)
  PROVE  LinkIInv'
<1>1. LinkTypeOK'
  BY LinkFacts, LinkAssumption DEF LinkIInv, LinkTypeOK, DaemonEnd
<1>2. LinkMeansRegistered' /\ Links'
  BY LinkFacts DEF LinkIInv, LinkMeansRegistered, Links, LinkTypeOK, Alive, Entered,
     DaemonEnd
<1>3. NoUseAfterFree' /\ Threads'
  BY DEF LinkIInv, NoUseAfterFree, Threads, DaemonEnd
<1> QED
  BY <1>1, <1>2, <1>3 DEF LinkIInv

LEMMA DaemonStartStep ==
  ASSUME LinkIInv, NEW d \in Daemons, DaemonStart(d)
  PROVE  LinkIInv'
<1>1. LinkTypeOK'
  BY LinkFacts, LinkAssumption DEF LinkIInv, LinkTypeOK, DaemonStart
<1>2. LinkMeansRegistered' /\ Links'
  BY LinkFacts DEF LinkIInv, LinkMeansRegistered, Links, LinkTypeOK, Alive, Entered,
     DaemonStart
<1>3. NoUseAfterFree' /\ Threads'
  BY DEF LinkIInv, NoUseAfterFree, Threads, DaemonStart
<1> QED
  BY <1>1, <1>2, <1>3 DEF LinkIInv

-------------------------------------------------------------------------------
(* Agents of the SDK: the flag keeps a registered agent from a new connection,
   and the memory is released when the thread has ended. *)

LEMMA SdkRegisterStep ==
  ASSUME LinkIInv, NEW s \in SdkAgents, SdkRegister(s)
  PROVE  LinkIInv'
<1>1. LinkTypeOK'
  <2>1. /\ state' \in [SdkAgents -> {"unregistered", "registering", "registered", "running",
                                   "shutdown", "error"}]
        /\ call' \in [SdkAgents -> {"none", "register", "start", "create", "stop", "cleanup",
                                  "freed", "crashed"}]
    BY DEF LinkIInv, LinkTypeOK, SdkRegister, Idle, Connect
  <2>2. /\ link' \in [AllAgents -> 0..MaxRuns]
        /\ asking' \subseteq AllAgents /\ answered' \subseteq AllAgents
    BY LinkFacts, LinkAssumption DEF LinkIInv, LinkTypeOK, SdkRegister, Idle, Connect
  <2>3. /\ connected' \in [SdkAgents -> BOOLEAN] /\ running' \in [SdkAgents -> BOOLEAN]
        /\ overlapped' \subseteq SdkAgents
    BY LinkFacts DEF LinkIInv, LinkTypeOK, Alive, SdkRegister, Idle, Connect
  <2>4. /\ beat' \in [SdkAgents -> {"none", "test", "sleep", "connect", "exited"}]
        /\ stray' \in [SdkAgents -> {"none", "test", "sleep", "connect"}]
    BY DEF LinkIInv, LinkTypeOK, Lives, SdkRegister, Idle, Connect
  <2>5. UNCHANGED <<orchVars, daemonVars>>
    BY DEF SdkRegister, Idle, Connect
  <2> QED
    BY <2>1, <2>2, <2>3, <2>4, <2>5 DEF LinkIInv, LinkTypeOK
<1>2. LinkMeansRegistered' /\ Links'
  BY LinkFacts DEF LinkIInv, LinkMeansRegistered, Links, LinkTypeOK, Threads, Alive, Entered,
     SdkRegister, Idle, Connect
<1>3. NoUseAfterFree' /\ Threads'
  BY LinkFacts DEF LinkIInv, NoUseAfterFree, Threads, LinkTypeOK, Lives, SdkRegister, Idle, Connect
<1> QED
  BY <1>1, <1>2, <1>3 DEF LinkIInv

LEMMA SdkStartStep ==
  ASSUME LinkIInv, NEW s \in SdkAgents, SdkStart(s)
  PROVE  LinkIInv'
<1>1. LinkTypeOK'
  <2>1. /\ state' \in [SdkAgents -> {"unregistered", "registering", "registered", "running",
                                   "shutdown", "error"}]
        /\ call' \in [SdkAgents -> {"none", "register", "start", "create", "stop", "cleanup",
                                  "freed", "crashed"}]
    BY DEF LinkIInv, LinkTypeOK, SdkStart, Idle, Connect
  <2>2. /\ link' \in [AllAgents -> 0..MaxRuns]
        /\ asking' \subseteq AllAgents /\ answered' \subseteq AllAgents
    BY LinkFacts, LinkAssumption DEF LinkIInv, LinkTypeOK, SdkStart, Idle, Connect
  <2>3. /\ connected' \in [SdkAgents -> BOOLEAN] /\ running' \in [SdkAgents -> BOOLEAN]
        /\ overlapped' \subseteq SdkAgents
    BY LinkFacts DEF LinkIInv, LinkTypeOK, Alive, SdkStart, Idle, Connect
  <2>4. /\ beat' \in [SdkAgents -> {"none", "test", "sleep", "connect", "exited"}]
        /\ stray' \in [SdkAgents -> {"none", "test", "sleep", "connect"}]
    BY DEF LinkIInv, LinkTypeOK, Lives, SdkStart, Idle, Connect
  <2>5. UNCHANGED <<orchVars, daemonVars>>
    BY DEF SdkStart, Idle, Connect
  <2> QED
    BY <2>1, <2>2, <2>3, <2>4, <2>5 DEF LinkIInv, LinkTypeOK
<1>2. LinkMeansRegistered' /\ Links'
  BY LinkFacts DEF LinkIInv, LinkMeansRegistered, Links, LinkTypeOK, Threads, Alive, Entered,
     SdkStart, Idle, Connect
<1>3. NoUseAfterFree' /\ Threads'
  BY LinkFacts DEF LinkIInv, NoUseAfterFree, Threads, LinkTypeOK, Lives, SdkStart, Idle, Connect
<1> QED
  BY <1>1, <1>2, <1>3 DEF LinkIInv

LEMMA SdkRegisteredStep ==
  ASSUME LinkIInv, NEW s \in SdkAgents, SdkRegistered(s)
  PROVE  LinkIInv'
<1>1. LinkTypeOK'
  BY LinkFacts, LinkAssumption DEF LinkIInv, LinkTypeOK, SdkRegistered
<1>2. LinkMeansRegistered' /\ Links'
  BY LinkFacts DEF LinkIInv, LinkMeansRegistered, Links, LinkTypeOK, Threads, Alive, Entered,
     SdkRegistered
<1>3. NoUseAfterFree' /\ Threads'
  BY LinkFacts DEF LinkIInv, NoUseAfterFree, Threads, LinkTypeOK, Lives, SdkRegistered
<1> QED
  BY <1>1, <1>2, <1>3 DEF LinkIInv

LEMMA SdkRegisterFailsStep ==
  ASSUME LinkIInv, NEW s \in SdkAgents, SdkRegisterFails(s)
  PROVE  LinkIInv'
<1>1. LinkTypeOK'
  <2>1. /\ state' \in [SdkAgents -> {"unregistered", "registering", "registered", "running",
                                   "shutdown", "error"}]
        /\ call' \in [SdkAgents -> {"none", "register", "start", "create", "stop", "cleanup",
                                  "freed", "crashed"}]
    BY DEF LinkIInv, LinkTypeOK, SdkRegisterFails
  <2>2. /\ link' \in [AllAgents -> 0..MaxRuns]
        /\ asking' \subseteq AllAgents /\ answered' \subseteq AllAgents
    BY LinkFacts, LinkAssumption DEF LinkIInv, LinkTypeOK, SdkRegisterFails
  <2>3. /\ connected' \in [SdkAgents -> BOOLEAN] /\ running' \in [SdkAgents -> BOOLEAN]
        /\ overlapped' \subseteq SdkAgents
    BY LinkFacts DEF LinkIInv, LinkTypeOK, Alive, SdkRegisterFails
  <2>4. /\ beat' \in [SdkAgents -> {"none", "test", "sleep", "connect", "exited"}]
        /\ stray' \in [SdkAgents -> {"none", "test", "sleep", "connect"}]
    BY DEF LinkIInv, LinkTypeOK, Lives, SdkRegisterFails
  <2>5. UNCHANGED <<orchVars, daemonVars>>
    BY DEF SdkRegisterFails
  <2> QED
    BY <2>1, <2>2, <2>3, <2>4, <2>5 DEF LinkIInv, LinkTypeOK
<1>2. LinkMeansRegistered' /\ Links'
  BY LinkFacts DEF LinkIInv, LinkMeansRegistered, Links, LinkTypeOK, Threads, Alive, Entered,
     SdkRegisterFails
<1>3. NoUseAfterFree' /\ Threads'
  BY LinkFacts DEF LinkIInv, NoUseAfterFree, Threads, LinkTypeOK, Lives, SdkRegisterFails
<1> QED
  BY <1>1, <1>2, <1>3 DEF LinkIInv

LEMMA SdkCreateStep ==
  ASSUME LinkIInv, NEW s \in SdkAgents, SdkCreate(s)
  PROVE  LinkIInv'
<1>1. LinkTypeOK'
  <2>1. /\ state' \in [SdkAgents -> {"unregistered", "registering", "registered", "running",
                                   "shutdown", "error"}]
        /\ call' \in [SdkAgents -> {"none", "register", "start", "create", "stop", "cleanup",
                                  "freed", "crashed"}]
    BY DEF LinkIInv, LinkTypeOK, SdkCreate
  <2>2. /\ link' \in [AllAgents -> 0..MaxRuns]
        /\ asking' \subseteq AllAgents /\ answered' \subseteq AllAgents
    BY LinkFacts, LinkAssumption DEF LinkIInv, LinkTypeOK, SdkCreate
  <2>3. /\ connected' \in [SdkAgents -> BOOLEAN] /\ running' \in [SdkAgents -> BOOLEAN]
        /\ overlapped' \subseteq SdkAgents
    BY LinkFacts DEF LinkIInv, LinkTypeOK, Alive, SdkCreate
  <2>4. /\ beat' \in [SdkAgents -> {"none", "test", "sleep", "connect", "exited"}]
        /\ stray' \in [SdkAgents -> {"none", "test", "sleep", "connect"}]
    BY DEF LinkIInv, LinkTypeOK, Lives, SdkCreate
  <2>5. UNCHANGED <<orchVars, daemonVars>>
    BY DEF SdkCreate
  <2> QED
    BY <2>1, <2>2, <2>3, <2>4, <2>5 DEF LinkIInv, LinkTypeOK
<1>2. LinkMeansRegistered' /\ Links'
  BY LinkFacts DEF LinkIInv, LinkMeansRegistered, Links, LinkTypeOK, Threads, Alive, Entered,
     SdkCreate
<1>3. NoUseAfterFree' /\ Threads'
  BY LinkFacts DEF LinkIInv, NoUseAfterFree, Threads, LinkTypeOK, Lives, SdkCreate
<1> QED
  BY <1>1, <1>2, <1>3 DEF LinkIInv

LEMMA BeatTestStep ==
  ASSUME LinkIInv, NEW s \in SdkAgents, NEW t \in Thread, BeatTest(s, t)
  PROVE  LinkIInv'
<1>1. LinkTypeOK'
  BY LinkFacts, LinkAssumption DEF LinkIInv, LinkTypeOK, BeatTest, Moves, Thread
<1>2. LinkMeansRegistered' /\ Links'
  BY LinkFacts DEF LinkIInv, LinkMeansRegistered, Links, LinkTypeOK, Threads, Alive, Entered,
     BeatTest, Moves, Thread
<1>3. NoUseAfterFree' /\ Threads'
  BY LinkFacts DEF LinkIInv, NoUseAfterFree, Threads, LinkTypeOK, Lives, BeatTest, Moves, Thread
<1> QED
  BY <1>1, <1>2, <1>3 DEF LinkIInv

LEMMA BeatLookStep ==
  ASSUME LinkIInv, NEW s \in SdkAgents, NEW t \in Thread, BeatLook(s, t)
  PROVE  LinkIInv'
<1>1. LinkTypeOK'
  BY LinkFacts, LinkAssumption DEF LinkIInv, LinkTypeOK, BeatLook, Moves, Thread
<1>2. LinkMeansRegistered' /\ Links'
  BY LinkFacts DEF LinkIInv, LinkMeansRegistered, Links, LinkTypeOK, Threads, Alive, Entered,
     BeatLook, Moves, Thread
<1>3. NoUseAfterFree' /\ Threads'
  BY LinkFacts DEF LinkIInv, NoUseAfterFree, Threads, LinkTypeOK, Lives, BeatLook, Moves, Thread
<1> QED
  BY <1>1, <1>2, <1>3 DEF LinkIInv

LEMMA BeatConnectStep ==
  ASSUME LinkIInv, NEW s \in SdkAgents, NEW t \in Thread, BeatConnect(s, t)
  PROVE  LinkIInv'
<1>1. LinkTypeOK'
  BY LinkFacts, LinkAssumption DEF LinkIInv, LinkTypeOK, BeatConnect, Moves, Thread
<1>2. LinkMeansRegistered' /\ Links'
  BY LinkFacts DEF LinkIInv, LinkMeansRegistered, Links, LinkTypeOK, Threads, Alive, Entered,
     Lives, BeatConnect, Moves, Thread
<1>3. NoUseAfterFree' /\ Threads'
  BY LinkFacts DEF LinkIInv, NoUseAfterFree, Threads, LinkTypeOK, Lives, BeatConnect, Moves, Thread
<1> QED
  BY <1>1, <1>2, <1>3 DEF LinkIInv

LEMMA SdkStopStep ==
  ASSUME LinkIInv, NEW s \in SdkAgents, NEW f \in {"stop", "cleanup"}, SdkStop(s, f)
  PROVE  LinkIInv'
<1>1. LinkTypeOK'
  BY LinkFacts, LinkAssumption DEF LinkIInv, LinkTypeOK, SdkStop, Idle
<1>2. LinkMeansRegistered' /\ Links'
  BY LinkFacts DEF LinkIInv, LinkMeansRegistered, Links, LinkTypeOK, Threads, Alive, Entered,
     SdkStop, Idle
<1>3. NoUseAfterFree' /\ Threads'
  BY LinkFacts DEF LinkIInv, NoUseAfterFree, Threads, LinkTypeOK, Lives, SdkStop, Idle
<1> QED
  BY <1>1, <1>2, <1>3 DEF LinkIInv

LEMMA SdkStoppedStep ==
  ASSUME LinkIInv, NEW s \in SdkAgents, SdkStopped(s)
  PROVE  LinkIInv'
<1>1. LinkTypeOK'
  BY LinkFacts, LinkAssumption DEF LinkIInv, LinkTypeOK, SdkStopped, Joined
<1>2. LinkMeansRegistered' /\ Links'
  BY LinkFacts DEF LinkIInv, LinkMeansRegistered, Links, LinkTypeOK, Threads, Alive, Entered,
     SdkStopped, Joined
<1>3. NoUseAfterFree' /\ Threads'
  BY LinkFacts DEF LinkIInv, NoUseAfterFree, Threads, LinkTypeOK, Lives, SdkStopped, Joined
<1> QED
  BY <1>1, <1>2, <1>3 DEF LinkIInv

LEMMA SdkCleanedUpStep ==
  ASSUME LinkIInv, NEW s \in SdkAgents, SdkCleanedUp(s)
  PROVE  LinkIInv'
<1>1. LinkTypeOK'
  BY LinkFacts, LinkAssumption DEF LinkIInv, LinkTypeOK, SdkCleanedUp, Joined, Ends
<1>2. LinkMeansRegistered' /\ Links'
  BY LinkFacts DEF LinkIInv, LinkMeansRegistered, Links, LinkTypeOK, Threads, Alive, Entered,
     SdkCleanedUp, Joined, Ends
<1>3. NoUseAfterFree' /\ Threads'
  BY LinkFacts DEF LinkIInv, NoUseAfterFree, Threads, LinkTypeOK, Lives, SdkCleanedUp, Joined, Ends
<1> QED
  BY <1>1, <1>2, <1>3 DEF LinkIInv

LEMMA SdkJoinsNothingStep ==
  ASSUME LinkIInv, NEW s \in SdkAgents, SdkJoinsNothing(s)
  PROVE  LinkIInv'
<1>1. LinkTypeOK'
  <2>1. /\ state' \in [SdkAgents -> {"unregistered", "registering", "registered", "running",
                                   "shutdown", "error"}]
        /\ call' \in [SdkAgents -> {"none", "register", "start", "create", "stop", "cleanup",
                                  "freed", "crashed"}]
    BY DEF LinkIInv, LinkTypeOK, SdkJoinsNothing, Ends
  <2>2. /\ link' \in [AllAgents -> 0..MaxRuns]
        /\ asking' \subseteq AllAgents /\ answered' \subseteq AllAgents
    BY LinkFacts, LinkAssumption DEF LinkIInv, LinkTypeOK, SdkJoinsNothing, Ends
  <2>3. /\ connected' \in [SdkAgents -> BOOLEAN] /\ running' \in [SdkAgents -> BOOLEAN]
        /\ overlapped' \subseteq SdkAgents
    BY LinkFacts DEF LinkIInv, LinkTypeOK, Alive, SdkJoinsNothing, Ends
  <2>4. /\ beat' \in [SdkAgents -> {"none", "test", "sleep", "connect", "exited"}]
        /\ stray' \in [SdkAgents -> {"none", "test", "sleep", "connect"}]
    BY DEF LinkIInv, LinkTypeOK, Lives, SdkJoinsNothing, Ends
  <2>5. UNCHANGED <<orchVars, daemonVars>>
    BY DEF SdkJoinsNothing, Ends
  <2> QED
    BY <2>1, <2>2, <2>3, <2>4, <2>5 DEF LinkIInv, LinkTypeOK
<1>2. LinkMeansRegistered' /\ Links'
  BY LinkFacts DEF LinkIInv, LinkMeansRegistered, Links, LinkTypeOK, Threads, Alive, Entered,
     SdkJoinsNothing, Ends
<1>3. NoUseAfterFree' /\ Threads'
  BY LinkFacts DEF LinkIInv, NoUseAfterFree, Threads, LinkTypeOK, Lives, SdkJoinsNothing, Ends
<1> QED
  BY <1>1, <1>2, <1>3 DEF LinkIInv

-------------------------------------------------------------------------------
(* The theorems.                                                              *)

\* Every step of the orchestrator, the daemons and the SDK agents keeps the
\* inductive invariant.
THEOREM LinkInvariant == Spec => []LinkIInv
<1>1. LinkIInv /\ [Next]_vars => LinkIInv'
  <2> SUFFICES ASSUME LinkIInv, [Next]_vars PROVE LinkIInv'
    OBVIOUS
  <2>1. CASE UNCHANGED vars
    BY <2>1 DEF LinkIInv, LinkTypeOK, LinkMeansRegistered, NoUseAfterFree, Links, Threads, Alive, Entered
  <2>2. ASSUME NEW d \in Daemons, DaemonNext(d) PROVE LinkIInv'
    BY <2>2, BootStep, ReadReplyStep, ReadEndStep, BindStep,
       ServeStep, HeartbeatStep, DaemonEndStep, DaemonStartStep DEF DaemonNext
  <2>3. ASSUME NEW s \in SdkAgents, SdkNext(s) PROVE LinkIInv'
    BY <2>3, SdkRegisterStep, SdkRegisteredStep, SdkRegisterFailsStep, SdkStartStep,
       SdkCreateStep, BeatTestStep, BeatLookStep, BeatConnectStep, SdkStopStep,
       SdkStoppedStep, SdkCleanedUpStep, SdkJoinsNothingStep DEF SdkNext
  <2> QED
    BY <2>1, <2>2, <2>3, OrchStartStep, OrchEndStep, OrchGivesUpStep, OthersRegisterStep,
       OrchRegisterStep, OrchDispatchStep DEF Next
<1> QED
  BY <1>1, LinkInit, PTL DEF Spec

\* A task waits only at a daemon that listens (main of the agents registers
\* before it binds).
THEOREM LinkTypeCorrect == Spec => []LinkTypeOK
  BY LinkInvariant, PTL DEF LinkIInv

\* register_with_orchestrator and agent_register: a connection to the running
\* orchestrator taken for a registration is one, unless the registry was full
\* (which registry_register's caller does not say) or an SDK agent was registered
\* again beside its own heartbeat thread.
THEOREM LinksMeanRegistered == Spec => []LinkMeansRegistered
  BY LinkInvariant, PTL DEF LinkIInv

\* agent_cleanup frees the agent after the heartbeat thread of the last
\* agent_start has ended, and every other one unless agent_start overlapped one.
THEOREM NeverUsedAfterFree == Spec => []NoUseAfterFree
  BY LinkInvariant, PTL DEF LinkIInv
===============================================================================
