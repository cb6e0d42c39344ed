------------------------------- MODULE AgentLink -------------------------------
(***************************************************************************)
(* How agents get and stay registered while they and the orchestrator      *)
(* come and go: the agent daemons, which register, serve tasks and send    *)
(* heartbeats in one loop (agents/.../main.c), and the agents written with *)
(* the SDK, whose heartbeats have a thread of their own (sdk/agent,        *)
(* sdk/ipc).  A connection is told by the run of the orchestrator it was   *)
(* made to, and is dead when that run has ended.                           *)
(*                                                                         *)
(* Heartbeats have no effect on the orchestrator.  That its unread replies *)
(* fill the connection in the end is the subject of IpcServer.tla and left *)
(* out here.                                                               *)
(***************************************************************************)
EXTENDS Naturals

CONSTANTS
  Daemons, SdkAgents,
  NoOne,
  MaxAgents,      \* size of the registry
  MaxRuns,        \* bound: runs of the orchestrator
  MaxDeaths       \* bound: ends of agent processes

ASSUME LinkAssumption ==
  /\ Daemons \cap SdkAgents = {}
  /\ NoOne \notin Daemons
  /\ MaxAgents \in Nat /\ MaxRuns \in Nat /\ MaxDeaths \in Nat

AllAgents == Daemons \cup SdkAgents
NoRun == 0

VARIABLES
  up, run,        \* the orchestrator is running, and which run it is
  registry, room, \* who is in its registry, and how many more it can take
  asking,         \* registrations sent and not handled yet
  answered,       \* whose reply to a registration waits to be read
  dispatching,    \* the daemon whose answer to a task it waits for
  link,           \* an agent's connection, NoRun when it has none
  pc,             \* the place of a daemon in main
  tasks,          \* daemons with a task in their backlog
  deaths,         \* counter of the bound
  state,          \* of an SDK agent (agent_state_t)
  call,           \* the function of the SDK that its user is in
  connected,      \* the SDK client's flag
  running,        \* a->running
  beat,           \* the place of the heartbeat thread that a->heartbeat_thread names
  stray,          \* the place of one that an earlier agent_start left behind
  overlapped      \* who was registered again beside its heartbeat thread

orchVars == <<up, run, registry, room, dispatching>>
daemonVars == <<pc, tasks, deaths>>
threadVars == <<beat, stray>>
sdkVars == <<state, call, connected, running, threadVars, overlapped>>
vars == <<orchVars, asking, answered, link, daemonVars, sdkVars>>

Alive(a) == up /\ link[a] = run

-------------------------------------------------------------------------------
(* The orchestrator.                                                          *)

OrchStart ==
  /\ ~up /\ run < MaxRuns
  /\ up' = TRUE /\ run' = run + 1
  /\ UNCHANGED <<registry, room, dispatching, asking, answered, link, daemonVars, sdkVars>>

\* What it knew is gone; replies it has written can still be read.
OrchEnd ==
  /\ up /\ up' = FALSE
  /\ registry' = {} /\ room' = MaxAgents /\ asking' = {} /\ dispatching' = NoOne
  /\ UNCHANGED <<run, answered, link, daemonVars, sdkVars>>

\* A known name is entered again, a new one while there is room; success is
\* what the reply says in either case, and when the name was refused.
OrchRegister(a) ==
  /\ up /\ dispatching = NoOne
  /\ a \in asking /\ asking' = asking \ {a}
  /\ IF a \in registry \/ room = 0
       THEN UNCHANGED <<registry, room>>
       ELSE registry' = registry \cup {a} /\ room' = room - 1
  /\ answered' = answered \cup {a}
  /\ UNCHANGED <<up, run, dispatching, link, daemonVars, sdkVars>>

\* Somebody else registers under a new name.
OthersRegister ==
  /\ up /\ dispatching = NoOne
  /\ room > 0 /\ room' = room - 1
  /\ UNCHANGED <<up, run, registry, dispatching, asking, answered, link, daemonVars, sdkVars>>

\* A daemon registers first and listens afterwards.
Listening(d) == pc[d] \in {"loop", "rejoin"}

\* A task for a daemon that listens.  (Without a listener the connection is
\* refused at once, and an SDK agent has no socket in the registry.)
OrchDispatch(d) ==
  /\ up /\ dispatching = NoOne
  /\ d \in registry /\ Listening(d)
  /\ dispatching' = d
  /\ tasks' = tasks \cup {d}
  /\ UNCHANGED <<up, run, registry, room, asking, answered, link, pc, deaths, sdkVars>>

\* Mutant of OrchGivesUp: the orchestrator waits as long as the daemon lives.
OrchGivesUpNever ==
  /\ dispatching \in Daemons /\ pc[dispatching] = "down"
  /\ dispatching' = NoOne
  /\ UNCHANGED <<up, run, registry, room, asking, answered, link, daemonVars, sdkVars>>

\* The time-out of three seconds, or the end of the daemon.
OrchGivesUp ==
  /\ dispatching # NoOne
  /\ dispatching' = NoOne
  /\ UNCHANGED <<up, run, registry, room, asking, answered, link, daemonVars, sdkVars>>

-------------------------------------------------------------------------------
(* The daemons.                                                               *)

\* register_with_orchestrator: connect and write, then wait for the reply, or
\* go on without a connection.
Register(d, waiting, without) ==
  IF up
    THEN /\ link' = [link EXCEPT ![d] = run]
         /\ asking' = asking \cup {d}
         /\ pc' = [pc EXCEPT ![d] = waiting]
    ELSE /\ link' = [link EXCEPT ![d] = NoRun]
         /\ pc' = [pc EXCEPT ![d] = without]
         /\ UNCHANGED asking

Boot(d) ==
  /\ pc[d] = "start"
  /\ Register(d, "bootwait", "bind")
  /\ answered' = answered \ {d}
  /\ UNCHANGED <<orchVars, tasks, deaths, sdkVars>>

AfterWait(d) == IF pc[d] = "bootwait" THEN "bind" ELSE "loop"

ReadReply(d) ==
  /\ pc[d] \in {"bootwait", "rejoin"} /\ d \in answered
  /\ answered' = answered \ {d}
  /\ pc' = [pc EXCEPT ![d] = AfterWait(d)]
  /\ UNCHANGED <<orchVars, asking, link, tasks, deaths, sdkVars>>

\* The orchestrator ended before it replied.
ReadEnd(d) ==
  /\ pc[d] \in {"bootwait", "rejoin"} /\ d \notin answered /\ ~Alive(d)
  /\ link' = [link EXCEPT ![d] = NoRun]
  /\ pc' = [pc EXCEPT ![d] = AfterWait(d)]
  /\ UNCHANGED <<orchVars, asking, answered, tasks, deaths, sdkVars>>

Bind(d) ==
  /\ pc[d] = "bind"
  /\ pc' = [pc EXCEPT ![d] = "loop"]
  /\ UNCHANGED <<orchVars, asking, answered, link, tasks, deaths, sdkVars>>

\* Accept, read, run and answer; the answer is lost when nobody waits for it.
Serve(d) ==
  /\ pc[d] = "loop" /\ d \in tasks
  /\ tasks' = tasks \ {d}
  /\ dispatching' = IF dispatching = d THEN NoOne ELSE dispatching
  /\ UNCHANGED <<up, run, registry, room, asking, answered, link, pc, deaths, sdkVars>>

\* Mutant of Heartbeat: a new connection is no new registration.
HeartbeatConnecting(d) ==
  /\ pc[d] = "loop" /\ ~Alive(d)
  /\ link' = [link EXCEPT ![d] = IF up THEN run ELSE NoRun]
  /\ answered' = answered \ {d}
  /\ UNCHANGED <<orchVars, asking, pc, tasks, deaths, sdkVars>>

\* A heartbeat that cannot be sent: register again.  (One that can is without
\* effect.)
Heartbeat(d) ==
  /\ pc[d] = "loop" /\ ~Alive(d)
  /\ Register(d, "rejoin", "loop")
  /\ answered' = answered \ {d}
  /\ UNCHANGED <<orchVars, tasks, deaths, sdkVars>>

\* A signal or a crash.  The registry keeps what it knows of the daemon.
DaemonEnd(d) ==
  /\ pc[d] # "down" /\ deaths < MaxDeaths
  /\ deaths' = deaths + 1
  /\ pc' = [pc EXCEPT ![d] = "down"]
  /\ link' = [link EXCEPT ![d] = NoRun]
  /\ tasks' = tasks \ {d} /\ asking' = asking \ {d} /\ answered' = answered \ {d}
  /\ UNCHANGED <<orchVars, sdkVars>>

DaemonStart(d) ==
  /\ pc[d] = "down"
  /\ pc' = [pc EXCEPT ![d] = "start"]
  /\ UNCHANGED <<orchVars, asking, answered, link, tasks, deaths, sdkVars>>

-------------------------------------------------------------------------------
(* Agents of the SDK.                                                         *)

sdkRest == <<orchVars, daemonVars>>

Lives(place) == place \in {"test", "sleep", "connect"}

\* Its user calls one function of the SDK at a time, in any order.
Idle(s) == call[s] = "none"

\* agent_register up to the request, in the function f: connecting closes an
\* older connection; without an orchestrator the flag stays as it was.
Connect(s, f) ==
  /\ answered' = answered \ {s}
  /\ IF up
       THEN /\ state' = [state EXCEPT ![s] = "registering"]
            /\ call' = [call EXCEPT ![s] = f]
            /\ link' = [link EXCEPT ![s] = run]
            /\ connected' = [connected EXCEPT ![s] = TRUE]
            /\ asking' = asking \cup {s}
       ELSE /\ state' = [state EXCEPT ![s] = "error"]
            /\ link' = [link EXCEPT ![s] = NoRun]
            /\ UNCHANGED <<call, connected, asking>>
  /\ overlapped' = IF Lives(beat[s]) \/ Lives(stray[s]) THEN overlapped \cup {s} ELSE overlapped

SdkRegister(s) ==
  /\ Idle(s) /\ Connect(s, "register")
  /\ UNCHANGED <<sdkRest, running, threadVars>>

\* agent_start, registering first unless that was the last thing done.
SdkStart(s) ==
  /\ Idle(s)
  /\ IF state[s] = "registered"
       THEN /\ call' = [call EXCEPT ![s] = "create"]
            /\ UNCHANGED <<asking, answered, link, state, connected, overlapped>>
       ELSE Connect(s, "start")
  /\ UNCHANGED <<sdkRest, running, threadVars>>

SdkRegistered(s) ==
  /\ call[s] \in {"register", "start"} /\ s \in answered
  /\ state' = [state EXCEPT ![s] = "registered"]
  /\ call' = [call EXCEPT ![s] = IF call[s] = "start" THEN "create" ELSE "none"]
  /\ answered' = answered \ {s}
  /\ UNCHANGED <<sdkRest, asking, link, connected, running, threadVars, overlapped>>

\* The time-out, or the end of the connection: only that clears the flag.
\* Beside the thread, the error sent for a heartbeat can be read as the answer.
SdkRegisterFails(s) ==
  /\ call[s] \in {"register", "start"} /\ (s \notin answered \/ s \in overlapped)
  /\ state' = [state EXCEPT ![s] = "error"]
  /\ call' = [call EXCEPT ![s] = "none"]
  /\ connected' = [connected EXCEPT ![s] = Alive(s)]
  /\ UNCHANGED <<sdkRest, asking, answered, link, running, threadVars, overlapped>>

\* The rest of agent_start.  It overwrites a->heartbeat_thread, whose thread
\* may still be running; bound: one thread without a name at a time.
SdkCreate(s) ==
  /\ call[s] = "create" /\ call' = [call EXCEPT ![s] = "none"]
  /\ ~(Lives(beat[s]) /\ Lives(stray[s]))
  /\ \/ UNCHANGED <<state, running, threadVars>>                    \* no task server
     \/ /\ stray' = [stray EXCEPT ![s] = IF Lives(beat[s]) THEN beat[s] ELSE stray[s]]
        /\ \/ /\ state' = [state EXCEPT ![s] = "running"]
              /\ running' = [running EXCEPT ![s] = TRUE]
              /\ beat' = [beat EXCEPT ![s] = "test"]
           \/ /\ running' = [running EXCEPT ![s] = FALSE]            \* no thread
              /\ beat' = [beat EXCEPT ![s] = "none"]
              /\ UNCHANGED state
  /\ UNCHANGED <<sdkRest, asking, answered, link, connected, overlapped>>

\* A step of the heartbeat thread, the named one or the other.  What a thread
\* does with a released agent is not followed.
Thread == {"named", "stray"}
Moves(s, t, from, to) ==
  /\ call[s] \notin {"freed", "crashed"}
  /\ \/ /\ t = "named" /\ beat[s] = from
        /\ beat' = [beat EXCEPT ![s] = to] /\ UNCHANGED stray
     \/ /\ t = "stray" /\ stray[s] = from
        /\ stray' = [stray EXCEPT ![s] = IF to = "exited" THEN "none" ELSE to]
        /\ UNCHANGED beat

\* Mutant of BeatTest: the flag is read once, before the loop.
BeatTestOnce(s, t) ==
  /\ Moves(s, t, "test", "sleep")
  /\ UNCHANGED <<sdkRest, asking, answered, link, state, call, connected, running, overlapped>>

BeatTest(s, t) ==
  /\ Moves(s, t, "test", IF running[s] THEN "sleep" ELSE "exited")
  /\ UNCHANGED <<sdkRest, asking, answered, link, state, call, connected, running, overlapped>>

\* The flag decides between a heartbeat, the failure of which is not looked at,
\* and a new connection, on which nothing is registered.
BeatLook(s, t) ==
  /\ Moves(s, t, "sleep", IF connected[s] THEN "test" ELSE "connect")
  /\ UNCHANGED <<sdkRest, asking, answered, link, state, call, connected, running, overlapped>>

BeatConnect(s, t) ==
  /\ Moves(s, t, "connect", "test")
  /\ asking' = asking \ {s} /\ answered' = answered \ {s}
  /\ link' = [link EXCEPT ![s] = IF up THEN run ELSE NoRun]
  /\ connected' = [connected EXCEPT ![s] = up \/ @]
  /\ UNCHANGED <<sdkRest, state, call, running, overlapped>>

\* agent_stop, by itself or first thing in agent_cleanup.
SdkStop(s, f) ==
  /\ Idle(s)
  /\ call' = [call EXCEPT ![s] = f]
  /\ state' = [state EXCEPT ![s] = "shutdown"]
  /\ running' = [running EXCEPT ![s] = FALSE]
  /\ UNCHANGED <<sdkRest, asking, answered, link, connected, threadVars, overlapped>>

\* Mutant of Joined: the thread is not waited for.
JoinedAtOnce(s) == TRUE

Joined(s) == beat[s] = "exited"

SdkStopped(s) ==
  /\ call[s] = "stop" /\ Joined(s)
  /\ call' = [call EXCEPT ![s] = "none"]
  /\ beat' = [beat EXCEPT ![s] = "none"]
  /\ UNCHANGED <<sdkRest, asking, answered, link, state, connected, running, stray, overlapped>>

\* The end of agent_cleanup, or of the process.
Ends(s, how) ==
  /\ call' = [call EXCEPT ![s] = how]
  /\ link' = [link EXCEPT ![s] = NoRun]
  /\ asking' = asking \ {s} /\ answered' = answered \ {s}
  /\ connected' = [connected EXCEPT ![s] = FALSE]
  /\ UNCHANGED <<sdkRest, state, running, overlapped>>

SdkCleanedUp(s) ==
  /\ call[s] = "cleanup" /\ Joined(s)
  /\ Ends(s, "freed") /\ UNCHANGED threadVars

\* To join a thread that never was or is joined already is undefined: it does
\* nothing or the process crashes.
SdkJoinsNothing(s) ==
  /\ call[s] \in {"stop", "cleanup"} /\ beat[s] = "none"
  /\ \/ /\ call[s] = "stop" /\ call' = [call EXCEPT ![s] = "none"]
        /\ UNCHANGED <<sdkRest, asking, answered, link, state, connected, running, threadVars,
                       overlapped>>
     \/ call[s] = "cleanup" /\ Ends(s, "freed") /\ UNCHANGED threadVars
     \/ /\ Ends(s, "crashed")
        /\ stray' = [stray EXCEPT ![s] = "none"] /\ UNCHANGED beat

-------------------------------------------------------------------------------
Init ==
  /\ up = FALSE /\ run = 0 /\ registry = {} /\ room = MaxAgents
  /\ asking = {} /\ answered = {} /\ dispatching = NoOne
  /\ link = [a \in AllAgents |-> NoRun]
  /\ pc = [d \in Daemons |-> "start"] /\ tasks = {} /\ deaths = 0
  /\ state = [s \in SdkAgents |-> "unregistered"]
  /\ call = [s \in SdkAgents |-> "none"]
  /\ connected = [s \in SdkAgents |-> FALSE]
  /\ running = [s \in SdkAgents |-> FALSE]
  /\ beat = [s \in SdkAgents |-> "none"] /\ stray = [s \in SdkAgents |-> "none"]
  /\ overlapped = {}

DaemonNext(d) ==
  \/ Boot(d) \/ ReadReply(d) \/ ReadEnd(d) \/ Bind(d)
  \/ Serve(d) \/ Heartbeat(d) \/ DaemonEnd(d) \/ DaemonStart(d)

SdkNext(s) ==
  \/ SdkRegister(s) \/ SdkRegistered(s) \/ SdkRegisterFails(s) \/ SdkStart(s) \/ SdkCreate(s)
  \/ \E t \in Thread : BeatTest(s, t) \/ BeatLook(s, t) \/ BeatConnect(s, t)
  \/ SdkStop(s, "stop") \/ SdkStop(s, "cleanup")
  \/ SdkStopped(s) \/ SdkCleanedUp(s) \/ SdkJoinsNothing(s)

Next ==
  \/ OrchStart \/ OrchEnd \/ OrchGivesUp \/ OthersRegister
  \/ \E a \in AllAgents : OrchRegister(a)
  \/ \E d \in Daemons : OrchDispatch(d) \/ DaemonNext(d)
  \/ \E s \in SdkAgents : SdkNext(s)

\* Every loop goes on, the time-out comes, and the event loop of the
\* orchestrator serves each connection that has something to read whenever it
\* is done with a task.  Nobody has to start or end, and no user of the SDK has
\* to call anything.
Fairness ==
  /\ WF_vars(OrchGivesUp)
  /\ \A a \in AllAgents : SF_vars(OrchRegister(a))
  /\ \A d \in Daemons :
       /\ WF_vars(Boot(d)) /\ WF_vars(ReadReply(d)) /\ WF_vars(ReadEnd(d))
       /\ WF_vars(Bind(d)) /\ WF_vars(Serve(d)) /\ WF_vars(Heartbeat(d))
  /\ \A s \in SdkAgents :
       /\ WF_vars(BeatTest(s, "named")) /\ WF_vars(BeatLook(s, "named"))
       /\ WF_vars(BeatConnect(s, "named"))
       /\ WF_vars(SdkStopped(s)) /\ WF_vars(SdkCleanedUp(s))

Spec == Init /\ [][Next]_vars
FairSpec == Spec /\ Fairness

-------------------------------------------------------------------------------
\* Types; a task is waiting only where someone listens, though every daemon is
\* registered before it listens and stays so when it has ended.
LinkTypeOK ==
  /\ up \in BOOLEAN /\ run \in 0..MaxRuns
  /\ room \in 0..MaxAgents
  /\ registry \subseteq AllAgents /\ asking \subseteq AllAgents /\ answered \subseteq AllAgents
  /\ dispatching \in Daemons \cup {NoOne} /\ tasks \subseteq Daemons
  /\ \A d \in tasks : pc[d] \in {"loop", "rejoin"}
  /\ link \in [AllAgents -> 0..MaxRuns]
  /\ pc \in [Daemons -> {"start", "bootwait", "bind", "loop", "rejoin", "down"}]
  /\ deaths \in 0..MaxDeaths
  /\ state \in [SdkAgents -> {"unregistered", "registering", "registered", "running",
                              "shutdown", "error"}]
  /\ call \in [SdkAgents -> {"none", "register", "start", "create", "stop", "cleanup",
                             "freed", "crashed"}]
  /\ connected \in [SdkAgents -> BOOLEAN] /\ running \in [SdkAgents -> BOOLEAN]
  /\ beat \in [SdkAgents -> {"none", "test", "sleep", "connect", "exited"}]
  /\ stray \in [SdkAgents -> {"none", "test", "sleep", "connect"}]
  /\ overlapped \subseteq SdkAgents

\* A daemon in its loop that has a connection to the orchestrator as it runs
\* now is in its registry, and so is an SDK agent that took itself for
\* registered on such a connection, unless the registry is full: nobody mistakes
\* a connection to an orchestrator that knows nothing of it for a registration.
\* An SDK agent that was registered again while its heartbeat thread, which
\* connects by itself, was running can make that mistake.
Entered(a) == a \in registry \/ room = 0
LinkMeansRegistered ==
  /\ \A d \in Daemons : pc[d] \in {"bind", "loop"} /\ Alive(d) => Entered(d)
  /\ \A s \in SdkAgents \ overlapped :
       state[s] \in {"registered", "running"} /\ Alive(s) => Entered(s)

\* When the memory of an SDK agent is released, the heartbeat thread of the last
\* agent_start, which goes on using it, has ended or was never there; so has
\* every other one, unless agent_start was called while one was running.
NoUseAfterFree ==
  \A s \in SdkAgents : call[s] = "freed" =>
    ~Lives(beat[s]) /\ (s \in overlapped \/ ~Lives(stray[s]))

\* What the two rest on: connections are to this run or an earlier one, and who
\* has an answer to read was registered; the state of an SDK agent is that of the
\* function its user is in, its flag is set from its registration on, so that its
\* thread never connects, and a thread is there only when it runs or is stopped.
Links ==
  /\ up => run # NoRun
  /\ \A a \in AllAgents : link[a] <= run
  /\ \A a \in answered : Alive(a) => Entered(a)
Threads ==
  /\ \A s \in SdkAgents :
       /\ call[s] \in {"register", "start"} => state[s] = "registering"
       /\ call[s] = "create" => state[s] = "registered"
       /\ call[s] \in {"stop", "cleanup"} => state[s] = "shutdown"
  /\ \A s \in SdkAgents \ overlapped :
       /\ ~Lives(stray[s])
       /\ Lives(beat[s]) => /\ state[s] \in {"running", "shutdown"} /\ connected[s]
                            /\ beat[s] # "connect"
       /\ state[s] \in {"registering", "registered", "running"} => connected[s]
LinkIInv == LinkTypeOK /\ LinkMeansRegistered /\ NoUseAfterFree /\ Links /\ Threads

\* A daemon comes back after each restart of the orchestrator or of its own: it
\* is in the registry in the end, unless one of the two ends again or others
\* have filled the registry.
DaemonComesBack ==
  \A d \in Daemons : (up /\ pc[d] # "down") ~> (Entered(d) \/ ~up \/ pc[d] = "down")

\* An orchestrator that waits for a daemon and a daemon that waits for the
\* orchestrator do not wait for each other for good.
WaitsEnd ==
  /\ dispatching # NoOne ~> dispatching = NoOne
  /\ \A d \in Daemons : pc[d] \in {"bootwait", "rejoin"} ~> pc[d] \notin {"bootwait", "rejoin"}

\* agent_stop and agent_cleanup return when there is a thread to wait for,
\* however often the agent was started.
StopEnds ==
  \A s \in SdkAgents :
    (call[s] \in {"stop", "cleanup"} /\ beat[s] # "none") ~> call[s] \in {"none", "freed"}

\* An SDK agent, too, is in the registry again when the orchestrator is.
SdkComesBack ==
  \A s \in SdkAgents :
    (up /\ state[s] = "running") ~> (Entered(s) \/ ~up \/ state[s] # "running")
===============================================================================
