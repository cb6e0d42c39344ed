# Khazar OS: a TLA+ verification project

Khazar OS routes what a user asks for, in words, to *agents* that carry it out.
Its own code is the C in `src/khazar`: five daemons that talk over Unix sockets,
an SDK, and five agents; the rest of the repository builds a desktop image
around them. This directory holds TLA+ models of that code, the TLC runs that
check them on small instances, and proofs for every instance, checked by TLAPS.

Paths are relative to `src/khazar`; `orchestrator`, `rule-engine`,
`policy-engine`, `intent-classifier` and `model-runtime` are directories of
`components`.

## 1. The system

```
 client --> orchestrator --> rule-engine        (Tier 0: rules and cache)
               |  |  |-----> intent-classifier --> model-runtime   (Tier 1)
               |  |--------> policy-engine
               |-----------> agents             (one task per connection)
 agents ---> orchestrator                       (register, heartbeat)
```

Every arrow is a Unix stream socket with one JSON object per message. Every
daemon is the handler function of one `ipc_server` (SDK); the orchestrator's
own outgoing calls are blocking, with socket timeouts.

| Component | State | Operations | Interaction | What is hard | What makes it correct |
|---|---|---|---|---|---|
| Request pipeline (`orchestrator/main.c` and its `*_client` files) | the request in hand, the agent found, four connections | `on_request_handler`: request, register, ping | calls all other daemons and an agent, in order | timeouts against late answers; eight exits; other processes dying between two calls | one reply per request; a refusal is final; no task runs twice; success only after execution |
| Registry (`orchestrator/registry`) | bounded array of agents | register, find by capability | the pipeline keeps a pointer into it across two blocking calls | re-registration, a full array | one record per name, the last one acknowledged; the pointer stays right |
| Router, metrics (`orchestrator/...`) | keyword table, counters | resolve, record | called by the pipeline | order of keywords, words inside words | a keyword leads to its capability |
| Sessions (`orchestrator/session`) | bounded array of slots with histories | get_or_create, add_history | initialised by the orchestrator, called by nobody yet | slots of expired sessions taken again while pointers to them are out | a slot handed out stays its client's |
| Rule engine (`rule-engine`) | four tables, result cache, reload flag | query pipeline, add_rule, reload, periodic cache clear | two threads on the same tables, a mutex per table, one `strtok` | reload while answering; lines cut up by both threads; results stored after the tables changed; eviction with a drifting clock | no stored runtime rule lost, no file rule doubled, none lost but to a torn line, the cache agrees with the tables |
| Policy engine (`policy-engine`) | array of rules | check, add_rule, reload | called by the pipeline | priorities, equals, a full store, sections cut by the end of a file | the highest-priority match decides, else deny; clients cannot overturn files |
| Intent classifier and model runtime | keyword rules; the state of a model | classify, infer, load, unload | orchestrator asks classifier asks runtime, each with a time-out of its own | runtime absent, silent or answering an error while others wait | an answer is to the question asked; keywords speak only when the model cannot |
| SDK IPC server (`sdk/ipc`) | epoll set, descriptors, running flag | accept, read + handler, send, stop | under every daemon | batches of stale events, descriptor reuse, coalesced reads, full buffers | replies go to the right connection in order; dead ones are reaped; a stop stops |
| SDK agent (`sdk/agent`) | connection, flags, heartbeat thread | register, start, stop, cleanup | heartbeat thread against the main thread; the orchestrator at the other end | reconnect after a restart; a second start; clean-up after stop | no use after release; a live connection is a registration |
| SDK event bus (`sdk/events`) | bounded array of subscribers, one pending event | subscribe, unsubscribe, publish, process_pending | handlers call it while it walks its array | removal moves a subscriber across the walk; the pending event replaced under it | everyone is called, nobody twice |
| Agents (`agents/*`) | listening socket, orchestrator connection | serve a task, heartbeat, register again | called by the pipeline | ends on either side, registration before listening; word tables of their own | registered again after every restart; what runs is what was asked |

`PROJECT.json` lists the hazards of this code, each at its line with the
properties that cover it.

## 2. Plan

The order follows the weight of what can go wrong.

1. **Registry, Orchestrator, RequestService**: the pipeline with failing agents,
   the abstract service it implements (done, proved).
2. **IpcServer**: the event loop under every daemon (done, safety proved).
3. **RuleEngine**: two threads, four tables, one cache (done, safety proved).
4. **AgentLink**: an agent's life with the orchestrator (done, safety proved).
5. **PolicyStore**: loading and selection, against "first rule of the highest
   priority" (done, proved).
6. **Tier1**: the classifier with its model runtime (done, safety proved), and
   **ResultCache** (done, proved).
7. **SessionManager** and **EventBus** (done, proved).
8. **CommandPath**: the word tables of router, classifier and agents composed
   with the default policy (done; that nothing runs unasked is proved, what the
   tables say is left to the run).
9. **CompoundQuery**: texts of several queries, on top of RuleEngine (done,
   proved), and **CacheMap**, between RuleEngine and ResultCache (done, proved).
10. Open: a composition of the pipeline with the policy store in place of the free
   choice of its replies.

## 3. Modules

### Registry, Orchestrator (`orchestrator/main.c`)

`Registry` has the array of `registry.c` as a sequence and its two operations as
operators: `RegisterIn` (overwrite the slot of that name, append, or leave a
full array alone) and the first-hit search `FirstOf(Capable(..))`. `alive` is
left out, because registration sets it and nothing ever clears it.

`Orchestrator` is `on_request_handler` cut at its blocking calls. The daemon is
one thread, so `pc` is its place in the handler, and between two places anything
may happen to the agents.

| Action | Code |
|---|---|
| `HandleRegister` | the register case; `registry_register`'s result is ignored there |
| `HandleRequest`, `RuleClientQuery`, `RouterResolve`, `IntentClientClassify` | reading the request and the three ways to resolve it |
| `RegistryFindByCapability` | search; no agent is an error reply |
| `PolicyClientCheck` | allow, refuse, or *unreachable*, which proceeds |
| `AgentClientConnect`, `AgentClientSend`, `AgentClientRead`, `AgentClientTimeout` | `agent_client_dispatch` and its error returns |
| `AgentStart`, `AgentTake`, `AgentAnswer`, `AgentCrash` | the loop the five agents share |

What the other daemons answer is a free choice among the replies the client code
tells apart. A reply keeps its status, code and origin. `acked` and `execs` are
history variables (what was acknowledged; how often a task was taken up), and
`verdict` remembers the outcome of the policy step.

`RequestService` is the abstract specification: a request is released or settled,
performed at most once and only when released, and reported on once.
`ImplementsService` is the refinement, with `released` mapped to the requests
whose policy step let them pass, `performed` to `execs`, and `outcome` to the
first reply.

### IpcServer (`sdk/ipc/ipc.c`)

The loop handles a `batch` of events one at a time; clients act between any two
of its steps. An event carries only a descriptor number; `conn` in an event is a
history field that remembers what the number stood for. `HandleHangup` comes
before reading, as in the code; `HandleMessages` takes everything in the
socket and answers one message, chosen in the order `protocol_parse` looks for
types; `SendReply` waits for room, which is what the loop on EAGAIN amounts to.
`Setup` sets `running`, so a `Stop` before it is forgotten. A read is taken to
return all there is (the buffer is 64 KiB); the limit of 256 events per batch is
never reached. The branch for `read()` returning 0 needs a hang-up without its
flag, which level-triggered EPOLLRDHUP does not leave.

### RuleEngine (`rule-engine/main.c`, `rules`, `cache` and the tables)

The main thread reloads (`ReloadStart`, `ClearTable` for each table, then for
each file `OpenFile`, for each line `ReadLine`, `ParseLine`, `CheckRoom` and
`AppendFileRule`, `NextFile`, and `ReloadDone`) and clears the cache now and then (`CacheCleanup`). The IPC thread
answers a query stage by stage (`CacheLookup`, `StageLookup`, `AliasLookup`,
`CacheStore`) or adds a rule (`AddRule`, `ParseRule`, `CheckRuleRoom`,
`AppendRuntimeRule`, `FlushCache`).
A step holds at most one mutex, as in the code. A rule is a query it matches, an
answer, a rank (priority or score) and a source. `Answer(q)` is the whole
pipeline evaluated at once on the present tables. The fuzzy stage is left out:
nothing fills its table. The cache is the one of `CacheMap` (`Cache!Store`), so a
full one may drop any other query's answer when it stores. A reload asked for over the socket sets the same flag as
SIGHUP. `CheckRoom` and `CheckRuleRoom` model the comparison of the count that the
`*_add` functions make before they take the mutex. Intents and aliases have no
rank in the code; theirs is 0, so that the first of them wins. The loop with which
a reload compacts a table is `Keep`, a recursive function on the length of what
was looked at (`KeptUpTo`), so that it can be proved about.

Both threads cut text into fields with `strtok`, whose place is one variable of the
program: rules.c does it under its own mutex, `handle_add_rule` under none. When the
one starts while the other is at it, both are `torn`, and a torn line or rule comes
out whole, as another rule (any of `Misread`), or as none. That is a data race, so
the model has more outcomes than a given interleaving of the calls of `strtok`: what
exactly is cut where is not followed, and `Misread` holds well-formed rules that the
pieces can make, as the code drops all others (no intent, or an unknown one).
`loaded` and `garbled` are history variables: what was read of each file, and of
which files a torn line was read. A `reply` is kept until the next request.

### CompoundQuery (`rule-engine/main.c`)

RuleEngine with the request case of `handle_message` around its pipeline: a text is
cut at a separator (`SplitQuery`, with the order of the separators, the blanks
around them and the case in which one side is empty), the pipeline runs for one
part after the other (`RunPart`, `PipelineStep`), and one reply has the results
(`SendResponse`). `Sent` is what the reply contains, as many results from the front
as were recognised; `RuleClientReads` is what the orchestrator finds in it. The
main thread may reload between any two steps; a rule is added only between two
requests (`AddRuleBetween`), because the server thread takes one message at a time.
A `response` is kept until the next request.

### PolicyRules, PolicyStore (`policy-engine/main.c`, `policy/policy.c`)

`PolicyRules` says which rule decides a request: `Applicable` rules match and have
a priority of at least 0 (`best_prio` starts at -1), and the best one is of the
highest priority, the first of equals. `PolicyStore` is the program that computes
this rule by rule (`StartCheck`, `CheckRule`, `CheckDone`, `SendDecision`) and that
fills the store: `OpenFile`, `ReadSection` (a section is stored when the next
header or the end of the file is met, so one rule is always `held` in hand),
`EndOfFile`, `LoadDone`, `AddPolicy` (acknowledged even when the store is full)
and `ReloadPolicies`. `EditPolicies` is the administrator, at any time, also
between two files of a load. `seen`, a history variable, is every rule read or
added since the store was last emptied. How a rule's agent pattern matches is a
constant relation (`fnmatch`).

### SessionManager (`orchestrator/session/session.c`)

One action per outcome of `session_get_or_create`: the client's live slot
(`TouchSession`), the slot its own expired session left inactive (`RenewSession`), a new
slot (`AddSession`), or none (`RefuseSession`). `AfterScan` is the first scan,
which marks the client's expired slot; `Least(Inactive(..))` is the second, which
does not look at names. `handed` remembers the slot a client was given, as the
caller's pointer does. A history entry is told by the identifier under which it was added.

### EventBus (`sdk/events/events.c`)

`event_publish` is cut at its handler calls: `StartWalk`, `SkipSubscriber`,
`CallHandler`, `HandlerReturns`, `WalkDone`. Between the last two the handler may
`Subscribe`, `Unsubscribe` or `PostPending`. The array, its length and the walk's
index are live, as in the code, and so is the event that the walk compares with
(`EventType`) when the publication is `event_process_pending`'s, which passes
`pending_type` itself: a handler that posts another event makes the rest of the walk
look for that event's subscribers. `publishing` remembers the event it began with.
`calls` and `again` (how often a subscription was used, and made anew), `disturbed`
(somebody unsubscribed, or replaced the event) and `atStart` are history variables
of the publication that is going on. Handlers that publish in turn are left out.

### CacheMap, ResultCache (`rule-engine/cache/cache.c`)

`CacheMap` is what the cache promises: a query that is held keeps its answer, another
gets the one that is stored, for which one other query at most goes, and all may be
cleared. `ResultCache` is the hash table that does this: probe sequences
(`ProbeDistance`, `FirstProbed`), the three ways of `cache_store` (`StoreInEmpty`,
`StoreOnHolder`, `StoreEvicting`), and timestamps that run ahead of the clock by one second for
every `DriftStep` stores. `lastUsed` and `given` are history variables.
`ImplementsCacheMap` is the refinement, with `held` mapped to what a lookup finds
(`Found`).

### Keywords, AgentCommands, CommandPath

`Keywords` has the tables of `orchestrator/router/router.c` and of the classifier's
fallback, entry by entry; a query is the set of table words it contains, and
`Inside` pairs the words that contain others with them, since the code asks `strstr` only.
`AgentCommands` has what the five agents announce and their chains of
`if (strstr ...)`, each as a sequence of commands of which the first that applies
is taken. A command ends well or badly or does not run, because there is no such
program or because `system()` or `fork()` fails (`Ends`); the commands of `AlwaysSucceed` and the
desktop agent's report success all the same. `CommandPath` is one query's way through all of them and through the
default policy rules. `MCCommandPath` gives it every query of one or two words.

### AgentLink (`agents/*/main.c`, `sdk/agent/agent.c`)

The five agents differ in names and commands only; `Boot`, `ReadReply`, `ReadEnd`,
`Bind`, `Serve` and `Heartbeat` are their common loop (power-agent's lines in the
map). An SDK agent has a user, who calls `agent_register`, `agent_start`,
`agent_stop` and `agent_cleanup` in any order and any number of times
(`SdkRegister`, `SdkStart`, `SdkStop`), and a heartbeat thread (`BeatTest`,
`BeatLook`, `BeatConnect`). No call is guarded by what went before, because none in
the code is: a second `agent_start` overwrites `heartbeat_thread` while the first
thread runs, which then is `stray` and joined by nobody (the model has one such
thread at a time, a bound); a stop without a thread joins nothing or one that
was joined (`SdkJoinsNothing`: undefined, so it does nothing or the process ends).
`overlapped` is who was registered again beside a running thread of its own: the
thread may then connect anew in the middle of a registration, or the registration
read the error sent for a heartbeat. `LinkMeansRegistered` and, for stray threads,
`NoUseAfterFree` exempt those. A connect is one step with the write behind it; the
SDK agent's task server, and a write that blocks because the orchestrator's unread
replies fill the connection, are left out. The orchestrator starts with an
empty registry (`OrchStart`), registers (`OrchRegister`: a known name, or a new one
while there is `room`, which others use up as well (`OthersRegister`); the reply says
success in any case, as in the code), dispatches to an agent that listens and
waits for it (`OrchDispatch`, `OrchGivesUp`), and ends. A connection is told by
the run of the orchestrator it was made to.

### Tier1 (`orchestrator/intent_client`, `intent-classifier`, `model-runtime`)

Askers (`Ask`, `ReadAnswer`, `GiveUp`), the classifier's single thread
(`HandleClassify`, `ConnectToRuntime`, `RuntimeAnswered`, `RuntimeSilent`,
`Fallback`, `SendResponse`) and the runtime (`Infer`, `LoadModel`, `UnloadModel`,
`SendStalls` for a client of its own that does not read, `RuntimeDies`,
`RuntimeStarts`). While the runtime is held nobody accepts, and its `queue` fills
with connections of the classifier, also those of questions given up, and of others
(`OthersConnect`); once it is full `connect()`, which comes before the time-outs of
the socket are set, does not return (`ConnectBlocks`) until the runtime lets go or
ends. A tick of the clock is 5 s and comes only when nothing that the
programs can do at once is left.

### MC modules

`MCOrchestrator`, `MCIpcServer`, `MCRuleEngine`, `MCCompoundQuery`, `MCCommandPath` and
`MCTier1` define the sets the configurations name. `MCTables` puts PolicyStore, SessionManager,
EventBus, ResultCache and CommandPath side by side, so that one run has the four
bounded tables and the tables of words: they share nothing, and a behaviour takes
the steps of one of them.

## 4. Runs

| Run | Instance | Properties |
|---|---|---|
| `orch` | 3 agents (one without socket path, one that registers twice) for 2 slots, 2 requests, agents crash and come back | `SuccessMeansExecuted`, `AgentPointerFresh`, `RegistryIsLastAcked`, `ImplementsService`, `EveryRequestAnswered` |
| `ipc` | 2 connections on 2 descriptors, one pipelines, one shuts down its side; the buffer holds one reply | `DescriptorsAreCurrent`, `AnsweredInOrder`, `OnlyHungUpAreClosed`, `DeadConnectionsReaped`, `StopEndsLoop`, `WaitingClientAnswered` |
| `rule` | CompoundQuery: 3 texts of two parts, with two separators; 4 tables, 2 reloads, 1 edit, 1 rule asked to be added, 1 rule that torn lines can make | `RuntimeRulesSurvive`, `FileRulesAsLoaded`, `PartsSeeTheSameRules`, `BuiltinPartsAnswered`, `FirstPartDecides`, `CacheEventuallyAgrees` |
| `tables` | 4 policies of 2 directories and 3 clients' rules; 3 clients for 2 session slots; 3 handlers of 2 events for 3 subscribers; 3 queries (2 of one bucket) for 2 cache entries; every query of one or two words of the vocabulary, with and without capitals and argument | `DecisionIsBest`, `StoreAsRead`, `AddedRulesYield`; `OneSlotPerClient`, `HandedSlotIsOwn`, `HistoryIsOwn`; `CalledOncePerPublication`, `UndisturbedReachesAll`; `AnswersAsStored`, `EvictionSparesRecent`, `ImplementsCacheMap`; `KeywordsReachTheirCapability`, `WordsKeepTheirMeaning` |
| `agent_link` | 1 daemon, 1 SDK agent and others for 2 places in the registry, 2 runs of the orchestrator, 1 end of a daemon | `LinkMeansRegistered`, `NoUseAfterFree`, `DaemonComesBack`, `WaitsEnd`, `StopEnds` |
| `tier1` | 2 askers, 3 questions, time-outs of 1 and 2 ticks, a queue of 2 | `AnswersTheQuestion`, `FallbackMeansDown`, `WaitsInVainOnlyForSilence`, `ClassifierFreed` |

Each of the following runs checks what a document or comment says and finds a
behaviour of the code that differs:

| Run | Document | Code |
|---|---|---|
| `orch_policy` | policy-engine/README.md: no agent acts without the policy engine | an unreachable policy engine is passed over |
| `path_policy` | default rules: system_shutdown is denied | 'shutdown' is checked as system_management and the machine goes off |
| `ipc_heartbeats` | protocol/rpc.md: an agent stays connected and sends heartbeats | each gets an error reply nobody reads; the full buffer stops the server |
| `sdk_reconnect` | protocol/rpc.md: an agent stays connected; agent.c logs a reconnection | the thread's flag is never cleared, so it never connects again |
| `rule_limits` | protocol/protocol.md: a table holds at most its size | the count is compared outside the mutex |
| `rule_order` | protocol/protocol.md:196-198 and 392-393, rule-engine/README.md:30-42: regular expressions, then tokens, then the intent table | the intent table comes first, and answers a query that an expression knows as something else ('sistemi bağla': intent.c:151 and matcher.c:138) |

**Bounds.** Two requests are enough for a late answer to meet a later request,
two slots for a full array with a third agent, and two agents with a common
capability for the order of the array to matter. Two connections on two
descriptors make a descriptor be reused within one batch; `SockBuf` 1 makes a
buffer fill with two replies. Two reloads with one edit between them give old,
mixed and new tables, of which the two parts of a text, and no text has more, may
meet different ones. `MaxRules` is 5 where room matters little and 3 where the
boundary does. One added rule is enough to be cut up with a line. Every table of `tables` has one more taker than places, and time
for an expired session to be renewed while another expires; `MaxSeen` is above
`MaxPolicies`, `MaxChanges` allows a handler to be removed and added during one
publication, `MaxStores` and `DriftStep` let the drift overtake the clock. Two
runs of the orchestrator let a connection outlive the run it was made to, and two
places in the registry let others fill it before either agent registers again. A
queue of 2 is full with the connections of two questions, or with others'; the code's
is as long as the runtime's `max_connections`. Two askers with three questions let a question wait behind one
that was given up. `MaxWrites`, `MaxEdits`, `MaxReloads`, `MaxChanges`, `MaxStores`, `MaxSeen`,
`MaxTime`, `LastSecond`, `MaxRuns`, `MaxDeaths`, `MaxAsks`, the one `stray` thread and the single use of a `Requests`,
`Conns` or `RuntimeRules` member bound the counters and are bounds of the models,
not of the code. Symmetry is not used.

**Deadlock** is checked wherever the configuration does not switch it off, which
the IpcServer runs do: the server exits, and clients that have written all they
will are idle.

**Fairness.** `Orchestrator` assumes WF of the handler's next step, because every
blocking call has SO_RCVTIMEO / SO_SNDTIMEO (5 s towards the rule engine and the
classifier, 3 s towards the policy engine and the agents; all are set before
`connect()`). Nothing is assumed of agents. Of clients it is assumed that their
buffer takes the one reply: `ipc_server_send` tries again as long as it does not
(ipc.c:354), which this module leaves to IpcServer, whose run `ipc_heartbeats` shows
what a client does that lets it fill. `IpcServer` assumes WF of the server's thread and of reading by
the clients that read (all but `Deaf`). `RuleEngine` assumes WF of each thread's
next step and of the periodic cleanup, which the main loop reaches every
`cache_cleanup_interval` seconds; `CompoundQuery` adds that the server thread goes on
with a request in hand. `AgentLink` assumes WF of the agents' loops and of
the dispatch time-out, and SF of `OrchRegister`, because the event loop serves every
connection that has something to read each time it is done with a task; that the
orchestrator starts again or anybody calls the SDK is not assumed. `Tier1` assumes WF
of the askers, the classifier and the clock, and SF of `Infer`, because the
runtime's event loop comes to every ready connection in turn; that the runtime
starts again, or that its other clients read, is not assumed. That the classifier's
own reply can be written is: an asker of this repository has one question on a
connection.

**Mutants.** Operators whose comment starts with "Mutant of" stand before the
definition they change and are used by nothing; each is a plausible mistake in
that code (a missing break, an unchecked result, a dropped guard) that the
property named in `PROJECT.json` catches.

## 5. Proofs

Every theorem is proved from the named assumptions on the constants of its module
and from nothing else. The type invariants (`TypeOK` and its relatives) and the
strengthenings (`IInv` and its relatives) are left to the proofs; the runs check
the properties they imply. Four of the properties have theorems and no run of their
own, because another one says as much of an instance: `DenialIsFinal` and
`ExecutedAtMostOnce` (`ImplementsService`: only what was released is performed, and
once), `BuiltinIntentsAreStable` (`BuiltinPartsAnswered`, of every part of a text) and
`CacheAgreesWithoutReload` (`PartsSeeTheSameRules`: a wrong entry would be answered
with).

`OrchestratorProofs` begins with the registry: `FirstOf` returns the least slot; the
three cases of `RegisterIn`; it keeps the array typed, within `MaxAgents`, and its
names unique. Then, for any sets of agents, capabilities and requests, from
`RegistryAssumption` and `OrchestratorAssumption` only:

- `TypeCorrect`: type correctness together with *the handler is busy exactly when
  it holds a request*, without which `replies[cur]` has no type;
- `InductiveInvariant`: `IInv`. The safety properties are not inductive by
  themselves: that a task runs once needs to know where every task is
  (`TaskIsInOnePlace`: unsent, in one backlog, with one process, and never back);
  that an answer is right needs `AnswerIsForRequest`; and that a refusal is final
  needs `HandlerHoldsRequest`, that the verdict of an unanswered request is
  open until its policy step. One lemma treats every exit that answers and one
  every step that only moves on;
- `DenialStays`, `AnsweredOnce`, `ExecutedOnce`, `SuccessIsExecution`, `RegistrySound`,
  `PointerSound`: the safety properties, from `IInv`;
- `Refinement`: `Spec => ImplementsService`, each action being a step of the
  service or a stutter.

`IpcServerProofs`, for any number of connections, descriptors and messages, from
`IpcAssumption` only:

- `ServerInvariant`: type correctness and `IInv` of IpcServer, together, because
  the type of a reply rests on the batch being current. That a stale event never
  meets a reused descriptor needs `EventsStayTrue` (one event for each descriptor
  in a batch, a hangup is not undone, what is readable stays readable until this
  batch reads it) and `AcceptedOnce` (a connection is in the backlog once or has
  one descriptor). That answers are in order needs `NumbersAscend`: the reply in
  hand lies between what was answered and what still waits;
- `BatchIsCurrent`, `AnswersInOrder`: two of its parts;
- `ClosedAfterHangup`: the action property `OnlyHungUpAreClosed`, from the same
  invariant.

The CHOOSE expressions for "first hit" and "lowest free descriptor" rest on the
least member of a set of naturals (`FirstOfIsLeast`, `LeastExists`), from the
library's well-foundedness of Nat.

`PolicyStoreProofs`, for any rules, directories, sizes and requests:

- `PolicyInvariant`: `PolicyIInv`. `StoreAsRead` alone is not inductive: during a
  load the store lags behind what was read by the rule in hand and the rest of
  the file (`LoadedSoFar`); `DecisionIsBest` needs the loop invariant of
  `policy_check` (`ScannedSoFar`: best is the winner among the rules before index,
  or none of them applies);
- `PolicyTypeCorrect`, `DecisionsAreBest`, `StoreIsAsRead`: its consequences;
- `AddedRulesAlwaysYield`: the action property, from the invariant and two lemmas
  about what appending a rule does to the winner.

`AgentLinkProofs`, for any agents, sizes of the registry and orders of calls, from
`LinkAssumption`: `LinkInvariant`. `LinksMeanRegistered` needs that connections are to
this run or an earlier one and that whoever has an answer to read is registered or
the registry is full (`Links`), which is as much as an acknowledgement says. It holds
of an SDK agent, and `NeverUsedAfterFree` of its threads, as long as its state is that
of the function its user is in, no thread is there without a name, and the flag
`connected` is set whenever a thread runs, so that the branch that connects again is
never entered (`Threads`); that is lost when the agent is registered again beside
its thread, hence the exemption of `overlapped`. The heartbeat thread of the
last `agent_start` is joined before the release in any case. `LinkTypeCorrect`
includes that a task waits only at a daemon that listens.

`TablesProofs`:

- `EventInvariant`: during a walk a subscription that still lies ahead has not been
  used more often than it was made anew, and one that does not lie ahead at most once
  more (`WalkCounts`), wherever a removal moves the last one to and whatever event the
  walk compares with by now; and while nobody unsubscribes or replaces the event the
  walk compares with the event it began with and has called exactly those it
  has passed (`WalkReaches`). `SubscribersStayUnique`, `CalledOnce`, `EveryoneReached`
  and `EventTypeCorrect` follow;
- `CacheInvariant`: no empty entry lies before a query's own entry on its probe
  sequence (`ProbesReach`), since entries are emptied all at once only. From it
  `OneEntryOnly`, `CachedAsStored`, `CacheTypeCorrect`. That a probe sequence
  meets each entry once is `ProbeDistances`;
- `TableIsCache`: `CacheSpec => ImplementsCacheMap`. A use of an entry is a stutter
  (`TouchIsStutter`), and to fill one takes the answer of the query that had it and
  of no other (`FillFinds`, `FillIsStore`); both rest on `OneEntryPerQuery`, by which a
  lookup finds the entry of a query wherever the probing put it (`FoundIs`).
  RuleEngine and what is proved about it use `CacheMap` only;
- `RecentIsSpared`: the action property `EvictionSparesRecent`. A timestamp is ahead
  of the last use by no more than the drift has grown to, and the less the longer
  ago that use was (`DriftKnown`), because the drift grows with the stores and a
  cleared table has none; the smallest timestamp (`VictimIs`) is therefore that of
  the longest unused entry;
- `SessionInvariant` holds the properties of the table
  together, because they rest on one another: the search for an inactive slot finds the
  client's own, and not someone else's, because every slot was active before the
  call (`OneSlotPerClient`), and no operation changes the client of a slot, so that
  pointers stay right. `RefusalsMeanFull` says that only a client without a slot,
  expired ones included, is refused, and only when all slots are others'.

`Tier1Proofs`, for any askers, questions, and whatever the model and the keywords
say: an answer is to the question asked because every question that is pending,
in the batch or in hand is no newer than the last one asked and, as long as its
asker waits, is the asker's (`QuestionsMatch`), and because the response is zeroed
between two questions (`HandlerLocals`). `FallbackIsOutage` needs that the asker of
the question in hand has waited as long as the classifier (`OutageKnown`), so that
with `PatienceAssumption` (5 s against 10 s) it has gone before the runtime's
silence turns the classifier to its keywords. `OnlySilenceIsWaitedFor`, the action
property `WaitsInVainOnlyForSilence`, needs the converse: whoever waits has its
answer or is in the classifier's books, whose entries are dropped only when
their askers have gone (`SilenceKnown`, `ClassifierPasses`); so the clock can tick
for it only while the classifier waits for a runtime that is held.

`RuleEngineProofs`, for any tables, files, queries and sizes, from
`RuleEngineAssumption` only:

- what the recursive `Keep` returns: lemmas on keeping of an appended rule, of a
  concatenation, of what was kept already, of everything and of nothing. The
  library's induction theorems take an operator as a parameter, which the provers
  cannot instantiate; the induction is made here over sets instead
  (`NatSetInduction`: a set of naturals with 0 and every successor is Nat, since
  otherwise the numbers outside it have a least one; `SeqSetInduction`);
- `RulesAreTyped`, and `OverrunByOneAtMost`: the count that the `*_add` functions
  compare before they lock is stale by at most one rule of the other thread. The
  limit itself is what the run `rule_limits` refutes;
- `RuntimeRulesAreNotLost`, of rules as they were stored: a reload's filter by source leaves the subsequence of
  runtime rules as it is, and an append by either thread lengthens its own;
- `FileRulesAreReadOnce`: during a reload a table holds, for each stage cleared
  already, the file rules read so far (`ReadIn`, and `HalfRead` of the file at hand,
  with what is left of it), or is full, or a torn line was among them; even then there
  are never more of them than lines, since a torn line gives one rule or none;
- `BuiltinIntentsWin`: the rules of the built-in source come first in the intent
  table and all ranks there are equal, so the first match among them stays the
  best;
- `CacheIsCurrent`, from the path a query takes (`PassedOver`: the tables asked so
  far do not recognise it) and the one moment at which the cache may be wrong,
  between an added rule and the flush;
- `CacheIsUsedAsMap`: `Spec => Cache!MapSpec`, the other side of `TableIsCache`: engine and
  hash table meet at the same specification of a cache;
- `CompoundImplementsEngine`: `CompoundSpec => ImplementsEngine`, which is RuleEngine's
  `Spec` with its fairness, since the fairness of both is of the engine's steps;
  hence `EngineOfCompoundQueries`, which carries the theorems above over to
  compound queries, with their exemptions;
- `CompoundIsTyped`, `PartsShareTheirRules`, `BuiltinPartsWin`, `FirstPartCounts`, for
  any separators and texts, from the invariants of the engine (`EngineKnown`), what
  the results in hand are (`RequestInHand`: one for each part so far, of that part,
  as many recognised as `found` says) and what was sent (`LastResponse`). That
  the parts share their rules needs the cache to agree with the tables at every
  lookup, so it rests on `CacheIsCurrent`'s invariant; that built-in parts are
  answered in full needs each of them to be counted.

`CommandPathProofs`, for queries of any words, keyword tables of any size and any end
of the command: `NothingRunsUnasked`: before a command runs the policy
allowed its agent some capability which that agent announced. It rests on the
order of the stages (`StagesInOrder`). That the command belongs to the capability
does not follow, as the run `path_policy` shows.

Only model-checked: all liveness (`EveryRequestAnswered`, `DeadConnectionsReaped`,
`StopEndsLoop`, `WaitingClientAnswered`, `CacheEventuallyAgrees`, `DaemonComesBack`,
`WaitsEnd`, `StopEnds`, `ClassifierFreed`), as the prover does not handle fairness;
and what the word tables say (`KeywordsReachTheirCapability`,
`WordsKeepTheirMeaning`): they speak of every single keyword of tables that are
constants of the program, so TLC evaluates all there is of them, while the prover
knows neither the length of a string nor how to unfold a table of that many
entries. The documents' claims of the second table above are refuted, and there is
nothing to prove.

## 6. Not modelled, and remarks

Not modelled: the text of messages and its parsing, configuration files, logging,
the command-line tools, how a command's argument is cut out of a query, what a
command does to the machine, the scores of the token stage, `fnmatch`, and the image build. `PROJECT.json` gives the reason for
each component.

Differences and peculiarities met while reading that no run shows:

- protocol/rpc.md:42 lets the next suitable agent be tried on a broken connection;
  one attempt is made (agent_client.c:109);
- a full registry acknowledges with success (main.c:241), where
  protocol/error-codes.md:18 has REGISTRATION_FAILED: the agent takes itself for
  registered and never is, unless the orchestrator starts again (`OrchRegister`; the
  properties of AgentLink except a full registry);
- a client that shuts down its sending side, like the `echo ... | socat` of
  orchestrator/README.md:124-125, may go unanswered (ipc.c:259);
- a reload empties the cache before the tables (rule-engine/main.c:63) and may
  leave old answers behind until the next cleanup (`CacheEventuallyAgrees`);
- a reply of `agent_client_dispatch` after a closed connection says
  AGENT_TIMEOUT, and AGENT_DISCONNECTED only when the write fails;
- an answer of the rule engine without an intent resolves a request to the empty
  capability instead of handing it to the next tier (`RuleClientQuery`,
  "no_intent"); so does a compound query of which no part was recognised, where
  rule-engine/README.md:15 has UNKNOWN and Tier 1; one whose first part failed
  sends the failure and drops a later success (rule-engine/main.c:283,
  `FirstPartDecides`);
- two requests written at once on a connection get one answer
  (`HandleMessages`), although protocol/rpc.md allows parallel requests;
- an alias that matches is answered "unknown" (rule-engine/main.c:143);
- `metrics_record_request` is always told of a success (`RecordRequest`);
- the error code of a reply is not written to the wire
  (orchestrator/protocol/protocol.c:59-64; orchestrator/README.md:70 shows it);
- the task names the agent's first capability rather than the requested one
  (agent_client.c:89-93), and agents read the words again;
- agents compare with capitals, router and classifier without: 'Shutdown' passes
  all stages and runs nothing;
- the default rules deny install_package to the package agent too;
- the desktop agent's "close" is acknowledged and closes nothing;
- a silent model runtime brings the classifier to its keywords after 10 s, when
  the orchestrator has given up after 5; a running model that answers "unknown"
  keeps the keywords from being asked; its error reply becomes an empty intent
  with a confidence of 0.7;
- a full event table refuses to update the context of a handler it has; an event
  posted by a handler of the pending event is lost, and until the publication ends it
  is that event's subscribers which the walk calls and the pending one's which it
  passes over (events.c:84, 67; `PostPending`); a handler that unsubscribes
  itself makes the walk pass over the subscriber moved into its slot;
- a session table full of others' expired sessions refuses a newcomer for good;
- agent_stop followed by agent_cleanup joins the heartbeat thread twice
  (`SdkJoinsNothing`);
- a second agent_start leaves the first heartbeat thread behind, which nobody joins and
  which goes on using the agent after agent_cleanup has freed it (`SdkCreate`);
- the classifier's connect() to the runtime (intent-classifier/main.c:47) comes before
  its time-outs: a held runtime with a full accept queue, into which every question
  given up puts one connection, stops the classifier for as long (`ConnectBlocks`);
- a client of the classifier that does not read its reply holds the classifier as one of
  the runtime's does the runtime (ipc.c:354);
- a reload and a client's add_rule at the same time may lose or mix up a file's line and
  the client's rule (rules.c:119, rule-engine/main.c:204; `ParseLine`, `ParseRule`);
- commands whose result is not looked at (`AlwaysSucceed`) report success although
  nothing ran, and a command killed by a signal counts as one that ended well;
- a reload request that arrives during a reload is erased (rule-engine/main.c:67);
- a write to a closed socket gives EPIPE and not SIGPIPE only because systemd
  starts the daemons with SIGPIPE ignored.
