----------------------------- MODULE MCOrchestrator -----------------------------
(***************************************************************************)
(* Instances of Orchestrator for TLC: three agents (one of them built with *)
(* the SDK, whose register message carries no socket path), two sockets    *)
(* and two requests.                                                       *)
(***************************************************************************)
EXTENDS Orchestrator

CONSTANTS a, b, c, s1, s2, r1, r2, open, install

\* "a" registers twice, the second time with another capability.
MCRegistrations ==
  { [name |-> a, sock |-> s1,     caps |-> <<open>>],
    [name |-> a, sock |-> s1,     caps |-> <<install>>],
    [name |-> b, sock |-> s2,     caps |-> <<install, open>>],
    [name |-> c, sock |-> NoSock, caps |-> <<install>>] }

\* Each name once: for the runs in which what matters is the dispatch.
MCTwoRegistrations ==
  { [name |-> a, sock |-> s1, caps |-> <<open>>],
    [name |-> b, sock |-> s2, caps |-> <<install, open>>] }

\* The keyword router knows one of the queries only.
MCRouterCap == [r \in Requests |-> IF r = r1 THEN open ELSE NoCap]
================================================================================
