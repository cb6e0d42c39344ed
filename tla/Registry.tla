------------------------------- MODULE Registry -------------------------------
(***************************************************************************)
(* The agent registry of the orchestrator (registry/registry.c): a bounded *)
(* array of agent records in registration order.  The order matters,       *)
(* because a capability is served by the first agent of the array that     *)
(* announces it.                                                           *)
(*                                                                         *)
(* A record keeps what the daemon uses of agent_info_t: the name, the      *)
(* socket path and the list of capabilities.  "alive" and                  *)
(* "last_heartbeat" are left out: registry_register sets alive, and        *)
(* nothing in the daemon ever clears it or reads the time.                 *)
(***************************************************************************)
EXTENDS Naturals, Sequences

CONSTANTS
  Names,          \* agent names
  Socks,          \* socket paths on which agents can listen
  NoSock,         \* the empty socket path
  Caps,           \* capability names
  NoCap,          \* the empty capability name
  MaxAgents       \* size of the array (MAX_AGENTS)

ASSUME RegistryAssumption ==
  /\ NoSock \notin Socks
  /\ NoCap \notin Caps
  /\ MaxAgents \in Nat \ {0}

AgentInfo == [name : Names, sock : Socks \cup {NoSock}, caps : Seq(Caps)]

\* The slots whose agent has this name, and those whose agent announces
\* this capability.
Named(reg, n) == {i \in DOMAIN reg : reg[i].name = n}
Capable(reg, c) == {i \in DOMAIN reg :
                      \E j \in DOMAIN reg[i].caps : reg[i].caps[j] = c}

\* Every search of the array stops at its first hit.
FirstOf(S) == CHOOSE i \in S : \A k \in S : i <= k

\* Mutant of RegisterIn: the name is not looked up first.
RegisterInAppending(reg, a) ==
  IF Len(reg) >= MaxAgents THEN reg ELSE Append(reg, a)

\* registry_register: overwrite the slot of that name, or append, or leave a
\* full array as it is (the function then returns -1).
RegisterIn(reg, a) ==
  IF Named(reg, a.name) # {}
    THEN [reg EXCEPT ![FirstOf(Named(reg, a.name))] = a]
    ELSE IF Len(reg) >= MaxAgents THEN reg ELSE Append(reg, a)

NamesUnique(reg) ==
  \A i, k \in DOMAIN reg : reg[i].name = reg[k].name => i = k
===============================================================================
