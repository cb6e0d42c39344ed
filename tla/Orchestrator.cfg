SPECIFICATION Spec
CONSTANTS
  a = a b = b c = c
  s1 = s1 s2 = s2
  r1 = r1 r2 = r2
  open = open install = install
  None = None NoSock = NoSock NoCap = NoCap
  Names = {a, b, c}
  Socks = {s1, s2}
  Caps = {open, install}
  Requests = {r1, r2}
  MaxAgents = 2
  Backlog = 0
  Registrations <- MCRegistrations
  RouterCap <- MCRouterCap
INVARIANTS SuccessMeansExecuted AgentPointerFresh RegistryIsLastAcked
PROPERTIES ImplementsService EveryRequestAnswered
