SPECIFICATION Spec
CONSTANTS
  Capabilities = {"c1", "c2"}
  AnyCapability = "*"
  Agents = {"a1", "a2"}
  Patterns = {"*", "a*", "a2", ""}
  AgentMatch <- AgentsMatched
  Texts = {"allow", "deny", "ask_user", "typo", "absent"}
  Absent = "absent"
  Directories <- PolicyDirectories
  WireMessages <- Sent
  MaxPolicies = 4
  MaxSeen = 5
  s1 = s1
  s2 = s2
  s3 = s3
  Clients = {s1, s2, s3}
  NoSession = NoSession
  NotAsked = NotAsked
  MaxSessions = 2
  Timeout = 2
  MaxHistory = 2
  MaxTime = 5
  e1 = e1
  e2 = e2
  EventTypes = {e1, e2}
  h1 = h1
  h2 = h2
  h3 = h3
  Handlers = {h1, h2, h3}
  NoEvent = NoEvent
  MaxSubscribers = 3
  MaxChanges = 5
  CacheQueries = {"q1", "q2", "q3"}
  CacheAnswers = {"r1", "r2"}
  NoQuery = "none"
  NoAnswer = "unknown"
  Size = 2
  Hash <- Bucket
  DriftStep = 2
  LastSecond = 3
  MaxStores = 5
  NoCapability = "none"
  NoAgent = "none"
  MaxKeywords = 32
  MaxKeywordRules = 32
  Queries <- OneOrTwoWords
INVARIANTS DecisionIsBest StoreAsRead
  OneSlotPerClient HandedSlotIsOwn HistoryIsOwn
  CalledOncePerPublication
  AnswersAsStored
  KeywordsReachTheirCapability WordsKeepTheirMeaning
PROPERTIES AddedRulesYield UndisturbedReachesAll EvictionSparesRecent
  ImplementsCacheMap
