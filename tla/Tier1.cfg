SPECIFICATION Spec
CONSTANTS
  o = o
  t = t
  Askers = {o, t}
  Queries = {"q1", "q2"}
  Intents = {"i1", "i2"}
  NoQuery = "none"
  ModelSays <- Model
  KeywordsSay <- KeywordTable
  AskTimeout = 1
  RuntimeTimeout = 2
  Backlog = 2
  MaxAsks = 3
INVARIANTS AnswersTheQuestion FallbackMeansDown
PROPERTIES WaitsInVainOnlyForSilence ClassifierFreed
