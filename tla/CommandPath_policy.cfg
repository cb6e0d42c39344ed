SPECIFICATION PathSpec
CONSTANTS
  NoCapability = "none"
  NoAgent = "none"
  MaxKeywords = 32
  MaxKeywordRules = 32
  AnyCapability = "*"
  AgentMatch <- DefaultPatterns
  Queries <- OneOrTwoWords
INVARIANT PolicyGovernsCommands
