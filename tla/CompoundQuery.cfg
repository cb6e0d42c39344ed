SPECIFICATION CompoundSpec
CONSTANTS
  Words <- TextWords
  Blank = ""
  Separators <- SeparatorWords
  Texts <- SomeTexts
  Queries <- SomeQueries
  Answers = {"lock_screen", "volume", "mute_all", "sleep"}
  None = None
  Builtin <- BuiltinIntents
  Contents <- OldAndNew
  RuntimeRules <- Added
  Misread <- MixedRules
  MinScore = 1
  MaxRules = 5
  MaxEdits = 1
  MaxReloads = 2
INVARIANTS RuntimeRulesSurvive FileRulesAsLoaded
  PartsSeeTheSameRules BuiltinPartsAnswered FirstPartDecides
PROPERTY CacheEventuallyAgrees
