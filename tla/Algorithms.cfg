SPECIFICATION Spec
CONSTANTS
  HistoryLength = 7
  TextLength = 5
  PhraseLength = 4
  Histories <- BoundedHistories
  Tables <- BoundedTables
  Times <- BoundedTimes
  Texts <- BoundedTexts
  CardNumbers <- BoundedCardNumbers
  Answers <- BoundedAnswers
  Conversations <- BoundedConversations
  PluginRuns <- BoundedPluginRuns
  Exchanges <- BoundedExchanges
  Runtimes <- BoundedRuntimes
  Clipboards <- BoundedClipboards
INVARIANTS
  PatternsCountRepetitions
  EvidenceBacksPatterns
  GraphCarriesPatterns
  ListedInOrderOfSeconds
  ExpiryWithinASecond
  MatchesSurviveOnlyBehindOverlaps
  UncertainSurvivesOnlyJoined
  StrayDigitDoesNotHideCard
  ExtractsTheObject
  OnlyHonestCountsAccepted
  PluginStaysInItsGrant
  BudgetIsForLife
  CompletionsAreAnswers
  ProbesAreIndependent
  ClipboardReportsAreTrue
CHECK_DEADLOCK FALSE
