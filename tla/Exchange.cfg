\* Histories of up to six entries about two calls: every pattern of failures, retries, late
\* failures and repeated completions of two interleaved calls.
CONSTANTS
  Literals <- MCLiterals
  NonFinite = {"inf"}
  BadWords = {"/"}
  Texts <- MCTexts
  Names = {"f", "g"}
  JsonTexts <- MCJsonTexts
  Said <- MCSaid
  Answers <- MCAnswers
  NormalizeMessage <- MCNormalizeMessage
  Characters <- MCCharacters
  Payloads <- MCPayloads
  Configs <- MCConfigs
  Replacement <- MCReplacement
  Values <- MCValues
  Height <- MCHeight
  SerializedLen <- MCSerializedLen
  BoundValue <- MCBoundValue
  Within <- MCWithin
  Fingerprints = {search, fetch}
  MaxEntries = 6
SPECIFICATION ExchangeSpec
INVARIANTS
  ReadsWhatIsWritten
  NothingMadeUp
  ProviderFormsAgree
  BudgetKept
  RedactionHolds
  NothingLostSilently
  BoundingSettles
  KeepsTheAnswer
  FirstOccurrenceOrder
  Idempotent
CHECK_DEADLOCK FALSE
