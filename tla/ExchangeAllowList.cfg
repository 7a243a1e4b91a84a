CONSTANTS
  Literals <- MCLiterals
  NonFinite = {"inf"}
  BadWords = {"/"}
  Texts <- MCTexts
  Names = {"f", "g"}
  JsonTexts <- MCJsonTexts
  Said <- MCSaid
  Answers <- MCAnswers
  NormalizeMessage <- MCNormalizeMessage
  Characters <- MCCharacters
  Payloads <- MCPayloads
  Configs <- MCConfigs
  Replacement <- MCReplacement
  Values <- MCValues
  Height <- MCHeight
  SerializedLen <- MCSerializedLen
  BoundValue <- MCBoundValue
  Within <- MCWithin
  Fingerprints = {search, fetch}
  MaxEntries = 6
SPECIFICATION ExchangeSpec
INVARIANT OnlyContainersAbove
CHECK_DEADLOCK FALSE
