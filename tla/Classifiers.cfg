CONSTANTS
  a = a
  b = b
  stray = stray
  None = None
  Ids = {a, b, stray}
  Labels = {"business", "personal"}
  BatchSize = 2
  MaxAttempts = 3
  Statements <- MCStatements
  Answers <- MCAnswers
  Order <- MCOrder
  BaseCodes <- MCBaseCodes
  BasePropensity <- MCBasePropensity
  RuleOverrides <- MCRuleOverrides
  BusinessCodes = {"5734"}
  PersonalCodes = {"5812"}
  RuleRows <- MCRuleRows
  Gazetteer <- MCGazetteer
  Texts <- MCTexts
  Within <- MCWithin
  Words <- MCWords
  PayRest <- MCPayRest
  Glue <- MCGlue
  Scores = {0, 92}
  Thresholds = {0, 70}
  TopKs <- MCTopKs
  TxIds = {a, b}
  MaxRows = 2
  MlOutcomes <- MCMlOutcomes
  SlmOutcomes <- MCSlmOutcomes
  LlmOutcomes <- MCLlmOutcomes
  MccConfidence = 88
  SlmEscalation = 72
  ReviewDefault = 70
  ReviewHighRisk = 85
  MlMinConfidence = 72
SPECIFICATION ClassifiersSpec
INVARIANTS
  ClassifiersTypeOK
  VerdictsAreKept ThresholdsHold VerdictsAreEarned EvidenceDecides ResolvedInOrder
PROPERTIES LabelsInOrder AllLabelled
