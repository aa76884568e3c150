SPECIFICATION Spec
CONSTANTS
  MaxPatternSteps = 10
  MaxExpansionDepth = 3
  MaxPositional = 2
  MinLinebuf = 4
  MaxLinebuf = 20
  DefaultLinebuf = 12
  MaxValueLen = 14
  MaxPathLen = 12
  MaxSeconds = 9
  MaxArgumentLen = 2
  MaxArgumentBytes = 3
  RootRc <- RootPath
  FieldNames <- MCFieldNames
  FromLine = 300
  MaxGeneratedLine = 8
  Limits <- MCLimits
  PriorityFields <- MCPriorityFields
  MaxExtracted = 6
  Reparsed <- MCReparsed
  MaxMatchBytes = 3
  RcFiles <- MCRcFiles
  MaxRcFiles = 4
  MaxRcDepth = 2
  MaxTransitions = 3
  MaxStatements = 9
  HardStatements = 10
  Hostname <- MCHostname
  Prefixed <- MCPrefixed
  Postmark <- MCPostmark
  FromTarget <- MCFromTarget
  QuotePrefix <- MCQuotePrefix
  MaxQuotes = 2
  MessageIdNames <- MCMessageIdNames
  GeneratedId <- MCGeneratedId
  MaxEdits = 3
  MessageJobs <- MCMessageJobs
  WordJobs <- MCWordJobs
  EditJobs <- MCEditJobs
  EditActions <- MCEditActions
  FormailJobs <- MCFormailJobs
INVARIANTS
  WordMeaning
  ArenaMeansList
  FromLinesQuoted
  PlanningMeansOrdered
  PreparationMeansSource
  NothingUnsupported
  RequirementsCover
