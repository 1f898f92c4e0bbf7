SPECIFICATION Spec
CONSTANTS
  SafeId <- SafeIdWords
  SafeJobId <- SafeJobWords
  SafeEvidenceId <- SafeEvidenceWords
  Sha256 = {"sha"}
  Unprintable = {"tab"}
  HttpUrl = {"https-url"}
  MalformedUrl = {"https-bracket"}
  Day <- DayWords
  Pieces <- PiecesOfWords
  MaxEvidenceItems = 2
  Case <- Cases
  Alteration <- Altered
  MaxAlterations = 2
  Version <- Versions
  Size <- Sizes
  Status <- Statuses
  Elsewhere <- Others
  NoVersion = NoVersion
INVARIANTS AcceptedIsReportable TokenStaysWithHarmony RetryFitsQueue RefusedOrAccepted SummariesAreOfReports FamiliesApart
CHECK_DEADLOCK FALSE
