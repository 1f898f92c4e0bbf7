SPECIFICATION Spec
CONSTANTS
  w1 = w1
  w2 = w2
  s1 = s1
  s2 = s2
  s3 = s3
  s4 = s4
  Source = {s1}
  Batch <- OneRequest
  KindOf <- KindsValid
  Worker = {w1, w2}
  Id = {1, 2, 3, 4, 5}
  MaxRetries <- RetriesRollout
  RetryMax = 1
  StorageMode = "local"
  CallbackOutcome = {"ok", "error", "garbled"}
  MaxFaults = 2
  TriesCap = 3
  NoTag = NoTag
  NoMsg = NoMsg
  NoOut = NoOut
  NoSignature = NoSignature
INVARIANTS NothingSilent CallbacksAgree AttemptsAreHonest DuplicatesNeedFailures FailedIsArchived
PROPERTY ImplementsStore
CHECK_DEADLOCK FALSE
