SPECIFICATION Spec
CONSTANTS
  w1 = w1
  w2 = w2
  s1 = s1
  s2 = s2
  s3 = s3
  s4 = s4
  Source = {s1, s2, s3, s4}
  Batch <- ValidOrOthers
  KindOf <- KindsAll
  Worker = {w1, w2}
  Id = {1, 2, 3, 4, 5}
  MaxRetries <- RetriesOnce
  RetryMax = 1
  StorageMode = "s3"
  CallbackOutcome = {"ok", "error", "garbled"}
  MaxFaults = 1
  TriesCap = 3
  NoTag = NoTag
  NoMsg = NoMsg
  NoOut = NoOut
  NoSignature = NoSignature
SYMMETRY WorkerSymmetry
INVARIANTS TypeOK NothingSilent DoneImpliesStored AuthenticatedRetries CallbacksAgree AttemptsAreHonest StagingRemoved DuplicatesNeedFailures
PROPERTY ImplementsJobs
CHECK_DEADLOCK FALSE
