SPECIFICATION FairSpec
CONSTANTS
  w1 = w1
  w2 = w2
  s1 = s1
  s2 = s2
  s3 = s3
  s4 = s4
  Source = {s1}
  Batch <- OneRequest
  KindOf <- KindsValid
  Worker = {w1}
  Id = {1, 2, 3}
  MaxRetries <- RetriesTwice
  RetryMax = 1
  StorageMode = "s3"
  CallbackOutcome = {"ok", "error", "garbled"}
  MaxFaults = 1
  TriesCap = 0
  NoTag = NoTag
  NoMsg = NoMsg
  NoOut = NoOut
  NoSignature = NoSignature
INVARIANT RetriesAdvance
PROPERTY EventuallySettled
CHECK_DEADLOCK FALSE
