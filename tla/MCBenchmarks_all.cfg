SPECIFICATION FairSpec
CONSTANTS
  NumSamples = 2
  MaxCalls = 2
  Elements = 4
  Word = 256
  Args <- CommandLines
INVARIANTS
  CallsWithinSample
  WholeSamples
  SamplesAlike
  JoinsCleanly
PROPERTY
  Returns
CHECK_DEADLOCK FALSE
