SPECIFICATION Spec
CONSTANTS
  Asset = {workflow, prompt}
  Content = {old, new}
  NoFile = NoFile
  Unbound = Unbound
  MaxRuns = 4
  MaxEdits = 2
INVARIANTS
  VerifiedIsExact
  FailureIsCleanedUp
PROPERTIES
  SealIsFinal
  MetadataComesLast
