SPECIFICATION LiveSpec
CONSTANTS
  i1 = i1
  i2 = i2
  i3 = i3
  t1 = t1
  t2 = t2
  old = old
  new1 = new1
  new2 = new2
  r1 = r1
  r2 = r2
  Svc = Svc
  NoProc = NoProc
  NoTx = NoTx
  NoConf = NoConf
  NoRecord = NoRecord
  NoRequest = NoRequest
  Invocation = {i1, i2}
  Tx = {t1, t2}
  Target = {old, new1, new2}
  Good = {new1, new2}
  Rest = {r1, r2}
  CandidateOf <- MCCandidateOf
  MayLeave = FALSE
  MaxFailures = 2
  MaxCrashes = 1
PROPERTIES
  PendingIsDecided
  ListenersComeBack
CHECK_DEADLOCK FALSE
