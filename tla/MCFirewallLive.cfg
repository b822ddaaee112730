SPECIFICATION LiveSpec
CONSTANTS
  i1 = i1
  i2 = i2
  i3 = i3
  t1 = t1
  t2 = t2
  t3 = t3
  a1 = a1
  a2 = a2
  c1 = c1
  c2 = c2
  r1 = r1
  base = base
  d1 = d1
  d2 = d2
  d3 = d3
  p1 = p1
  p2 = p2
  Invocation = {i1, i2}
  Tx = {t1, t2}
  Claim = {a1, c1, r1}
  Policy = {base, p1, NoTable}
  Approved = {base, p1}
  Static = {d1, d2, d3}
  Including = {d1, d2}
  Loadable = {d1, d2}
  ConfirmSvc = ConfirmSvc
  RollbackSvc = RollbackSvc
  NoProc = NoProc
  NoTx = NoTx
  TornTx = TornTx
  NoClaim = NoClaim
  TornClaim = TornClaim
  Install = Install
  NoTable = NoTable
  ActionOf <- MCActionOf
  CandidateOf <- MCCandidateOf
  StartLimitBurst = 3
  MayTear = FALSE
  MaxFailures = 2
  MaxCrashes = 1
PROPERTY UndecidedCandidateIsSettled
CHECK_DEADLOCK FALSE
