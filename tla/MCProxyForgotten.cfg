SPECIFICATION Spec
CONSTANTS
  v1 = v1
  v2 = v2
  s1 = s1
  s2 = s2
  Absent = Absent
  Foreign = Foreign
  Version <- MCVersion
  Service = {s1}
  Request <- MCRequest
  MaxEdits = 0
INVARIANT ActivationSurvivesRendering
CHECK_DEADLOCK FALSE
