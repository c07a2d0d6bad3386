SPECIFICATION Spec
CONSTANTS
  q1 = q1
  q2 = q2
  Requests = {q1, q2}
  NoRequest = NoRequest
  Succeeds = {q1}
  Modes = {"stream"}
  ChanCap = 1
  MaxSessions = 1
  MaxDeaths = 0
INVARIANT LoopsSurvive
CHECK_DEADLOCK FALSE
