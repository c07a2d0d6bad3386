SPECIFICATION FairSpec
CONSTANTS
  q1 = q1
  q2 = q2
  Requests = {q1, q2}
  NoRequest = NoRequest
  Succeeds = {q1}
  Modes = {"generic", "stream"}
  ChanCap = 1
  MaxSessions = 2
  MaxDeaths = 1
INVARIANT TypeOK
 
INVARIANT StopNotifies
INVARIANT NothingLeaked
PROPERTY InvocationsEnd
PROPERTY SessionsEnd
CHECK_DEADLOCK FALSE
