SPECIFICATION FairSpec
CONSTANTS
  Admins = {a1, a2}
  Requests = {r1}
  Sockets = {s1}
  MaxChanges = 3
  MaxCalls = 3
  MaxFaults = 1
  None = None
CHECK_DEADLOCK FALSE
INVARIANTS RequestsStayInside SandboxesAreWhole
PROPERTIES SocketsFollow
