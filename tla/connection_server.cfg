\* Four peers on three connections, two login slots; identities run out.
SPECIFICATION FairSpec
CONSTANTS
  None = None
  Sockets = {s1, s2, s3, s4}
  MaxConnections = 3
  MaxLogins = 2
  MaxId = 4
  Uuids = {u1, u2, u3, u4, u5}
CHECK_DEADLOCK FALSE
INVARIANTS
  AdmissionExact
  SessionShared
PROPERTIES
  ServerStops
