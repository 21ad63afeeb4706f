SPECIFICATION ReportSpec
CONSTANTS
  UIDs = {u1, u2}
  NoUid = NoUid
  HEARTBEAT_PERIOD_S = 1
  MSG_RESEND_PERIOD_S = 1
  MaxInFlight = 2
  HeartbeatAcked = TRUE
  ServerRequiresAuth = TRUE
  Faults = {"stall", "reset"}
INVARIANTS
  TypeOK
  AuthIsCurrent
  AvailableUidIsIssued
PROPERTIES
  KeepsPromise
  LeftOnceDelivered
