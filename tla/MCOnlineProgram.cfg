SPECIFICATION StartSpec
CONSTANTS
  UIDs = {u1}
  NoUid = NoUid
  HEARTBEAT_PERIOD_S = 1
  MSG_RESEND_PERIOD_S = 0
  MaxInFlight = 1
  HeartbeatAcked = FALSE
  ServerRequiresAuth = TRUE
  Faults = {"reset"}
INVARIANTS
  TypeOK
  OfflineNotAuthorized
  SocketClosedInCodeMode
  SessionBehindGate
  ResultHasReport
  BurnHasUid
  NoStartInUidMode
  NoBinWaitInUidMode
