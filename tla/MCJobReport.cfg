SPECIFICATION LedgerSpec
CONSTANTS
  UIDs = {u1, u2}
  NoUid = NoUid
  HEARTBEAT_PERIOD_S = 1
  MSG_RESEND_PERIOD_S = 0
  MaxInFlight = 1
  HeartbeatAcked = FALSE
  ServerRequiresAuth = TRUE
  Faults = {}
PROPERTY ReportTellsTheBurn
