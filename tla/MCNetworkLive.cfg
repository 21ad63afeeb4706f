SPECIFICATION FairSpec
CONSTANTS
  UIDs = {u1}
  NoUid = NoUid
  HEARTBEAT_PERIOD_S = 1
  MSG_RESEND_PERIOD_S = 1
  MaxInFlight = 1
  HeartbeatAcked = FALSE
  ServerRequiresAuth = FALSE
  Faults = {"stall", "reset"}
INVARIANT AuthNotForgotten
PROPERTIES
  AuthorizedAgain
  ResultDelivered
