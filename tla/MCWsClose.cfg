SPECIFICATION FairSpec
CONSTANTS
  Roles = {"client", "server"}
  Tls = {TRUE, FALSE}
  KeepAlive = TRUE
INVARIANTS TypeOK CallbacksOnce OneCloseFrame NoPongAfterClose SendArmed TimerArmed
PROPERTIES CloseEnds
CHECK_DEADLOCK FALSE
