SPECIFICATION FairSpec
CONSTANTS
  MaxConnections = 2
  MaxUnread = 1
  Resources = {}
  Options <- OneAttempt
CHECK_DEADLOCK FALSE
PROPERTIES CloseSettles NoConnectionSurvives LossIsRepaired ReconnectSettles
