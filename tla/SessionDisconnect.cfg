SPECIFICATION SessionSpec
CONSTANTS
  m1 = m1
  m2 = m2
  m3 = m3
  m4 = m4
  f1 = f1
  f2 = f2
  Msg = {m1, m2}
  Filter = {}
  MaxId = 2
  MaxTopics = 1
  MaxSize = 15
  TopicSize = 9
  MaxInflightOut = 0
  MaxInflightIn = 1
  MaxSubscriptions = 0
  MaxPendingAcks = 0
  MaxPersisted = 14
  TxCapacity = 20
  RxCapacity = 1
  MaxRecvRounds = 1
  RetryEnabled = FALSE
  KeepAliveEnabled = FALSE
  LoopCalls = {"connect", "disconnect", "step"}
  HandlerCalls = {}
  MaxDepth = 0
  ConnectSize = {15}
  PublishSize = {12}
  TransportError = {"TransportClosed"}
  PartialWrite = {}
  Routes <- NoRoutes
  Inbound <- NoInbound
  CleanSession = {FALSE}
  SubscribeQos = {1}
  OwnHandler = {FALSE}
  PublishQos = {1, 2}
  Offer <- OfferMixed
  Refused = {}
  MaxDrops = 1
  MaxForgets = 0
  Unhurried = FALSE
  ReuseIds = TRUE
  WireCapacity = 3
INVARIANT ConformantBrokerAccepted
