SPECIFICATION SessionFairSpec
CONSTANTS
  m1 = m1
  m2 = m2
  m3 = m3
  m4 = m4
  f1 = f1
  f2 = f2
  Msg = {}
  Filter = {f1, f2}
  MaxId = 2
  MaxTopics = 1
  MaxSize = 15
  TopicSize = 9
  MaxInflightOut = 0
  MaxInflightIn = 0
  MaxSubscriptions = 2
  MaxPendingAcks = 2
  MaxPersisted = 14
  TxCapacity = 16
  RxCapacity = 1
  MaxRecvRounds = 1
  RetryEnabled = FALSE
  KeepAliveEnabled = FALSE
  LoopCalls = {"connect", "subscribe", "unsubscribe", "step"}
  HandlerCalls = {}
  MaxDepth = 0
  ConnectSize = {15}
  PublishSize = {12}
  TransportError = {"TransportClosed"}
  PartialWrite = {}
  Routes <- NoRoutes
  Inbound <- NoInbound
  CleanSession = {FALSE}
  SubscribeQos = {1}
  OwnHandler = {FALSE}
  PublishQos = {1, 2}
  Offer = {}
  Refused = {}
  MaxDrops = 1
  MaxForgets = 1
  Unhurried = TRUE
  ReuseIds = TRUE
  WireCapacity = 1
INVARIANT SubscriptionsAgree
PROPERTY ResubscribeCompletes
