SPECIFICATION FairSpec
CONSTANTS
  m1 = m1
  m2 = m2
  f1 = f1
  f2 = f2
  Msg = {m1}
  Filter = {}
  MaxId = 3
  MaxTopics = 1
  MaxSize = 17
  TopicSize = 9
  MaxInflightOut = 0
  MaxInflightIn = 1
  MaxSubscriptions = 1
  MaxPendingAcks = 1
  MaxPersisted = 8
  TxCapacity = 16
  RxCapacity = 1
  MaxRecvRounds = 2
  RetryEnabled = FALSE
  KeepAliveEnabled = TRUE
  LoopCalls = {"connect", "disconnect", "publish", "abort", "step"}
  HandlerCalls = {"abort"}
  MaxDepth = 1
  ConnectSize = {15, 17}
  PublishSize = {7}
  TransportError = {"TransportClosed", "TransportFailure"}
  PartialWrite = {5}
  Routes <- NoRoutes
  Inbound <- FaultInbound
  SubscribeQos = {1}
  OwnHandler = {TRUE}
  CleanSession = {TRUE, FALSE}
  PublishQos = {0}
INVARIANTS  StreamStartsWithConnect StepReportsReason
PROPERTY StepReturns
