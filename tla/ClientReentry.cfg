SPECIFICATION Spec
CONSTANTS
  m1 = m1
  m2 = m2
  f1 = f1
  f2 = f2
  Msg = {m1}
  Filter = {f1, f2}
  MaxId = 3
  MaxTopics = 1
  MaxSize = 15
  TopicSize = 9
  MaxInflightOut = 0
  MaxInflightIn = 1
  MaxSubscriptions = 2
  MaxPendingAcks = 1
  MaxPersisted = 12
  TxCapacity = 16
  RxCapacity = 2
  MaxRecvRounds = 2
  RetryEnabled = FALSE
  KeepAliveEnabled = FALSE
  LoopCalls = {"connect", "subscribe", "abort", "step"}
  HandlerCalls = {"connect", "publish", "abort", "step"}
  MaxDepth = 2
  ConnectSize = {15}
  PublishSize = {12}
  TransportError = {"TransportFailure"}
  PartialWrite = {}
  Routes <- AllRoutes
  Inbound <- MessageInbound
  SubscribeQos = {1}
  OwnHandler = {TRUE}
  CleanSession = {TRUE, FALSE}
  PublishQos = {0}
SYMMETRY FilterSymmetry
INVARIANTS StreamStartsWithConnect NoSendOnClosed OneStepAtATime 
PROPERTY MessagesOnlyWhenConnected
