SPECIFICATION Spec
CONSTANTS
  m1 = m1
  m2 = m2
  f1 = f1
  f2 = f2
  Msg = {m1}
  Filter = {f1, f2}
  MaxId = 2
  MaxTopics = 1
  MaxSize = 17
  TopicSize = 9
  MaxInflightOut = 2
  MaxInflightIn = 0
  MaxSubscriptions = 2
  MaxPendingAcks = 1
  MaxPersisted = 12
  TxCapacity = 16
  RxCapacity = 1
  MaxRecvRounds = 1
  RetryEnabled = FALSE
  KeepAliveEnabled = FALSE
  LoopCalls = {"connect", "publish", "subscribe", "unsubscribe", "abort", "step"}
  HandlerCalls = {}
  MaxDepth = 0
  ConnectSize = {15, 17}
  PublishSize = {12}
  TransportError = {}
  PartialWrite = {}
  Routes <- NoRoutes
  Inbound <- TableInbound
  SubscribeQos = {1}
  OwnHandler = {FALSE}
  CleanSession = {TRUE, FALSE}
  PublishQos = {2}
SYMMETRY FilterSymmetry
INVARIANTS TypeOK OutstandingIdsDistinct SubIdsDistinct 

PROPERTY InflightKept
