------------------------------ MODULE Session -------------------------------
(***************************************************************************)
(* A client and a conformant broker over connections that may end at any   *)
(* moment: what the two promise each other end to end.                     *)
(***************************************************************************)
EXTENDS Client, Broker

CONSTANTS
    MaxDrops,       \* how many connections fail or time out
    MaxForgets,     \* how often the broker loses a session
    Unhurried,      \* whether the application makes one request at a time
    ReuseIds,       \* whether the run goes on once the packet ids wrap
    WireCapacity    \* packets a connection holds each way before it blocks

ASSUME SessionAssumption ==
    /\ MaxDrops \in Nat /\ MaxForgets \in Nat
    /\ Unhurried \in BOOLEAN /\ ReuseIds \in BOOLEAN
    /\ WireCapacity \in Nat \ {0}

VARIABLES
    drops,
    forgets,
    accepted,       \* history: <<message, qos>> that publish() took
    delivered       \* history: how often each message went to the handlers

world == <<drops, forgets, accepted, delivered>>
all   == <<vars, brokerVars, world>>

SessionInit ==
    /\ Init /\ BrokerInit
    /\ drops = 0 /\ forgets = 0
    /\ accepted = {}
    /\ delivered = [m \in Msg |-> 0]

\* A session that ends inside step(), other than with "Ok", is a drop.
CountDrop ==
    /\ drops' = IF Top \in StepFrame /\ state # "Idle" /\ state' = "Idle" /\ lastError' # "Ok"
                THEN drops + 1 ELSE drops
    /\ drops' <= MaxDrops

CountDelivery ==
    delivered' = IF Top = "drain" /\ Len(stack') > Len(stack) /\ stack'[Len(stack')] = "on_message"
                 THEN [delivered EXCEPT ![Packet.msg] = @ + 1] ELSE delivered

\* An unhurried application waits until its last request, and what a
\* reconnect has to repeat, is done before it makes the next.
Patience ==
    Unhurried /\ Top \notin StepFrame /\ Len(pending') > Len(pending) =>
      pending = <<>> /\ NeedsResub = {}

ClientLocal ==
    /\ AppCall \/ Internal
    /\ Patience
    /\ CountDrop /\ CountDelivery
    /\ UNCHANGED <<brokerVars, forgets, accepted>>

\* The application publishes each message once, and none of the broker's.
ClientPublish ==
    /\ \E msg \in Msg, qos \in PublishQos, size \in PublishSize :
         /\ \A pair \in accepted \cup Offer : pair[1] # msg
         /\ ReuseIds \/ nextPacketId < MaxId
         /\ AppPublish(msg, qos, size)
         /\ accepted' = IF tx' = tx THEN accepted ELSE accepted \cup {<<msg, qos>>}
    /\ UNCHANGED <<brokerVars, drops, forgets, delivered>>

\* A new connection has nothing of the last one in it.
ClientOpen ==
    /\ ConnectDone
    /\ c2b' = <<>> /\ b2c' = <<>> /\ up' = FALSE
    /\ UNCHANGED <<brokerSession, brokerHistory, world>>

ClientSend ==
    /\ SendHead
    /\ Len(c2b) < WireCapacity
    /\ c2b' = Append(c2b, Head(tx))
    /\ UNCHANGED <<b2c, up, brokerSession, brokerHistory, world>>

ClientRecv ==
    /\ \E n \in 1 .. RxCapacity :
         /\ n <= Len(b2c)
         /\ Recv(SubSeq(b2c, 1, n))
         /\ b2c' = SubSeq(b2c, n + 1, Len(b2c))
    /\ UNCHANGED <<c2b, up, brokerSession, brokerHistory, world>>

BrokerStep ==
    /\ Len(b2c) < WireCapacity
    /\ BrokerNext
    /\ UNCHANGED <<vars, world>>

Forget ==
    /\ link = "closed"
    /\ forgets < MaxForgets
    /\ forgets' = forgets + 1
    /\ BrokerForget
    /\ UNCHANGED <<vars, drops, accepted, delivered>>

SessionNext ==
    \/ ClientLocal \/ ClientPublish \/ ClientOpen \/ ClientSend \/ ClientRecv
    \/ BrokerStep \/ Forget

SessionSpec == SessionInit /\ [][SessionNext]_all

\* The application connects and keeps calling step(); a transport asked often
\* enough connects, takes bytes and yields what the peer sent; the broker
\* works off what it receives.
SessionFairSpec ==
    /\ SessionSpec
    /\ WF_all(ClientLocal /\ Internal)
    /\ WF_all(ClientLocal /\ AppConnect)
    /\ WF_all(ClientLocal /\ Step)
    /\ SF_all(ClientOpen) /\ SF_all(ClientSend) /\ SF_all(ClientRecv)
    /\ WF_all(BrokerStep)

-----------------------------------------------------------------------------
(* Publishing: from publish() to the broker.                               *)

\* A message publish() took at QoS 1 or 2 in a persistent session is at the
\* broker, or still in a slot that goes on being sent as a PUBLISH; once the
\* slot holds a PUBREL the broker has the message.  No loss of the connection,
\* no refused retransmission and no broker that forgot the session changes it.
NothingLost ==
    \A a \in accepted :
       \/ a[2] = 0
       \/ got[a[1]] >= 1
       \/ \E i \in BusySlots : outbound[i].msg = a[1] /\ outbound[i].phase # "WaitPubcomp"

\* The broker takes a QoS 2 message as new at most once while it keeps the
\* session: the stored packet turns into a PUBREL for good, and an identifier
\* is not reused before the broker has released it.
ExactlyOnceOut ==
    forgets = 0 => \A a \in accepted : a[2] = 2 => got[a[1]] <= 1

\* A PUBLISH that reaches the broker a second time has its DUP flag set, also
\* when it was queued in one connection and retransmitted in the next.
NoUnmarkedRepeat ==
    up /\ Taking("Publish") /\ Head(c2b).qos > 0 /\ ~Head(c2b).dup => got[Head(c2b).msg] = 0

\* Every publish() that was taken completes: the broker has the message and
\* the slot is free again, given a transport and a broker that work.
PublishCompletes ==
    \A m \in Msg :
       (\E a \in accepted : a[1] = m) ~>
       (got[m] >= 1 /\ \A i \in BusySlots : outbound[i].msg # m)

-----------------------------------------------------------------------------
(* Receiving: from the broker to the message handlers.                     *)

\* What the client acknowledges it has delivered: the broker may forget a
\* message once it has seen the PUBACK or the PUBREC.
AcknowledgedWasDelivered == \A m \in settled : delivered[m] >= 1

\* A QoS 2 message goes to the handlers at most once while both sides keep
\* the session, however often its PUBLISH is repeated.
ExactlyOnceIn ==
    forgets = 0 => \A p \in offered : p[2] = 2 => delivered[p[1]] <= 1

\* A broker that keeps to the protocol is never treated as one that does not.
ConformantBrokerAccepted ==
    lastError \notin {"ProtocolViolation", "MalformedPacket", "ConnectionRefused"}


-----------------------------------------------------------------------------
(* Subscriptions.                                                          *)

Quiescent ==
    /\ Top = "app" /\ state = "Connected" /\ up
    /\ tx = <<>> /\ c2b = <<>> /\ b2c = <<>> /\ rx = <<>>
    /\ pending = <<>> /\ NeedsResub = {}

\* With nothing under way the client's table is what the broker has: a filter
\* the application believes subscribed is, and one it has got rid of is not.
SubscriptionsAgree == Quiescent => Subscribed = bsubs

\* The filters that were subscribed before a reconnect are subscribed again.
ResubscribeCompletes ==
    \A f \in Filter :
       (f \in Subscribed /\ subscriptions[f].resub) ~>
       (f \notin Subscribed \/ (f \in bsubs /\ ~subscriptions[f].resub))
=============================================================================
