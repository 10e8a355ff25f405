------------------------------- MODULE Broker -------------------------------
(***************************************************************************)
(* A conformant MQTT 3.1.1 broker and the connection to it, as the client  *)
(* uses them; both are outside the repository.                             *)
(*                                                                         *)
(* The connection is reliable and ordered while it lasts.  When it ends,   *)
(* what was on its way to the client is gone, and of what was on its way   *)
(* to the broker an initial part is still processed.  The broker resends   *)
(* an unacknowledged message when the session resumes, and only then.      *)
(***************************************************************************)
EXTENDS Packets

CONSTANTS
    Offer,          \* <<msg, qos>> pairs the broker sends to the client
    Refused         \* filters the broker does not grant

ASSUME BrokerAssumption == Offer \subseteq Msg \X QoS /\ Refused \subseteq Filter

VARIABLES
    c2b,            \* packets on their way to the broker
    b2c,            \* packets on their way to the client
    up,             \* the broker has accepted the CONNECT of this connection
    kept,           \* the broker keeps the session when the connection ends
    bsubs,          \* filters subscribed in the session
    bin,            \* ids of QoS 2 messages received and not yet released
    bout,           \* id -> message sent and not yet acknowledged
    got,            \* history: how often the broker took each message as new
    offered,        \* history: messages sent to the client at least once
    settled         \* history: messages the client has acknowledged

brokerSession == <<kept, bsubs, bin, bout>>
brokerHistory == <<got, offered, settled>>
brokerVars    == <<c2b, b2c, up, brokerSession, brokerHistory>>

Nobody == [id \in {} |-> {}]

BrokerInit ==
    /\ c2b = <<>> /\ b2c = <<>>
    /\ up = FALSE
    /\ kept = FALSE /\ bsubs = {} /\ bin = {} /\ bout = Nobody
    /\ got = [m \in Msg |-> 0]
    /\ offered = {} /\ settled = {}

\* The oldest packet from the client is of this type.
Taking(type) == c2b # <<>> /\ Head(c2b).type = type

Reply(packets) == b2c' = b2c \o packets

\* Nothing before a CONNECT counts.
Serving(type) == up /\ Taking(type) /\ c2b' = Tail(c2b) /\ UNCHANGED up

Forward(id) ==
    IF bout[id].phase = "sent" THEN Publish(id, bout[id].qos, bout[id].msg, TRUE, 1)
    ELSE Ack("Pubrel", id)

\* What a resumed session still owes the client, lowest id first.
Owed(out) ==
    LET owing(n) == CHOOSE id \in DOMAIN out : Cardinality({j \in DOMAIN out : j <= id}) = n
    IN [n \in 1 .. Cardinality(DOMAIN out) |-> Forward(owing(n))]

BrokerConnect ==
    /\ Taking("Connect")
    /\ c2b' = Tail(c2b)
    /\ up' = TRUE
    /\ LET resumed == kept /\ ~Head(c2b).clean IN
       /\ bsubs' = IF resumed THEN bsubs ELSE {}
       /\ bin' = IF resumed THEN bin ELSE {}
       /\ bout' = IF resumed THEN bout ELSE Nobody
       /\ Reply(<<Connack(TRUE, resumed)>> \o IF resumed THEN Owed(bout) ELSE <<>>)
    /\ kept' = ~Head(c2b).clean
    /\ UNCHANGED brokerHistory

BrokerPublish ==
    LET p == Head(c2b) IN
    /\ Serving("Publish")
    /\ got' = IF p.qos = 2 /\ p.id \in bin THEN got ELSE [got EXCEPT ![p.msg] = @ + 1]
    /\ bin' = IF p.qos = 2 THEN bin \cup {p.id} ELSE bin
    /\ Reply(CASE p.qos = 0 -> <<>>
               [] p.qos = 1 -> <<Ack("Puback", p.id)>>
               [] p.qos = 2 -> <<Ack("Pubrec", p.id)>>)
    /\ UNCHANGED <<kept, bsubs, bout, offered, settled>>

BrokerPubrel ==
    /\ Serving("Pubrel")
    /\ bin' = bin \ {Head(c2b).id}
    /\ Reply(<<Ack("Pubcomp", Head(c2b).id)>>)
    /\ UNCHANGED <<kept, bsubs, bout, brokerHistory>>

Drop(id) == [j \in DOMAIN bout \ {id} |-> bout[j]]

\* PUBACK, PUBREC and PUBCOMP of the broker's own messages.
BrokerAcked ==
    LET id == Head(c2b).id IN
    /\ \/ /\ Serving("Puback")
          /\ bout' = IF id \in DOMAIN bout /\ bout[id].qos = 1 THEN Drop(id) ELSE bout
          /\ UNCHANGED b2c
       \/ /\ Serving("Pubrec")
          /\ bout' = IF id \in DOMAIN bout /\ bout[id].qos = 2
                     THEN [bout EXCEPT ![id].phase = "released"] ELSE bout
          /\ Reply(<<Ack("Pubrel", id)>>)
       \/ /\ Serving("Pubcomp")
          /\ bout' = IF id \in DOMAIN bout /\ bout[id].phase = "released" THEN Drop(id) ELSE bout
          /\ UNCHANGED b2c
    /\ settled' = IF id \in DOMAIN bout THEN settled \cup {bout[id].msg} ELSE settled
    /\ UNCHANGED <<kept, bsubs, bin, got, offered>>

BrokerSubscribe ==
    LET topics == Head(c2b).topics IN
    /\ Serving("Subscribe")
    /\ bsubs' = bsubs \cup ({topics[k].filter : k \in DOMAIN topics} \ Refused)
    /\ Reply(<<Suback(Head(c2b).id,
         [k \in DOMAIN topics |-> IF topics[k].filter \in Refused THEN kSubackFailure ELSE topics[k].qos])>>)
    /\ UNCHANGED <<kept, bin, bout, brokerHistory>>

BrokerUnsubscribe ==
    LET topics == Head(c2b).topics IN
    /\ Serving("Unsubscribe")
    /\ bsubs' = bsubs \ {topics[k] : k \in DOMAIN topics}
    /\ Reply(<<Ack("Unsuback", Head(c2b).id)>>)
    /\ UNCHANGED <<kept, bin, bout, brokerHistory>>

BrokerPing ==
    /\ Serving("Pingreq")
    /\ Reply(<<Empty("Pingresp")>>)
    /\ UNCHANGED <<brokerSession, brokerHistory>>

BrokerDisconnect ==
    /\ up /\ Taking("Disconnect")
    /\ up' = FALSE
    /\ c2b' = Tail(c2b)
    /\ UNCHANGED <<b2c, brokerSession, brokerHistory>>

\* The broker sends a message of its own, under the lowest free id.
BrokerSend ==
    /\ up
    /\ \E pair \in Offer \ offered :
         LET msg == pair[1]
             qos == pair[2]
             id  == CHOOSE i \in Id \ DOMAIN bout : \A j \in Id \ DOMAIN bout : i <= j
         IN /\ offered' = offered \cup {pair}
            /\ IF qos = 0
               THEN Reply(<<Publish(0, 0, msg, FALSE, 1)>>) /\ UNCHANGED bout
               ELSE /\ Id # DOMAIN bout
                    /\ Reply(<<Publish(id, qos, msg, FALSE, 1)>>)
                    /\ bout' = [j \in DOMAIN bout \cup {id} |->
                          IF j = id THEN [msg |-> msg, qos |-> qos, phase |-> "sent"] ELSE bout[j]]
    /\ UNCHANGED <<c2b, up, kept, bsubs, bin, got, settled>>

BrokerNext ==
    \/ BrokerConnect \/ BrokerPublish \/ BrokerPubrel \/ BrokerAcked
    \/ BrokerSubscribe \/ BrokerUnsubscribe \/ BrokerPing \/ BrokerDisconnect \/ BrokerSend

\* The broker loses or expires a session that has no connection.
BrokerForget ==
    /\ kept
    /\ kept' = FALSE
    /\ UNCHANGED <<c2b, b2c, up, bsubs, bin, bout, brokerHistory>>
=============================================================================
