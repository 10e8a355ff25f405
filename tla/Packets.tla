------------------------------ MODULE Packets -------------------------------
(***************************************************************************)
(* The MQTT control packets, as the records the client and the broker      *)
(* exchange.  A payload is a member of Msg and a topic filter a member of  *)
(* Filter; the bytes are gone, and what is left of the encoding is the     *)
(* length, because the transmit queue counts bytes.                        *)
(***************************************************************************)
EXTENDS Integers, Sequences, FiniteSets

CONSTANTS
    Msg,            \* application messages, each with its topic
    Filter,         \* topic filters
    MaxId,          \* largest packet identifier; 65535 on the wire
    MaxTopics,      \* Cfg::max_topics_per_request
    MaxSize,        \* bound on the length of the CONNECTs and PUBLISHes built
    TopicSize       \* bytes of an encoded filter, its length prefix included

ASSUME PacketsAssumption ==
    /\ MaxId \in Nat \ {0}
    /\ MaxTopics \in Nat \ {0}
    /\ MaxSize \in Nat \ {0}
    /\ TopicSize \in Nat \ {0}
    /\ IsFiniteSet(Filter)

Id == 1 .. MaxId

QoS == 0 .. 2

\* TopicSubscription: one filter of a SUBSCRIBE with the QoS asked for.
Topic == [filter : Filter, qos : QoS]

\* The sequences over S a request may carry.
UpTo(S, n) == UNION {[1 .. k -> S] : k \in 0 .. n}

-----------------------------------------------------------------------------
(* Packets that carry nothing but a packet identifier, or not even that.   *)

AckType == {"Puback", "Pubrec", "Pubrel", "Pubcomp", "Unsuback"}

EmptyType == {"Pingreq", "Pingresp", "Disconnect"}

Ack(type, id) == [type |-> type, id |-> id]

Empty(type) == [type |-> type]

(* Packets with content.  `size` is the encoded length of the packet.      *)

Connect(clean, size) == [type |-> "Connect", clean |-> clean, size |-> size]

Connack(accepted, present) ==
    [type |-> "Connack", accepted |-> accepted, present |-> present]

Publish(id, qos, msg, dup, size) ==
    [type |-> "Publish", id |-> id, qos |-> qos, msg |-> msg, dup |-> dup, size |-> size]

Subscribe(id, topics) == [type |-> "Subscribe", id |-> id, topics |-> topics]

Unsubscribe(id, topics) == [type |-> "Unsubscribe", id |-> id, topics |-> topics]

\* A return code is the granted QoS, or kSubackFailure.
kSubackFailure == 128

Suback(id, codes) == [type |-> "Suback", id |-> id, codes |-> codes]

\* Bytes the receive path rejects before it looks for an effect, by error:
\* what peek_header() or a decoder refuses, a packet of a type only a client
\* may send, a packet longer than the receive buffer.
BadPacket == [type : {"Bad"}, error : {"MalformedPacket", "ProtocolViolation", "PacketTooLarge"}]

-----------------------------------------------------------------------------

Size == 1 .. MaxSize

AckPacket == [type : AckType, id : Id]

EmptyPacket == [type : EmptyType]

ConnectPacket == [type : {"Connect"}, clean : BOOLEAN, size : Size]

\* QoS 0 carries no identifier on the wire; the record holds 0.
PublishPacket ==
    {p \in [type : {"Publish"}, id : 0 .. MaxId, qos : QoS, msg : Msg, dup : BOOLEAN, size : Size] :
       p.qos = 0 <=> p.id = 0}

SubscribePacket == [type : {"Subscribe"}, id : Id, topics : UpTo(Topic, MaxTopics)]

UnsubscribePacket == [type : {"Unsubscribe"}, id : Id, topics : UpTo(Filter, MaxTopics)]

\* What a client puts on the wire.
OutPacket == AckPacket \cup EmptyPacket \cup ConnectPacket \cup PublishPacket
             \cup SubscribePacket \cup UnsubscribePacket

\* What may reach a client from the wire.  The decoders reject identifier 0.
InPacket == AckPacket \cup EmptyPacket \cup PublishPacket
            \cup [type : {"Connack"}, accepted : BOOLEAN, present : BOOLEAN]
            \cup [type : {"Suback"}, id : Id, codes : Seq({0, 1, 2, kSubackFailure}) \ {<<>>}]
            \cup BadPacket

\* packet_size() of the encoded packet: one header byte, the length byte and
\* the body.
PacketSize(p) ==
    CASE p.type \in AckType                      -> 4
      [] p.type \in EmptyType                    -> 2
      [] p.type \in {"Connect", "Publish"}       -> p.size
      [] p.type = "Subscribe"                    -> 4 + (TopicSize + 1) * Len(p.topics)
      [] p.type = "Unsubscribe"                  -> 4 + TopicSize * Len(p.topics)
=============================================================================
