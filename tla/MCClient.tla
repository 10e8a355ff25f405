------------------------------ MODULE MCClient ------------------------------
(***************************************************************************)
(* Small instances of Client: the packets the peer sends in each run, and  *)
(* the topics they match.                                                  *)
(***************************************************************************)
EXTENDS Client, TLC

CONSTANTS m1, m2, f1, f2

\* Filters are only compared with each other.
FilterSymmetry == Permutations({f1, f2})

AllRoutes == Filter \X Msg

NoRoutes == {}

Session == {Connack(TRUE, FALSE), Connack(TRUE, TRUE)}

\* Acknowledgements of publishes, expected or not.
AckInbound ==
    Session \cup {Ack(type, id) : type \in {"Puback", "Pubrec", "Pubcomp"}, id \in Id}

\* Messages at each QoS, and the release of a QoS 2 one.
MessageInbound ==
    {Connack(TRUE, FALSE), Ack("Pubrel", 1),
     Publish(0, 0, m1, FALSE, 1), Publish(1, 2, m1, FALSE, 1)}

\* Acknowledgements of requests, one with a code too many.
RequestInbound ==
    {Connack(TRUE, FALSE), Suback(1, <<0, 0>>)} \cup
    {Suback(id, <<code>>) : id \in Id, code \in {0, kSubackFailure}} \cup
    {Ack("Unsuback", id) : id \in Id}

\* Both.
TableInbound == AckInbound \cup RequestInbound

\* What a server must not send, next to a keep-alive answer and a message at
\* QoS 1.
FaultInbound ==
    {Connack(TRUE, FALSE), Connack(FALSE, FALSE), Empty("Pingresp"), Empty("Disconnect"),
     Publish(1, 1, m1, FALSE, 1), Suback(1, <<0>>)} \cup BadPacket
=============================================================================
