----------------------------- MODULE ClientStep -----------------------------
(***************************************************************************)
(* step_once() but for the packet handlers: the transport connect, both    *)
(* pump_tx() passes, recv(), the timers and pump_resubscribe().            *)
(*                                                                         *)
(* Time.  Whether a timeout has expired is a nondeterministic choice, so   *)
(* what is shown here holds for every clock and every calling rate.        *)
(*                                                                         *)
(* The transport is external: connect() takes, fails or is pending; send() *)
(* takes some bytes, none or fails; recv() yields packets, nothing or      *)
(* fails, and fails on a transport that was closed.                        *)
(***************************************************************************)
EXTENDS ClientState

CONSTANTS
    TransportError, \* errors the transport may report
    PartialWrite    \* byte counts a send() may stop at inside a packet

ASSUME TransportAssumption ==
    /\ TransportError \subseteq {"TransportClosed", "TransportFailure"}
    /\ PartialWrite \subseteq Nat \ {0}

\* What the pumps leave alone.
tables == <<delivery, nextPacketId, requests>>

-----------------------------------------------------------------------------
(* State::Connecting: one Transport::connect() per step().                 *)

ConnectPending ==
    /\ Top = "connect"
    /\ Finish("Ok")
    /\ UNCHANGED <<session, queue, receive, timers, tables>>

ConnectExpired ==
    /\ Top = "connect"
    /\ EndSession("ConnectTimeout")

ConnectFailed ==
    /\ Top = "connect"
    /\ \E e \in TransportError : EndSession(e)

ConnectDone ==
    /\ Top = "connect"
    /\ link' = "open"
    /\ state' = "AwaitingConnack"
    /\ At("flush")
    /\ UNCHANGED <<lastError, clean, queue, receive, timers, tables>>

-----------------------------------------------------------------------------
(* pump_tx(), before and after the receive path.                           *)

Sending == Top \in {"flush", "reflush"} /\ tx # <<>> /\ link = "open"

\* send() takes the rest of the oldest packet ...
SendHead ==
    /\ Sending
    /\ tx' = Tail(tx)
    /\ txSent' = 0
    /\ txBytes' = txBytes - (PacketSize(Head(tx)) - txSent)
    /\ UNCHANGED <<control, session, receive, timers, tables>>

\* ... or only some bytes of it.
SendPart ==
    /\ Sending
    /\ \E n \in PartialWrite :
         /\ txSent + n < PacketSize(Head(tx))
         /\ txSent' = txSent + n
         /\ txBytes' = txBytes - n
    /\ UNCHANGED <<control, session, tx, receive, timers, tables>>

SendFailed ==
    /\ Top \in {"flush", "reflush"}
    /\ tx # <<>>
    /\ \E e \in IF link = "open" THEN TransportError ELSE {"TransportClosed"} : EndSession(e)

\* The first pass ends: nothing is left, or the transport would block.
Flushed ==
    /\ Top = "flush"
    /\ tx # <<>> => link = "open"
    /\ ~(state = "Disconnecting" /\ tx = <<>>)
    /\ At("recv")
    /\ UNCHANGED <<session, queue, receive, timers, tables>>

\* A graceful disconnect completes once the DISCONNECT has drained.
DisconnectSent ==
    /\ Top = "flush"
    /\ state = "Disconnecting"
    /\ tx = <<>>
    /\ EndSession("Ok")

Reflushed ==
    /\ Top = "reflush"
    /\ tx # <<>> => link = "open"
    /\ Finish("Ok")
    /\ UNCHANGED <<session, queue, receive, timers, tables>>

-----------------------------------------------------------------------------
(* pump_rx(): the recv() of a round.                                       *)

\* Faulty variant of Recv: the rounds are not counted.
RecvUncounted(packets) ==
    /\ Top = "recv"
    /\ link = "open"
    /\ rx' = packets
    /\ At("drain")
    /\ UNCHANGED <<session, queue, rounds, fanout, timers, tables>>

Recv(packets) ==
    /\ Top = "recv"
    /\ link = "open"
    /\ rx' = packets
    /\ rounds' = rounds + 1
    /\ At("drain")
    /\ UNCHANGED <<session, queue, fanout, timers, tables>>

RecvNothing ==
    /\ Top = "recv"
    /\ link = "open"
    /\ At("received")
    /\ UNCHANGED <<session, queue, receive, timers, tables>>

RecvFailed ==
    /\ Top = "recv"
    /\ \E e \in IF link = "open" THEN TransportError ELSE {"TransportClosed"} : EndSession(e)


\* The buffer is drained.  A handler may have put a new session in Connecting,
\* which the next step() takes up; otherwise another round, within the budget.
Drained ==
    /\ Top = "drain"
    /\ rx = <<>>
    /\ At(IF state = "Connecting" \/ rounds >= MaxRecvRounds THEN "received" ELSE "recv")
    /\ UNCHANGED <<session, queue, receive, timers, tables>>

ReceivedEarly ==
    /\ Top = "received"
    /\ state \in {"Connecting", "AwaitingConnack"}
    /\ Finish("Ok")
    /\ UNCHANGED <<session, queue, receive, timers, tables>>

ConnackExpired ==
    /\ Top = "received"
    /\ state = "AwaitingConnack"
    /\ EndSession("ConnectTimeout")

\* Faulty variant of Received: a session replaced by a handler is not noticed.
ReceivedUnchecked ==
    /\ Top = "received"
    /\ state # "AwaitingConnack"
    /\ At(IF state = "Connected" THEN "keepalive" ELSE "reflush")
    /\ UNCHANGED <<session, queue, receive, timers, tables>>

Received ==
    /\ Top = "received"
    /\ state \notin {"Connecting", "AwaitingConnack"}
    /\ At(IF state = "Connected" THEN "keepalive" ELSE "reflush")
    /\ UNCHANGED <<session, queue, receive, timers, tables>>

-----------------------------------------------------------------------------
(* pump_keep_alive()                                                       *)

\* Disabled, not due yet, waiting for a PINGRESP, or no room for a PINGREQ.
KeepAliveIdle ==
    /\ Top = "keepalive"
    /\ At("resubscribe")
    /\ UNCHANGED <<session, queue, receive, timers, tables>>

SendPing ==
    /\ Top = "keepalive"
    /\ KeepAliveEnabled
    /\ ~ping
    /\ Enqueue(Empty("Pingreq"))
    /\ ping' = TRUE
    /\ At("resubscribe")
    /\ UNCHANGED <<session, receive, retransmitNow, forced, cursor, tables>>

PingExpired ==
    /\ Top = "keepalive"
    /\ KeepAliveEnabled
    /\ ping
    /\ EndSession("KeepAliveTimeout")

-----------------------------------------------------------------------------
(* pump_resubscribe(), and the head of pump_retransmit().                  *)

NeedsResub == {f \in Subscribed : subscriptions[f].resub}

\* Faulty variant of Batch: all the flagged filters at once.
BatchUnlimited ==
    LET n == Cardinality(NeedsResub)
    IN {b \in [1 .. n -> NeedsResub] : \A j, k \in 1 .. n : b[j] = b[k] => j = k}

\* The flagged filters, up to max_topics_per_request of them.
Batch ==
    LET n == IF Cardinality(NeedsResub) < MaxTopics THEN Cardinality(NeedsResub) ELSE MaxTopics
    IN {b \in [1 .. n -> NeedsResub] : \A j, k \in 1 .. n : b[j] = b[k] => j = k}

\* Faulty variant of BeginRetransmit: the CONNACK's request is dropped.
BeginRetransmitUnforced ==
    /\ forced' = FALSE
    /\ retransmitNow' = FALSE
    /\ At(IF RetryEnabled THEN "retransmit" ELSE "reflush")
    /\ UNCHANGED <<ping, cursor>>

\* retransmit_now_ is read and cleared; with nothing due the walk is skipped.
BeginRetransmit ==
    /\ forced' = retransmitNow
    /\ retransmitNow' = FALSE
    /\ At(IF retransmitNow \/ RetryEnabled THEN "retransmit" ELSE "reflush")
    /\ UNCHANGED <<ping, cursor>>

ResubscribeNothing ==
    /\ Top = "resubscribe"
    /\ AckTableFull \/ NeedsResub = {}
    /\ BeginRetransmit
    /\ UNCHANGED <<session, queue, receive, tables>>

\* The table once these filters are on their way.
Unflagged(batch) == [f \in Filter |->
    IF \E k \in DOMAIN batch : batch[k] = f
    THEN [subscriptions[f] EXCEPT !.resub = FALSE] ELSE subscriptions[f]]

\* The SUBSCRIBE that asks for these filters again, and what tracks it.
Resubscription(batch) ==
    Subscribe(NewPacketId, [k \in DOMAIN batch |->
                              [filter |-> batch[k], qos |-> subscriptions[batch[k]].qos]])

Resubscribing(batch) ==
    [id |-> NewPacketId, expected |-> "Suback",
     subs |-> [k \in DOMAIN batch |-> subscriptions[batch[k]].sub]]

\* One batch per step(); the flags of a batch that finds no room stay set.
Resubscribe ==
    /\ Top = "resubscribe"
    /\ ~AckTableFull
    /\ NeedsResub # {}
    /\ AdvancePacketId
    /\ \E batch \in Batch :
         IF NewPacketId # 0 /\ Fits(Resubscription(batch))
         THEN /\ Enqueue(Resubscription(batch))
              /\ pending' = Append(pending, Resubscribing(batch))
              /\ subscriptions' = Unflagged(batch)
         ELSE UNCHANGED <<queue, pending, subscriptions>>
    /\ BeginRetransmit
    /\ UNCHANGED <<session, receive, delivery, nextSubId>>

-----------------------------------------------------------------------------
(* pump_retransmit(), one slot at a time.                                  *)

\* The slot is due: all of them after a CONNACK, else by the retry timer.
RetransmitSlot ==
    /\ Top = "retransmit"
    /\ cursor \in OutSlot
    /\ Busy(cursor)
    /\ forced \/ RetryEnabled
    /\ outbound' = [outbound EXCEPT ![cursor] = MarkDup(@)]
    /\ TryEnqueue(Stored(MarkDup(outbound[cursor])))
    /\ cursor' = cursor + 1
    /\ UNCHANGED <<control, session, receive, ping, retransmitNow, forced,
                   inboundIds, nextPacketId, requests>>

RetransmitSkip ==
    /\ Top = "retransmit"
    /\ cursor \in OutSlot
    /\ ~Busy(cursor) \/ ~forced
    /\ cursor' = cursor + 1
    /\ UNCHANGED <<control, session, queue, receive, ping, retransmitNow, forced, tables>>

Retransmitted ==
    /\ Top = "retransmit"
    /\ cursor \notin OutSlot
    /\ At("reflush")
    /\ UNCHANGED <<session, queue, receive, timers, tables>>
=============================================================================
