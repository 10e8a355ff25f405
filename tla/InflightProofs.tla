--------------------------- MODULE InflightProofs ---------------------------
(***************************************************************************)
(* A tracked PUBLISH is never dropped: the client's steps release a slot   *)
(* of outbound_ for three reasons only.  The proof rests on the typed      *)
(* tables of ClientProofs and on a receive buffer that holds packets of    *)
(* the peer, so that the packet a handler acts on is the acknowledgement   *)
(* with the slot's identifier.                                             *)
(***************************************************************************)
EXTENDS ClientProofs

-----------------------------------------------------------------------------
(* What the receive buffer holds came from the peer.                       *)

RxTyped == rx \in Seq(InPacket)

\* Reading on, dropping the first packet and emptying the buffer keep it typed.
RxMoves == rx' = rx \/ rx' = <<>> \/ (rx # <<>> /\ rx' = Tail(rx))

\* Such a step keeps the buffer typed.
LEMMA RxMovesTyped ==
    ASSUME RxTyped, RxMoves
    PROVE  RxTyped'
<1>1. CASE rx' = rx
  BY <1>1 DEF RxTyped
<1>2. CASE rx' = <<>>
  BY <1>2, EmptySeq DEF RxTyped
<1>3. CASE rx # <<>> /\ rx' = Tail(rx)
  BY <1>3, HeadTailProperties DEF RxTyped
<1>4. QED
  BY <1>1, <1>2, <1>3 DEF RxMoves

\* shutdown() empties the buffer.
LEMMA EndSessionMovesRx ==
    ASSUME NEW reason, EndSession(reason)
    PROVE  RxMoves
BY DEF EndSession, Shutdown, RxMoves

\* No step of step_once() but recv() adds to the buffer ...
LEMMA PumpMovesRx ==
    ASSUME Pump
    PROVE  RxMoves
<1>1. CASE ConnectPending
  BY <1>1 DEF ConnectPending, receive, RxMoves
<1>2. CASE ConnectExpired
  BY <1>2, EndSessionMovesRx DEF ConnectExpired
<1>3. CASE ConnectFailed
  BY <1>3, EndSessionMovesRx DEF ConnectFailed
<1>4. CASE SendPart
  BY <1>4 DEF SendPart, receive, RxMoves
<1>5. CASE SendFailed
  BY <1>5, EndSessionMovesRx DEF SendFailed
<1>6. CASE Flushed
  BY <1>6 DEF Flushed, receive, RxMoves
<1>7. CASE DisconnectSent
  BY <1>7, EndSessionMovesRx DEF DisconnectSent
<1>8. CASE Reflushed
  BY <1>8 DEF Reflushed, receive, RxMoves
<1>9. CASE RecvNothing
  BY <1>9 DEF RecvNothing, receive, RxMoves
<1>10. CASE RecvFailed
  BY <1>10, EndSessionMovesRx DEF RecvFailed
<1>11. CASE Drained
  BY <1>11 DEF Drained, receive, RxMoves
<1>12. CASE ReceivedEarly
  BY <1>12 DEF ReceivedEarly, receive, RxMoves
<1>13. CASE ConnackExpired
  BY <1>13, EndSessionMovesRx DEF ConnackExpired
<1>14. CASE Received
  BY <1>14 DEF Received, receive, RxMoves
<1>15. CASE KeepAliveIdle
  BY <1>15 DEF KeepAliveIdle, receive, RxMoves
<1>16. CASE SendPing
  BY <1>16 DEF SendPing, receive, RxMoves
<1>17. CASE PingExpired
  BY <1>17, EndSessionMovesRx DEF PingExpired
<1>18. CASE ResubscribeNothing
  BY <1>18 DEF ResubscribeNothing, receive, RxMoves
<1>19. CASE Resubscribe
  BY <1>19 DEF Resubscribe, receive, RxMoves
<1>20. CASE RetransmitSlot
  BY <1>20 DEF RetransmitSlot, receive, RxMoves
<1>21. CASE RetransmitSkip
  BY <1>21 DEF RetransmitSkip, receive, RxMoves
<1>22. CASE Retransmitted
  BY <1>22 DEF Retransmitted, receive, RxMoves
<1>23. CASE StepReturn
  BY <1>23 DEF StepReturn, RxMoves
<1>24. QED
  BY <1>1, <1>2, <1>3, <1>4, <1>5, <1>6, <1>7, <1>8, <1>9, <1>10, <1>11, <1>12, <1>13,
     <1>14, <1>15, <1>16, <1>17, <1>18, <1>19, <1>20, <1>21, <1>22, <1>23
     DEF Pump

\* ... and no packet handler does ...
LEMMA HandleMovesRx ==
    ASSUME Handle
    PROVE  RxMoves
<1>1. CASE HandleBad
  BY <1>1, EndSessionMovesRx DEF HandleBad, Reject
<1>2. CASE HandleMisdirected
  BY <1>2, EndSessionMovesRx DEF HandleMisdirected, Reject
<1>3. CASE HandlePingresp
  BY <1>3 DEF HandlePingresp, Handling, Shift, Callback, RxMoves
<1>4. CASE HandleConnack
  BY <1>4 DEF HandleConnack, Handling, Shift, Callback, RxMoves
<1>5. CASE HandleConnackRejected
  BY <1>5, EndSessionMovesRx DEF HandleConnackRejected, Reject
<1>6. CASE HandlePublishEarly
  BY <1>6, EndSessionMovesRx DEF HandlePublishEarly, Reject
<1>7. CASE HandlePublishQos0
  BY <1>7 DEF HandlePublishQos0, Handling, Shift, Callback, Dispatch, RxMoves
<1>8. CASE HandlePublishQos1
  BY <1>8 DEF HandlePublishQos1, Handling, Shift, Callback, Dispatch, RxMoves
<1>9. CASE HandlePublishQos2
  BY <1>9 DEF HandlePublishQos2, Handling, Shift, Callback, Dispatch, RxMoves
<1>10. CASE HandlePublishQos2Again
  BY <1>10 DEF HandlePublishQos2Again, Handling, Shift, Callback, Dispatch, RxMoves
<1>11. CASE HandlePubrel
  BY <1>11 DEF HandlePubrel, Handling, Shift, Callback, RxMoves
<1>12. CASE HandlePuback
  BY <1>12 DEF HandlePuback, Delivered, Handling, Shift, Callback, RxMoves
<1>13. CASE HandlePubrec
  BY <1>13 DEF HandlePubrec, Handling, Shift, Callback, RxMoves
<1>14. CASE HandlePubcomp
  BY <1>14 DEF HandlePubcomp, Delivered, Handling, Shift, Callback, RxMoves
<1>15. CASE HandleSuback
  BY <1>15 DEF HandleSuback, Handling, Shift, Callback, RxMoves
<1>16. CASE HandleSubackStale
  BY <1>16 DEF HandleSubackStale, Handling, Shift, Callback, RxMoves
<1>17. CASE HandleSubackMismatched
  BY <1>17, EndSessionMovesRx DEF HandleSubackMismatched, Reject
<1>18. CASE HandleUnsuback
  BY <1>18 DEF HandleUnsuback, Handling, Shift, Callback, RxMoves
<1>19. CASE DispatchNext
  BY <1>19 DEF DispatchNext, RxMoves
<1>20. CASE DispatchDone
  BY <1>20 DEF DispatchDone, RxMoves
<1>21. CASE SessionEnded
  BY <1>21, EndSessionMovesRx DEF SessionEnded
<1>22. QED
  BY <1>1, <1>2, <1>3, <1>4, <1>5, <1>6, <1>7, <1>8, <1>9, <1>10, <1>11, <1>12, <1>13,
     <1>14, <1>15, <1>16, <1>17, <1>18, <1>19, <1>20, <1>21
     DEF Handle

\* ... nor a call of the application.
LEMMA AppCallMovesRx ==
    ASSUME AppCall
    PROVE  RxMoves
<1>1. CASE AppConnect
  BY <1>1 DEF AppConnect, ApiConnect, ConnectReset, RxMoves
<1>2. CASE ApiDisconnect
  BY <1>2 DEF ApiDisconnect, receive, RxMoves
<1>3. CASE ApiDisconnectHard
  BY <1>3 DEF ApiDisconnectHard, Shutdown, RxMoves
<1>4. CASE ApiAbort
  BY <1>4 DEF ApiAbort, Shutdown, RxMoves
<1>5. CASE AppSubscribe
  BY <1>5 DEF AppSubscribe, ApiSubscribe, receive, RxMoves
<1>6. CASE AppUnsubscribe
  BY <1>6 DEF AppUnsubscribe, ApiUnsubscribe, receive, RxMoves
<1>7. CASE Step
  BY <1>7 DEF Step, receive, RxMoves
<1>8. QED
  BY <1>1, <1>2, <1>3, <1>4, <1>5, <1>6, <1>7 DEF AppCall

\* recv() adds only what the peer sends.
LEMMA RxTypedStep ==
    ASSUME RxTyped, [Next]_vars
    PROVE  RxTyped'
<1>1. CASE AppCall
  BY <1>1, AppCallMovesRx, RxMovesTyped
<1>2. CASE \E msg \in Msg, qos \in PublishQos, size \in PublishSize : AppPublish(msg, qos, size)
  BY <1>2 DEF AppPublish, PublishQos0, PublishTracked, receive, RxTyped
<1>3. CASE Pump
  BY <1>3, PumpMovesRx, RxMovesTyped
<1>4. CASE Handle
  BY <1>4, HandleMovesRx, RxMovesTyped
<1>5. CASE HandlerReturns
  BY <1>5 DEF HandlerReturns, receive, RxTyped
<1>6. CASE ConnectDone
  BY <1>6 DEF ConnectDone, receive, RxTyped
<1>7. CASE SendHead
  BY <1>7 DEF SendHead, receive, RxTyped
<1>8. CASE RecvAny
  <2>1. PICK packets \in UpTo(Inbound, RxCapacity) : rx' = packets
    BY <1>8 DEF RecvAny, Recv
  <2>2. RxCapacity \in Nat
    BY ConfigAssumption
  <2>3. Len(packets) \in Nat /\ packets \in [1 .. Len(packets) -> Inbound]
    BY <2>2, UpToMember
  <2>4. packets \in [1 .. Len(packets) -> InPacket]
    BY <2>3, PeerAssumption
  <2>5. QED
    BY <2>1, <2>3, <2>4 DEF RxTyped
<1>9. CASE UNCHANGED vars
  BY <1>9 DEF vars, receive, RxTyped
<1>10. QED
  BY <1>1, <1>2, <1>3, <1>4, <1>5, <1>6, <1>7, <1>8, <1>9 DEF Next, Internal

-----------------------------------------------------------------------------
(* A slot is released for one of three reasons only.                       *)

\* A step that leaves outbound_ alone releases nothing.
LEMMA OutboundUntouched ==
    ASSUME outbound' = outbound
    PROVE  SlotsKept
BY DEF SlotsKept, Busy

\* shutdown() leaves a persistent session's slots alone.
LEMMA ShutdownKeepsSlots ==
    ASSUME NEW reason, NEW frames, Shutdown(reason, frames)
    PROVE  SlotsKept
BY DEF Shutdown, ReleasedOutbound, SlotsKept, Busy

\* So does a step() that ends with shutdown().
LEMMA EndSessionKeepsSlots ==
    ASSUME NEW reason, EndSession(reason)
    PROVE  SlotsKept
BY ShutdownKeepsSlots DEF EndSession

\* connect() leaves the slots alone or resets the whole session.
LEMMA ConnectKeepsSlots ==
    ASSUME NEW wantClean, NEW size, ApiConnect(wantClean, size)
    PROVE  SlotsKept
BY DEF ApiConnect, ConnectReset, SlotsKept, Discarded, Busy

\* publish() fills a slot.
LEMMA PublishKeepsSlots ==
    ASSUME TableTypes, NEW qos, NEW msg, NEW size, PublishTracked(qos, msg, size)
    PROVE  SlotsKept
<1>1. CASE outbound' = outbound
  BY <1>1, OutboundUntouched
<1>2. CASE outbound' # outbound
  <2> DEFINE slot == [phase |-> IF qos = 1 THEN "WaitPuback" ELSE "WaitPubrec",
                      id |-> NewPacketId, msg |-> msg, dup |-> FALSE, size |-> size]
  <2>1. PICK i \in FreeOutboundSlot : outbound' = [outbound EXCEPT ![i] = slot]
    BY <1>2 DEF PublishTracked
  <2>2. slot.phase # "Free"
    OBVIOUS
  <2> HIDE DEF slot
  <2>3. \A j \in OutSlot : outbound'[j] = outbound[j] \/ outbound'[j] = slot
    BY <2>1 DEF TableTypes
  <2>4. QED
    BY <2>2, <2>3 DEF SlotsKept, Busy
<1>3. QED
  BY <1>1, <1>2

\* pump_retransmit() marks a slot.
LEMMA RetransmitKeepsSlots ==
    ASSUME TableTypes, RetransmitSlot
    PROVE  SlotsKept
<1> DEFINE marked == MarkDup(outbound[cursor])
<1>1. /\ cursor \in OutSlot /\ outbound[cursor].phase # "Free"
      /\ outbound' = [outbound EXCEPT ![cursor] = marked]
  BY DEF RetransmitSlot, Busy
<1>2. outbound[cursor] \in
        [phase : Phase \ {"Free"}, id : Id, msg : Msg, dup : BOOLEAN, size : Size]
  BY <1>1, SlotFields DEF TableTypes
<1>3. marked.phase # "Free"
  BY <1>2 DEF MarkDup
<1> HIDE DEF marked
<1>4. \A j \in OutSlot : outbound'[j] = outbound[j] \/ outbound'[j] = marked
  BY <1>1 DEF TableTypes
<1>5. QED
  BY <1>3, <1>4 DEF SlotsKept, Busy

\* handle_pubrec() moves a slot on.
LEMMA PubrecKeepsSlots ==
    ASSUME TableTypes, HandlePubrec
    PROVE  SlotsKept
<1>1. CASE outbound' = outbound
  BY <1>1, OutboundUntouched
<1>2. CASE outbound' # outbound
  <2>1. PICK i \in FindOutbound(Packet.id) :
          outbound' = [outbound EXCEPT ![i].phase = "WaitPubcomp"]
    BY <1>2 DEF HandlePubrec
  <2> DEFINE next == [outbound[i] EXCEPT !.phase = "WaitPubcomp"]
  <2>2. i \in OutSlot /\ outbound[i].phase # "Free"
    BY <2>1 DEF FindOutbound, FirstSlot, Busy
  <2>3. outbound[i] \in
          [phase : Phase \ {"Free"}, id : Id, msg : Msg, dup : BOOLEAN, size : Size]
    BY <2>2, SlotFields DEF TableTypes
  <2>4. next.phase # "Free"
    BY <2>3
  <2>5. outbound' = [outbound EXCEPT ![i] = next]
    BY <2>1
  <2> HIDE DEF next
  <2>6. \A j \in OutSlot : outbound'[j] = outbound[j] \/ outbound'[j] = next
    BY <2>5 DEF TableTypes
  <2>7. QED
    BY <2>4, <2>6 DEF SlotsKept, Busy
<1>3. QED
  BY <1>1, <1>2

\* A PUBACK or PUBCOMP is the record with its identifier and nothing else.
LEMMA AckOf ==
    ASSUME NEW p \in InPacket, p.type \in {"Puback", "Pubcomp"}
    PROVE  p = Ack(p.type, p.id)
<1>1. p \in AckPacket
  BY DEF InPacket, EmptyPacket, EmptyType, PublishPacket, BadPacket
<1>2. QED
  BY <1>1 DEF AckPacket, Ack

\* handle_puback() and handle_pubcomp() release the slot that waits for them.
LEMMA DeliveredKeepsSlots ==
    ASSUME TableTypes, RxTyped, NEW type, NEW phase, Delivered(type, phase),
           <<type, phase>> \in {<<"Puback", "WaitPuback">>, <<"Pubcomp", "WaitPubcomp">>}
    PROVE  SlotsKept
<1>1. CASE outbound' = outbound
  BY <1>1, OutboundUntouched
<1>2. CASE outbound' # outbound
  <2>1. PICK i \in FindOutbound(Packet.id) :
          InPhase(i, phase) /\ outbound' = [outbound EXCEPT ![i] = FreeSlot]
    BY <1>2 DEF Delivered
  <2>2. outbound[i].phase = phase /\ outbound[i].id = Packet.id
    BY <2>1 DEF FindOutbound, FirstSlot, InPhase
  <2>3. Top = "drain" /\ rx # <<>> /\ Packet.type = type
    BY DEF Delivered, Handling, Packet
  <2>4. Packet \in InPacket
    BY <2>3, HeadTailProperties DEF RxTyped, Packet
  <2>5. Packet = Ack(type, outbound[i].id)
    BY <2>2, <2>3, <2>4, AckOf
  <2>6. Acknowledged(i)
    BY <2>2, <2>3, <2>5 DEF Acknowledged, Packet
  <2>7. \A j \in OutSlot : j # i => outbound'[j] = outbound[j]
    BY <2>1 DEF TableTypes
  <2>8. QED
    BY <2>6, <2>7 DEF SlotsKept, Busy
<1>3. QED
  BY <1>1, <1>2

\* The steps of step_once() but the packet handlers.
LEMMA PumpKeepsSlots ==
    ASSUME TableTypes, RxTyped, Pump
    PROVE  SlotsKept
<1>1. CASE ConnectPending
  BY <1>1, OutboundUntouched DEF ConnectPending, tables, delivery
<1>2. CASE ConnectExpired
  BY <1>2, EndSessionKeepsSlots DEF ConnectExpired
<1>3. CASE ConnectFailed
  BY <1>3, EndSessionKeepsSlots DEF ConnectFailed
<1>4. CASE SendPart
  BY <1>4, OutboundUntouched DEF SendPart, tables, delivery
<1>5. CASE SendFailed
  BY <1>5, EndSessionKeepsSlots DEF SendFailed
<1>6. CASE Flushed
  BY <1>6, OutboundUntouched DEF Flushed, tables, delivery
<1>7. CASE DisconnectSent
  BY <1>7, EndSessionKeepsSlots DEF DisconnectSent
<1>8. CASE Reflushed
  BY <1>8, OutboundUntouched DEF Reflushed, tables, delivery
<1>9. CASE RecvNothing
  BY <1>9, OutboundUntouched DEF RecvNothing, tables, delivery
<1>10. CASE RecvFailed
  BY <1>10, EndSessionKeepsSlots DEF RecvFailed
<1>11. CASE Drained
  BY <1>11, OutboundUntouched DEF Drained, tables, delivery
<1>12. CASE ReceivedEarly
  BY <1>12, OutboundUntouched DEF ReceivedEarly, tables, delivery
<1>13. CASE ConnackExpired
  BY <1>13, EndSessionKeepsSlots DEF ConnackExpired
<1>14. CASE Received
  BY <1>14, OutboundUntouched DEF Received, tables, delivery
<1>15. CASE KeepAliveIdle
  BY <1>15, OutboundUntouched DEF KeepAliveIdle, tables, delivery
<1>16. CASE SendPing
  BY <1>16, OutboundUntouched DEF SendPing, tables, delivery
<1>17. CASE PingExpired
  BY <1>17, EndSessionKeepsSlots DEF PingExpired
<1>18. CASE ResubscribeNothing
  BY <1>18, OutboundUntouched DEF ResubscribeNothing, tables, delivery
<1>19. CASE Resubscribe
  BY <1>19, OutboundUntouched DEF Resubscribe, delivery
<1>20. CASE RetransmitSlot
  BY <1>20, RetransmitKeepsSlots
<1>21. CASE RetransmitSkip
  BY <1>21, OutboundUntouched DEF RetransmitSkip, tables, delivery
<1>22. CASE Retransmitted
  BY <1>22, OutboundUntouched DEF Retransmitted, tables, delivery
<1>23. CASE StepReturn
  BY <1>23, OutboundUntouched DEF StepReturn, delivery
<1>24. QED
  BY <1>1, <1>2, <1>3, <1>4, <1>5, <1>6, <1>7, <1>8, <1>9, <1>10, <1>11, <1>12, <1>13,
     <1>14, <1>15, <1>16, <1>17, <1>18, <1>19, <1>20, <1>21, <1>22, <1>23
     DEF Pump

\* The packet handlers.
LEMMA HandleKeepsSlots ==
    ASSUME TableTypes, RxTyped, Handle
    PROVE  SlotsKept
<1>1. CASE HandleBad
  BY <1>1, EndSessionKeepsSlots DEF HandleBad, Reject
<1>2. CASE HandleMisdirected
  BY <1>2, EndSessionKeepsSlots DEF HandleMisdirected, Reject
<1>3. CASE HandlePingresp
  BY <1>3, OutboundUntouched DEF HandlePingresp, delivery
<1>4. CASE HandleConnack
  BY <1>4, OutboundUntouched DEF HandleConnack, delivery
<1>5. CASE HandleConnackRejected
  BY <1>5, EndSessionKeepsSlots DEF HandleConnackRejected, Reject
<1>6. CASE HandlePublishEarly
  BY <1>6, EndSessionKeepsSlots DEF HandlePublishEarly, Reject
<1>7. CASE HandlePublishQos0
  BY <1>7, OutboundUntouched DEF HandlePublishQos0, delivery
<1>8. CASE HandlePublishQos1
  BY <1>8, OutboundUntouched DEF HandlePublishQos1, delivery
<1>9. CASE HandlePublishQos2
  BY <1>9, OutboundUntouched DEF HandlePublishQos2
<1>10. CASE HandlePublishQos2Again
  BY <1>10, OutboundUntouched DEF HandlePublishQos2Again, delivery
<1>11. CASE HandlePubrel
  BY <1>11, OutboundUntouched DEF HandlePubrel
<1>12. CASE HandlePuback
  BY <1>12, DeliveredKeepsSlots DEF HandlePuback
<1>13. CASE HandlePubrec
  BY <1>13, PubrecKeepsSlots
<1>14. CASE HandlePubcomp
  BY <1>14, DeliveredKeepsSlots DEF HandlePubcomp
<1>15. CASE HandleSuback
  BY <1>15, OutboundUntouched DEF HandleSuback, delivery
<1>16. CASE HandleSubackStale
  BY <1>16, OutboundUntouched DEF HandleSubackStale, delivery
<1>17. CASE HandleSubackMismatched
  BY <1>17, EndSessionKeepsSlots DEF HandleSubackMismatched, Reject
<1>18. CASE HandleUnsuback
  BY <1>18, OutboundUntouched DEF HandleUnsuback, delivery
<1>19. CASE DispatchNext
  BY <1>19, OutboundUntouched DEF DispatchNext, delivery
<1>20. CASE DispatchDone
  BY <1>20, OutboundUntouched DEF DispatchDone, delivery
<1>21. CASE SessionEnded
  BY <1>21, EndSessionKeepsSlots DEF SessionEnded
<1>22. QED
  BY <1>1, <1>2, <1>3, <1>4, <1>5, <1>6, <1>7, <1>8, <1>9, <1>10, <1>11, <1>12, <1>13,
     <1>14, <1>15, <1>16, <1>17, <1>18, <1>19, <1>20, <1>21
     DEF Handle

\* The calls of the application but publish().
LEMMA AppCallKeepsSlots ==
    ASSUME AppCall
    PROVE  SlotsKept
<1>1. CASE AppConnect
  BY <1>1, ConnectKeepsSlots DEF AppConnect
<1>2. CASE ApiDisconnect
  BY <1>2, OutboundUntouched DEF ApiDisconnect, delivery
<1>3. CASE ApiDisconnectHard
  BY <1>3, ShutdownKeepsSlots DEF ApiDisconnectHard
<1>4. CASE ApiAbort
  BY <1>4, ShutdownKeepsSlots DEF ApiAbort
<1>5. CASE AppSubscribe
  BY <1>5, OutboundUntouched DEF AppSubscribe, ApiSubscribe, delivery
<1>6. CASE AppUnsubscribe
  BY <1>6, OutboundUntouched DEF AppUnsubscribe, ApiUnsubscribe, delivery
<1>7. CASE Step
  BY <1>7, OutboundUntouched DEF Step, delivery
<1>8. QED
  BY <1>1, <1>2, <1>3, <1>4, <1>5, <1>6, <1>7 DEF AppCall

\* Every step of the client.
LEMMA SlotsKeptStep ==
    ASSUME IdInv, RxTyped, Next
    PROVE  SlotsKept
<1>0. TableTypes
  BY DEF IdInv
<1>1. CASE AppCall
  BY <1>1, AppCallKeepsSlots
<1>2. CASE \E msg \in Msg, qos \in PublishQos, size \in PublishSize : AppPublish(msg, qos, size)
  BY <1>0, <1>2, PublishKeepsSlots, OutboundUntouched DEF AppPublish, PublishQos0, delivery
<1>3. CASE Pump
  BY <1>0, <1>3, PumpKeepsSlots
<1>4. CASE Handle
  BY <1>0, <1>4, HandleKeepsSlots
<1>5. CASE HandlerReturns
  BY <1>5, OutboundUntouched DEF HandlerReturns, delivery
<1>6. CASE ConnectDone
  BY <1>6, OutboundUntouched DEF ConnectDone, tables, delivery
<1>7. CASE SendHead
  BY <1>7, OutboundUntouched DEF SendHead, tables, delivery
<1>8. CASE RecvAny
  BY <1>8, OutboundUntouched DEF RecvAny, Recv, tables, delivery
<1>9. QED
  BY <1>1, <1>2, <1>3, <1>4, <1>5, <1>6, <1>7, <1>8 DEF Next, Internal

\* A tracked PUBLISH leaves its slot only on the acknowledgement of its last
\* phase, at the end of a clean session or in a connect() that asks for one:
\* for every table size, every peer and every order of calls.
THEOREM InflightIsKept == Spec => InflightKept
<1>1. Init => RxTyped
  BY DEF Init, RxTyped
<1>2. RxTyped /\ [Next]_vars => RxTyped'
  BY RxTypedStep
<1>3. IdInv /\ RxTyped /\ [Next]_vars => [SlotsKept]_vars
  BY SlotsKeptStep
<1>4. QED
  BY <1>1, <1>2, <1>3, IdInvAlways, PTL DEF Spec, InflightKept
=============================================================================
