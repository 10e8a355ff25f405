--------------------------- MODULE ClientHandlers ---------------------------
(***************************************************************************)
(* drain_rx() and the handle_* functions it calls: what each packet from   *)
(* the broker does, and the application handlers it runs.                  *)
(*                                                                         *)
(* A handle_* function that calls the application stops with the packet    *)
(* still at the head of rx and the frame "handled" under the handler's:    *)
(* drain_rx() shifts the packet out when the handler is back, unless the   *)
(* handler emptied the buffer.  A handler the application did not install  *)
(* is one that makes no call.                                              *)
(***************************************************************************)
EXTENDS ClientState

CONSTANT
    Routes          \* topic_matches(): the pairs <<filter, message>> that match

ASSUME RoutesAssumption == Routes \subseteq Filter \X Msg

\* drain_rx() is about to handle a packet of this type.
Handling(type) == Top = "drain" /\ rx # <<>> /\ Head(rx).type = type

Packet == Head(rx)

\* The packet is shifted out and draining goes on.
Shift ==
    /\ rx' = Tail(rx)
    /\ UNCHANGED <<control, rounds, fanout>>

\* The application is called, and drain_rx() goes on when it is back.
Callback(handler) ==
    /\ stack' = Enter(Goto("handled"), handler)
    /\ UNCHANGED <<inStep, result, notified, rx, rounds>>

Reject(error) == EndSession(error)

-----------------------------------------------------------------------------

HandleBad == Handling("Bad") /\ Reject(Packet.error)

\* Packets a server must never send.
HandleMisdirected ==
    \E type \in {"Pingreq", "Disconnect"} : Handling(type) /\ Reject("ProtocolViolation")

HandlePingresp ==
    /\ Handling("Pingresp")
    /\ ping' = FALSE
    /\ Shift
    /\ UNCHANGED <<session, queue, retransmitNow, forced, cursor, delivery, nextPacketId, requests>>

\* handle_connack(): accepted ...
HandleConnack ==
    /\ Handling("Connack")
    /\ state = "AwaitingConnack"
    /\ Packet.accepted
    /\ state' = "Connected"
    /\ ping' = FALSE
    /\ retransmitNow' = TRUE
    /\ subscriptions' = IF Packet.present THEN subscriptions ELSE MarkAllForResub
    /\ Callback("on_connect")
    /\ UNCHANGED <<lastError, clean, link, queue, fanout, forced, cursor, delivery,
                   nextPacketId, pending, nextSubId>>

\* ... or not expected, or a refusal.
HandleConnackRejected ==
    /\ Handling("Connack")
    /\ IF state # "AwaitingConnack"
       THEN Reject("ProtocolViolation")
       ELSE ~Packet.accepted /\ Reject("ConnectionRefused")

-----------------------------------------------------------------------------
(* handle_publish() and dispatch()                                         *)

\* The subscriptions with a handler of their own that the message matches.
Matching(msg) ==
    {f \in Subscribed : subscriptions[f].handler /\ <<f, msg>> \in Routes}

\* dispatch(): the matching handlers in turn, or on_message when none matches.
Dispatch(msg) ==
    /\ fanout' = IF Matching(msg) = {} THEN 0 ELSE Cardinality(Matching(msg)) - 1
    /\ Callback("on_message")

\* Faulty variant of HandlePublishEarly: a full inbound table is an error.
HandlePublishOverflow ==
    /\ Handling("Publish")
    /\ state # "Connected" \/ (Packet.qos = 2 /\ InboundTableFull)
    /\ Reject("ProtocolViolation")

HandlePublishEarly ==
    /\ Handling("Publish")
    /\ state # "Connected"
    /\ Reject("ProtocolViolation")

HandlePublishQos0 ==
    /\ Handling("Publish")
    /\ state = "Connected"
    /\ Packet.qos = 0
    /\ Dispatch(Packet.msg)
    /\ UNCHANGED <<session, queue, timers, delivery, nextPacketId, requests>>


\* Acknowledge first, deliver second; with no room, neither.
HandlePublishQos1 ==
    /\ Handling("Publish")
    /\ state = "Connected"
    /\ Packet.qos = 1
    /\ IF Fits(Ack("Puback", Packet.id))
       THEN Enqueue(Ack("Puback", Packet.id)) /\ Dispatch(Packet.msg)
       ELSE Shift /\ UNCHANGED queue
    /\ UNCHANGED <<session, timers, delivery, nextPacketId, requests>>

\* Faulty variants of HandlePublishQos2: the PUBREC goes out although the table
\* is full, and a delivered id is not remembered.
HandlePublishQos2Acked ==
    /\ Handling("Publish")
    /\ state = "Connected"
    /\ Packet.qos = 2
    /\ Packet.id \notin inboundIds
    /\ TryEnqueue(Ack("Pubrec", Packet.id))
    /\ IF InboundTableFull \/ ~Fits(Ack("Pubrec", Packet.id))
       THEN Shift /\ UNCHANGED inboundIds
       ELSE inboundIds' = inboundIds \cup {Packet.id} /\ Dispatch(Packet.msg)
    /\ UNCHANGED <<session, timers, outbound, nextPacketId, requests>>

HandlePublishQos2Untracked ==
    /\ Handling("Publish")
    /\ state = "Connected"
    /\ Packet.qos = 2
    /\ IF Fits(Ack("Pubrec", Packet.id))
       THEN Enqueue(Ack("Pubrec", Packet.id)) /\ Dispatch(Packet.msg)
       ELSE Shift /\ UNCHANGED queue
    /\ UNCHANGED <<session, timers, delivery, nextPacketId, requests>>

\* A PUBLISH not seen before is tracked, acknowledged and delivered, or, when
\* the table or the queue has no room, ignored.
HandlePublishQos2 ==
    /\ Handling("Publish")
    /\ state = "Connected"
    /\ Packet.qos = 2
    /\ Packet.id \notin inboundIds
    /\ IF ~InboundTableFull /\ Fits(Ack("Pubrec", Packet.id))
       THEN /\ Enqueue(Ack("Pubrec", Packet.id))
            /\ inboundIds' = inboundIds \cup {Packet.id}
            /\ Dispatch(Packet.msg)
       ELSE Shift /\ UNCHANGED <<queue, inboundIds>>
    /\ UNCHANGED <<session, timers, outbound, nextPacketId, requests>>

\* A PUBLISH whose id is held is acknowledged again and not delivered.
HandlePublishQos2Again ==
    /\ Handling("Publish")
    /\ state = "Connected"
    /\ Packet.qos = 2
    /\ Packet.id \in inboundIds
    /\ TryEnqueue(Ack("Pubrec", Packet.id))
    /\ Shift
    /\ UNCHANGED <<session, timers, delivery, nextPacketId, requests>>

\* handle_pubrel(): the id is released once the PUBCOMP is queued.
HandlePubrel ==
    /\ Handling("Pubrel")
    /\ TryEnqueue(Ack("Pubcomp", Packet.id))
    /\ inboundIds' = IF Fits(Ack("Pubcomp", Packet.id)) THEN inboundIds \ {Packet.id}
                     ELSE inboundIds
    /\ Shift
    /\ UNCHANGED <<session, timers, outbound, nextPacketId, requests>>

-----------------------------------------------------------------------------
(* Acknowledgements of our own PUBLISHes.                                  *)

InPhase(i, phase) == outbound[i].phase = phase

\* handle_puback() and handle_pubcomp(): the slot is released, if one waits.
Delivered(type, phase) ==
    /\ Handling(type)
    /\ \/ \E i \in FindOutbound(Packet.id) :
            /\ InPhase(i, phase)
            /\ outbound' = [outbound EXCEPT ![i] = FreeSlot]
            /\ Callback("on_delivery")
            /\ UNCHANGED fanout
       \/ /\ ~\E i \in FindOutbound(Packet.id) : InPhase(i, phase)
          /\ Shift
          /\ UNCHANGED outbound
    /\ UNCHANGED <<session, queue, timers, inboundIds, nextPacketId, requests>>

HandlePuback == Delivered("Puback", "WaitPuback")

HandlePubcomp == Delivered("Pubcomp", "WaitPubcomp")

\* Faulty variant of HandlePubrec: the slot keeps its PUBLISH.
HandlePubrecKept ==
    /\ Handling("Pubrec")
    /\ \/ FindOutbound(Packet.id) # {} /\ TryEnqueue(Ack("Pubrel", Packet.id))
       \/ FindOutbound(Packet.id) = {} /\ UNCHANGED queue
    /\ Shift
    /\ UNCHANGED <<session, timers, delivery, nextPacketId, requests>>

\* handle_pubrec(): from WaitPubrec on to WaitPubcomp, and the PUBREL goes out
\* if there is room; in WaitPubcomp it is sent once more.
HandlePubrec ==
    /\ Handling("Pubrec")
    /\ \/ \E i \in FindOutbound(Packet.id) :
            /\ InPhase(i, "WaitPubrec") \/ InPhase(i, "WaitPubcomp")
            /\ outbound' = [outbound EXCEPT ![i].phase = "WaitPubcomp"]
            /\ TryEnqueue(Ack("Pubrel", Packet.id))
       \/ /\ ~\E i \in FindOutbound(Packet.id) : InPhase(i, "WaitPubrec") \/ InPhase(i, "WaitPubcomp")
          /\ UNCHANGED <<queue, outbound>>
    /\ Shift
    /\ UNCHANGED <<session, timers, inboundIds, nextPacketId, requests>>

-----------------------------------------------------------------------------
(* Acknowledgements of SUBSCRIBE and UNSUBSCRIBE.                          *)

\* handle_suback(): a failure code erases the entry the code is for, any other
\* code confirms it.  Entries are named by sub_id.
HandleSuback ==
    /\ Handling("Suback")
    /\ \E k \in FindPending(Packet.id, "Suback") :
         LET subs  == pending[k].subs
             code(f) == {Packet.codes[j] : j \in {j \in DOMAIN subs : subs[j] = subscriptions[f].sub}}
         IN /\ Len(Packet.codes) = Len(subs)
            /\ subscriptions' = [f \in Filter |->
                 CASE kSubackFailure \in code(f) -> NoEntry
                   [] f \in Subscribed /\ code(f) # {} /\ kSubackFailure \notin code(f) ->
                        [subscriptions[f] EXCEPT !.resub = FALSE]
                   [] OTHER -> subscriptions[f]]
            /\ pending' = RemovePending(k)
    /\ Callback("on_suback")
    /\ UNCHANGED <<session, queue, fanout, timers, delivery, nextPacketId, nextSubId>>

HandleSubackStale ==
    /\ Handling("Suback")
    /\ FindPending(Packet.id, "Suback") = {}
    /\ Shift
    /\ UNCHANGED <<session, queue, timers, delivery, nextPacketId, requests>>

HandleSubackMismatched ==
    /\ Handling("Suback")
    /\ \E k \in FindPending(Packet.id, "Suback") : Len(Packet.codes) # Len(pending[k].subs)
    /\ Reject("ProtocolViolation")

\* Faulty variant of HandleUnsuback: the entries stay in the table.
HandleUnsubackKept ==
    /\ Handling("Unsuback")
    /\ \/ \E k \in FindPending(Packet.id, "Unsuback") : pending' = RemovePending(k)
       \/ FindPending(Packet.id, "Unsuback") = {} /\ UNCHANGED pending
    /\ Shift
    /\ UNCHANGED <<session, queue, timers, delivery, nextPacketId, subscriptions, nextSubId>>

\* handle_unsuback(): the entries named when the UNSUBSCRIBE was queued go.
HandleUnsuback ==
    /\ Handling("Unsuback")
    /\ \/ \E k \in FindPending(Packet.id, "Unsuback") :
            /\ subscriptions' = [f \in Filter |->
                 IF \E j \in DOMAIN pending[k].subs : pending[k].subs[j] = subscriptions[f].sub
                 THEN NoEntry ELSE subscriptions[f]]
            /\ pending' = RemovePending(k)
       \/ /\ FindPending(Packet.id, "Unsuback") = {}
          /\ UNCHANGED <<subscriptions, pending>>
    /\ Shift
    /\ UNCHANGED <<session, queue, timers, delivery, nextPacketId, nextSubId>>

-----------------------------------------------------------------------------
(* The application.                                                        *)

HandlerReturns ==
    /\ Top \in Handler
    /\ stack' = Leave
    /\ UNCHANGED <<inStep, result, notified, session, queue, receive, timers,
                   delivery, nextPacketId, requests>>

\* Faulty variant of DispatchNext: the fan-out ignores how the last one ended.
DispatchRest ==
    /\ Top = "handled"
    /\ fanout > 0
    /\ fanout' = fanout - 1
    /\ stack' = Enter(stack, "on_message")
    /\ UNCHANGED <<inStep, result, notified, session, queue, rx, rounds, timers,
                   delivery, nextPacketId, requests>>

\* dispatch() goes on to the next matching handler while still Connected.
DispatchNext ==
    /\ Top = "handled"
    /\ state = "Connected"
    /\ fanout > 0
    /\ fanout' = fanout - 1
    /\ stack' = Enter(stack, "on_message")
    /\ UNCHANGED <<inStep, result, notified, session, queue, rx, rounds, timers,
                   delivery, nextPacketId, requests>>

\* Back in drain_rx(): the packet is shifted out, unless a handler emptied the
\* buffer; then draining stops with the last error, if there is one.
DispatchDone ==
    /\ Top = "handled"
    /\ state # "Connected" \/ fanout = 0
    /\ rx # <<>> \/ lastError = "Ok"
    /\ rx' = IF rx = <<>> THEN <<>> ELSE Tail(rx)
    /\ fanout' = 0
    /\ At("drain")
    /\ UNCHANGED <<session, queue, rounds, timers, delivery, nextPacketId, requests>>

SessionEnded ==
    /\ Top = "handled"
    /\ rx = <<>>
    /\ lastError # "Ok"
    /\ EndSession(lastError)
=============================================================================
