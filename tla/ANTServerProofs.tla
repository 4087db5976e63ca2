---------------------------- MODULE ANTServerProofs ---------------------------
(***************************************************************************)
(* Theorems of ANTServer for any conveyors and any bounds, up to the first *)
(* timeout that comes while a frame or a reply is on its way, where the    *)
(* behaviours of ANTServer end.  Those about timestamps assume that fewer  *)
(* new messages are sent than there are timestamps: after that they        *)
(* repeat.                                                                 *)
(***************************************************************************)
EXTENDS ANTServer, FiniteSetTheorems, SequenceTheorems, TLAPS

------------------------------------------------------------------------------
(* Type correctness *)

LEMMA NothingTyped ==
    /\ NoMessage \notin Message
    /\ NoMessage \notin Command
    /\ Command \subseteq Message
    /\ NotWaiting.id \notin AwaitedId
<1>1. "NONE" \notin AwaitedId
  BY LinkAssumption DEF AwaitedId, PlainMessage
<1> QED
  BY <1>1, LinkAssumption
     DEF NoMessage, Message, Command, AddPackage, StateRequest, PlainMessage,
                  NotWaiting

LEMMA TimestampTyped ==
    ASSUME timestamp \in 0 .. TIMESTAMP_MOD - 1
    PROVE  NextTimestamp \in 0 .. TIMESTAMP_MOD - 1
<1>1. TIMESTAMP_MOD \in Nat /\ TIMESTAMP_MOD > 0
  BY LinkAssumption
<1> QED
  BY <1>1 DEF NextTimestamp

(* Sending a message leaves the server typed. *)
LEMMA SendAndWaitTyped ==
    ASSUME TypeOK, NEW msg \in Message, NEW reply \in AwaitedId,
           SendAndWait(msg, reply)
    PROVE  /\ pending_msg' \in Message
           /\ waiting' = [id |-> reply, conveyor |-> msg.conveyor]
           /\ waiting' \in [id : AwaitedId, conveyor : ConveyorId]
           /\ timestamp' \in 0 .. TIMESTAMP_MOD - 1
           /\ timer_running' = TRUE
           /\ air' \in Frame \union {NoFrame}
<1>1. timestamp' \in 0 .. TIMESTAMP_MOD - 1
  BY TimestampTyped DEF SendAndWait, TypeOK
<1>2. msg.conveyor \in ConveyorId
  BY LinkAssumption DEF Message, Command, AddPackage, StateRequest
<1>3. air' \in Frame \union {NoFrame}
  BY <1>1 DEF SendAndWait, send_message_to_driver, TypeOK, Frame
<1> QED
  BY <1>1, <1>2, <1>3 DEF SendAndWait, send_message_to_driver

(* The state request for a package held back. *)
LEMMA StateRequestTyped ==
    ASSUME NEW msg \in AddPackage, NEW c \in {INPUT_CONVEYOR_ID}
    PROVE  [id |-> "CONVEYOR_STATE", conveyor |-> c, uid |-> msg.uid]
              \in Message
BY DEF Message, StateRequest, Command, AddPackage

------------------------------------------------------------------------------
(* The inductive invariant *)

(* One exchange is not inductive by itself: that an acknowledgement never  *)
(* ends a state request needs the kinds of replies that are on their way,  *)
(* and that a state request goes to the input conveyor needs the messages' *)
(* types, which need in turn that only an awaited state leads to one.      *)
LinkInv == TypeOK /\ FieldsAgree /\ RetransmissionArmed

(* A new exchange: what SendAndWait leaves of the invariant. *)
LEMMA NewExchange ==
    ASSUME TypeOK, NEW msg \in Message, SendAndWait(msg, ReplyTo(msg.id))
    PROVE  /\ pending_msg' = msg
           /\ pending_msg' # NoMessage
           /\ pending_msg' \in Message
           /\ waiting' = [id |-> ReplyTo(msg.id), conveyor |-> msg.conveyor]
           /\ waiting' \in [id : AwaitedId, conveyor : ConveyorId]
           /\ waiting' # NotWaiting
           /\ timestamp' \in 0 .. TIMESTAMP_MOD - 1
           /\ timer_running' = TRUE
           /\ air' \in Frame \union {NoFrame}
<1>1. ReplyTo(msg.id) \in AwaitedId
  BY LinkAssumption
     DEF ReplyTo, AwaitedId, Message, Command, AddPackage, StateRequest,
         PlainMessage
<1>2. /\ pending_msg' = msg
      /\ pending_msg' # NoMessage
  BY NothingTyped DEF SendAndWait, send_message_to_driver
<1>3. /\ waiting' = [id |-> ReplyTo(msg.id), conveyor |-> msg.conveyor]
      /\ waiting' \in [id : AwaitedId, conveyor : ConveyorId]
      /\ timestamp' \in 0 .. TIMESTAMP_MOD - 1
      /\ timer_running' = TRUE
      /\ air' \in Frame \union {NoFrame}
  BY <1>1, SendAndWaitTyped
<1>4. waiting' # NotWaiting
  BY <1>1, <1>3, NothingTyped
<1> QED
  BY <1>2, <1>3, <1>4

LEMMA EnqueueInv ==
    ASSUME LinkInv, NEW msg \in Command, enqueue_message(msg)
    PROVE  LinkInv'
<1>1. antTx' \in Seq(Command)
  BY DEF LinkInv, TypeOK, enqueue_message
<1>2. submitted' \in Nat /\ early' = early
  BY DEF LinkInv, TypeOK, enqueue_message
<1>3. /\ UNCHANGED <<antRx, flow_control, server, timer, air, uplink, plant>>
  BY DEF enqueue_message
<1>4. TypeOK'
  BY <1>1, <1>2, <1>3 DEF LinkInv, TypeOK, server, timer, plant
<1>5. FieldsAgree' /\ RetransmissionArmed'
  BY <1>3 DEF LinkInv, FieldsAgree, RetransmissionArmed, server, timer
<1> QED
  BY <1>4, <1>5 DEF LinkInv

LEMMA HandleQueueInv ==
    ASSUME LinkInv, handle_queue
    PROVE  LinkInv'
<1> DEFINE msg == Head(antTx)
           request == [id |-> "CONVEYOR_STATE", conveyor |-> msg.conveyor,
                       uid |-> msg.uid]
<1>1. msg \in Command /\ antTx' \in Seq(Command)
  BY DEF LinkInv, TypeOK, handle_queue
<1>2. /\ flow_control = "CONTINUE"
      /\ flow_control' = "STOP"
      /\ UNCHANGED <<antRx, timed_out, uplink, plant, world>>
      /\ send_ANT_message(msg)
  BY DEF handle_queue
<1>3. pending_input = NoMessage /\ checking = FALSE
  BY <1>2 DEF LinkInv, TypeOK, FieldsAgree, NoMessage
<1>4. CASE msg.id = "ADD_PACKAGE"
  <2>1. /\ pending_input' = msg
        /\ checking' = TRUE
        /\ SendAndWait(request, ReplyTo(request.id))
    BY <1>2, <1>4, LinkAssumption
       DEF send_ANT_message, send_conveyor_state_request, ReplyTo, PlainMessage
  <2>2. request \in Message
    BY <1>1, <1>4, LinkAssumption
       DEF Message, StateRequest, Command, AddPackage, PlainMessage
  <2>3. /\ pending_msg' = request
        /\ pending_msg' # NoMessage
        /\ pending_msg' \in Message
        /\ waiting' = [id |-> ReplyTo(request.id),
                       conveyor |-> request.conveyor]
        /\ waiting' \in [id : AwaitedId, conveyor : ConveyorId]
        /\ waiting' # NotWaiting
        /\ timestamp' \in 0 .. TIMESTAMP_MOD - 1
        /\ timer_running' = TRUE
        /\ air' \in Frame \union {NoFrame}
    BY <2>1, <2>2, NewExchange DEF LinkInv
  <2>4. msg \in AddPackage
    BY <1>1, <1>4, LinkAssumption DEF Command, AddPackage, PlainMessage
  <2>5. TypeOK'
    BY <1>1, <1>2, <2>1, <2>3, <2>4 DEF LinkInv, TypeOK, world, plant
  <2>6. FieldsAgree'
    BY <1>1, <1>2, <2>1, <2>3, NothingTyped DEF FieldsAgree
  <2> QED
    BY <2>3, <2>5, <2>6 DEF LinkInv, RetransmissionArmed
<1>5. CASE msg.id # "ADD_PACKAGE"
  <2>1. /\ pending_input' = pending_input
        /\ checking' = checking
        /\ SendAndWait(msg, ReplyTo(msg.id))
    BY <1>2, <1>5, LinkAssumption DEF send_ANT_message, ReplyTo, PlainMessage
  <2>2. msg \in Message /\ msg.id # "CONVEYOR_STATE"
    BY <1>1, LinkAssumption DEF Message, Command, AddPackage, PlainMessage
  <2>3. /\ pending_msg' = msg
        /\ pending_msg' # NoMessage
        /\ pending_msg' \in Message
        /\ waiting' = [id |-> ReplyTo(msg.id), conveyor |-> msg.conveyor]
        /\ waiting' \in [id : AwaitedId, conveyor : ConveyorId]
        /\ waiting' # NotWaiting
        /\ timestamp' \in 0 .. TIMESTAMP_MOD - 1
        /\ timer_running' = TRUE
        /\ air' \in Frame \union {NoFrame}
    BY <2>1, <2>2, NewExchange DEF LinkInv
  <2>4. TypeOK'
    BY <1>1, <1>2, <1>3, <2>1, <2>3 DEF LinkInv, TypeOK, world, plant
  <2>5. FieldsAgree'
    BY <1>2, <1>3, <2>1, <2>2, <2>3 DEF FieldsAgree
  <2> QED
    BY <2>3, <2>4, <2>5 DEF LinkInv, RetransmissionArmed
<1> QED
  BY <1>4, <1>5

------------------------------------------------------------------------------
(* The radio callback *)

LEMMA TakeReplyTyped ==
    ASSUME TypeOK, NEW c \in ConveyorId, NEW id, TakeReply(c, id)
    PROVE  /\ Head(uplink[c]) \in Reply
           /\ Head(uplink[c]).id = id
           /\ uplink' \in [ConveyorId -> Seq(Reply)]
           /\ UNCHANGED <<antTx, timed_out, last_seen, executed, arrivals,
                          busy, world>>
BY DEF TakeReply, TypeOK, plant

(* A reply that nothing waits for changes only the uplink. *)
LEMMA IgnoredInv ==
    ASSUME LinkInv, NEW c \in ConveyorId, NEW id, TakeReply(c, id), Ignored
    PROVE  LinkInv'
<1>1. /\ uplink' \in [ConveyorId -> Seq(Reply)]
      /\ UNCHANGED <<antTx, timed_out, last_seen, executed, arrivals, busy,
                     world>>
  BY TakeReplyTyped DEF LinkInv
<1>2. UNCHANGED <<antRx, flow_control, pending_msg, pending_input, checking,
                  waiting, timestamp, timer_running, air>>
  BY DEF Ignored, server
<1> QED
  BY <1>1, <1>2 DEF LinkInv, TypeOK, world, FieldsAgree, RetransmissionArmed

(* An exchange that is not a state request ends. *)
LEMMA EndOfExchange ==
    ASSUME LinkInv, waiting # NotWaiting,
           waiting.id # "CONVEYOR_STATE_RESPONSE",
           StopWaiting, continue_flow_control,
           UNCHANGED <<pending_input, checking>>
    PROVE  /\ flow_control' = "CONTINUE"
           /\ FieldsAgree'
           /\ RetransmissionArmed'
<1>1. pending_msg # NoMessage /\ waiting.id = ReplyTo(pending_msg.id)
  BY DEF LinkInv, FieldsAgree
<1>2. pending_msg.id # "CONVEYOR_STATE"
  BY <1>1 DEF ReplyTo
<1>3. checking = FALSE /\ pending_input = NoMessage
  BY <1>2 DEF LinkInv, FieldsAgree, TypeOK
<1>4. /\ flow_control' = "CONTINUE"
      /\ pending_msg' = NoMessage
      /\ waiting' = NotWaiting
      /\ checking' = FALSE
      /\ pending_input' = NoMessage
  BY <1>3 DEF continue_flow_control, StopWaiting
<1> QED
  BY <1>4 DEF FieldsAgree, RetransmissionArmed, NoMessage, NotWaiting

(* An acknowledgement never ends a state request: no conveyor acknowledges *)
(* one.                                                                    *)
LEMMA ReceivedInv ==
    ASSUME LinkInv, NEW c \in ConveyorId, receive_MESSAGE_RECEIVED(c)
    PROVE  LinkInv'
<1> DEFINE reply == Head(uplink[c])
<1>1. TakeReply(c, "MESSAGE_RECEIVED")
  BY DEF receive_MESSAGE_RECEIVED
<1>2. /\ reply \in Reply
      /\ reply.id = "MESSAGE_RECEIVED"
      /\ uplink' \in [ConveyorId -> Seq(Reply)]
      /\ UNCHANGED <<antTx, timed_out, last_seen, executed, arrivals, busy,
                     world>>
  BY <1>1, TakeReplyTyped DEF LinkInv
<1>3. CASE ~AwaitsReceipt(reply)
  <2>1. Ignored
    BY <1>3 DEF receive_MESSAGE_RECEIVED
  <2> QED
    BY <1>1, <2>1, IgnoredInv
<1>4. CASE AwaitsReceipt(reply)
  <2>1. /\ StopWaiting
        /\ continue_flow_control
        /\ UNCHANGED <<antRx, pending_input, checking, timestamp, air>>
    BY <1>4 DEF receive_MESSAGE_RECEIVED
  <2>2. reply.of \in PlainId \union {"ADD_PACKAGE"}
    BY <1>2 DEF Reply
  <2>3. waiting.id = reply.of
    BY <1>4 DEF AwaitsReceipt
  <2>4. waiting # NotWaiting /\ waiting.id # "CONVEYOR_STATE_RESPONSE"
    BY <2>2, <2>3, LinkAssumption DEF PlainMessage, NotWaiting
  <2>5. /\ flow_control' = "CONTINUE"
        /\ FieldsAgree'
        /\ RetransmissionArmed'
    BY <2>1, <2>4, EndOfExchange
  <2>6. TypeOK'
    BY <1>2, <2>1, <2>5 DEF LinkInv, TypeOK, world, StopWaiting
  <2> QED
    BY <2>5, <2>6 DEF LinkInv
<1> QED
  BY <1>3, <1>4

(* An awaited state belongs to a package held back, and its conveyor is    *)
(* the input conveyor.                                                     *)
LEMMA AwaitedState ==
    ASSUME LinkInv, NEW c \in ConveyorId, AwaitsState(c)
    PROVE  /\ flow_control = "STOP"
           /\ checking = TRUE
           /\ pending_input # NoMessage
           /\ pending_input \in AddPackage
           /\ pending_input.conveyor = c
           /\ c = INPUT_CONVEYOR_ID
<1>1. waiting # NotWaiting
  BY DEF AwaitsState, NotWaiting
<1>2. /\ flow_control = "STOP"
      /\ pending_msg # NoMessage
      /\ waiting = [id       |-> ReplyTo(pending_msg.id),
                    conveyor |-> pending_msg.conveyor]
  BY <1>1 DEF LinkInv, FieldsAgree
<1>3. /\ ReplyTo(pending_msg.id) = "CONVEYOR_STATE_RESPONSE"
      /\ pending_msg.conveyor = c
  BY <1>2 DEF AwaitsState
<1>4. pending_msg \in Message
  BY <1>2 DEF LinkInv, TypeOK
<1>5. pending_msg.id = "CONVEYOR_STATE"
  BY <1>3, <1>4, LinkAssumption
     DEF ReplyTo, Message, Command, AddPackage, StateRequest, PlainMessage
<1>6. c = INPUT_CONVEYOR_ID
  BY <1>3, <1>4, <1>5, LinkAssumption
     DEF Message, Command, AddPackage, StateRequest, PlainMessage
<1>7. checking = TRUE /\ pending_input # NoMessage
  BY <1>5 DEF LinkInv, TypeOK, FieldsAgree
<1>8. pending_input \in AddPackage
  BY <1>7 DEF LinkInv, TypeOK
<1> QED
  BY <1>2, <1>6, <1>7, <1>8 DEF AddPackage

LEMMA AvailableInv ==
    ASSUME LinkInv, NEW c \in ConveyorId, receive_CONVEYOR_STATE_available(c)
    PROVE  LinkInv'
<1>1. /\ TakeReply(c, "CONVEYOR_STATE_RESPONSE")
      /\ AwaitsState(c)
      /\ UNCHANGED <<antRx, flow_control>>
  BY DEF receive_CONVEYOR_STATE_available
<1>2. /\ flow_control = "STOP"
      /\ pending_input # NoMessage
      /\ pending_input \in AddPackage
  BY <1>1, AwaitedState
<1>3. /\ checking' = FALSE
      /\ SendAndWait(pending_input, ReplyTo(pending_input.id))
      /\ pending_input' = NoMessage
  BY <1>2 DEF receive_CONVEYOR_STATE_available, AddPackage, ReplyTo
<1>4. /\ uplink' \in [ConveyorId -> Seq(Reply)]
      /\ UNCHANGED <<antTx, timed_out, last_seen, executed, arrivals, busy,
                     world>>
  BY <1>1, TakeReplyTyped DEF LinkInv
<1>5. pending_input \in Message
  BY <1>2 DEF Message, Command
<1>6. /\ pending_msg' = pending_input
      /\ pending_msg' # NoMessage
      /\ pending_msg' \in Message
      /\ waiting' = [id       |-> ReplyTo(pending_input.id),
                     conveyor |-> pending_input.conveyor]
      /\ waiting' \in [id : AwaitedId, conveyor : ConveyorId]
      /\ waiting' # NotWaiting
      /\ timestamp' \in 0 .. TIMESTAMP_MOD - 1
      /\ timer_running' = TRUE
      /\ air' \in Frame \union {NoFrame}
  BY <1>3, <1>5, NewExchange DEF LinkInv
<1>7. TypeOK'
  BY <1>1, <1>3, <1>4, <1>6 DEF LinkInv, TypeOK, world
<1>8. FieldsAgree'
  BY <1>1, <1>2, <1>3, <1>6 DEF FieldsAgree, AddPackage
<1> QED
  BY <1>6, <1>7, <1>8 DEF LinkInv, RetransmissionArmed

LEMMA UnavailableInv ==
    ASSUME LinkInv, NEW c \in ConveyorId,
           receive_CONVEYOR_STATE_unavailable(c)
    PROVE  LinkInv'
<1> DEFINE request == [id |-> "CONVEYOR_STATE", conveyor |-> c,
                       uid |-> pending_input.uid]
<1>1. /\ TakeReply(c, "CONVEYOR_STATE_RESPONSE")
      /\ AwaitsState(c)
      /\ UNCHANGED <<antRx, flow_control>>
  BY DEF receive_CONVEYOR_STATE_unavailable
<1>2. /\ flow_control = "STOP"
      /\ checking = TRUE
      /\ pending_input # NoMessage
      /\ pending_input \in AddPackage
      /\ pending_input.conveyor = c
      /\ c = INPUT_CONVEYOR_ID
  BY <1>1, AwaitedState
<1>3. /\ SendAndWait(request, ReplyTo(request.id))
      /\ UNCHANGED <<pending_input, checking>>
  BY <1>2 DEF receive_CONVEYOR_STATE_unavailable,
              send_conveyor_state_request, ReplyTo
<1>4. /\ uplink' \in [ConveyorId -> Seq(Reply)]
      /\ UNCHANGED <<antTx, timed_out, last_seen, executed, arrivals, busy,
                     world>>
  BY <1>1, TakeReplyTyped DEF LinkInv
<1>5. request \in Message
  BY <1>2, StateRequestTyped
<1>6. /\ pending_msg' = request
      /\ pending_msg' # NoMessage
      /\ pending_msg' \in Message
      /\ waiting' = [id       |-> ReplyTo(request.id),
                     conveyor |-> request.conveyor]
      /\ waiting' \in [id : AwaitedId, conveyor : ConveyorId]
      /\ waiting' # NotWaiting
      /\ timestamp' \in 0 .. TIMESTAMP_MOD - 1
      /\ timer_running' = TRUE
      /\ air' \in Frame \union {NoFrame}
  BY <1>3, <1>5, NewExchange DEF LinkInv
<1>7. TypeOK'
  BY <1>1, <1>3, <1>4, <1>6 DEF LinkInv, TypeOK, world
<1>8. FieldsAgree'
  BY <1>1, <1>2, <1>3, <1>6 DEF FieldsAgree
<1> QED
  BY <1>6, <1>7, <1>8 DEF LinkInv, RetransmissionArmed

LEMMA ClearedInv ==
    ASSUME LinkInv, NEW c \in ConveyorId, receive_CLEAR_BOX_RESPONSE(c)
    PROVE  LinkInv'
<1> DEFINE reply == Head(uplink[c])
<1>1. TakeReply(c, "CLEAR_BOX_RESPONSE")
  BY DEF receive_CLEAR_BOX_RESPONSE
<1>2. /\ reply \in Reply
      /\ reply.id = "CLEAR_BOX_RESPONSE"
      /\ uplink' \in [ConveyorId -> Seq(Reply)]
      /\ UNCHANGED <<antTx, timed_out, last_seen, executed, arrivals, busy,
                     world>>
  BY <1>1, TakeReplyTyped DEF LinkInv
<1>3. CASE waiting.id # "CLEAR_BOX_RESPONSE"
  <2>1. Ignored
    BY <1>3 DEF receive_CLEAR_BOX_RESPONSE
  <2> QED
    BY <1>1, <2>1, IgnoredInv
<1>4. CASE waiting.id = "CLEAR_BOX_RESPONSE"
  <2>1. /\ StopWaiting
        /\ antRx' = Append(antRx, [reply  |-> reply,
                                   length |-> ForwardedLength(reply)])
        /\ continue_flow_control
        /\ UNCHANGED <<pending_input, checking, timestamp, air>>
    BY <1>4 DEF receive_CLEAR_BOX_RESPONSE
  <2>2. waiting # NotWaiting /\ waiting.id # "CONVEYOR_STATE_RESPONSE"
    BY <1>4 DEF NotWaiting
  <2>3. /\ flow_control' = "CONTINUE"
        /\ FieldsAgree'
        /\ RetransmissionArmed'
    BY <2>1, <2>2, EndOfExchange
  <2>4. ForwardedLength(reply) \in Nat
    BY <1>2 DEF Reply, ForwardedLength, CLEAR_BOX_RESPONSE_STATIC_LENGTH
  <2>5. antRx' \in Seq([reply : Reply, length : Nat])
    BY <1>2, <2>1, <2>4 DEF LinkInv, TypeOK
  <2>6. TypeOK'
    BY <1>2, <2>1, <2>3, <2>5 DEF LinkInv, TypeOK, world, StopWaiting
  <2> QED
    BY <2>3, <2>6 DEF LinkInv
<1> QED
  BY <1>3, <1>4

LEMMA ArrivedInv ==
    ASSUME LinkInv, NEW c \in ConveyorId, receive_PACKAGE_ARRIVED(c)
    PROVE  LinkInv'
<1>1. /\ Head(uplink[c]) \in Reply
      /\ uplink' \in [ConveyorId -> Seq(Reply)]
      /\ UNCHANGED <<antTx, timed_out, last_seen, executed, arrivals, busy,
                     world>>
  BY TakeReplyTyped DEF LinkInv, receive_PACKAGE_ARRIVED
<1>2. /\ antRx' = Append(antRx, [reply  |-> Head(uplink[c]),
                                 length |-> PACKAGE_ARRIVED_LENGTH])
      /\ UNCHANGED <<flow_control, pending_msg, pending_input, checking,
                     waiting, timestamp, timer_running, air>>
  BY DEF receive_PACKAGE_ARRIVED, server
<1>3. antRx' \in Seq([reply : Reply, length : Nat])
  BY <1>1, <1>2 DEF LinkInv, TypeOK, PACKAGE_ARRIVED_LENGTH
<1>4. TypeOK'
  BY <1>1, <1>2, <1>3 DEF LinkInv, TypeOK, world
<1> QED
  BY <1>1, <1>2, <1>4 DEF LinkInv, FieldsAgree, RetransmissionArmed

LEMMA ReceiveInv ==
    ASSUME LinkInv, NEW c \in ConveyorId, receive_ANT_message(c)
    PROVE  LinkInv'
<1>1. CASE receive_MESSAGE_RECEIVED(c)
  BY <1>1, ReceivedInv
<1>2. CASE receive_CONVEYOR_STATE_available(c)
  BY <1>2, AvailableInv
<1>3. CASE receive_CONVEYOR_STATE_unavailable(c)
  BY <1>3, UnavailableInv
<1>4. CASE receive_CONVEYOR_STATE_ignored(c)
  BY <1>4, IgnoredInv DEF receive_CONVEYOR_STATE_ignored
<1>5. CASE receive_CLEAR_BOX_RESPONSE(c)
  BY <1>5, ClearedInv
<1>6. CASE receive_PACKAGE_ARRIVED(c)
  BY <1>6, ArrivedInv
<1> QED
  BY <1>1, <1>2, <1>3, <1>4, <1>5, <1>6 DEF receive_ANT_message

------------------------------------------------------------------------------
(* The timer thread and the driver loop *)

LEMMA TimerExpiresInv ==
    ASSUME LinkInv, timer_expires
    PROVE  LinkInv'
<1>1. /\ timer_running' = FALSE
      /\ timed_out' = TRUE
      /\ early' \in BOOLEAN
      /\ UNCHANGED <<antTx, antRx, flow_control, server, air, uplink, plant,
                     submitted>>
  BY DEF timer_expires
<1> QED
  BY <1>1 DEF LinkInv, TypeOK, FieldsAgree, RetransmissionArmed, server, plant

(* The timer starts again before its expiry is forgotten. *)
LEMMA TimedOutInv ==
    ASSUME LinkInv, pending_message_timed_out
    PROVE  LinkInv'
<1>1. /\ timed_out' = FALSE
      /\ UNCHANGED <<antTx, antRx, flow_control, pending_input, checking,
                     waiting, timestamp, uplink, plant, world>>
  BY DEF pending_message_timed_out
<1>2. CASE pending_msg # NoMessage
  <2>1. /\ pending_msg' = pending_msg
        /\ timer_running' = TRUE
        /\ air' = IF air = NoFrame
                  THEN [msg |-> pending_msg, time |-> timestamp] ELSE air
    BY <1>2 DEF pending_message_timed_out, send_message_to_driver
  <2>2. air' \in Frame \union {NoFrame}
    BY <1>2, <2>1 DEF LinkInv, TypeOK, Frame
  <2>3. TypeOK'
    BY <1>1, <2>1, <2>2 DEF LinkInv, TypeOK, world, plant
  <2> QED
    BY <1>1, <2>1, <2>3 DEF LinkInv, FieldsAgree, RetransmissionArmed
<1>3. CASE pending_msg = NoMessage
  <2>1. UNCHANGED <<pending_msg, timer_running, air>>
    BY <1>3 DEF pending_message_timed_out
  <2>2. waiting = NotWaiting
    BY <1>3 DEF LinkInv, FieldsAgree
  <2>3. TypeOK'
    BY <1>1, <2>1 DEF LinkInv, TypeOK, world, plant
  <2> QED
    BY <1>1, <2>1, <2>2, <2>3
       DEF LinkInv, FieldsAgree, RetransmissionArmed
<1> QED
  BY <1>2, <1>3

------------------------------------------------------------------------------
(* The radio and the conveyors: only the plant's side changes *)

LEMMA PlantInv ==
    ASSUME LinkInv,
           UNCHANGED <<antTx, antRx, flow_control, server, timer, world>>,
           air' \in Frame \union {NoFrame},
           uplink' \in [ConveyorId -> Seq(Reply)],
           last_seen' \in [ConveyorId -> Frame \union {NoFrame}],
           executed' \subseteq Uid,
           arrivals' \in Nat, busy' \in Nat
    PROVE  LinkInv'
<1>1. UNCHANGED <<antTx, antRx, flow_control, pending_msg, pending_input,
                  checking, waiting, timestamp, timer_running, timed_out,
                  world>>
  BY DEF server, timer
<1> QED
  BY <1>1 DEF LinkInv, TypeOK, world, FieldsAgree, RetransmissionArmed

LEMMA AirLosesInv ==
    ASSUME LinkInv, air_loses
    PROVE  LinkInv'
BY PlantInv DEF LinkInv, TypeOK, air_loses, plant

LEMMA UplinkLosesInv ==
    ASSUME LinkInv, NEW c \in ConveyorId, uplink_loses(c)
    PROVE  LinkInv'
<1>1. uplink' \in [ConveyorId -> Seq(Reply)]
  BY DEF LinkInv, TypeOK, uplink_loses
<1> QED
  BY <1>1, PlantInv DEF LinkInv, TypeOK, uplink_loses, plant

LEMMA RepliesTyped ==
    ASSUME NEW msg \in Message, NEW reply \in Replies(msg)
    PROVE  reply \in Reply
<1>1. msg.conveyor \in ConveyorId
  BY LinkAssumption DEF Message, Command, AddPackage, StateRequest
<1>2. CASE msg.id = "CONVEYOR_STATE"
  <2>1. PICK a \in BOOLEAN :
          reply = [id |-> "CONVEYOR_STATE_RESPONSE", available |-> a]
    BY <1>2 DEF Replies
  <2> QED
    BY <2>1 DEF Reply
<1>3. CASE msg.id = "CLEAR_BOX"
  <2>1. PICK n \in Counts :
          reply = [id    |-> "CLEAR_BOX_RESPONSE",
                   box   |-> BoxAt[msg.conveyor],
                   count |-> n]
    BY <1>3 DEF Replies
  <2>2. BoxAt[msg.conveyor] \in Nat
    BY <1>1, LinkAssumption
  <2> QED
    BY <2>1, <2>2 DEF Reply
<1>4. CASE msg.id \notin {"CONVEYOR_STATE", "CLEAR_BOX"}
  <2>1. msg.id \in PlainId \union {"ADD_PACKAGE"}
    BY <1>4 DEF Message, Command, AddPackage, StateRequest
  <2>2. reply = [id |-> "MESSAGE_RECEIVED", of |-> msg.id,
                 conveyor |-> msg.conveyor]
    BY <1>4 DEF Replies
  <2> QED
    BY <1>1, <2>1, <2>2 DEF Reply
<1> QED
  BY <1>2, <1>3, <1>4

LEMMA DeliverInv ==
    ASSUME LinkInv, deliver
    PROVE  LinkInv'
<1>1. air \in Frame /\ air.msg \in Message
  BY DEF LinkInv, TypeOK, Frame, deliver
<1>2. air.msg.conveyor \in ConveyorId /\ air.msg.uid \in Uid
  BY <1>1, LinkAssumption DEF Message, Command, AddPackage, StateRequest
<1>3. PICK reply \in Replies(air.msg) :
        /\ uplink' = [uplink EXCEPT
                        ![air.msg.conveyor] = Append(@, reply)]
        /\ busy' = IF Unavailable(reply) THEN busy + 1 ELSE busy
  BY DEF deliver
<1>4. reply \in Reply
  BY <1>1, <1>3, RepliesTyped
<1>5. uplink' \in [ConveyorId -> Seq(Reply)]
  BY <1>2, <1>3, <1>4 DEF LinkInv, TypeOK
<1>6. busy' \in Nat
  BY <1>3 DEF LinkInv, TypeOK
<1>7. last_seen' \in [ConveyorId -> Frame \union {NoFrame}]
  BY <1>1, <1>2 DEF LinkInv, TypeOK, deliver
<1>8. executed' \subseteq Uid
  BY <1>2 DEF LinkInv, TypeOK, deliver
<1>9. /\ UNCHANGED <<antTx, antRx, flow_control, server, timer, world>>
      /\ air' \in Frame \union {NoFrame}
      /\ arrivals' \in Nat
  BY DEF LinkInv, TypeOK, deliver
<1> QED
  BY <1>5, <1>6, <1>7, <1>8, <1>9, PlantInv

LEMMA ArrivesInv ==
    ASSUME LinkInv, NEW c \in ConveyorId, package_arrives(c)
    PROVE  LinkInv'
<1>1. [id |-> "PACKAGE_ARRIVED"] \in Reply
  BY DEF Reply
<1>2. uplink' \in [ConveyorId -> Seq(Reply)] /\ arrivals' \in Nat
  BY <1>1 DEF LinkInv, TypeOK, package_arrives
<1>3. /\ UNCHANGED <<antTx, antRx, flow_control, server, timer, world>>
      /\ UNCHANGED <<air, last_seen, executed, busy>>
  BY DEF package_arrives
<1> QED
  BY <1>2, <1>3, PlantInv DEF LinkInv, TypeOK

------------------------------------------------------------------------------
(* The theorems *)

LEMMA InitInv ==
    ASSUME Init
    PROVE  LinkInv
<1>1. 0 \in 0 .. TIMESTAMP_MOD - 1
  BY LinkAssumption
<1>2. /\ antTx \in Seq(Command)
      /\ antRx \in Seq([reply : Reply, length : Nat])
      /\ uplink \in [ConveyorId -> Seq(Reply)]
  BY EmptySeq DEF Init
<1>3. last_seen \in [ConveyorId -> Frame \union {NoFrame}]
  BY DEF Init
<1>4. TypeOK
  <2>1. /\ flow_control \in {"CONTINUE", "STOP"}
        /\ timestamp \in 0 .. TIMESTAMP_MOD - 1
        /\ checking \in BOOLEAN
        /\ timer_running \in BOOLEAN
        /\ timed_out \in BOOLEAN
    BY <1>1 DEF Init
  <2>2. /\ pending_msg \in Message \union {NoMessage}
        /\ pending_input \in AddPackage \union {NoMessage}
        /\ waiting \in [id : AwaitedId, conveyor : ConveyorId]
                          \union {NotWaiting}
        /\ air \in Frame \union {NoFrame}
    BY DEF Init
  <2>3. /\ executed \subseteq Uid
        /\ {submitted, arrivals, busy} \subseteq Nat
    BY DEF Init
  <2>4. early \in BOOLEAN
    BY DEF Init
  <2> QED
    BY <1>2, <1>3, <2>1, <2>2, <2>3, <2>4 DEF TypeOK
<1>5. FieldsAgree /\ RetransmissionArmed
  BY DEF Init, FieldsAgree, RetransmissionArmed, NoMessage
<1> QED
  BY <1>4, <1>5 DEF LinkInv

LEMMA NextInv ==
    ASSUME LinkInv, [Next]_vars
    PROVE  LinkInv'
<1>1. ASSUME NEW msg \in Command, enqueue_message(msg)
      PROVE  LinkInv'
  BY <1>1, EnqueueInv
<1>2. CASE handle_queue
  BY <1>2, HandleQueueInv
<1>3. ASSUME NEW c \in ConveyorId, receive_ANT_message(c)
      PROVE  LinkInv'
  BY <1>3, ReceiveInv
<1>4. CASE timer_expires
  BY <1>4, TimerExpiresInv
<1>5. CASE pending_message_timed_out
  BY <1>5, TimedOutInv
<1>6. CASE air_loses
  BY <1>6, AirLosesInv
<1>7. ASSUME NEW c \in ConveyorId, uplink_loses(c)
      PROVE  LinkInv'
  BY <1>7, UplinkLosesInv
<1>8. CASE deliver
  BY <1>8, DeliverInv
<1>9. ASSUME NEW c \in ConveyorId, package_arrives(c)
      PROVE  LinkInv'
  BY <1>9, ArrivesInv
<1>10. CASE UNCHANGED vars
  BY <1>10 DEF vars, server, timer, plant, LinkInv, TypeOK, world, FieldsAgree,
               RetransmissionArmed
<1> QED
  BY <1>1, <1>2, <1>3, <1>4, <1>5, <1>6, <1>7, <1>8, <1>9, <1>10 DEF Next

(* The invariant of the link, until a timeout comes early: the fields of   *)
(* the three threads describe one exchange, which will be repeated, and    *)
(* every value has its type (ANTServer.cpp:31-200).                        *)
THEOREM LinkInvHolds == Spec => []LinkInv
<1>1. Init => LinkInv
  BY InitInv
<1>2. LinkInv /\ [Next]_vars => LinkInv'
  BY NextInv
<1> QED
  BY <1>1, <1>2, PTL DEF Spec

(* The link stays typed: every message on its way, awaited or repeated is  *)
(* one the server sent or a conveyor answered (ANTServer.cpp).             *)
THEOREM TypeOKHolds == Spec => []TypeOK
<1>1. LinkInv => TypeOK
  BY DEF LinkInv
<1> QED
  BY <1>1, LinkInvHolds, PTL

(* Until a timeout comes early the flow control, the pending message and   *)
(* the awaited reply describe the same exchange (ANTServer.cpp:31-158).    *)
THEOREM OneExchangeHolds == Spec => []OneExchange
<1>1. LinkInv => OneExchange
  BY DEF LinkInv, OneExchange
<1> QED
  BY <1>1, LinkInvHolds, PTL

(* Until a timeout comes early, an exchange that has not ended will be     *)
(* repeated: the timer runs or its expiry is about to be handled           *)
(* (ANTServer.cpp:130-137, 171-193).                                       *)
THEOREM RetransmissionArmedHolds == Spec => []RetransmissionArmed
<1>1. LinkInv => RetransmissionArmed
  BY DEF LinkInv
<1> QED
  BY <1>1, LinkInvHolds, PTL

------------------------------------------------------------------------------
(* Timestamps *)

(* The number of the command that was taken last: commands are taken in    *)
(* the order of their numbers.                                             *)
Taken == submitted - Len(antTx)

Frames == ({air} \union {last_seen[c] : c \in ConveyorId}) \ {NoFrame}

IsCommand(msg) == msg.id # "CONVEYOR_STATE"

(* No frame is newer than the server, and one with the timestamp of now is *)
(* the message that is pending, if one is.  An older command is the one of *)
(* an earlier turn: a package has no other frame after its own.            *)
Stamped ==
    \A f \in Frames :
        /\ f.time \in 1 .. timestamp
        /\ f.time = timestamp /\ pending_msg # NoMessage =>
              f.msg = pending_msg
        /\ IsCommand(f.msg) =>
              f.msg.uid <= IF f.time = timestamp THEN Taken ELSE Taken - 1

(* The timestamp tells frames apart, and later commands have later numbers. *)
ToldApart ==
    \A f, g \in Frames :
        /\ f.time = g.time => f = g
        /\ f.time < g.time /\ IsCommand(f.msg) /\ IsCommand(g.msg) =>
              f.msg.uid < g.msg.uid

InTurn ==
    /\ Taken \in Nat
    /\ \A i \in DOMAIN antTx : antTx[i].uid = Taken + i
    /\ pending_msg # NoMessage => pending_msg.uid = Taken /\ timestamp # 0
    /\ checking => pending_input.uid = Taken

(* The states on their way that say that the input conveyor is not ready.  *)
Refusals ==
    {i \in DOMAIN uplink[INPUT_CONVEYOR_ID] :
        Unavailable(uplink[INPUT_CONVEYOR_ID][i])}

(* Each command takes two messages at most, and one more for each time     *)
(* that the input conveyor is not ready.                                   *)
Budget ==
    /\ submitted <= MaxSubmits
    /\ busy <= MaxBusy
    /\ IsFiniteSet(Refusals)
    /\ timestamp + Cardinality(Refusals) + (IF checking THEN 1 ELSE 0)
          <= 2 * Taken + busy

StampInv == LinkInv /\ Stamped /\ ToldApart /\ InTurn /\ Budget

(* Fewer new messages than there are timestamps.                           *)
FewMessages == 2 * MaxSubmits + MaxBusy < TIMESTAMP_MOD

------------------------------------------------------------------------------
(* What a step does to the frames *)

LEMMA FramesTyped ==
    ASSUME TypeOK
    PROVE  /\ Frames \subseteq Frame
           /\ \A f \in Frames : f.msg \in Message /\ f.msg.uid \in Nat
           /\ timestamp \in Nat
           /\ \A msg \in Message : msg.uid \in Nat
<1>1. Frames \subseteq Frame
  <2>1. /\ air \in Frame \union {NoFrame}
        /\ \A c \in ConveyorId : last_seen[c] \in Frame \union {NoFrame}
    BY DEF TypeOK
  <2> QED
    BY <2>1, Zenon DEF Frames
<1>2. timestamp \in Nat
  <2>1. timestamp \in 0 .. TIMESTAMP_MOD - 1
    BY DEF TypeOK
  <2> QED
    BY <2>1, LinkAssumption
<1>3. \A msg \in Message : msg.uid \in Nat
  BY DEF Message, Command, AddPackage, StateRequest, Uid
<1> QED
  BY <1>1, <1>2, <1>3 DEF Frame

(* Frames are lost or seen, and the exchange may end. *)
LEMMA NoNewFrame ==
    ASSUME TypeOK, Stamped, ToldApart,
           Frames' \subseteq Frames, UNCHANGED timestamp, Taken' = Taken,
           pending_msg' \in {pending_msg, NoMessage}
    PROVE  Stamped' /\ ToldApart'
<1>1. Stamped'
  BY DEF Stamped
<1>2. ToldApart'
  BY DEF ToldApart
<1> QED
  BY <1>1, <1>2

(* The pending message is sent again. *)
LEMMA FrameAgain ==
    ASSUME TypeOK, Stamped, ToldApart, InTurn, timestamp # 0,
           pending_msg # NoMessage,
           Frames' \subseteq
              Frames \union {[msg |-> pending_msg, time |-> timestamp]},
           UNCHANGED <<timestamp, pending_msg>>, Taken' = Taken
    PROVE  Stamped' /\ ToldApart'
<1> DEFINE new == [msg |-> pending_msg, time |-> timestamp]
<1>1. /\ timestamp \in Nat
      /\ new.time = timestamp
      /\ new.msg = pending_msg
      /\ new.msg.uid = Taken
      /\ Taken \in Nat
      /\ Frames \subseteq Frame
      /\ \A f \in Frames : f.msg.uid \in Nat /\ f.time \in Nat
  BY FramesTyped DEF InTurn, Frame
<1> HIDE DEF new
<1>2. \A f \in Frames' : f \in Frames \/ f = new
  BY DEF new
<1>3. Stamped'
  BY <1>1, <1>2 DEF Stamped
<1>4. ASSUME NEW f \in Frames, f.time = timestamp
      PROVE  f = new
  <2>1. f.msg = pending_msg
    BY <1>4 DEF Stamped
  <2>2. f = [msg |-> f.msg, time |-> f.time]
    BY <1>1 DEF Frame
  <2> QED
    BY <1>4, <2>1, <2>2 DEF new
<1>5. ASSUME NEW f \in Frames, f.time # timestamp
      PROVE  /\ f.time < timestamp
             /\ IsCommand(f.msg) => f.msg.uid < Taken
  BY <1>1, <1>5 DEF Stamped
<1>6. ToldApart'
  <2> SUFFICES ASSUME NEW f \in Frames', NEW g \in Frames'
               PROVE  /\ f.time = g.time => f = g
                      /\ f.time < g.time /\ IsCommand(f.msg)
                            /\ IsCommand(g.msg) => f.msg.uid < g.msg.uid
    BY DEF ToldApart
  <2>1. CASE f \in Frames /\ g \in Frames
    BY <2>1 DEF ToldApart
  <2>2. CASE f = new /\ g = new
    BY <1>1, <2>2
  <2>3. CASE f \in Frames /\ g = new
    BY <1>1, <1>4, <1>5, <2>3
  <2>4. CASE f = new /\ g \in Frames
    BY <1>1, <1>4, <1>5, <2>4
  <2> QED
    BY <1>2, <2>1, <2>2, <2>3, <2>4
<1> QED
  BY <1>3, <1>6

(* A new message is sent, later than all others. *)
LEMMA NewFrame ==
    ASSUME TypeOK, Stamped, ToldApart,
           NEW msg \in Message, pending_msg' = msg,
           timestamp' = timestamp + 1,
           Frames' \subseteq
              Frames \union {[msg |-> msg, time |-> timestamp + 1]},
           Taken' \in Nat, msg.uid = Taken',
           \A f \in Frames : IsCommand(f.msg) => f.msg.uid < Taken'
    PROVE  Stamped' /\ ToldApart'
<1> DEFINE new == [msg |-> msg, time |-> timestamp + 1]
<1>1. /\ timestamp \in Nat
      /\ new.time = timestamp'
      /\ new.msg = msg
      /\ \A f \in Frames : f.msg.uid \in Nat
      /\ \A f \in Frames : f.time \in 1 .. timestamp
  BY FramesTyped DEF Stamped
<1> HIDE DEF new
<1>2. \A f \in Frames' : f \in Frames \/ f = new
  BY DEF new
<1>3. Stamped'
  <2> SUFFICES ASSUME NEW f \in Frames'
               PROVE  /\ f.time \in 1 .. timestamp'
                      /\ f.time = timestamp' => f.msg = msg
                      /\ IsCommand(f.msg) =>
                            f.msg.uid <= IF f.time = timestamp' THEN Taken'
                                         ELSE Taken' - 1
    BY DEF Stamped
  <2>1. CASE f \in Frames
    BY <1>1, <2>1
  <2>2. CASE f = new
    BY <1>1, <2>2
  <2> QED
    BY <1>2, <2>1, <2>2
<1>4. ToldApart'
  <2> SUFFICES ASSUME NEW f \in Frames', NEW g \in Frames'
               PROVE  /\ f.time = g.time => f = g
                      /\ f.time < g.time /\ IsCommand(f.msg)
                            /\ IsCommand(g.msg) => f.msg.uid < g.msg.uid
    BY DEF ToldApart
  <2>1. CASE f \in Frames /\ g \in Frames
    BY <2>1 DEF ToldApart
  <2>2. CASE f = new /\ g = new
    BY <1>1, <2>2
  <2>3. CASE f \in Frames /\ g = new
    BY <1>1, <2>3
  <2>4. CASE f = new /\ g \in Frames
    BY <1>1, <2>4
  <2> QED
    BY <1>2, <2>1, <2>2, <2>3, <2>4
<1> QED
  BY <1>3, <1>4

------------------------------------------------------------------------------
(* What a step does to the replies on their way *)

LEMMA RefusalsFinite ==
    ASSUME TypeOK
    PROVE  IsFiniteSet(Refusals) /\ Cardinality(Refusals) \in Nat
<1> DEFINE s == uplink[INPUT_CONVEYOR_ID]
<1>1. s \in Seq(Reply)
  BY LinkAssumption DEF TypeOK
<1>2. Len(s) \in Nat /\ DOMAIN s = 1 .. Len(s)
  BY <1>1
<1>3. IsFiniteSet(1 .. Len(s))
  BY <1>2, FS_Interval
<1>4. Refusals \in SUBSET (1 .. Len(s))
  BY <1>2 DEF Refusals
<1>5. IsFiniteSet(Refusals)
  BY <1>3, <1>4, FS_Subset
<1> QED
  BY <1>5, FS_CardinalityType

(* Taking or losing a reply *)
LEMMA RefusalTaken ==
    ASSUME TypeOK, NEW c \in ConveyorId, uplink[c] # <<>>,
           uplink' = [uplink EXCEPT ![c] = Tail(@)]
    PROVE  /\ IsFiniteSet(Refusals')
           /\ Cardinality(Refusals') \in Nat
           /\ Cardinality(Refusals') <= Cardinality(Refusals)
           /\ c = INPUT_CONVEYOR_ID /\ Unavailable(Head(uplink[c])) =>
                 Cardinality(Refusals') <= Cardinality(Refusals) - 1
<1>1. /\ IsFiniteSet(Refusals)
      /\ Cardinality(Refusals) \in Nat
      /\ uplink \in [ConveyorId -> Seq(Reply)]
      /\ INPUT_CONVEYOR_ID \in ConveyorId
  BY RefusalsFinite, LinkAssumption DEF TypeOK
<1>2. CASE c # INPUT_CONVEYOR_ID
  <2>1. uplink'[INPUT_CONVEYOR_ID] = uplink[INPUT_CONVEYOR_ID]
    BY <1>1, <1>2
  <2>2. Refusals' = Refusals
    BY <2>1 DEF Refusals
  <2> QED
    BY <1>1, <1>2, <2>2
<1>3. CASE c = INPUT_CONVEYOR_ID
  <2> DEFINE s == uplink[c]
             later == Refusals \ {1}
             up == [i \in Refusals' |-> i + 1]
  <2>1. s \in Seq(Reply) /\ s # <<>>
    BY <1>1
  <2>2. uplink'[INPUT_CONVEYOR_ID] = Tail(s)
    BY <1>1, <1>3
  <2>3. Refusals' = {i \in DOMAIN Tail(s) : Unavailable(Tail(s)[i])}
    BY <2>2 DEF Refusals
  <2>4. Refusals = {i \in DOMAIN s : Unavailable(s[i])}
    BY <1>3 DEF Refusals
  <2>5. ASSUME NEW i \in DOMAIN Tail(s)
        PROVE  i \in Nat \ {0} /\ i + 1 \in DOMAIN s /\ Tail(s)[i] = s[i + 1]
    BY <2>1
  <2> HIDE DEF s
  <2>6. \A i \in Refusals' : i \in Nat \ {0} /\ i + 1 \in later
    BY <2>3, <2>4, <2>5
  <2>7. up \in Injection(Refusals', later)
    BY <2>6 DEF Injection, IsInjective
  <2>8. /\ IsFiniteSet(later)
        /\ Cardinality(later) = IF 1 \in Refusals
                                THEN Cardinality(Refusals) - 1
                                ELSE Cardinality(Refusals)
    BY <1>1, FS_RemoveElement
  <2>9. /\ IsFiniteSet(Refusals')
        /\ Cardinality(Refusals') <= Cardinality(later)
    BY <2>7, <2>8, FS_Injection
  <2>10. Cardinality(Refusals') \in Nat
    BY <2>9, FS_CardinalityType
  <2>11. Unavailable(Head(uplink[c])) => 1 \in Refusals
    <3>1. 1 \in DOMAIN s /\ Head(s) = s[1]
      BY <2>1
    <3> QED
      BY <2>4, <3>1 DEF s
  <2> QED
    BY <1>1, <2>8, <2>9, <2>10, <2>11
<1> QED
  BY <1>2, <1>3

(* A reply is sent *)
LEMMA RefusalSent ==
    ASSUME TypeOK, NEW c \in ConveyorId, NEW reply,
           uplink' = [uplink EXCEPT ![c] = Append(@, reply)]
    PROVE  /\ IsFiniteSet(Refusals')
           /\ Cardinality(Refusals') \in Nat
           /\ Cardinality(Refusals') <=
                 IF Unavailable(reply) THEN Cardinality(Refusals) + 1
                 ELSE Cardinality(Refusals)
<1> DEFINE s == uplink[INPUT_CONVEYOR_ID]
           end == Len(s) + 1
<1>1. /\ IsFiniteSet(Refusals)
      /\ Cardinality(Refusals) \in Nat
      /\ uplink \in [ConveyorId -> Seq(Reply)]
      /\ INPUT_CONVEYOR_ID \in ConveyorId
      /\ s \in Seq(Reply)
  BY RefusalsFinite, LinkAssumption DEF TypeOK
<1>2. uplink'[INPUT_CONVEYOR_ID] \in {s, Append(s, reply)}
  BY <1>1
<1>3. ASSUME NEW i \in DOMAIN Append(s, reply)
      PROVE  \/ i \in DOMAIN s /\ Append(s, reply)[i] = s[i]
             \/ i = end /\ Append(s, reply)[i] = reply
  BY <1>1
<1>4. /\ IsFiniteSet(Refusals \union {end})
      /\ Cardinality(Refusals \union {end}) \in Nat
      /\ Cardinality(Refusals \union {end}) <= Cardinality(Refusals) + 1
  <2>1. /\ IsFiniteSet(Refusals \union {end})
        /\ Cardinality(Refusals \union {end}) =
              IF end \in Refusals THEN Cardinality(Refusals)
              ELSE Cardinality(Refusals) + 1
    BY <1>1, FS_AddElement
  <2> QED
    BY <1>1, <2>1
<1> HIDE DEF end
<1>5. Refusals' \subseteq
         IF Unavailable(reply) THEN Refusals \union {end} ELSE Refusals
  BY <1>2, <1>3 DEF Refusals
<1>6. CASE Unavailable(reply)
  <2>1. Refusals' \in SUBSET (Refusals \union {end})
    BY <1>5, <1>6
  <2>2. /\ IsFiniteSet(Refusals')
        /\ Cardinality(Refusals') <= Cardinality(Refusals \union {end})
    BY <1>4, <2>1, FS_Subset
  <2>3. Cardinality(Refusals') \in Nat
    BY <2>2, FS_CardinalityType
  <2> QED
    BY <1>1, <1>4, <1>6, <2>2, <2>3
<1>7. CASE ~Unavailable(reply)
  <2>1. Refusals' \in SUBSET Refusals
    BY <1>5, <1>7
  <2>2. /\ IsFiniteSet(Refusals')
        /\ Cardinality(Refusals') <= Cardinality(Refusals)
    BY <1>1, <2>1, FS_Subset
  <2>3. Cardinality(Refusals') \in Nat
    BY <2>2, FS_CardinalityType
  <2> QED
    BY <1>7, <2>2, <2>3
<1> QED
  BY <1>6, <1>7

(* Nothing is taken or sent *)
LEMMA RefusalsKept ==
    ASSUME UNCHANGED uplink
    PROVE  Refusals' = Refusals
BY DEF Refusals

------------------------------------------------------------------------------
(* Each action keeps the timestamps *)

(* A message is sent while there are timestamps left. *)
LEMMA SentStamped ==
    ASSUME StampInv, FewMessages, NEW msg \in Message, NEW reply,
           SendAndWait(msg, reply), UNCHANGED last_seen,
           timestamp + 1 <= 2 * submitted + busy,
           Taken' \in Nat, msg.uid = Taken',
           \A f \in Frames : IsCommand(f.msg) => f.msg.uid < Taken'
    PROVE  /\ timestamp' = timestamp + 1
           /\ pending_msg' = msg
           /\ Stamped' /\ ToldApart'
<1>1. /\ timestamp \in Nat
      /\ submitted \in Nat /\ submitted <= MaxSubmits
      /\ busy \in Nat /\ busy <= MaxBusy
      /\ TIMESTAMP_MOD \in Nat /\ MaxSubmits \in Nat /\ MaxBusy \in Nat
  BY LinkAssumption DEF StampInv, LinkInv, TypeOK, Budget
<1>2. timestamp + 1 < TIMESTAMP_MOD
  BY <1>1 DEF FewMessages
<1>3. timestamp' = timestamp + 1
  BY <1>1, <1>2 DEF SendAndWait, NextTimestamp
<1>4. /\ pending_msg' = msg
      /\ air' = IF air = NoFrame THEN [msg |-> msg, time |-> timestamp']
                ELSE air
  BY DEF SendAndWait, send_message_to_driver
<1>5. Frames' \subseteq
         Frames \union {[msg |-> msg, time |-> timestamp + 1]}
  BY <1>3, <1>4 DEF Frames
<1> QED
  BY <1>3, <1>4, <1>5, NewFrame DEF StampInv, LinkInv

LEMMA EnqueueStamped ==
    ASSUME StampInv, NEW msg \in Command, enqueue_message(msg)
    PROVE  Stamped' /\ ToldApart' /\ InTurn' /\ Budget'
<1>1. /\ msg.uid = submitted + 1
      /\ submitted' = submitted + 1
      /\ antTx' = Append(antTx, msg)
      /\ UNCHANGED <<pending_msg, pending_input, checking, timestamp, air,
                     uplink, last_seen, busy>>
  BY DEF enqueue_message, server, plant
<1>2. submitted \in Nat /\ antTx \in Seq(Command)
  BY DEF StampInv, LinkInv, TypeOK
<1>3. Taken' = Taken
  BY <1>1, <1>2 DEF Taken
<1>4. Frames' = Frames
  BY <1>1 DEF Frames
<1>5. Stamped' /\ ToldApart'
  BY <1>1, <1>3, <1>4, NoNewFrame DEF StampInv, LinkInv
<1>6. InTurn'
  <2>1. ASSUME NEW i \in DOMAIN antTx'
        PROVE  antTx'[i].uid = Taken + i
    <3>1. CASE i \in DOMAIN antTx
      BY <1>1, <1>2, <3>1 DEF StampInv, InTurn
    <3>2. CASE i \notin DOMAIN antTx
      <4>1. i = Len(antTx) + 1 /\ antTx'[i] = msg
        BY <1>1, <1>2, <3>2
      <4> QED
        BY <1>1, <1>2, <4>1 DEF Taken
    <3> QED
      BY <3>1, <3>2
  <2> QED
    BY <1>1, <1>3, <2>1 DEF StampInv, InTurn
<1>7. submitted' <= MaxSubmits
  <2>1. msg.uid \in Uid
    BY DEF Command, AddPackage
  <2> QED
    BY <1>1, <2>1, LinkAssumption DEF Uid
<1>8. Budget'
  BY <1>1, <1>3, <1>7, RefusalsKept DEF StampInv, Budget
<1> QED
  BY <1>5, <1>6, <1>8

LEMMA HandleQueueStamped ==
    ASSUME StampInv, FewMessages, handle_queue
    PROVE  Stamped' /\ ToldApart' /\ InTurn' /\ Budget'
<1> DEFINE msg == Head(antTx)
           request == [id |-> "CONVEYOR_STATE", conveyor |-> msg.conveyor,
                       uid |-> msg.uid]
<1>1. /\ antTx # <<>>
      /\ antTx' = Tail(antTx)
      /\ UNCHANGED <<uplink, last_seen, submitted, busy>>
      /\ send_ANT_message(msg)
  BY DEF handle_queue, plant, world
<1>2. /\ antTx \in Seq(Command)
      /\ msg \in Command
      /\ msg = antTx[1]
      /\ 1 \in DOMAIN antTx
      /\ Len(antTx) \in Nat
      /\ Len(antTx') = Len(antTx) - 1
      /\ \A i \in DOMAIN antTx' :
            i + 1 \in DOMAIN antTx /\ antTx'[i] = antTx[i + 1]
                                   /\ i \in Nat \ {0}
  BY <1>1 DEF StampInv, LinkInv, TypeOK
<1>3. checking = FALSE
  BY DEF handle_queue, StampInv, LinkInv, FieldsAgree, TypeOK, NoMessage
<1>4. /\ submitted \in Nat /\ busy \in Nat /\ timestamp \in Nat
      /\ Taken \in Nat /\ Taken + 1 <= submitted
      /\ Taken' = Taken + 1
  <2>1. /\ submitted \in Nat /\ busy \in Nat
        /\ timestamp \in 0 .. TIMESTAMP_MOD - 1
    BY DEF StampInv, LinkInv, TypeOK
  <2>2. TIMESTAMP_MOD \in Nat
    BY LinkAssumption
  <2>3. Taken \in Nat
    BY DEF StampInv, InTurn
  <2>4. Len(antTx') \in Nat /\ submitted' = submitted
    BY <1>1, <1>2
  <2> QED
    BY <1>2, <2>1, <2>2, <2>3, <2>4 DEF Taken
<1>5. msg.uid = Taken'
  BY <1>2, <1>4 DEF StampInv, InTurn
<1>6. \A i \in DOMAIN antTx' : antTx'[i].uid = Taken' + i
  <2> SUFFICES ASSUME NEW i \in DOMAIN antTx'
               PROVE  antTx'[i].uid = Taken' + i
    OBVIOUS
  <2>1. antTx[i + 1].uid = Taken + (i + 1)
    BY <1>2 DEF StampInv, InTurn
  <2> QED
    BY <1>2, <1>4, <2>1
<1>7. timestamp + Cardinality(Refusals) <= 2 * Taken + busy
  BY <1>3, <1>4, RefusalsFinite DEF StampInv, LinkInv, Budget
<1>8. timestamp + 1 <= 2 * submitted + busy
  BY <1>4, <1>7, RefusalsFinite DEF StampInv, LinkInv
<1>9. \A f \in Frames : IsCommand(f.msg) => f.msg.uid < Taken'
  BY <1>4, FramesTyped DEF StampInv, LinkInv, Stamped
<1>10. PICK sent \in Message :
        /\ SendAndWait(sent, ReplyTo(sent.id))
        /\ sent.uid = msg.uid
        /\ checking' => pending_input'.uid = msg.uid
  <2>1. CASE msg.id = "ADD_PACKAGE"
    <3>1. /\ pending_input' = msg
          /\ SendAndWait(request, ReplyTo(request.id))
      BY <1>1, <2>1, LinkAssumption
         DEF send_ANT_message, send_conveyor_state_request, ReplyTo,
             PlainMessage
    <3>2. request \in Message
      BY <1>2, <2>1, LinkAssumption
         DEF Message, StateRequest, Command, AddPackage, PlainMessage
    <3> QED
      BY <3>1, <3>2
  <2>2. CASE msg.id # "ADD_PACKAGE"
    <3>1. /\ checking' = FALSE
          /\ SendAndWait(msg, ReplyTo(msg.id))
      BY <1>1, <1>3, <2>2, LinkAssumption
         DEF send_ANT_message, ReplyTo, PlainMessage
    <3> QED
      BY <1>2, <3>1 DEF Message
  <2> QED
    BY <2>1, <2>2
<1>11. /\ timestamp' = timestamp + 1
       /\ pending_msg' = sent
       /\ Stamped' /\ ToldApart'
  BY <1>1, <1>4, <1>5, <1>8, <1>9, <1>10, SentStamped
<1>12. InTurn'
  BY <1>4, <1>5, <1>6, <1>10, <1>11 DEF InTurn
<1>13. Budget'
  <2>1. Refusals' = Refusals
    BY <1>1, RefusalsKept
  <2>2. /\ Cardinality(Refusals) \in Nat
        /\ timestamp' + Cardinality(Refusals) + 1 <= 2 * Taken' + busy
    BY <1>4, <1>7, <1>11, RefusalsFinite DEF StampInv, LinkInv
  <2>3. timestamp' + Cardinality(Refusals) + (IF checking' THEN 1 ELSE 0)
           <= 2 * Taken' + busy
    BY <1>4, <1>11, <2>2
  <2> QED
    BY <1>1, <2>1, <2>3 DEF StampInv, Budget
<1> QED
  BY <1>11, <1>12, <1>13

(* A reply is taken or lost and nothing is sent: the exchange ends or goes *)
(* on.                                                                     *)
LEMMA LessStamped ==
    ASSUME StampInv, NEW c \in ConveyorId, uplink[c] # <<>>,
           uplink' = [uplink EXCEPT ![c] = Tail(@)],
           UNCHANGED <<antTx, last_seen, submitted, busy, air, timestamp,
                       pending_input, checking>>,
           pending_msg' \in {pending_msg, NoMessage}
    PROVE  Stamped' /\ ToldApart' /\ InTurn' /\ Budget'
<1>1. Taken' = Taken /\ Frames' = Frames
  BY DEF Taken, Frames
<1>2. Stamped' /\ ToldApart'
  BY <1>1, NoNewFrame DEF StampInv, LinkInv
<1>3. InTurn'
  BY <1>1 DEF StampInv, InTurn
<1>4. Budget'
  <2>1. /\ IsFiniteSet(Refusals')
        /\ Cardinality(Refusals') \in Nat
        /\ Cardinality(Refusals') <= Cardinality(Refusals)
    BY RefusalTaken DEF StampInv, LinkInv
  <2>2. timestamp \in Nat /\ busy \in Nat /\ Taken \in Nat
    BY LinkAssumption DEF StampInv, LinkInv, TypeOK, InTurn
  <2>3. Cardinality(Refusals) \in Nat
    BY RefusalsFinite DEF StampInv, LinkInv
  <2> QED
    BY <1>1, <2>1, <2>2, <2>3 DEF StampInv, Budget
<1> QED
  BY <1>2, <1>3, <1>4

LEMMA TakenStamped ==
    ASSUME StampInv, NEW c \in ConveyorId, NEW id, TakeReply(c, id),
           UNCHANGED <<air, timestamp, pending_input, checking>>,
           pending_msg' \in {pending_msg, NoMessage}
    PROVE  Stamped' /\ ToldApart' /\ InTurn' /\ Budget'
BY LessStamped DEF TakeReply, plant, world

(* What an awaited state leads to: the package held back, or its request   *)
(* again, which a refusal has paid for.                                    *)
LEMMA StateStamped ==
    ASSUME StampInv, FewMessages, NEW c \in ConveyorId, AwaitsState(c),
           TakeReply(c, "CONVEYOR_STATE_RESPONSE"),
           NEW msg \in Message, msg.uid = pending_input.uid, NEW reply,
           SendAndWait(msg, reply), checking' \in BOOLEAN,
           checking' => UNCHANGED pending_input
                           /\ Unavailable(Head(uplink[c]))
    PROVE  Stamped' /\ ToldApart' /\ InTurn' /\ Budget'
<1>1. /\ uplink[c] # <<>>
      /\ uplink' = [uplink EXCEPT ![c] = Tail(@)]
      /\ UNCHANGED <<antTx, last_seen, submitted, busy>>
  BY DEF TakeReply, plant, world
<1>2. checking = TRUE /\ c = INPUT_CONVEYOR_ID
  BY AwaitedState DEF StampInv, LinkInv
<1>3. /\ submitted \in Nat /\ busy \in Nat /\ timestamp \in Nat
      /\ Taken \in Nat /\ Taken <= submitted
      /\ Taken' = Taken
  <2>1. /\ submitted \in Nat /\ busy \in Nat
        /\ timestamp \in 0 .. TIMESTAMP_MOD - 1
        /\ Len(antTx) \in Nat
    BY DEF StampInv, LinkInv, TypeOK
  <2>2. TIMESTAMP_MOD \in Nat
    BY LinkAssumption
  <2>3. Taken \in Nat
    BY DEF StampInv, InTurn
  <2> QED
    BY <1>1, <2>1, <2>2, <2>3 DEF Taken
<1>4. msg.uid = Taken'
  BY <1>2, <1>3 DEF StampInv, InTurn
<1>5. /\ Cardinality(Refusals) \in Nat
      /\ timestamp + Cardinality(Refusals) + 1 <= 2 * Taken + busy
  BY <1>2, RefusalsFinite DEF StampInv, LinkInv, Budget
<1>6. timestamp + 1 <= 2 * submitted + busy
  BY <1>3, <1>5
<1>7. ASSUME NEW f \in Frames, IsCommand(f.msg)
      PROVE  f.msg.uid < Taken'
  <2>1. pending_msg.id = "CONVEYOR_STATE" /\ pending_msg # NoMessage
    BY <1>2 DEF StampInv, LinkInv, FieldsAgree, NoMessage
  <2>2. f.time # timestamp
    BY <1>7, <2>1 DEF StampInv, Stamped, IsCommand
  <2>3. f.msg.uid <= Taken - 1 /\ f.msg.uid \in Nat
    BY <1>7, <2>2, FramesTyped DEF StampInv, LinkInv, Stamped
  <2> QED
    BY <1>3, <2>3
<1>8. /\ timestamp' = timestamp + 1
      /\ pending_msg' = msg
      /\ Stamped' /\ ToldApart'
  BY <1>1, <1>3, <1>4, <1>6, <1>7, SentStamped
<1>9. InTurn'
  <2>1. pending_input.uid = Taken
    BY <1>2 DEF StampInv, InTurn
  <2>2. checking' => pending_input'.uid = Taken'
    BY <1>3, <2>1, Zenon
  <2>3. \A i \in DOMAIN antTx' : antTx'[i].uid = Taken' + i
    BY <1>1, <1>3 DEF StampInv, InTurn
  <2>4. Taken' \in Nat /\ pending_msg'.uid = Taken' /\ timestamp' # 0
    BY <1>3, <1>4, <1>8
  <2> QED
    BY <2>2, <2>3, <2>4 DEF InTurn
<1>10. Budget'
  <2>1. /\ IsFiniteSet(Refusals')
        /\ Cardinality(Refusals') \in Nat
        /\ Cardinality(Refusals') <= Cardinality(Refusals)
        /\ Unavailable(Head(uplink[c])) =>
              Cardinality(Refusals') <= Cardinality(Refusals) - 1
    BY <1>1, <1>2, RefusalTaken DEF StampInv, LinkInv
  <2>2. timestamp' + Cardinality(Refusals') + (IF checking' THEN 1 ELSE 0)
           <= 2 * Taken' + busy
    BY <1>3, <1>5, <1>8, <2>1
  <2> QED
    BY <1>1, <2>1, <2>2 DEF StampInv, Budget
<1> QED
  BY <1>8, <1>9, <1>10

LEMMA ReceiveStamped ==
    ASSUME StampInv, FewMessages, NEW c \in ConveyorId,
           receive_ANT_message(c)
    PROVE  Stamped' /\ ToldApart' /\ InTurn' /\ Budget'
<1>1. CASE receive_MESSAGE_RECEIVED(c)
  BY <1>1, TakenStamped
     DEF receive_MESSAGE_RECEIVED, StopWaiting, Ignored, server
<1>2. CASE receive_CONVEYOR_STATE_available(c)
  <2>1. /\ TakeReply(c, "CONVEYOR_STATE_RESPONSE")
        /\ AwaitsState(c)
    BY <1>2 DEF receive_CONVEYOR_STATE_available
  <2>2. pending_input # NoMessage /\ pending_input \in AddPackage
    BY <2>1, AwaitedState DEF StampInv
  <2>3. checking' = FALSE /\ SendAndWait(pending_input, "ADD_PACKAGE")
    BY <1>2, <2>2 DEF receive_CONVEYOR_STATE_available
  <2>4. pending_input \in Message
    BY <2>2 DEF Message, Command
  <2> QED
    BY <2>1, <2>3, <2>4, StateStamped
<1>3. CASE receive_CONVEYOR_STATE_unavailable(c)
  <2> DEFINE request == [id |-> "CONVEYOR_STATE", conveyor |-> c,
                         uid |-> pending_input.uid]
  <2>1. /\ TakeReply(c, "CONVEYOR_STATE_RESPONSE")
        /\ ~Head(uplink[c]).available
        /\ Head(uplink[c]).id = "CONVEYOR_STATE_RESPONSE"
        /\ AwaitsState(c)
    BY <1>3 DEF receive_CONVEYOR_STATE_unavailable, TakeReply
  <2>2. /\ pending_input # NoMessage /\ pending_input \in AddPackage
        /\ checking = TRUE /\ c = INPUT_CONVEYOR_ID
    BY <2>1, AwaitedState DEF StampInv
  <2>3. /\ SendAndWait(request, "CONVEYOR_STATE_RESPONSE")
        /\ UNCHANGED <<pending_input, checking>>
    BY <1>3, <2>2
       DEF receive_CONVEYOR_STATE_unavailable, send_conveyor_state_request
  <2>4. request \in Message
    BY <2>2, StateRequestTyped
  <2>5. Unavailable(Head(uplink[c]))
    BY <2>1 DEF Unavailable
  <2>6. request.uid = pending_input.uid
    OBVIOUS
  <2> HIDE DEF request
  <2> QED
    BY <2>1, <2>2, <2>3, <2>4, <2>5, <2>6, StateStamped
<1>4. CASE receive_CONVEYOR_STATE_ignored(c)
  BY <1>4, TakenStamped DEF receive_CONVEYOR_STATE_ignored, Ignored, server
<1>5. CASE receive_CLEAR_BOX_RESPONSE(c)
  BY <1>5, TakenStamped
     DEF receive_CLEAR_BOX_RESPONSE, StopWaiting, Ignored, server
<1>6. CASE receive_PACKAGE_ARRIVED(c)
  BY <1>6, TakenStamped DEF receive_PACKAGE_ARRIVED, server
<1> QED
  BY <1>1, <1>2, <1>3, <1>4, <1>5, <1>6 DEF receive_ANT_message

(* What leaves the queue, the server and the replies alone, and sends at   *)
(* most the pending message again.                                         *)
LEMMA QuietStamped ==
    ASSUME StampInv, UNCHANGED <<antTx, server, submitted, uplink, busy>>,
           \/ Frames' \subseteq Frames
           \/ /\ pending_msg # NoMessage
              /\ Frames' \subseteq
                    Frames \union {[msg |-> pending_msg, time |-> timestamp]}
    PROVE  Stamped' /\ ToldApart' /\ InTurn' /\ Budget'
<1>1. /\ Taken' = Taken
      /\ Refusals' = Refusals
      /\ UNCHANGED <<antTx, pending_msg, pending_input, checking, timestamp,
                     submitted, busy>>
  BY RefusalsKept DEF Taken, server
<1>2. Stamped' /\ ToldApart'
  <2>1. CASE Frames' \subseteq Frames
    BY <1>1, <2>1, NoNewFrame DEF StampInv, LinkInv
  <2>2. CASE /\ pending_msg # NoMessage
             /\ Frames' \subseteq
                   Frames \union {[msg |-> pending_msg, time |-> timestamp]}
    <3>1. timestamp # 0
      BY <2>2 DEF StampInv, InTurn
    <3> QED
      BY <1>1, <2>2, <3>1, FrameAgain DEF StampInv, LinkInv
  <2> QED
    BY <2>1, <2>2
<1>3. InTurn'
  BY <1>1 DEF StampInv, InTurn
<1>4. Budget'
  BY <1>1 DEF StampInv, Budget
<1> QED
  BY <1>2, <1>3, <1>4

LEMMA TimedOutStamped ==
    ASSUME StampInv, pending_message_timed_out
    PROVE  Stamped' /\ ToldApart' /\ InTurn' /\ Budget'
<1>1. UNCHANGED <<antTx, pending_input, checking, waiting, timestamp, uplink,
                  last_seen, busy, submitted>>
  BY DEF pending_message_timed_out, plant, world
<1>2. CASE pending_msg # NoMessage
  <2>1. /\ pending_msg' = pending_msg
        /\ air' \in {air, [msg |-> pending_msg, time |-> timestamp]}
    BY <1>2 DEF pending_message_timed_out, send_message_to_driver
  <2>2. Frames' \subseteq
           Frames \union {[msg |-> pending_msg, time |-> timestamp]}
    BY <1>1, <2>1 DEF Frames
  <2> QED
    BY <1>1, <1>2, <2>1, <2>2, QuietStamped DEF server
<1>3. CASE pending_msg = NoMessage
  <2>1. UNCHANGED <<pending_msg, air>>
    BY <1>3 DEF pending_message_timed_out
  <2>2. Frames' = Frames
    BY <1>1, <2>1 DEF Frames
  <2> QED
    BY <1>1, <2>1, <2>2, QuietStamped DEF server
<1> QED
  BY <1>2, <1>3

(* A reply leaves a conveyor. *)
LEMMA SendingStamped ==
    ASSUME StampInv, NEW c \in ConveyorId, NEW reply,
           uplink' = [uplink EXCEPT ![c] = Append(@, reply)],
           UNCHANGED <<antTx, server, submitted>>, Frames' \subseteq Frames,
           busy' = IF Unavailable(reply) THEN busy + 1 ELSE busy,
           busy' <= MaxBusy
    PROVE  Stamped' /\ ToldApart' /\ InTurn' /\ Budget'
<1>1. /\ Taken' = Taken
      /\ UNCHANGED <<antTx, pending_msg, pending_input, checking, timestamp,
                     submitted>>
  BY DEF Taken, server
<1>2. Stamped' /\ ToldApart'
  BY <1>1, NoNewFrame DEF StampInv, LinkInv
<1>3. InTurn'
  BY <1>1 DEF StampInv, InTurn
<1>4. Budget'
  <2>1. /\ IsFiniteSet(Refusals')
        /\ Cardinality(Refusals') \in Nat
        /\ Cardinality(Refusals') <=
              IF Unavailable(reply) THEN Cardinality(Refusals) + 1
              ELSE Cardinality(Refusals)
    BY RefusalSent DEF StampInv, LinkInv
  <2>2. timestamp \in Nat /\ busy \in Nat /\ Taken \in Nat
    BY LinkAssumption DEF StampInv, LinkInv, TypeOK, InTurn
  <2>3. Cardinality(Refusals) \in Nat
    BY RefusalsFinite DEF StampInv, LinkInv
  <2> QED
    BY <1>1, <2>1, <2>2, <2>3 DEF StampInv, Budget
<1> QED
  BY <1>2, <1>3, <1>4

LEMMA DeliverStamped ==
    ASSUME StampInv, deliver
    PROVE  Stamped' /\ ToldApart' /\ InTurn' /\ Budget'
<1>1. air \in Frame /\ air.msg \in Message
  BY DEF StampInv, LinkInv, TypeOK, Frame, deliver
<1>2. air.msg.conveyor \in ConveyorId
  BY <1>1, LinkAssumption DEF Message, Command, AddPackage, StateRequest
<1>3. PICK reply \in Replies(air.msg) :
        /\ uplink' = [uplink EXCEPT
                        ![air.msg.conveyor] = Append(@, reply)]
        /\ busy' = IF Unavailable(reply) THEN busy + 1 ELSE busy
  BY DEF deliver
<1>4. Unavailable(reply) => busy < MaxBusy
  <2>1. CASE air.msg.id = "CONVEYOR_STATE"
    <3>1. PICK a \in IF busy < MaxBusy THEN BOOLEAN ELSE {TRUE} :
            reply = [id |-> "CONVEYOR_STATE_RESPONSE", available |-> a]
      BY <2>1 DEF Replies
    <3> QED
      BY <3>1 DEF Unavailable
  <2>2. CASE air.msg.id = "CLEAR_BOX"
    <3>1. reply.id = "CLEAR_BOX_RESPONSE"
      BY <2>2 DEF Replies
    <3> QED
      BY <3>1 DEF Unavailable
  <2>3. CASE air.msg.id \notin {"CONVEYOR_STATE", "CLEAR_BOX"}
    <3>1. reply = [id |-> "MESSAGE_RECEIVED", of |-> air.msg.id,
                   conveyor |-> air.msg.conveyor]
      BY <2>3 DEF Replies
    <3> QED
      BY <3>1 DEF Unavailable
  <2> QED
    BY <2>1, <2>2, <2>3
<1>5. busy' <= MaxBusy
  BY <1>3, <1>4, LinkAssumption DEF StampInv, LinkInv, TypeOK, Budget
<1>6. UNCHANGED <<antTx, server, submitted>>
  BY DEF deliver, world
<1>7. Frames' \subseteq Frames
  BY <1>2 DEF deliver, Frames, StampInv, LinkInv, TypeOK
<1> QED
  BY <1>2, <1>3, <1>5, <1>6, <1>7, SendingStamped

LEMMA ArrivesStamped ==
    ASSUME StampInv, NEW c \in ConveyorId, package_arrives(c)
    PROVE  Stamped' /\ ToldApart' /\ InTurn' /\ Budget'
<1> DEFINE reply == [id |-> "PACKAGE_ARRIVED"]
<1>1. /\ uplink' = [uplink EXCEPT ![c] = Append(@, reply)]
      /\ UNCHANGED <<antTx, server, submitted, air, last_seen, busy>>
  BY DEF package_arrives, world
<1>2. ~Unavailable(reply)
  BY DEF Unavailable
<1>3. Frames' = Frames
  BY <1>1 DEF Frames
<1>4. busy <= MaxBusy
  BY DEF StampInv, Budget
<1> HIDE DEF reply
<1> QED
  BY <1>1, <1>2, <1>3, <1>4, SendingStamped

LEMMA InitStamped ==
    ASSUME Init
    PROVE  StampInv
<1>1. Frames = {} /\ Taken = 0 /\ antTx = <<>> /\ DOMAIN antTx = {}
  <2>1. air = NoFrame /\ \A c \in ConveyorId : last_seen[c] = NoFrame
    BY DEF Init
  <2>2. antTx = <<>> /\ submitted = 0 /\ Len(antTx) = 0
    <3>1. antTx = <<>> /\ submitted = 0
      BY DEF Init
    <3>2. Len(<<>>) = 0
      OBVIOUS
    <3> QED
      BY <3>1, <3>2, Zenon
  <2>3. Frames = {}
    BY <2>1 DEF Frames
  <2>4. Taken = 0
    <3>1. submitted - Len(antTx) = 0 - 0
      BY <2>2, Zenon
    <3> QED
      BY <3>1 DEF Taken
  <2>5. DOMAIN antTx = {}
    BY <2>2
  <2> QED
    BY <2>2, <2>3, <2>4, <2>5
<1>2. Stamped /\ ToldApart /\ InTurn
  BY <1>1 DEF Init, Stamped, ToldApart, InTurn
<1>3. Refusals = {}
  BY LinkAssumption DEF Init, Refusals
<1>4. Budget
  BY <1>1, <1>3, FS_EmptySet, LinkAssumption DEF Init, Budget
<1> QED
  BY <1>2, <1>4, InitInv DEF StampInv

LEMMA NextStamped ==
    ASSUME FewMessages, StampInv, [Next]_vars
    PROVE  StampInv'
<1> DEFINE Kept == Stamped' /\ ToldApart' /\ InTurn' /\ Budget'
<1>1. ASSUME NEW msg \in Command, enqueue_message(msg)
      PROVE  Kept
  BY <1>1, EnqueueStamped
<1>2. ASSUME handle_queue PROVE Kept
  BY <1>2, HandleQueueStamped
<1>3. ASSUME NEW c \in ConveyorId, receive_ANT_message(c)
      PROVE  Kept
  BY <1>3, ReceiveStamped
<1>4. ASSUME timer_expires PROVE Kept
  BY <1>4, QuietStamped DEF timer_expires, plant, world, Frames
<1>5. ASSUME pending_message_timed_out PROVE Kept
  BY <1>5, TimedOutStamped
<1>6. ASSUME air_loses PROVE Kept
  BY <1>6, QuietStamped DEF air_loses, plant, world, Frames
<1>7. ASSUME NEW c \in ConveyorId, uplink_loses(c)
      PROVE  Kept
  BY <1>7, LessStamped DEF uplink_loses, plant, world, server
<1>8. ASSUME deliver PROVE Kept
  BY <1>8, DeliverStamped
<1>9. ASSUME NEW c \in ConveyorId, package_arrives(c)
      PROVE  Kept
  BY <1>9, ArrivesStamped
<1>10. ASSUME UNCHANGED vars PROVE Kept
  BY <1>10, QuietStamped DEF vars, plant, world, Frames
<1>11. LinkInv'
  BY NextInv DEF StampInv
<1> HIDE DEF Kept
<1>12. Kept
  BY <1>1, <1>2, <1>3, <1>4, <1>5, <1>6, <1>7, <1>8, <1>9, <1>10 DEF Next
<1> QED
  BY <1>11, <1>12 DEF StampInv, Kept

(* As long as fewer messages are sent than there are timestamps, however   *)
(* often each is repeated, and until a timeout comes early, the timestamps *)
(* on their way tell the frames apart (ANTServer.cpp:40, 44, 135, 145,     *)
(* 168).                                                                   *)
THEOREM StampInvHolds ==
    ASSUME FewMessages
    PROVE  Spec => []StampInv
<1>1. Init => StampInv
  BY InitStamped
<1>2. StampInv /\ [Next]_vars => StampInv'
  BY NextStamped
<1> QED
  BY <1>1, <1>2, PTL DEF Spec

(* A conveyor that gets a frame other than its last one sees another       *)
(* timestamp, and no command comes again with another timestamp, for any   *)
(* losses and repetitions, until a timeout comes early                     *)
(* (ANTServer.cpp:135, 168).                                               *)
THEOREM RepeatsShareTimestampHolds ==
    ASSUME FewMessages
    PROVE  Spec => RepeatsShareTimestamp
<1>1. StampInv /\ [Next]_vars =>
         [~early' => \A c \in ConveyorId : last_seen'[c] # last_seen[c] =>
             /\ last_seen'[c].time # last_seen[c].time
             /\ \/ last_seen'[c].msg # last_seen[c].msg
                \/ last_seen'[c].msg.id = "CONVEYOR_STATE"]_vars
  <2> SUFFICES ASSUME StampInv, [Next]_vars, NEW c \in ConveyorId,
                      last_seen'[c] # last_seen[c]
               PROVE  /\ last_seen'[c].time # last_seen[c].time
                      /\ \/ last_seen'[c].msg # last_seen[c].msg
                         \/ last_seen'[c].msg.id = "CONVEYOR_STATE"
    OBVIOUS
  <2> DEFINE f == last_seen'[c]
             g == last_seen[c]
  <2>1. deliver
    BY DEF Next, vars, plant, enqueue_message, handle_queue,
           receive_ANT_message, receive_MESSAGE_RECEIVED,
           receive_CONVEYOR_STATE_available,
           receive_CONVEYOR_STATE_unavailable, receive_CONVEYOR_STATE_ignored,
           receive_CLEAR_BOX_RESPONSE, receive_PACKAGE_ARRIVED, TakeReply,
           timer_expires, pending_message_timed_out, air_loses, uplink_loses,
           package_arrives
  <2>2. f = air /\ f \in Frames
    BY <2>1 DEF deliver, Frames, StampInv, LinkInv, TypeOK
  <2>3. /\ f.time \in Nat \ {0} /\ f.msg \in Message /\ f.msg.uid \in Nat
        /\ timestamp \in Nat
    BY <2>2, FramesTyped DEF StampInv, LinkInv, Stamped
  <2>4. CASE g = NoFrame
    <3>1. g.time = 0 /\ g.msg = NoMessage
      BY <2>4 DEF NoFrame
    <3> QED
      BY <2>3, <3>1, NothingTyped
  <2>5. CASE g # NoFrame
    <3>1. g \in Frames
      BY <2>5 DEF Frames
    <3>2. g.time \in Nat /\ g.msg.uid \in Nat
      BY <3>1, FramesTyped DEF StampInv, LinkInv, Stamped
    <3>3. f.time # g.time
      BY <2>2, <3>1 DEF StampInv, ToldApart
    <3>4. IsCommand(f.msg) /\ IsCommand(g.msg) => f.msg.uid # g.msg.uid
      BY <2>2, <2>3, <3>1, <3>2, <3>3 DEF StampInv, ToldApart
    <3> QED
      BY <3>3, <3>4 DEF IsCommand
  <2> QED
    BY <2>4, <2>5
<1> QED
  BY <1>1, StampInvHolds, PTL DEF Spec, RepeatsShareTimestamp
===============================================================================
